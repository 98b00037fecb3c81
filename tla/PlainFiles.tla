----------------------------- MODULE PlainFiles ------------------------------
(***************************************************************************)
(* What the kernel promises a program: it starts when all of its segments  *)
(* are in memory, and finds files whose calls take effect at once, with    *)
(* offsets that are plain numbers.  Only a read takes its time: it brings  *)
(* its bytes of the disk in order, and no call is answered meanwhile.      *)
(***************************************************************************)
EXTENDS Integers, Sequences

CONSTANTS NR_FILES,   \* files, with descriptors from 3 on
          Size,       \* their size
          DiskOffset, \* their place on the disk
          Lens,       \* the counts that a program passes to read
          Seeks,      \* the offsets that it passes to lseek
          Segments    \* the parts of the disk that make up the program

VARIABLES files,   \* which files are open, and at which offset
          result,  \* of the last call; -1 is failure
          memory,  \* the segments that were loaded
          request, \* the read that is under way, or none
          bytes    \* what it has brought

NoRequest == [fd |-> 3, len |-> 0]
Fds == 3 .. NR_FILES + 2
Closed == [used |-> FALSE, offset |-> 0]
DiskBytes(first, number) == [i \in 1 .. number |-> first + i - 1]

Init ==
  /\ files = [fd \in Fds |-> Closed]
  /\ result = 0 /\ memory = <<>> /\ request = NoRequest /\ bytes = <<>>

Load ==
  /\ Len(memory) < Len(Segments)
  /\ LET s == Segments[Len(memory) + 1]
     IN memory' = Append(memory, DiskBytes(s.offset, s.filesz)
                                   \o [i \in 1 .. s.memsz - s.filesz |-> "zero"])
  /\ UNCHANGED <<files, result, request, bytes>>
-----------------------------------------------------------------------------
Running == Len(memory) = Len(Segments) /\ request = NoRequest
Answer(n) == result' = n /\ UNCHANGED <<memory, request, bytes>>
Fail == Answer(-1) /\ UNCHANGED files

Open(fd) == Answer(fd) /\ files' = [files EXCEPT ![fd] = [used |-> TRUE, offset |-> 0]]

Close(fd) == files[fd].used /\ Answer(0) /\ files' = [files EXCEPT ![fd] = Closed]

From(fd, whence) ==
  CASE whence = "SEEK_SET" -> 0
    [] whence = "SEEK_CUR" -> files[fd].offset
    [] whence = "SEEK_END" -> Size[fd - 3] - 1

(* A seek that leaves the file ends on its last byte.                      *)
Seek(fd, offset, whence) ==
  LET sum == From(fd, whence) + offset
      to == IF sum \in 0 .. Size[fd - 3] - 1 THEN sum ELSE Size[fd - 3] - 1
  IN files[fd].used /\ Answer(to) /\ files' = [files EXCEPT ![fd].offset = to]

Left(fd) == Size[fd - 3] - files[fd].offset
Count(fd, len) == IF len < Left(fd) THEN len ELSE Left(fd)

ReadNothing(fd) ==
  /\ files[fd].used
  /\ \E len \in Lens : Count(fd, len) = 0
  /\ Answer(0) /\ UNCHANGED files

Read(fd) ==
  /\ files[fd].used
  /\ \E len \in Lens : Count(fd, len) > 0 /\ request' = [fd |-> fd, len |-> len]
  /\ UNCHANGED <<files, result, memory, bytes>>

Bring ==
  /\ request # NoRequest /\ bytes = <<>>
  /\ bytes' = DiskBytes(DiskOffset[request.fd - 3] + files[request.fd].offset,
                        Count(request.fd, request.len))
  /\ UNCHANGED <<files, result, memory, request>>

Return ==
  /\ bytes # <<>>
  /\ result' = Len(bytes)
  /\ files' = [files EXCEPT ![request.fd].offset = @ + Len(bytes)]
  /\ request' = NoRequest /\ bytes' = <<>>
  /\ UNCHANGED memory

Call ==
  /\ Running
  /\ \/ Fail
     \/ \E fd \in Fds :
          \/ Open(fd) \/ Close(fd) \/ ReadNothing(fd) \/ Read(fd)
          \/ \E offset \in Seeks, whence \in {"SEEK_SET", "SEEK_CUR", "SEEK_END"} :
               Seek(fd, offset, whence)

Next == Load \/ Call \/ Bring \/ Return

Spec == Init /\ [][Next]_<<files, result, memory, request, bytes>>
=============================================================================
