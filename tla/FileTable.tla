------------------------------ MODULE FileTable ------------------------------
(***************************************************************************)
(* The kernel's file system (kernel fs/fs.c): a fixed table of files, one  *)
(* entry of files[] for each, so that the descriptor of a file is its      *)
(* place in the table and two openings of a file share one offset.         *)
(* Offsets are uint32_t: sums wrap at Wrap.                                *)
(***************************************************************************)
EXTENDS Integers

CONSTANTS NR_FILES,  \* entries of file_table
          Size,      \* their size, a function of 0 .. NR_FILES - 1
          DiskOffset,\* their disk_offset
          Wrap,      \* 2^32, the modulus of uint32_t
          Lens,      \* the counts that the games pass to read
          Seeks      \* the offsets that the games pass to lseek

Files == 0 .. NR_FILES - 1
Fds == 3 .. NR_FILES + 2
U(x) == x % Wrap

(* The counts are those of real buffers: an offset and a count never wrap. *)
ASSUME FileAssumption ==
  /\ NR_FILES \in Nat \ {0} /\ Wrap \in Nat \ {0}
  /\ Size \in [Files -> 1 .. Wrap - 1] /\ DiskOffset \in [Files -> 0 .. Wrap - 1]
  /\ \A f \in Files : Size[f] + DiskOffset[f] < Wrap
  /\ Lens \subseteq Nat /\ \A l \in Lens, f \in Files : l + Size[f] < Wrap
  /\ Seeks \subseteq Int

(* The offsets of lseek are int, and files are smaller than half of Wrap.  *)
ASSUME SeekAssumption ==
  \A offset \in Seeks, f \in Files :
    Size[f] - Wrap <= offset /\ offset + Size[f] < Wrap

VARIABLES
  files,   \* files[]: used and offset of every descriptor
  result   \* what the last system call returned; -1 is failure

FileInit == files = [fd \in Fds |-> [used |-> FALSE, offset |-> 0]] /\ result = 0

size(fd) == Size[fd - 3]
-----------------------------------------------------------------------------
(* fs_open finds the name in the table, or not.                            *)
fs_open(fd) ==
  /\ files' = [files EXCEPT ![fd] = [used |-> TRUE, offset |-> 0]]
  /\ result' = fd

(* fs_read, before and after its call of ide_read: the count is cut at the *)
(* end of the file, and the offset moves behind what was read.             *)
Clipped(fd, len) ==
  IF U(files[fd].offset + len) > size(fd) THEN U(size(fd) - files[fd].offset) ELSE len

OnDisk(fd) == U(files[fd].offset + DiskOffset[fd - 3])

fs_read_ends(fd, len) ==
  /\ files' = [files EXCEPT ![fd].offset = U(@ + len)]
  /\ result' = len

fails == result' = -1 /\ UNCHANGED files

(* An offset at or past the end, and one that wrapped below 0, becomes     *)
(* that of the last byte.                                                  *)
Clamp(fd, offset) == IF offset >= size(fd) THEN size(fd) - 1 ELSE offset

Target(fd, offset, whence) ==
  CASE whence = "SEEK_SET" -> U(offset)
    [] whence = "SEEK_CUR" -> U(files[fd].offset + offset)
    [] whence = "SEEK_END" -> U(size(fd) - 1 + offset)

fs_lseek(fd, offset, whence) ==
  IF files[fd].used
  THEN /\ files' = [files EXCEPT ![fd].offset = Clamp(fd, Target(fd, offset, whence))]
       /\ result' = files'[fd].offset
  ELSE fails

fs_close(fd) ==
  IF files[fd].used
  THEN files' = [files EXCEPT ![fd] = [used |-> FALSE, offset |-> 0]] /\ result' = 0
  ELSE fails
=============================================================================
