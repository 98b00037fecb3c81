-------------------------------- MODULE Kernel -------------------------------
(***************************************************************************)
(* The kernel from init_cond to the system calls of a program: start-up    *)
(* (main.c, idt.c, elf.c), the interrupt handlers, the file system and the *)
(* disk driver composed, with interrupts between any two steps while IF is *)
(* set.  A system call comes through a trap gate, which leaves IF as it    *)
(* was, and runs to its end before the next one.                           *)
(***************************************************************************)
EXTENDS DiskDriver, FileTable, Handlers, FiniteSets

CONSTANTS Header,    \* bytes that the loader reads first, from offset 0
          Segments,  \* the program headers: offset, filesz and memsz
          Guest      \* the handlers that a program installs: irq, routine

LastSector == 536870911  \* the ports take 29 bits of a sector number

(* All that is read lies on the part of the disk that uint32_t offsets     *)
(* reach, the programs install fewer handlers than there are nodes, and    *)
(* the kernel's handler of the disk is not among them.                     *)
ASSUME KernelAssumption ==
  /\ Wrap \div SectorSize <= LastSector
  /\ Header \in Nat /\ Header <= Wrap
  /\ Segments \in Seq([offset : Nat, filesz : Nat, memsz : Nat])
  /\ \A s \in 1 .. Len(Segments) : Segments[s].offset + Segments[s].filesz <= Wrap
  /\ Guest \subseteq [irq : Irqs, routine : STRING \ {"ide_intr"}]
  /\ IsFiniteSet(Guest) /\ Cardinality(Guest) + 2 <= NR_IRQ_HANDLE

VARIABLES
  IFlag,  \* eflags.IF
  stage,  \* where start-up is, then what the program asked for
  memory, \* the segments loaded so far
  call    \* the read under way: descriptor, count

vars == <<disk_vars, files, result, handler_vars, IFlag, stage, memory, call>>
kernel == <<IFlag, stage, memory, call>>

NoCall == [fd |-> 3, len |-> 0]

Init ==
  /\ DiskInit /\ FileInit /\ HandlersInit
  /\ IFlag = FALSE /\ stage = "init_idt" /\ memory = <<>> /\ call = NoCall
-----------------------------------------------------------------------------
(* Start-up.  init_idt ends with sti, so interrupts find no handler until  *)
(* init_ide has installed those of the timer and of the disk.              *)
init_idt ==
  /\ stage = "init_idt"
  /\ IFlag' = TRUE /\ stage' = "cache_init"
  /\ UNCHANGED <<disk_vars, files, result, handler_vars, memory, call>>

cache_init ==
  /\ stage = "cache_init"
  /\ cache' = [c \in Slots |-> [cache[c] EXCEPT !.used = FALSE]]
  /\ stage' = "add_timer"
  /\ UNCHANGED <<device, irq, has_ide_intr, pc, k, loop, files, result, handler_vars,
                 IFlag, memory, call>>

Installs(from, n, routine, to) ==
  /\ stage = from /\ AddTake(n, routine)
  /\ stage' = to
  /\ UNCHANGED <<disk_vars, files, result, memory, call>>

AddTimer == Installs("add_timer", 0, "ide_writeback", "add_ide") /\ UNCHANGED IFlag

AddIde == Installs("add_ide", 14, "ide_intr", "header") /\ UNCHANGED IFlag

(* loader: the header, then each segment, filled up with zeros.            *)
LoadHeader ==
  /\ stage = "header" /\ adding.at = "none"
  /\ ide_read(0, Header)
  /\ stage' = "loader"
  /\ UNCHANGED <<files, result, handler_vars, IFlag, memory, call>>

HeaderRead ==
  /\ stage = "loader" /\ Taken
  /\ stage' = "segment"
  /\ UNCHANGED <<files, result, handler_vars, IFlag, memory, call>>

Segment == Segments[Len(memory) + 1]  \* ph

LoadSegment ==
  /\ stage = "segment" /\ Len(memory) < Len(Segments)
  /\ ide_read(Segment.offset, Segment.filesz)
  /\ UNCHANGED <<files, result, handler_vars, kernel>>

Zeros(n) == [i \in 1 .. n |-> "zero"]

SegmentReadUnfilled ==  \* mutated form: the rest of the memory is not cleared
  /\ stage = "segment" /\ Taken
  /\ memory' = Append(memory, buf)
  /\ UNCHANGED <<files, result, handler_vars, IFlag, stage, call>>

SegmentRead ==
  /\ stage = "segment" /\ Taken
  /\ memory' = Append(memory, buf \o Zeros(Segment.memsz - Segment.filesz))
  /\ UNCHANGED <<files, result, handler_vars, IFlag, stage, call>>

StartProgram ==
  /\ stage = "segment" /\ Len(memory) = Len(Segments)
  /\ stage' = "program"
  /\ UNCHANGED <<disk_vars, files, result, handler_vars, IFlag, memory, call>>
-----------------------------------------------------------------------------
(* The program: its own cli and sti (process_keys of the games has no      *)
(* system call between them), and do_syscall.                              *)
Program == stage = "program"

Cli == /\ Program /\ IFlag' = FALSE /\ stage' = "keys"
       /\ UNCHANGED <<disk_vars, files, result, handler_vars, memory, call>>
Sti == /\ stage = "keys" /\ IFlag' = TRUE /\ stage' = "program"
       /\ UNCHANGED <<disk_vars, files, result, handler_vars, memory, call>>

(* System call 0: add_irq_handle between cli and sti.                      *)
SysAdd ==
  /\ IFlag' = FALSE
  /\ \E g \in Guest :
       /\ \A i \in 1 .. Len(installed[g.irq]) : installed[g.irq][i] # g.routine
       /\ Installs("program", g.irq, g.routine, "added")

SysAddEndsNot ==  \* mutated form: without the sti
  /\ stage = "added" /\ adding.at = "none"
  /\ stage' = "program"
  /\ UNCHANGED <<disk_vars, files, result, handler_vars, IFlag, memory, call>>

SysAddEnds ==
  /\ stage = "added" /\ adding.at = "none"
  /\ IFlag' = TRUE /\ stage' = "program"
  /\ UNCHANGED <<disk_vars, files, result, handler_vars, memory, call>>

Calls == Program /\ UNCHANGED <<disk_vars, handler_vars, kernel>>

sys_open == Calls /\ \E fd \in Fds : fs_open(fd) \/ fails
sys_lseek(fd, offset, whence) == Calls /\ fs_lseek(fd, offset, whence)
sys_close == Calls /\ \E fd \in Fds : fs_close(fd)

(* fs_read does not call ide_read when nothing is left, nor when the file  *)
(* is not open.                                                            *)
sys_read_empty ==
  /\ Calls
  /\ \E fd \in Fds, len \in Lens :
       IF files[fd].used THEN Clipped(fd, len) = 0 /\ result' = 0 /\ UNCHANGED files
                         ELSE fails

sys_read ==
  /\ Program
  /\ \E fd \in Fds, len \in Lens :
       /\ files[fd].used /\ Clipped(fd, len) # 0
       /\ call' = [fd |-> fd, len |-> len]
       /\ ide_read(OnDisk(fd), Clipped(fd, len))
  /\ stage' = "read"
  /\ UNCHANGED <<files, result, handler_vars, IFlag, memory>>

sys_read_ends ==
  /\ stage = "read" /\ Taken
  /\ fs_read_ends(call.fd, Clipped(call.fd, call.len))
  /\ stage' = "program" /\ call' = NoCall
  /\ UNCHANGED <<handler_vars, IFlag, memory>>

Whences == {"SEEK_SET", "SEEK_CUR", "SEEK_END"}

do_syscall ==
  \/ sys_open \/ sys_close \/ sys_read_empty \/ sys_read \/ SysAdd
  \/ \E fd \in Fds, offset \in Seeks, whence \in Whences : sys_lseek(fd, offset, whence)
-----------------------------------------------------------------------------
(* An interrupt: the gate clears IFlag, irq_handle calls the routines, iret   *)
(* sets IF again.  One that finds no handler is lost.                      *)
Interrupt(n) ==
  /\ IFlag
  /\ IF \E i \in 1 .. Len(irq_handle(n)) : irq_handle(n)[i] = "ide_intr"
     THEN ide_intr ELSE UNCHANGED has_ide_intr
  /\ Wakes
  /\ UNCHANGED <<cache, device, k, loop, files, result, handler_vars, kernel>>

TimerIntr == Interrupt(0) /\ UNCHANGED irq
KeyIntr   == Interrupt(1) /\ UNCHANGED irq
IdeIntr   == irq /\ irq' = FALSE /\ Interrupt(14)

Disk == DiskStep /\ UNCHANGED <<files, result, handler_vars, kernel>>
Add  == AddStep /\ UNCHANGED <<disk_vars, files, result, kernel>>

(* What goes on by itself once it has begun.                               *)
Ongoing ==
  \/ init_idt \/ cache_init \/ AddTimer \/ AddIde \/ LoadHeader \/ HeaderRead
  \/ LoadSegment \/ SegmentRead \/ StartProgram \/ Disk \/ Add
  \/ SysAddEnds \/ sys_read_ends \/ Sti

Next == Ongoing \/ Cli \/ do_syscall \/ TimerIntr \/ KeyIntr \/ IdeIntr

Spec == Init /\ [][Next]_vars

(* The kernel runs, the disk's interrupt is delivered while IF is set      *)
(* (IntrDelivery!SyncNeverLost, SyncServed) and the timer ticks.           *)
FairSpec == Spec /\ WF_vars(Ongoing) /\ WF_vars(IdeIntr) /\ WF_vars(TimerIntr)
-----------------------------------------------------------------------------
Bytes(first, number) == [i \in 1 .. number |-> first + i - 1]

(* What PlainFiles calls a request and its bytes.                          *)
Request == IF stage = "read" THEN call ELSE NoCall
Brought == IF stage = "read" /\ pc = "done" THEN buf ELSE <<>>

Plain == INSTANCE PlainFiles WITH request <- Request, bytes <- Brought

(* The program is loaded and its calls are answered as if there were no    *)
(* cache, no disk, no interrupts and no 32-bit sums: a read starts where   *)
(* the offset stands, stops at the count or at the end, brings the bytes   *)
(* of the disk that the table promises, through a cache that other files   *)
(* share, and nobody else moves an offset meanwhile (fs.c, do_syscall.c).  *)
ImplementsFiles == Plain!Spec

(* When the program starts, each segment is the part of the image that its *)
(* header names, then zeros (elf.c loader).                                *)
ProgramIsLoaded ==
  stage = "program" =>
    \A i \in 1 .. Len(Segments) :
      memory[i] = Bytes(Segments[i].offset, Segments[i].filesz)
                    \o Zeros(Segments[i].memsz - Segments[i].filesz)

(* The kernel never halts with interrupts off, although the trap gate of a *)
(* system call leaves IF to the program and system call 0 clears it.       *)
HaltsInterruptible == pc \in {"halt", "hlt"} => IFlag

(* Start-up reaches the program and every system call comes back to it:    *)
(* the disk's handler is there before the first read, a kernel that halts  *)
(* after its interrupt was served is woken by the next tick (the test of   *)
(* has_ide_intr and the hlt are not atomic), and nothing leaves IF off.    *)
ComesBack == stage # "program" ~> stage = "program"

(* "Get the size of wor16.asc file" by fseek(fp, 0, SEEK_END) and ftell    *)
(* (nemu-pal ui/font.c): a seek to the end answers the size.               *)
SeekEndIsSize ==
  [][\A fd \in Fds : files[fd].used /\ sys_lseek(fd, 0, "SEEK_END") => result' = size(fd)]_vars
=============================================================================
