----------------------------- MODULE DiskDriver ------------------------------
(***************************************************************************)
(* A disk read, from the kernel's sector cache to the simulated disk:      *)
(*   - kernel driver/ide/ide.c and cache.c: ide_read takes its bytes one   *)
(*     by one from a direct-mapped cache of NrSecCache sectors, filled by  *)
(*     disk_do_read;                                                       *)
(*   - driver/ide/disk.c and ide.c: the registers of the disk are written  *)
(*     byte by byte, the kernel sleeps until ide_intr has set              *)
(*     has_ide_intr, then takes the words from the data port;              *)
(*   - nemu device/dev/ide.c: the handler of the ports.                    *)
(* One action per access to a port or to has_ide_intr, since an interrupt  *)
(* may come between any two of them (Kernel composes the two).  Nothing    *)
(* writes to the disk (ide_write has no caller), so no sector is dirty and *)
(* the timer's ide_writeback finds nothing to do: it only ends a hlt.      *)
(***************************************************************************)
EXTENDS Integers, Sequences

CONSTANTS NrSecCache,  \* NR_SEC_CACHE: entries of the cache
          Words        \* words of a sector (512 / 4)

Slots == 0 .. NrSecCache - 1
AddrPorts == 3 .. 6    \* the ports that take a sector number, low byte first
SectorSize == 4 * Words

ASSUME DiskAssumption == NrSecCache \in Nat \ {0} /\ Words \in Nat \ {0}

(* What a byte of the disk image holds is its own offset; a word holds the *)
(* offset of its first byte, and Nowhere is memory that was never filled.  *)
Nowhere == -1

VARIABLES
  cache,         \* cache[]: used, the sector, the content
  port,          \* io_port[IDE_PORT_BASE + 3 .. 6]
  position,      \* where disk_fp stands
  byte_cnt,      \* bytes moved since the last command
  irq,           \* IDE_IRQ was raised and is not served
  has_ide_intr,
  pc,            \* where the driver stands; "idle" and "done" outside of it
  k,             \* the loop index of disk_do_read
  at, upto,      \* ide_read: the next byte and the end
  buf            \* ide_read: the bytes so far

device == <<port, position, byte_cnt>>
loop == <<at, upto, buf>>
disk_vars == <<cache, device, irq, has_ide_intr, pc, k, loop>>

Pc == {"idle", "fetch", "clear", "prepare", "addr", "issue", "wait", "halt", "hlt",
       "reclear", "data", "tag", "done"}

EmptyEntry == [used |-> FALSE, sector |-> 0, content |-> [w \in 0 .. Words - 1 |-> Nowhere]]

DiskInit ==
  /\ cache = [c \in Slots |-> EmptyEntry]
  /\ port = [p \in AddrPorts |-> 0]
  /\ position = 0 /\ byte_cnt = 0
  /\ irq = FALSE /\ has_ide_intr = 0
  /\ pc = "idle" /\ k = 0 /\ at = 0 /\ upto = 0 /\ buf = <<>>

(* The caller's part of ide_read: the loop starts, and what it has read is *)
(* taken.                                                                  *)
ide_read(offset, len) ==
  /\ pc = "idle"
  /\ pc' = IF len = 0 THEN "done" ELSE "fetch"
  /\ at' = offset /\ upto' = offset + len
  /\ UNCHANGED <<cache, device, irq, has_ide_intr, k, buf>>

Taken ==
  /\ pc = "done"
  /\ pc' = "idle" /\ buf' = <<>> /\ at' = 0 /\ upto' = 0
  /\ UNCHANGED <<cache, device, irq, has_ide_intr, k>>

want == at \div SectorSize    \* the sector that read_byte looks for
SlotOf(s) == s % NrSecCache
-----------------------------------------------------------------------------
HitAny(s) == cache[SlotOf(s)].used  \* mutated form: the sector is not compared

(* cache_fetch, called by read_byte for each byte.                         *)
Hit(s) == cache[SlotOf(s)].used /\ cache[SlotOf(s)].sector = s

ByteAt(content, offset) == content[(offset % SectorSize) \div 4] + (offset % 4)

FetchHit ==
  /\ pc = "fetch" /\ Hit(want)
  /\ buf' = Append(buf, ByteAt(cache[SlotOf(want)].content, at))
  /\ at' = at + 1
  /\ pc' = IF at + 1 = upto THEN "done" ELSE "fetch"
  /\ UNCHANGED <<cache, device, irq, has_ide_intr, k, upto>>

FetchMiss ==
  /\ pc = "fetch" /\ ~Hit(want)
  /\ pc' = "clear"
  /\ UNCHANGED <<cache, device, irq, has_ide_intr, k, loop>>

(* disk_do_read up to the command: forget old interrupts, wait until the   *)
(* disk is ready (its status is 0x40 again at the end of every command, so *)
(* waitdisk returns at once), write the sector number.                     *)
Clear ==
  /\ pc = "clear"
  /\ has_ide_intr' = 0
  /\ pc' = "prepare"
  /\ UNCHANGED <<cache, device, irq, k, loop>>

WaitDisk ==
  /\ pc = "prepare"
  /\ pc' = "addr" /\ k' = 3
  /\ UNCHANGED <<cache, device, irq, has_ide_intr, loop>>

Shift == [p \in AddrPorts |->
            CASE p = 3 -> 1 [] p = 4 -> 256 [] p = 5 -> 65536 [] p = 6 -> 16777216]
Drive == 224  \* the bits 0xE0 of port 6

ByteOf(s, p) == (IF p = 6 THEN Drive ELSE 0) + ((s \div Shift[p]) % 256)

OutAddr ==
  /\ pc = "addr"
  /\ port' = [port EXCEPT ![k] = ByteOf(want, k)]
  /\ k' = k + 1
  /\ pc' = IF k = 6 THEN "issue" ELSE "addr"
  /\ UNCHANGED <<cache, position, byte_cnt, irq, has_ide_intr, loop>>

(* The read command, as handler_ide executes it within the out.            *)
SectorOfPorts ==
  port[3] + port[4] * 256 + port[5] * 65536 + (port[6] % 32) * 16777216

IssueReadSilent ==  \* mutated form: no interrupt is raised
  /\ pc = "issue"
  /\ position' = SectorOfPorts * SectorSize
  /\ byte_cnt' = 0
  /\ pc' = "wait"
  /\ UNCHANGED <<cache, port, irq, has_ide_intr, k, loop>>

IssueRead ==
  /\ pc = "issue"
  /\ position' = SectorOfPorts * SectorSize
  /\ byte_cnt' = 0
  /\ irq' = TRUE
  /\ pc' = "wait"
  /\ UNCHANGED <<cache, port, has_ide_intr, k, loop>>
-----------------------------------------------------------------------------
WaitTestNot ==  \* mutated form: the flag is not tested
  /\ pc = "wait"
  /\ pc' = "reclear"
  /\ UNCHANGED <<cache, device, irq, has_ide_intr, k, loop>>

(* wait_ide_intr.  The interrupt may be served between the test of the     *)
(* flag and the hlt of wait_intr.                                          *)
WaitTest ==
  /\ pc = "wait"
  /\ pc' = IF has_ide_intr = 0 THEN "halt" ELSE "reclear"
  /\ UNCHANGED <<cache, device, irq, has_ide_intr, k, loop>>

Halt ==
  /\ pc = "halt"
  /\ pc' = "hlt"
  /\ UNCHANGED <<cache, device, irq, has_ide_intr, k, loop>>

WaitClear ==
  /\ pc = "reclear"
  /\ has_ide_intr' = 0
  /\ pc' = "data" /\ k' = 0
  /\ UNCHANGED <<cache, device, irq, loop>>

(* One word through the data port, into the entry that is being replaced.  *)
(* byte_cnt <= 512 is asserted.                                            *)
InData ==
  /\ pc = "data" /\ byte_cnt <= SectorSize
  /\ position' = position + 4
  /\ byte_cnt' = byte_cnt + 4
  /\ cache' = [cache EXCEPT ![SlotOf(want)].content[k] = position]
  /\ k' = k + 1
  /\ pc' = IF k = Words - 1 THEN "tag" ELSE "data"
  /\ UNCHANGED <<port, irq, has_ide_intr, loop>>

TagKeepsName ==  \* mutated form: an entry that was in use keeps its name
  /\ pc = "tag"
  /\ cache' = [cache EXCEPT ![SlotOf(want)].used = TRUE,
                            ![SlotOf(want)].sector = IF cache[SlotOf(want)].used THEN @ ELSE want]
  /\ pc' = "fetch" /\ k' = 0
  /\ UNCHANGED <<device, irq, has_ide_intr, loop>>

(* The rest of cache_fetch: the entry gets its new name, and read_byte     *)
(* goes on as after a hit.                                                 *)
Tag ==
  /\ pc = "tag"
  /\ cache' = [cache EXCEPT ![SlotOf(want)].used = TRUE,
                            ![SlotOf(want)].sector = want]
  /\ pc' = "fetch" /\ k' = 0
  /\ UNCHANGED <<device, irq, has_ide_intr, loop>>

DiskStep == \/ FetchHit \/ FetchMiss \/ Clear \/ WaitDisk \/ OutAddr \/ IssueRead
            \/ WaitTest \/ Halt \/ WaitClear \/ InData \/ Tag

(* The interrupt routine ide_intr, and what any interrupt does to a kernel *)
(* that sleeps: it goes on behind the hlt.                                 *)
ide_intr == has_ide_intr' = 1
Wakes == pc' = IF pc = "hlt" THEN "wait" ELSE pc
-----------------------------------------------------------------------------
Image(s) == [w \in 0 .. Words - 1 |-> s * SectorSize + 4 * w]

(* Every entry that is not being replaced holds the sector it names: an    *)
(* entry is shared by all sectors with the same remainder, and keeps its   *)
(* old name while its content is replaced (cache.c).                       *)
EntriesHold ==
  \A c \in Slots :
    cache[c].used /\ ~(pc \in {"data", "tag"} /\ SlotOf(want) = c) =>
      cache[c].content = Image(cache[c].sector)

(* The kernel takes a word only after the interrupt of its own command,    *)
(* and no interrupt is left over to be mistaken for the next command's     *)
(* (clear_ide_intr before it, wait_ide_intr after it).                     *)
AnsweredFirst == pc \in {"data", "tag"} => ~irq /\ has_ide_intr = 0
=============================================================================
