---------------------------- MODULE KernelProofs -----------------------------
(***************************************************************************)
(* Proofs about Kernel, with DiskDriver, FileTable and Handlers, for any   *)
(* geometry of the cache, any files, any program and any handlers within   *)
(* the assumptions of these modules: every invariant that the runs check,  *)
(* and that the kernel implements PlainFiles.  The inductive invariant     *)
(* follows a read from the system call through the ports to the bytes, and *)
(* the lists of handlers through add_irq_handle.                           *)
(***************************************************************************)
EXTENDS Kernel, FiniteSetTheorems, SequenceTheorems, TLAPS

Stages == {"init_idt", "cache_init", "add_timer", "add_ide", "header", "loader",
           "segment", "program", "keys", "added", "read"}

DiskTypes ==
  /\ cache \in [Slots -> [used : BOOLEAN, sector : Nat,
                          content : [0 .. Words - 1 -> Int]]]
  /\ port \in [AddrPorts -> Nat] /\ position \in Nat /\ byte_cnt \in Nat
  /\ irq \in BOOLEAN /\ has_ide_intr \in {0, 1}
  /\ pc \in Pc /\ k \in Nat /\ at \in Nat /\ upto \in Nat

(* An offset is never behind the end of its file, so no sum of an offset   *)
(* and a count wraps.                                                      *)
FileInv ==
  /\ files \in [Fds -> [used : BOOLEAN, offset : Nat]]
  /\ \A fd \in Fds : files[fd].offset <= size(fd)
  /\ call.fd \in Fds /\ (stage = "read" => call.len \in Lens)

(* Interrupts are off before init_idt and within the cli of a program or   *)
(* of system call 0 only, and the driver runs for the loader and for read. *)
StageInv ==
  /\ stage \in Stages
  /\ IFlag = (stage \notin {"init_idt", "keys", "added"})
  /\ pc # "idle" => stage \in {"loader", "segment", "read"}
  /\ stage \in {"loader", "read"} => pc # "idle"

(* ide_read has read number bytes from first, as far as at.                *)
Reading(first, number) ==
  /\ first \in Nat /\ number \in Nat /\ first + number <= Wrap
  /\ upto = first + number /\ first <= at /\ at <= upto
  /\ buf = Bytes(first, at - first)
  /\ at = upto <=> pc = "done"

ReadInv ==
  /\ pc = "idle" => buf = <<>>
  /\ stage = "loader" => Reading(0, Header)
  /\ stage = "segment" /\ pc # "idle" =>
       /\ Len(memory) < Len(Segments)
       /\ Reading(Segment.offset, Segment.filesz)
  /\ stage = "read" => Reading(OnDisk(call.fd), Clipped(call.fd, call.len))

(* The ports name the sector that is wanted, and the words come from it.   *)
Named(p) == \A q \in AddrPorts : q < p => port[q] = ByteOf(want, q)

CommandInv ==
  /\ pc = "addr" => k \in AddrPorts /\ Named(k)
  /\ pc = "issue" => Named(7)
  /\ pc \in {"wait", "halt", "hlt", "reclear"} =>
       position = want * SectorSize /\ byte_cnt = 0
  /\ pc = "data" =>
       /\ k \in 0 .. Words - 1 /\ byte_cnt = 4 * k
       /\ position = want * SectorSize + 4 * k
       /\ \A w \in 0 .. Words - 1 :
            w < k => cache[SlotOf(want)].content[w] = Image(want)[w]
  /\ pc = "tag" => cache[SlotOf(want)].content = Image(want)

(* A request of the disk, raised or noted, belongs to the command whose    *)
(* words were not taken yet.                                               *)
IrqInv ==
  /\ irq => pc \in {"wait", "halt", "hlt"} /\ has_ide_intr = 0
  /\ has_ide_intr = 1 => pc \in {"wait", "halt", "hlt", "reclear"} /\ ~irq

Content(s) == Bytes(Segments[s].offset, Segments[s].filesz)
                \o Zeros(Segments[s].memsz - Segments[s].filesz)

MemoryInv ==
  /\ memory \in Seq({Content(s) : s \in 1 .. Len(Segments)})
  /\ Len(memory) <= Len(Segments)
  /\ \A s \in 1 .. Len(memory) : memory[s] = Content(s)
  /\ stage \in {"program", "keys", "added", "read"} => Len(memory) = Len(Segments)

(* What the fields of a node may hold.                                     *)
Routines == {"none", "ide_writeback", "ide_intr"} \cup {g.routine : g \in Guest}

(* The handlers of the program that are installed; those of start-up and   *)
(* the one that is being added come on top.                                *)
Installed(g) == \E j \in 1 .. Len(installed[g.irq]) : installed[g.irq][j] = g.routine
Done == {g \in Guest : Installed(g)}
Adding == adding.at # "none"

CountInv ==
  /\ handle_count \in Nat
  /\ adding \in [at : {"none", "routine", "next", "head"}, irq : Irqs, routine : Routines]
  /\ installed \in [Irqs -> Seq(Routines)]
  /\ stage \in {"init_idt", "cache_init", "add_timer"} => handle_count = 0 /\ ~Adding
  /\ stage = "add_ide" => handle_count = 1
  /\ stage = "header" => handle_count = 2
  /\ Adding => handle_count >= 1 /\ stage \in {"add_ide", "header", "added"}
  /\ stage \in {"loader", "segment", "program", "keys", "read"} =>
       handle_count <= 2 + Cardinality(Done)
  /\ stage = "added" =>
       IF Adding
       THEN /\ handle_count <= 3 + Cardinality(Done)
            /\ \E g \in Guest \ Done : g.irq = adding.irq /\ g.routine = adding.routine
       ELSE handle_count <= 2 + Cardinality(Done)
  /\ Adding /\ adding.routine = "ide_intr" => adding.irq = 14
  /\ \A n \in Irqs : \A j \in 1 .. Len(installed[n]) :
       installed[n][j] = "ide_intr" => n = 14

(* What RoutinesFrom is defined to be: the chosen solution of an equation  *)
(* that every step leaves with a solution.                                 *)
Chains(pool, f) ==
  f = [n \in 0 .. NR_IRQ_HANDLE |->
         IF n = NULL THEN <<>> ELSE <<pool[n].routine>> \o f[pool[n].next]]

(* The nodes below Linked may be pointed to; the one that is being filled  *)
(* is not, whatever its fields hold.                                       *)
Linked == IF Adding THEN handle_count - 1 ELSE handle_count
Pointers == {NULL} \cup 0 .. Linked - 1

ChainInv ==
  /\ handle_pool \in [Nodes -> [routine : Routines, next : 0 .. NR_IRQ_HANDLE]]
  /\ handles \in [Irqs -> Pointers]
  /\ \A n \in Nodes : handle_pool[n].next \in Pointers
  /\ \E f : Chains(handle_pool, f)
  /\ \A f : Chains(handle_pool, f) => \A n \in Irqs : f[handles[n]] = installed[n]
  /\ adding.at \in {"next", "head"} => handle_pool[ptr].routine = adding.routine
  /\ adding.at = "head" => handle_pool[ptr].next = handles[adding.irq]

IInv == /\ DiskTypes /\ FileInv /\ StageInv /\ ReadInv /\ CommandInv /\ IrqInv
        /\ EntriesHold /\ MemoryInv /\ CountInv /\ ChainInv
-----------------------------------------------------------------------------
(* A byte is in the word, and the word in the sector, that division names. *)
LEMMA SectorFacts ==
  ASSUME NEW a \in Nat
  PROVE  /\ SectorSize \in Nat \ {0}
         /\ a \div SectorSize \in Nat /\ a % SectorSize \in 0 .. SectorSize - 1
         /\ a = SectorSize * (a \div SectorSize) + (a % SectorSize)
<1>1. SectorSize \in Nat /\ SectorSize > 0
  BY DiskAssumption DEF SectorSize
<1>2. QED
  BY <1>1

(* Taken out of the image of its sector, a byte is the one that was meant. *)
LEMMA ByteAtImage ==
  ASSUME NEW a \in Nat
  PROVE  ByteAt(Image(a \div SectorSize), a) = a
<1> DEFINE s == a \div SectorSize
           r == a % SectorSize
<1>1. /\ Words \in Nat \ {0} /\ s \in Nat /\ r \in Nat /\ r < 4 * Words
      /\ a = 4 * (Words * s) + r /\ s * SectorSize = 4 * (Words * s)
      /\ Words * s \in Nat
  <2>1. Words \in Nat /\ s \in Nat /\ Words > 0 /\ r \in Nat
    BY SectorFacts, DiskAssumption
  <2>2. SectorSize = 4 * Words /\ r < SectorSize
    BY SectorFacts DEF SectorSize
  <2>3. a = SectorSize * s + r
    BY SectorFacts
  <2>4. Words * s \in Nat /\ (4 * Words) * s = 4 * (Words * s)
    BY <2>1
  <2> HIDE DEF s, r
  <2>5. QED
    BY <2>1, <2>2, <2>3, <2>4
<1>2. ByteAt(Image(s), a) = Image(s)[r \div 4] + (a % 4)
  BY DEF ByteAt
<1> HIDE DEF s, r
<1>3. r \div 4 \in 0 .. Words - 1 /\ r = 4 * (r \div 4) + (r % 4)
  BY <1>1
<1>4. a % 4 = r % 4
  <2>1. \A x, y \in Nat : (4 * x + y) % 4 = y % 4
    OBVIOUS
  <2>2. QED
    BY <1>1, <2>1
<1>5. Image(s)[r \div 4] = 4 * (Words * s) + 4 * (r \div 4)
  BY <1>1, <1>3 DEF Image
<1>6. ByteAt(Image(s), a) = a
  BY <1>1, <1>2, <1>3, <1>4, <1>5
<1>7. QED
  BY <1>6 DEF s

(* The disk puts together the sector number that the driver took apart.    *)
LEMMA SectorRoundTrip ==
  ASSUME NEW s \in Nat, s <= LastSector, \A p \in AddrPorts : port[p] = ByteOf(s, p)
  PROVE  SectorOfPorts = s
<1>1. /\ port[3] = s % 256 /\ port[4] = (s \div 256) % 256
      /\ port[5] = (s \div 65536) % 256
      /\ port[6] = 224 + ((s \div 16777216) % 256)
  BY SMT DEF ByteOf, Shift, Drive, AddrPorts
<1>2. (s \div 16777216) \in Nat /\ (s \div 16777216) < 32
      /\ (s \div 16777216) % 256 = s \div 16777216
  BY SMT DEF LastSector
<1>3. port[6] % 32 = s \div 16777216
  BY <1>1, <1>2, SMT
<1>4. s = (s % 256) + ((s \div 256) % 256) * 256 + ((s \div 65536) % 256) * 65536
            + (s \div 16777216) * 16777216
  BY SMT
<1>5. QED
  BY <1>1, <1>3, <1>4, SMT DEF SectorOfPorts

(* A sector number has its entry of the cache.                             *)
LEMMA SlotIsIn == ASSUME NEW s \in Nat PROVE SlotOf(s) \in Slots
<1>1. NrSecCache \in Nat /\ NrSecCache > 0
  BY DiskAssumption
<1>2. QED
  BY <1>1 DEF SlotOf, Slots

(* One byte more of a file.                                                 *)
LEMMA BytesGrow ==
  ASSUME NEW f \in Nat, NEW n \in Nat
  PROVE  Append(Bytes(f, n), f + n) = Bytes(f, n + 1)
BY DEF Bytes

(* The sector that is read has an entry of the cache.                       *)
LEMMA WantIsIn == ASSUME DiskTypes PROVE want \in Nat /\ SlotOf(want) \in Slots
BY SectorFacts, SlotIsIn DEF DiskTypes, want

(* While a byte is missing, its sector is one that the ports can name.     *)
LEMMA WantIsNamed ==
  ASSUME DiskTypes, at < Wrap
  PROVE  want <= LastSector
<1>1. SectorSize \in Nat \ {0} /\ Wrap \in Nat /\ at \in Nat /\ at <= Wrap
  BY SectorFacts, FileAssumption DEF DiskTypes
<1> HIDE DEF SectorSize
<1>2. \A x, y \in Nat : \A z \in Nat \ {0} : x <= y => x \div z <= y \div z
  OBVIOUS
<1>3. at \div SectorSize <= Wrap \div SectorSize
  BY <1>1, <1>2
<1>4. Wrap \div SectorSize <= LastSector /\ Wrap \div SectorSize \in Nat
  BY <1>1, SectorFacts, KernelAssumption
<1>5. QED
  BY <1>1, <1>3, <1>4, SectorFacts, SMT DEF want, LastSector

(* What a port is told of a sector number is a number.                      *)
LEMMA ByteIsNat == ASSUME NEW s \in Nat, NEW p \in AddrPorts PROVE ByteOf(s, p) \in Nat
<1>1. Shift[p] \in Nat /\ Shift[p] > 0
  BY SMT DEF Shift, AddrPorts
<1>2. (s \div Shift[p]) \in Nat
  BY <1>1
<1>3. QED
  BY <1>2 DEF ByteOf, Drive

-----------------------------------------------------------------------------
(* What a step of the driver leaves alone.                                 *)
LEMMA RestUntouched ==
  ASSUME FileInv, StageInv, MemoryInv, CountInv, ChainInv,
         UNCHANGED <<files, handler_vars, kernel>>, pc' # "idle", pc # "idle"
  PROVE  FileInv' /\ StageInv' /\ MemoryInv' /\ CountInv' /\ ChainInv'
<1>1. FileInv' /\ StageInv'
  BY DEF FileInv, StageInv, kernel, size
<1>2. MemoryInv'
  BY DEF MemoryInv, kernel
<1>3. UNCHANGED <<stage, handle_pool, handles, handle_count, adding, installed>>
  BY DEF kernel, handler_vars
<1>4. UNCHANGED <<Adding, Linked, Pointers, ptr, Done>>
  BY <1>3 DEF Adding, Linked, Pointers, ptr, Done, Installed
<1>5. CountInv'
  BY <1>3, <1>4 DEF CountInv
<1>6. ChainInv'
  BY <1>3, <1>4 DEF ChainInv
<1>7. QED
  BY <1>1, <1>2, <1>5, <1>6

(* A step that reads no byte keeps what was read.                          *)
LEMMA SameRead ==
  ASSUME ReadInv, UNCHANGED <<loop, files, kernel>>,
         pc \notin {"idle", "done"}, pc' \notin {"idle", "done"}
  PROVE  ReadInv'
BY DEF ReadInv, Reading, loop, kernel, Segment, OnDisk, Clipped, size

(* While a byte is missing, at is on the disk.                             *)
LEMMA BytesAreOnDisk ==
  ASSUME DiskTypes, StageInv, ReadInv, pc \notin {"idle", "done"}
  PROVE  at < upto /\ upto <= Wrap
BY FileAssumption DEF StageInv, ReadInv, Reading, DiskTypes

(* Every step of ide_read and of the disk.                                  *)
LEMMA DiskKeeps ==
  ASSUME IInv, Disk
  PROVE  IInv'
<1> USE DEF IInv
<1>0. UNCHANGED <<files, result, handler_vars, kernel>> /\ DiskStep
  BY DEF Disk
<1>1. want \in Nat /\ SlotOf(want) \in Slots
  BY WantIsIn
<1>2. at' = at => want' = want
  BY DEF want
<1>w. Words \in Nat /\ Words > 0 /\ SectorSize \in Nat /\ SectorSize = 4 * Words
  BY DiskAssumption DEF SectorSize
<1>3. CASE FetchMiss \/ Clear \/ WaitDisk \/ WaitTest \/ Halt \/ WaitClear
  <2>1. /\ pc \notin {"idle", "done"} /\ pc' \notin {"idle", "done"}
        /\ want' = want /\ UNCHANGED loop /\ ReadInv'
    BY <1>3, <1>0, <1>2, SameRead DEF FetchMiss, Clear, WaitDisk, WaitTest, Halt, WaitClear, loop
  <2>2. UNCHANGED <<cache, port, position, byte_cnt, irq, at, upto, buf>>
    BY <1>3 DEF FetchMiss, Clear, WaitDisk, WaitTest, Halt, WaitClear, device, loop
  <2>3. DiskTypes'
    BY <1>3, <1>1, <1>w, <2>2 DEF FetchMiss, Clear, WaitDisk, WaitTest, Halt, WaitClear, DiskTypes, Pc
  <2>4. CommandInv'
    <3>1. CASE FetchMiss \/ Clear \/ WaitTest \/ Halt
      BY <3>1, <2>1, <2>2 DEF FetchMiss, Clear, WaitTest, Halt, CommandInv
    <3>2. CASE WaitDisk
      BY <3>2 DEF WaitDisk, CommandInv, Named, AddrPorts
    <3>3. CASE WaitClear
      <4>1. want * SectorSize \in Nat
        BY <1>1, <1>w
      <4>2. QED
        BY <3>3, <1>w, <2>1, <2>2, <4>1 DEF WaitClear, CommandInv
    <3>4. QED
      BY <1>3, <3>1, <3>2, <3>3
  <2>5. IrqInv'
    BY <1>3, <2>2 DEF FetchMiss, Clear, WaitDisk, WaitTest, Halt, WaitClear, IrqInv, DiskTypes
  <2>6. EntriesHold'
    BY <1>3, <1>1, <2>1, <2>2 DEF FetchMiss, Clear, WaitDisk, WaitTest, Halt, WaitClear, EntriesHold, CommandInv, DiskTypes
  <2>7. QED
    BY <1>0, <2>1, <2>3, <2>4, <2>5, <2>6, RestUntouched
<1>4. CASE OutAddr
  <2>1. /\ pc \notin {"idle", "done"} /\ pc' \notin {"idle", "done"}
        /\ want' = want /\ UNCHANGED loop /\ ReadInv'
    BY <1>4, <1>0, <1>2, SameRead DEF OutAddr, loop
  <2>2. DiskTypes'
    <3>1. k \in AddrPorts /\ ByteOf(want, k) \in Nat
      BY <1>1, <1>4, ByteIsNat DEF OutAddr, CommandInv
    <3>2. port' \in [AddrPorts -> Nat] /\ k' \in Nat
      BY <1>4, <3>1 DEF OutAddr, DiskTypes
    <3>3. QED
      BY <1>4, <2>1, <3>2 DEF OutAddr, DiskTypes, loop, Pc
  <2>3. CommandInv'
    BY <1>4, <1>1, <1>2, <1>w, <2>1 DEF OutAddr, CommandInv, Named, DiskTypes, device, AddrPorts
  <2>4. IrqInv'
    BY <1>4, <2>1 DEF OutAddr, IrqInv, DiskTypes
  <2>5. EntriesHold'
    BY <1>4, <1>1, <1>2, <2>1 DEF OutAddr, EntriesHold, CommandInv, DiskTypes
  <2>6. QED
    BY <1>0, <2>1, <2>2, <2>3, <2>4, <2>5, RestUntouched
<1>5. CASE IssueRead
  <2>1. /\ pc \notin {"idle", "done"} /\ pc' \notin {"idle", "done"}
        /\ want' = want /\ UNCHANGED loop /\ ReadInv'
    BY <1>5, <1>0, <1>2, SameRead DEF IssueRead, loop
  <2>2. position' = want * SectorSize /\ position' \in Nat
    <3>1. want <= LastSector
      BY <2>1, BytesAreOnDisk, WantIsNamed, FileAssumption DEF DiskTypes
    <3>2. \A p \in AddrPorts : port[p] = ByteOf(want, p)
      BY <1>5 DEF IssueRead, CommandInv, Named, AddrPorts
    <3>3. SectorOfPorts = want
      BY <1>1, <3>1, <3>2, SectorRoundTrip
    <3>4. want * SectorSize \in Nat
      BY <1>1, <1>w
    <3>5. QED
      BY <1>5, <3>3, <3>4 DEF IssueRead
  <2>7. DiskTypes'
    BY <1>5, <2>1, <2>2 DEF IssueRead, DiskTypes, loop, Pc
  <2>3. CommandInv'
    BY <1>5, <2>1, <2>2 DEF IssueRead, CommandInv
  <2>4. IrqInv'
    BY <1>5, <2>1 DEF IssueRead, IrqInv, DiskTypes
  <2>5. EntriesHold'
    BY <1>5, <1>1, <1>2, <2>1 DEF IssueRead, EntriesHold, CommandInv, DiskTypes
  <2>6. QED
    BY <1>0, <2>1, <2>7, <2>3, <2>4, <2>5, RestUntouched
<1>6. CASE InData
  <2> DEFINE slot == SlotOf(want)
  <2>1. /\ pc \notin {"idle", "done"} /\ pc' \notin {"idle", "done"}
        /\ want' = want /\ UNCHANGED loop /\ ReadInv'
    BY <1>6, <1>0, <1>2, SameRead DEF InData, loop
  <2>2. /\ k \in 0 .. Words - 1 /\ byte_cnt = 4 * k
        /\ position = want * SectorSize + 4 * k
        /\ \A w \in 0 .. Words - 1 : w < k => cache[slot].content[w] = Image(want)[w]
    BY <1>6 DEF InData, CommandInv
  <2>3. position = Image(want)[k]
    BY <2>2 DEF Image
  <2>4. /\ cache' = [cache EXCEPT ![slot].content[k] = position]
        /\ k' = k + 1 /\ position' = position + 4 /\ byte_cnt' = byte_cnt + 4
        /\ pc' = IF k = Words - 1 THEN "tag" ELSE "data"
        /\ UNCHANGED <<port, irq, has_ide_intr>>
    BY <1>6 DEF InData
  <2> HIDE DEF slot
  <2>5. slot \in Slots
    BY <1>1 DEF slot
  <2>6. /\ cache' \in [Slots -> [used : BOOLEAN, sector : Nat,
                                 content : [0 .. Words - 1 -> Int]]]
        /\ \A w \in 0 .. Words - 1 :
             cache'[slot].content[w] = IF w = k THEN position ELSE cache[slot].content[w]
        /\ \A c \in Slots : c # slot => cache'[c] = cache[c]
    <3>1. /\ cache \in [Slots -> [used : BOOLEAN, sector : Nat,
                                  content : [0 .. Words - 1 -> Int]]]
          /\ position \in Int
      BY DEF DiskTypes
    <3>2. cache' = [cache EXCEPT ![slot] =
                      [cache[slot] EXCEPT !.content =
                         [cache[slot].content EXCEPT ![k] = position]]]
      BY <2>4, <2>5, <3>1
    <3>3. [cache[slot].content EXCEPT ![k] = position] \in [0 .. Words - 1 -> Int]
      BY <2>2, <2>5, <3>1
    <3>4. QED
      BY <2>2, <2>5, <3>1, <3>2, <3>3
  <2>7. DiskTypes'
    <3>1. k' \in Nat /\ position' \in Nat /\ byte_cnt' \in Nat
      BY <2>2, <2>4 DEF DiskTypes
    <3>2. QED
      BY <2>1, <2>4, <2>6, <3>1 DEF DiskTypes, loop, Pc
  <2>8. \A w \in 0 .. Words - 1 : w < k + 1 => cache'[slot].content[w] = Image(want)[w]
    BY <2>2, <2>3, <2>6
  <2>9. CommandInv'
    <3>1. CASE k = Words - 1
      <4>1. \A w \in 0 .. Words - 1 : cache'[slot].content[w] = Image(want)[w]
        BY <1>w, <2>2, <2>8, <3>1
      <4>2. cache'[slot].content \in [0 .. Words - 1 -> Int]
        BY <2>5, <2>6
      <4>3. cache'[slot].content = Image(want)
        BY <4>1, <4>2 DEF Image
      <4>4. QED
        BY <2>1, <2>4, <3>1, <4>3 DEF CommandInv, slot
    <3>2. CASE k # Words - 1
      <4>1. k + 1 \in 0 .. Words - 1
        BY <1>w, <2>2, <3>2
      <4>2. want * SectorSize \in Nat
        BY <1>1, <1>w
      <4>3. position' = want * SectorSize + 4 * (k + 1) /\ byte_cnt' = 4 * (k + 1)
        BY <2>2, <2>4, <4>2
      <4>4. QED
        BY <2>1, <2>4, <2>8, <3>2, <4>1, <4>3 DEF CommandInv, slot
    <3>3. QED
      BY <3>1, <3>2
  <2>11. IrqInv'
    BY <1>6, <2>1, <2>4 DEF InData, IrqInv, DiskTypes
  <2>12. EntriesHold'
    BY <1>6, <2>1, <2>4, <2>6 DEF InData, EntriesHold, slot
  <2>13. QED
    BY <1>0, <2>1, <2>7, <2>9, <2>11, <2>12, RestUntouched
<1>7. CASE Tag
  <2>1. /\ pc \notin {"idle", "done"} /\ pc' \notin {"idle", "done"}
        /\ want' = want /\ UNCHANGED loop /\ ReadInv'
    BY <1>7, <1>0, <1>2, SameRead DEF Tag, loop
  <2>2. DiskTypes'
    BY <1>7, <1>1, <1>2, <1>w, <2>1 DEF Tag, DiskTypes, CommandInv, device, loop, Pc, AddrPorts
  <2>3. CommandInv'
    BY <1>7, <1>1, <1>2, <1>w, <2>1 DEF Tag, CommandInv, Named, DiskTypes, device, AddrPorts
  <2>4. IrqInv'
    BY <1>7, <2>1 DEF Tag, IrqInv, DiskTypes
  <2>5. EntriesHold'
    BY <1>7, <1>1, <1>2, <2>1 DEF Tag, EntriesHold, CommandInv, DiskTypes
  <2>6. QED
    BY <1>0, <2>1, <2>2, <2>3, <2>4, <2>5, RestUntouched
<1>8. CASE FetchHit
  <2>1. /\ pc = "fetch" /\ Hit(want) /\ pc' \in {"fetch", "done"}
        /\ pc' = IF at + 1 = upto THEN "done" ELSE "fetch"
        /\ at' = at + 1 /\ buf' = Append(buf, ByteAt(cache[SlotOf(want)].content, at))
        /\ UNCHANGED <<cache, device, irq, has_ide_intr, k, upto>>
    BY <1>8 DEF FetchHit
  <2>2. ByteAt(cache[SlotOf(want)].content, at) = at
    <3>1. cache[SlotOf(want)].content = Image(want)
      BY <1>1, <2>1 DEF Hit, EntriesHold
    <3>2. ByteAt(Image(want), at) = at
      BY ByteAtImage DEF want, DiskTypes
    <3>3. QED
      BY <3>1, <3>2
  <2>3. at < upto /\ at \in Nat /\ upto \in Nat
    BY <2>1, BytesAreOnDisk DEF DiskTypes
  <2>4. ASSUME NEW first, NEW number, Reading(first, number)
        PROVE  Reading(first, number)'
    <3>1. first \in Nat /\ at - first \in Nat /\ buf = Bytes(first, at - first)
      BY <2>3, <2>4 DEF Reading
    <3>2. buf' = Bytes(first, at + 1 - first)
      <4>1. first + (at - first) = at /\ (at - first) + 1 = at + 1 - first
        BY <2>3, <3>1
      <4>2. QED
        BY <2>1, <2>2, <3>1, <4>1, BytesGrow
    <3>3. QED
      BY <2>1, <2>3, <2>4, <3>2 DEF Reading
  <2>5. ReadInv'
    BY <1>0, <2>1, <2>4 DEF ReadInv, Reading, kernel, Segment, OnDisk, Clipped, size
  <2>6. DiskTypes'
    BY <2>1, <2>3 DEF DiskTypes, device, Pc
  <2>7. CommandInv' /\ IrqInv' /\ EntriesHold'
    BY <2>1 DEF CommandInv, IrqInv, EntriesHold
  <2>8. QED
    BY <1>0, <2>1, <2>5, <2>6, <2>7, RestUntouched
<1>9. QED
  BY <1>0, <1>3, <1>4, <1>5, <1>6, <1>7, <1>8 DEF DiskStep
-----------------------------------------------------------------------------
(* The handlers that were added can be counted.                             *)
LEMMA DoneIsFinite ==
  /\ IsFiniteSet(Guest) /\ IsFiniteSet(Done) /\ Done \subseteq Guest
  /\ Cardinality(Guest) \in Nat /\ Cardinality(Done) \in Nat
  /\ Cardinality(Done) <= Cardinality(Guest)
BY KernelAssumption, FS_Subset, FS_CardinalityType DEF Done

(* There is a node for every handler that is added.                        *)
LEMMA Room ==
  ASSUME StageInv, CountInv
  PROVE  /\ Linked \in Nat /\ Linked <= NR_IRQ_HANDLE
         /\ Adding => ptr \in Nodes /\ ptr = Linked /\ ptr \notin Pointers
<1>1. /\ NR_IRQ_HANDLE \in Nat /\ Cardinality(Guest) + 2 <= NR_IRQ_HANDLE
      /\ handle_count \in Nat
  BY HandlerAssumption, KernelAssumption DEF CountInv
<1>2. CASE ~Adding
  <2>1. handle_count <= 2 + Cardinality(Done)
    BY <1>2, <1>1, DoneIsFinite DEF CountInv, StageInv, Stages
  <2>2. QED
    BY <1>1, <1>2, <2>1, DoneIsFinite DEF Linked
<1>3. CASE Adding
  <2>1. handle_count >= 1
    BY <1>3 DEF CountInv
  <2>2. handle_count <= 2 + Cardinality(Guest)
    <3>1. CASE stage \in {"add_ide", "header"}
      BY <3>1, DoneIsFinite DEF CountInv
    <3>2. CASE stage = "added"
      <4>1. PICK g \in Guest \ Done : TRUE
        BY <1>3, <3>2 DEF CountInv
      <4>2. Cardinality(Done) # Cardinality(Guest)
        BY <4>1, DoneIsFinite, FS_Subset
      <4>3. QED
        BY <1>1, <1>3, <3>2, <4>2, DoneIsFinite DEF CountInv
    <3>3. QED
      BY <1>3, <3>1, <3>2 DEF CountInv
  <2>3. QED
    BY <1>1, <1>3, <2>1, <2>2, DoneIsFinite DEF Linked, ptr, Nodes, Pointers, NULL
<1>4. QED
  BY <1>2, <1>3

Pools == [Nodes -> [routine : Routines, next : 0 .. NR_IRQ_HANDLE]]

(* Writing a node that none points to changes no list but its own.         *)
LEMMA Rewrite ==
  ASSUME NEW pool \in Pools, NEW new \in Pools, NEW p \in Nodes,
         \A n \in Nodes : pool[n].next # p /\ new[n].next # p,
         \A n \in Nodes : n # p => new[n] = pool[n],
         NEW f, Chains(pool, f)
  PROVE  \E g : Chains(new, g) /\ \A n \in 0 .. NR_IRQ_HANDLE : n # p => g[n] = f[n]
<1> DEFINE All == 0 .. NR_IRQ_HANDLE
           g == [n \in All |-> IF n = p THEN <<new[p].routine>> \o f[new[p].next] ELSE f[n]]
<1>1. p \in All /\ p # NULL /\ All = Nodes \cup {NULL}
  BY HandlerAssumption DEF Nodes, NULL
<1>2. \A n \in Nodes : pool[n].next \in All /\ new[n].next \in All
  BY DEF Pools
<1>3. \A n \in All : f[n] = IF n = NULL THEN <<>> ELSE <<pool[n].routine>> \o f[pool[n].next]
  BY DEF Chains
<1>4. \A n \in All : n # p => g[n] = f[n]
  OBVIOUS
<1>5. \A n \in All : g[n] = IF n = NULL THEN <<>> ELSE <<new[n].routine>> \o g[new[n].next]
  <2> SUFFICES ASSUME NEW n \in All
               PROVE  g[n] = IF n = NULL THEN <<>> ELSE <<new[n].routine>> \o g[new[n].next]
    OBVIOUS
  <2>1. CASE n = NULL
    BY <1>1, <1>3, <1>4, <2>1
  <2>2. CASE n = p
    <3>1. g[new[p].next] = f[new[p].next]
      BY <1>2, <1>4
    <3>2. g[p] = <<new[p].routine>> \o f[new[p].next]
      BY <1>1
    <3>3. QED
      BY <1>1, <2>2, <3>1, <3>2
  <2>3. CASE n # NULL /\ n # p
    <3>1. n \in Nodes /\ new[n] = pool[n] /\ g[n] = f[n]
      BY <1>1, <1>4, <2>3
    <3>2. g[pool[n].next] = f[pool[n].next]
      BY <1>2, <1>4, <3>1
    <3>3. f[n] = <<pool[n].routine>> \o f[pool[n].next]
      BY <1>3, <2>3
    <3>4. QED
      BY <2>3, <3>1, <3>2, <3>3
  <2>4. QED
    BY <2>1, <2>2, <2>3
<1>6. Chains(new, g)
  <2>1. g = [n \in All |-> g[n]]
    OBVIOUS
  <2> HIDE DEF g
  <2>2. g = [n \in All |-> IF n = NULL THEN <<>> ELSE <<new[n].routine>> \o g[new[n].next]]
    BY <1>5, <2>1
  <2>3. QED
    BY <2>2 DEF Chains
<1>7. QED
  BY <1>4, <1>6

(* The stores of add_irq_handle into a node leave every list as it is.     *)
LEMMA RewriteKeeps ==
  ASSUME StageInv, CountInv, ChainInv, Adding, handle_pool' \in Pools,
         \A n \in Nodes : handle_pool'[n].next \in Pointers,
         \A n \in Nodes : n # ptr => handle_pool'[n] = handle_pool[n]
  PROVE  /\ \E f : Chains(handle_pool', f)
         /\ \A f : Chains(handle_pool', f) => \A n \in Irqs : f[handles[n]] = installed[n]
<1>1. ptr \in Nodes /\ ptr \notin Pointers /\ Pointers \subseteq 0 .. NR_IRQ_HANDLE
  BY Room, HandlerAssumption DEF Pointers, NULL
<1>2. \A n \in Nodes : handle_pool[n].next # ptr /\ handle_pool'[n].next # ptr
  BY <1>1 DEF ChainInv
<1>3. handle_pool \in Pools
  BY DEF ChainInv, Pools
<1>4. \E f : Chains(handle_pool', f)
  <2>1. PICK f : Chains(handle_pool, f)
    BY DEF ChainInv
  <2>2. QED
    BY <1>1, <1>2, <1>3, <2>1, Rewrite
<1>5. ASSUME NEW f, Chains(handle_pool', f), NEW n \in Irqs
      PROVE  f[handles[n]] = installed[n]
  <2>1. PICK g : /\ Chains(handle_pool, g)
                 /\ \A m \in 0 .. NR_IRQ_HANDLE : m # ptr => g[m] = f[m]
    BY <1>1, <1>2, <1>3, <1>5, Rewrite
  <2>2. g[handles[n]] = installed[n] /\ handles[n] \in Pointers
    BY <2>1, <1>5 DEF ChainInv
  <2>3. QED
    BY <1>1, <2>1, <2>2
<1>6. QED
  BY <1>4, <1>5

(* The interrupt routine of irq_handle calls what was installed.           *)
LEMMA ChainsAreRead == ASSUME ChainInv PROVE HandlersAreChained
<1>1. Chains(handle_pool, RoutinesFrom)
  BY Zenon DEF ChainInv, Chains, RoutinesFrom
<1>2. QED
  BY <1>1 DEF ChainInv, HandlersAreChained, irq_handle

(* What the stores of add_irq_handle leave alone.                          *)
LEMMA KernelUntouched ==
  ASSUME DiskTypes, FileInv, StageInv, ReadInv, CommandInv, IrqInv, EntriesHold, MemoryInv,
         UNCHANGED <<disk_vars, files, kernel>>
  PROVE  /\ DiskTypes' /\ FileInv' /\ StageInv' /\ ReadInv' /\ CommandInv' /\ IrqInv'
         /\ EntriesHold' /\ MemoryInv'
<1>1. /\ UNCHANGED <<cache, port, position, byte_cnt, irq, has_ide_intr, pc, k>>
      /\ UNCHANGED <<at, upto, buf, stage, memory, call, IFlag, files>>
  BY DEF disk_vars, device, loop, kernel
<1>2. want' = want
  BY <1>1 DEF want
<1>3. DiskTypes' /\ FileInv' /\ StageInv'
  BY <1>1 DEF DiskTypes, FileInv, StageInv, size
<1>4. ReadInv'
  BY <1>1 DEF ReadInv, Reading, Segment, OnDisk, Clipped, size
<1>5. CommandInv' /\ IrqInv' /\ EntriesHold' /\ MemoryInv'
  BY <1>1, <1>2 DEF CommandInv, Named, IrqInv, EntriesHold, MemoryInv
<1>6. QED
  BY <1>3, <1>4, <1>5

(* Every store of add_irq_handle.                                           *)
LEMMA AddKeeps ==
  ASSUME IInv, Add
  PROVE  IInv'
<1> USE DEF IInv
<1>1. AddStep /\ UNCHANGED <<disk_vars, files, result, kernel>>
  BY DEF Add
<1>2. UNCHANGED <<stage, IFlag>>
  BY <1>1 DEF kernel
<1>3. CASE AddRoutine
  <2>1. /\ adding.at = "routine" /\ Adding
        /\ handle_pool' = [handle_pool EXCEPT ![ptr].routine = adding.routine]
        /\ adding' = [adding EXCEPT !.at = "next"]
        /\ UNCHANGED <<handles, handle_count, installed>>
    BY <1>3 DEF AddRoutine, Adding
  <2>2. /\ UNCHANGED <<Linked, Pointers, ptr, Done>> /\ Adding' /\ adding'.at = "next"
        /\ adding'.irq = adding.irq /\ adding'.routine = adding.routine
    BY <2>1 DEF Adding, Linked, Pointers, ptr, Done, Installed, CountInv
  <2>3. ptr \in Nodes
    BY <2>1, Room
  <2>4. /\ handle_pool' \in Pools /\ handle_pool'[ptr].routine = adding.routine
        /\ \A n \in Nodes : handle_pool'[n].next = handle_pool[n].next
        /\ \A n \in Nodes : n # ptr => handle_pool'[n] = handle_pool[n]
    BY <2>1, <2>3 DEF ChainInv, Pools, CountInv
  <2>5. ChainInv'
    <3>1. \A n \in Nodes : handle_pool'[n].next \in Pointers
      BY <2>4 DEF ChainInv
    <3>2. /\ \E f : Chains(handle_pool', f)
          /\ \A f : Chains(handle_pool', f) => \A n \in Irqs : f[handles[n]] = installed[n]
      BY <2>1, <2>4, <3>1, RewriteKeeps
    <3>3. \A f : Chains(handle_pool', f) => \A n \in Irqs : f[handles'[n]] = installed'[n]
      BY <2>1, <3>2
    <3>4. /\ handle_pool' \in Pools /\ handles' \in [Irqs -> Pointers']
          /\ \A n \in Nodes : handle_pool'[n].next \in Pointers'
          /\ handle_pool'[ptr'].routine = adding'.routine /\ adding'.at # "head"
      BY <2>1, <2>2, <2>4, <3>1 DEF ChainInv
    <3>5. QED
      BY <3>2, <3>3, <3>4 DEF ChainInv, Pools
  <2>6. CountInv'
    BY <1>2, <2>1, <2>2 DEF CountInv
  <2>7. QED
    BY <1>1, <2>5, <2>6, KernelUntouched
<1>4. CASE AddNext
  <2>1. /\ adding.at = "next" /\ Adding
        /\ handle_pool' = [handle_pool EXCEPT ![ptr].next = handles[adding.irq]]
        /\ adding' = [adding EXCEPT !.at = "head"]
        /\ UNCHANGED <<handles, handle_count, installed>>
    BY <1>4 DEF AddNext, Adding
  <2>2. /\ UNCHANGED <<Linked, Pointers, ptr, Done>> /\ Adding' /\ adding'.at = "head"
        /\ adding'.irq = adding.irq /\ adding'.routine = adding.routine
    BY <2>1 DEF Adding, Linked, Pointers, ptr, Done, Installed, CountInv
  <2>3. ptr \in Nodes /\ handles[adding.irq] \in Pointers
    BY <2>1, Room DEF ChainInv, CountInv
  <2>4. Pointers \subseteq 0 .. NR_IRQ_HANDLE
    BY Room, HandlerAssumption DEF Pointers, NULL
  <2>5. /\ handle_pool' \in Pools /\ handle_pool'[ptr].next = handles[adding.irq]
        /\ \A n \in Nodes : handle_pool'[n].routine = handle_pool[n].routine
        /\ \A n \in Nodes : n # ptr => handle_pool'[n] = handle_pool[n]
    BY <2>1, <2>3, <2>4 DEF ChainInv, Pools
  <2>6. ChainInv'
    <3>1. \A n \in Nodes : handle_pool'[n].next \in Pointers
      BY <2>3, <2>5 DEF ChainInv
    <3>2. /\ \E f : Chains(handle_pool', f)
          /\ \A f : Chains(handle_pool', f) => \A n \in Irqs : f[handles[n]] = installed[n]
      BY <2>1, <2>5, <3>1, RewriteKeeps
    <3>3. handle_pool'[ptr].routine = adding.routine
      BY <2>1, <2>3, <2>5 DEF ChainInv
    <3>4. \A f : Chains(handle_pool', f) => \A n \in Irqs : f[handles'[n]] = installed'[n]
      BY <2>1, <3>2
    <3>5. /\ handle_pool' \in Pools /\ handles' \in [Irqs -> Pointers']
          /\ \A n \in Nodes : handle_pool'[n].next \in Pointers'
          /\ handle_pool'[ptr'].routine = adding'.routine
          /\ handle_pool'[ptr'].next = handles'[adding'.irq]
      BY <2>1, <2>2, <2>5, <3>1, <3>3 DEF ChainInv
    <3>6. QED
      BY <3>2, <3>4, <3>5 DEF ChainInv, Pools
  <2>7. CountInv'
    BY <1>2, <2>1, <2>2 DEF CountInv
  <2>8. QED
    BY <1>1, <2>6, <2>7, KernelUntouched
<1>5. CASE AddHead
  <2> DEFINE q == adding.irq
  <2>1. /\ adding.at = "head" /\ Adding /\ q \in Irqs /\ adding.routine \in Routines
        /\ handles' = [handles EXCEPT ![q] = ptr]
        /\ installed' = [installed EXCEPT ![q] = <<adding.routine>> \o @]
        /\ adding' = NotAdding /\ UNCHANGED <<handle_pool, handle_count>>
    BY <1>5 DEF AddHead, Adding, CountInv
  <2>2. ptr \in Nodes /\ ptr = Linked /\ ptr \in Nat /\ ptr = handle_count - 1
    BY <2>1, Room DEF ptr
  <2>3. ~Adding' /\ Linked' = handle_count /\ Pointers' = Pointers \cup {ptr}
    BY <2>1, <2>2 DEF Adding, NotAdding, Linked, Pointers, CountInv
  <2>4. installed[q] \in Seq(Routines)
    BY <2>1 DEF CountInv
  <2>5. /\ installed' \in [Irqs -> Seq(Routines)]
        /\ installed'[q] = <<adding.routine>> \o installed[q]
        /\ \A n \in Irqs : n # q => installed'[n] = installed[n]
    BY <2>1, <2>4 DEF CountInv
  <2>6. ChainInv'
    <3>1. ASSUME NEW f, Chains(handle_pool, f), NEW n \in Irqs
          PROVE  f[handles'[n]] = installed'[n]
      <4>1. CASE n = q
        <5>1. f[ptr] = <<handle_pool[ptr].routine>> \o f[handle_pool[ptr].next]
          <6>1. ptr \in 0 .. NR_IRQ_HANDLE /\ ptr # NULL
            BY <2>2, HandlerAssumption DEF Nodes, NULL
          <6>2. \A m \in 0 .. NR_IRQ_HANDLE :
                  f[m] = IF m = NULL THEN <<>>
                         ELSE <<handle_pool[m].routine>> \o f[handle_pool[m].next]
            BY <3>1 DEF Chains
          <6>3. QED
            BY <6>1, <6>2
        <5>2. f[ptr] = <<adding.routine>> \o installed[q]
          BY <3>1, <2>1, <5>1 DEF ChainInv
        <5>3. QED
          BY <2>1, <2>5, <4>1, <5>2 DEF ChainInv
      <4>2. CASE n # q
        BY <3>1, <2>1, <2>5, <4>2 DEF ChainInv
      <4>3. QED
        BY <4>1, <4>2
    <3>2. handles' \in [Irqs -> Pointers']
      BY <2>1, <2>3 DEF ChainInv
    <3>3. QED
      BY <2>1, <2>3, <3>1, <3>2 DEF ChainInv, NotAdding
  <2>7. CountInv'
    <3>1. \A n \in Irqs : \A j \in 1 .. Len(installed'[n]) :
            installed'[n][j] = "ide_intr" => n = 14
      BY <2>1, <2>4, <2>5 DEF CountInv
    <3>2. Done \subseteq Done' /\ \A g \in Guest : g.irq = q /\ g.routine = adding.routine => g \in Done'
      <4>1. ASSUME NEW g \in Guest, g.irq = q, g.routine = adding.routine  PROVE Installed(g)'
        BY <2>4, <2>5, <4>1 DEF Installed
      <4>2. ASSUME NEW g \in Guest, Installed(g)  PROVE Installed(g)'
        <5>1. g.irq \in Irqs
          BY KernelAssumption
        <5>2. PICK j \in 1 .. Len(installed[g.irq]) : installed[g.irq][j] = g.routine
          BY <4>2 DEF Installed
        <5>3. CASE g.irq = q
          <6>1. j + 1 \in 1 .. Len(installed'[q]) /\ installed'[q][j + 1] = g.routine
            BY <2>4, <2>5, <5>2, <5>3
          <6>2. QED
            BY <5>3, <6>1 DEF Installed
        <5>4. QED
          BY <2>5, <5>1, <5>2, <5>3 DEF Installed
      <4>3. QED
        BY <4>1, <4>2 DEF Done
    <3>3. /\ IsFiniteSet(Done) /\ IsFiniteSet(Done') /\ Cardinality(Done) \in Nat
          /\ Cardinality(Done') \in Nat
      BY DoneIsFinite, KernelAssumption, FS_Subset, FS_CardinalityType DEF Done
    <3>4. stage = "added" => handle_count <= 2 + Cardinality(Done')
      <4> SUFFICES ASSUME stage = "added" PROVE handle_count <= 2 + Cardinality(Done')
        OBVIOUS
      <4>1. PICK g \in Guest \ Done : g.irq = q /\ g.routine = adding.routine
        BY <2>1 DEF CountInv
      <4>2. Done \subseteq Done' /\ Done # Done'
        BY <3>2, <4>1
      <4>3. Cardinality(Done) < Cardinality(Done')
        BY <3>3, <4>2, FS_Subset
      <4>4. QED
        BY <2>1, <3>3, <4>3 DEF CountInv
    <3>5. adding' \in [at : {"none", "routine", "next", "head"}, irq : Irqs, routine : Routines]
      <4>1. 0 \in Irqs
        BY DEF Irqs
      <4>2. "none" \in Routines
        BY DEF Routines
      <4>3. QED
        BY <2>1, <4>1, <4>2 DEF NotAdding
    <3>6. /\ UNCHANGED <<stage, handle_count>> /\ stage \in {"add_ide", "header", "added"}
          /\ handle_count \in Nat
      BY <1>2, <2>1 DEF CountInv
    <3>7. /\ stage = "add_ide" => handle_count = 1
          /\ stage = "header" => handle_count = 2
      BY DEF CountInv
    <3>8. QED
      BY <2>3, <2>5, <3>1, <3>4, <3>5, <3>6, <3>7 DEF CountInv
  <2>8. QED
    BY <1>1, <2>6, <2>7, KernelUntouched
<1>6. QED
  BY <1>1, <1>3, <1>4, <1>5 DEF AddStep

-----------------------------------------------------------------------------
(* What a step of the kernel that is not one of the driver leaves alone.   *)
LEMMA DiskUntouched ==
  ASSUME DiskTypes, CommandInv, IrqInv, EntriesHold, UNCHANGED disk_vars
  PROVE  DiskTypes' /\ CommandInv' /\ IrqInv' /\ EntriesHold'
<1>1. UNCHANGED <<cache, port, position, byte_cnt, irq, has_ide_intr, pc, k, at, upto, buf>>
  BY DEF disk_vars, device, loop
<1>2. want' = want
  BY <1>1 DEF want
<1>3. QED
  BY <1>1, <1>2 DEF DiskTypes, CommandInv, Named, IrqInv, EntriesHold

(* A step that leaves the pool alone keeps what is said of its lists.       *)
LEMMA ChainsUntouched ==
  ASSUME ChainInv, UNCHANGED handler_vars
  PROVE  /\ ChainInv' /\ UNCHANGED <<Adding, Done>>
         /\ UNCHANGED <<handle_pool, handles, handle_count, adding, installed>>
<1>1. UNCHANGED <<handle_pool, handles, handle_count, adding, installed>>
  BY DEF handler_vars
<1>2. UNCHANGED <<Adding, Linked, Pointers, ptr, Done>>
  BY <1>1 DEF Adding, Linked, Pointers, ptr, Done, Installed
<1>3. QED
  BY <1>1, <1>2 DEF ChainInv

(* The driver is at rest outside of the loader and of read.                *)
LEMMA AtRest ==
  ASSUME IInv, stage \notin {"loader", "segment", "read"}
  PROVE  pc = "idle" /\ buf = <<>>
BY DEF IInv, StageInv, ReadInv

(* ide_read is entered for bytes below the wrap of the offsets.             *)
LEMMA ReadStarts ==
  ASSUME IInv, NEW o \in Nat, NEW l \in Nat, o + l <= Wrap, ide_read(o, l)
  PROVE  /\ DiskTypes' /\ CommandInv' /\ IrqInv' /\ EntriesHold'
         /\ Reading(o, l)' /\ pc' # "idle"
<1> USE DEF IInv
<1>1. /\ pc = "idle" /\ pc' = (IF l = 0 THEN "done" ELSE "fetch")
      /\ at' = o /\ upto' = o + l /\ o + l \in Nat
      /\ UNCHANGED <<cache, port, position, byte_cnt, irq, has_ide_intr, k, buf>>
  BY DEF ide_read, device
<1>2. DiskTypes'
  BY <1>1 DEF DiskTypes, Pc
<1>3. CommandInv' /\ IrqInv' /\ EntriesHold'
  BY <1>1 DEF CommandInv, IrqInv, EntriesHold
<1>4. buf' = Bytes(o, o - o)
  BY <1>1 DEF ReadInv, Bytes
<1>5. Reading(o, l)' /\ pc' # "idle"
  BY <1>1, <1>4 DEF Reading
<1>6. QED
  BY <1>2, <1>3, <1>5

(* And left with the driver idle again.                                     *)
LEMMA ReadIsTaken ==
  ASSUME IInv, Taken
  PROVE  DiskTypes' /\ CommandInv' /\ IrqInv' /\ EntriesHold' /\ pc' = "idle" /\ buf' = <<>>
<1>1. /\ pc = "done" /\ pc' = "idle" /\ buf' = <<>> /\ at' = 0 /\ upto' = 0
      /\ UNCHANGED <<cache, port, position, byte_cnt, irq, has_ide_intr, k>>
  BY DEF Taken, device
<1>2. DiskTypes'
  BY <1>1 DEF IInv, DiskTypes, Pc
<1>3. CommandInv' /\ IrqInv' /\ EntriesHold'
  BY <1>1 DEF IInv, CommandInv, IrqInv, EntriesHold
<1>4. QED
  BY <1>1, <1>2, <1>3

(* The first store of add_irq_handle takes a node that none points to.     *)
LEMMA TakeKeeps ==
  ASSUME CountInv, ChainInv, NEW n \in Irqs, NEW r \in Routines, AddTake(n, r)
  PROVE  /\ ChainInv' /\ ~Adding /\ Adding' /\ UNCHANGED <<installed, Done>>
         /\ handle_count' = handle_count + 1 /\ handle_count \in Nat
         /\ adding' = [at |-> "routine", irq |-> n, routine |-> r]
<1>1. /\ adding.at = "none" /\ handle_count' = handle_count + 1 /\ handle_count \in Nat
      /\ adding' = [at |-> "routine", irq |-> n, routine |-> r]
      /\ UNCHANGED <<handle_pool, handles, installed>>
  BY DEF AddTake, CountInv
<1>2. ~Adding /\ Adding' /\ adding'.at = "routine"
  BY <1>1 DEF Adding
<1>3. Linked' = Linked /\ Done' = Done
  BY <1>1, <1>2 DEF Linked, Done, Installed
<1>4. Pointers' = Pointers
  BY <1>3 DEF Pointers
<1>5. ChainInv'
  BY <1>1, <1>2, <1>4 DEF ChainInv
<1>6. QED
  BY <1>1, <1>2, <1>3, <1>5
-----------------------------------------------------------------------------
(* init_idt, cache_init and the handlers that start-up adds.                *)
LEMMA StartKeeps ==
  ASSUME IInv, init_idt \/ cache_init \/ AddTimer \/ AddIde
  PROVE  IInv'
<1> USE DEF IInv
<1>1. CASE init_idt
  <2>1. /\ stage = "init_idt" /\ IFlag' = TRUE /\ stage' = "cache_init"
        /\ UNCHANGED <<disk_vars, files, handler_vars, memory, call>>
    BY <1>1 DEF init_idt
  <2>2. pc = "idle" /\ buf = <<>> /\ UNCHANGED <<pc, buf>>
    BY <2>1, AtRest DEF disk_vars, loop
  <2>3. FileInv' /\ StageInv' /\ ReadInv' /\ MemoryInv'
    BY <2>1, <2>2 DEF FileInv, StageInv, Stages, ReadInv, MemoryInv, size
  <2>4. CountInv'
    BY <2>1, ChainsUntouched DEF CountInv
  <2>5. QED
    BY <2>1, <2>3, <2>4, DiskUntouched, ChainsUntouched
<1>2. CASE cache_init
  <2>1. /\ stage = "cache_init" /\ stage' = "add_timer"
        /\ cache' = [c \in Slots |-> [cache[c] EXCEPT !.used = FALSE]]
        /\ UNCHANGED <<port, position, byte_cnt, irq, has_ide_intr, pc, k, at, upto, buf>>
        /\ UNCHANGED <<files, handler_vars, IFlag, memory, call>>
    BY <1>2 DEF cache_init, device, loop
  <2>2. pc = "idle" /\ buf = <<>>
    BY <2>1, AtRest
  <2>3. DiskTypes'
    BY <2>1 DEF DiskTypes
  <2>8. \A c \in Slots : ~cache'[c].used
    BY <2>1 DEF DiskTypes
  <2>4. CommandInv' /\ IrqInv' /\ EntriesHold'
    BY <2>1, <2>2, <2>8 DEF CommandInv, IrqInv, EntriesHold
  <2>5. FileInv' /\ StageInv' /\ ReadInv' /\ MemoryInv'
    BY <2>1, <2>2 DEF FileInv, StageInv, Stages, ReadInv, MemoryInv, size
  <2>6. CountInv'
    BY <2>1, ChainsUntouched DEF CountInv
  <2>7. QED
    BY <2>1, <2>3, <2>4, <2>5, <2>6, ChainsUntouched
<1>3. CASE AddTimer
  <2>1. /\ stage = "add_timer" /\ AddTake(0, "ide_writeback") /\ stage' = "add_ide"
        /\ UNCHANGED <<disk_vars, files, memory, call, IFlag>>
    BY <1>3 DEF AddTimer, Installs
  <2>2. pc = "idle" /\ buf = <<>> /\ UNCHANGED <<pc, buf>>
    BY <2>1, AtRest DEF disk_vars, loop
  <2>3. FileInv' /\ StageInv' /\ ReadInv' /\ MemoryInv'
    BY <2>1, <2>2 DEF FileInv, StageInv, Stages, ReadInv, MemoryInv, size
  <2>4. 0 \in Irqs /\ "ide_writeback" \in Routines
    BY DEF Irqs, Routines
  <2>5. ChainInv' /\ CountInv'
    BY <2>1, <2>4, TakeKeeps DEF CountInv
  <2>6. QED
    BY <2>1, <2>3, <2>5, DiskUntouched
<1>4. CASE AddIde
  <2>1. /\ stage = "add_ide" /\ AddTake(14, "ide_intr") /\ stage' = "header"
        /\ UNCHANGED <<disk_vars, files, memory, call, IFlag>>
    BY <1>4 DEF AddIde, Installs
  <2>2. pc = "idle" /\ buf = <<>> /\ UNCHANGED <<pc, buf>>
    BY <2>1, AtRest DEF disk_vars, loop
  <2>3. FileInv' /\ StageInv' /\ ReadInv' /\ MemoryInv'
    BY <2>1, <2>2 DEF FileInv, StageInv, Stages, ReadInv, MemoryInv, size
  <2>4. 14 \in Irqs /\ "ide_intr" \in Routines
    BY DEF Irqs, Routines
  <2>5. ChainInv' /\ CountInv'
    BY <2>1, <2>4, TakeKeeps DEF CountInv
  <2>6. QED
    BY <2>1, <2>3, <2>5, DiskUntouched
<1>5. QED
  BY <1>1, <1>2, <1>3, <1>4

(* Every step of the loader.                                                *)
LEMMA LoaderKeeps ==
  ASSUME IInv, LoadHeader \/ HeaderRead \/ LoadSegment \/ SegmentRead \/ StartProgram
  PROVE  IInv'
<1> USE DEF IInv
<1>1. CASE LoadHeader
  <2>1. /\ stage = "header" /\ ~Adding /\ ide_read(0, Header) /\ stage' = "loader"
        /\ UNCHANGED <<files, handler_vars, IFlag, memory, call>>
    BY <1>1 DEF LoadHeader, Adding
  <2>2. /\ DiskTypes' /\ CommandInv' /\ IrqInv' /\ EntriesHold'
        /\ Reading(0, Header)' /\ pc' # "idle"
    BY <2>1, ReadStarts, KernelAssumption
  <2>3. FileInv' /\ StageInv' /\ ReadInv' /\ MemoryInv'
    BY <2>1, <2>2 DEF FileInv, StageInv, Stages, ReadInv, MemoryInv, size
  <2>4. CountInv'
    BY <2>1, ChainsUntouched, DoneIsFinite DEF CountInv
  <2>5. QED
    BY <2>1, <2>2, <2>3, <2>4, ChainsUntouched
<1>2. CASE HeaderRead
  <2>1. /\ stage = "loader" /\ Taken /\ stage' = "segment"
        /\ UNCHANGED <<files, handler_vars, IFlag, memory, call>>
    BY <1>2 DEF HeaderRead
  <2>2. FileInv' /\ StageInv' /\ ReadInv' /\ MemoryInv'
    BY <2>1, ReadIsTaken DEF FileInv, StageInv, Stages, ReadInv, MemoryInv, size
  <2>3. CountInv'
    BY <2>1, ChainsUntouched DEF CountInv
  <2>4. QED
    BY <2>1, <2>2, <2>3, ReadIsTaken, ChainsUntouched
<1>3. CASE LoadSegment
  <2>1. /\ stage = "segment" /\ Len(memory) < Len(Segments)
        /\ ide_read(Segment.offset, Segment.filesz)
        /\ UNCHANGED <<files, handler_vars, stage, IFlag, memory, call>>
    BY <1>3 DEF LoadSegment, kernel
  <2>2. /\ Segment.offset \in Nat /\ Segment.filesz \in Nat
        /\ Segment.offset + Segment.filesz <= Wrap /\ Segment' = Segment
    <3>1. Len(memory) + 1 \in 1 .. Len(Segments)
      BY <2>1, KernelAssumption DEF MemoryInv
    <3>2. Segments[Len(memory) + 1] \in [offset : Nat, filesz : Nat, memsz : Nat]
      <4>1. Segments \in Seq([offset : Nat, filesz : Nat, memsz : Nat])
        BY KernelAssumption
      <4>2. QED
        BY <3>1, <4>1, ElementOfSeq
    <3>3. Segment.offset + Segment.filesz <= Wrap
      BY <3>1, KernelAssumption DEF Segment
    <3>4. QED
      BY <2>1, <3>2, <3>3 DEF Segment
  <2>3. PICK o \in Nat, l \in Nat : o = Segment.offset /\ l = Segment.filesz
    BY <2>2
  <2>4. /\ DiskTypes' /\ CommandInv' /\ IrqInv' /\ EntriesHold'
        /\ Reading(o, l)' /\ pc' # "idle"
    BY <2>1, <2>2, <2>3, ReadStarts
  <2>5. FileInv' /\ StageInv' /\ ReadInv' /\ MemoryInv'
    BY <2>1, <2>2, <2>3, <2>4 DEF FileInv, StageInv, Stages, ReadInv, MemoryInv, size
  <2>6. CountInv'
    BY <2>1, ChainsUntouched DEF CountInv
  <2>7. QED
    BY <2>1, <2>4, <2>5, <2>6, ChainsUntouched
<1>4. CASE SegmentRead
  <2> DEFINE m == Len(memory) + 1
             All == {Content(s) : s \in 1 .. Len(Segments)}
  <2>1. /\ stage = "segment" /\ Taken /\ pc = "done"
        /\ memory' = Append(memory, buf \o Zeros(Segment.memsz - Segment.filesz))
        /\ UNCHANGED <<files, handler_vars, IFlag, stage, call>>
    BY <1>4 DEF SegmentRead, Taken
  <2>2. /\ memory \in Seq(All) /\ Len(memory) \in Nat /\ Len(memory) < Len(Segments)
        /\ Len(Segments) \in Nat /\ m \in 1 .. Len(Segments)
    BY <2>1, KernelAssumption DEF MemoryInv, ReadInv
  <2>3. buf = Bytes(Segment.offset, Segment.filesz)
    <3>1. Reading(Segment.offset, Segment.filesz) /\ at = upto
      BY <2>1 DEF ReadInv, Reading
    <3>2. PICK o \in Nat, l \in Nat : o = Segment.offset /\ l = Segment.filesz
      BY <3>1 DEF Reading
    <3>3. (o + l) - o = l
      OBVIOUS
    <3>4. QED
      BY <3>1, <3>2, <3>3 DEF Reading
  <2>4. memory' = Append(memory, Content(m)) /\ Content(m) \in All
    BY <2>1, <2>2, <2>3 DEF Content, Segment
  <2> HIDE DEF m, All
  <2>5. /\ memory' \in Seq(All) /\ Len(memory') = Len(memory) + 1
        /\ \A s \in 1 .. Len(memory) : memory'[s] = memory[s]
        /\ memory'[Len(memory) + 1] = Content(m)
    BY <2>2, <2>4
  <2>6. MemoryInv'
    <3>1. \A s \in 1 .. Len(memory') : memory'[s] = Content(s)
      BY <2>2, <2>5 DEF MemoryInv, m
    <3>2. memory' \in Seq({Content(s) : s \in 1 .. Len(Segments)})
      BY <2>5, Zenon DEF All
    <3>3. Len(memory') <= Len(Segments)
      BY <2>2, <2>5
    <3>4. QED
      BY <2>1, <3>1, <3>2, <3>3, Zenon DEF MemoryInv
  <2>7. FileInv' /\ StageInv' /\ ReadInv'
    BY <2>1, ReadIsTaken DEF FileInv, StageInv, Stages, ReadInv, size
  <2>8. CountInv'
    BY <2>1, ChainsUntouched DEF CountInv
  <2>9. QED
    BY <2>1, <2>6, <2>7, <2>8, ReadIsTaken, ChainsUntouched
<1>5. CASE StartProgram
  <2>1. /\ stage = "segment" /\ Len(memory) = Len(Segments) /\ stage' = "program"
        /\ UNCHANGED <<disk_vars, files, handler_vars, IFlag, memory, call>>
    BY <1>5 DEF StartProgram
  <2>2. pc = "idle" /\ buf = <<>> /\ UNCHANGED <<pc, buf>>
    BY <2>1, KernelAssumption DEF ReadInv, disk_vars, loop
  <2>3. FileInv' /\ StageInv' /\ ReadInv' /\ MemoryInv'
    BY <2>1, <2>2 DEF FileInv, StageInv, Stages, ReadInv, MemoryInv, size
  <2>4. CountInv'
    BY <2>1, ChainsUntouched DEF CountInv
  <2>5. QED
    BY <2>1, <2>3, <2>4, DiskUntouched, ChainsUntouched
<1>6. QED
  BY <1>1, <1>2, <1>3, <1>4, <1>5
-----------------------------------------------------------------------------
(* What a read of an open file brings: the bytes from its offset, as many  *)
(* as are asked for and left.  No sum wraps.                               *)
LEMMA ReadIsInFile ==
  ASSUME FileInv, NEW fd \in Fds, NEW len \in Lens
  PROVE  /\ size(fd) \in Nat /\ files[fd].offset \in Nat /\ DiskOffset[fd - 3] \in Nat
         /\ len \in Nat /\ Clipped(fd, len) \in Nat
         /\ Clipped(fd, len) = IF len < size(fd) - files[fd].offset
                               THEN len ELSE size(fd) - files[fd].offset
         /\ OnDisk(fd) = DiskOffset[fd - 3] + files[fd].offset
         /\ files[fd].offset + Clipped(fd, len) <= size(fd)
         /\ U(files[fd].offset + Clipped(fd, len)) = files[fd].offset + Clipped(fd, len)
         /\ OnDisk(fd) \in Nat /\ OnDisk(fd) + Clipped(fd, len) <= Wrap
<1> DEFINE o == files[fd].offset
           s == size(fd)
           d == DiskOffset[fd - 3]
<1>1. fd - 3 \in Files /\ Wrap \in Nat \ {0}
  BY FileAssumption DEF Fds, Files
<1>2. s \in Nat /\ s < Wrap /\ d \in Nat /\ s + d < Wrap /\ len \in Nat /\ len + s < Wrap
  BY <1>1, FileAssumption DEF size
<1>3. o \in Nat /\ o <= s
  BY DEF FileInv
<1> HIDE DEF o, s, d
<1>4. \A x \in Nat : x < Wrap => U(x) = x
  BY <1>1 DEF U
<1>5. U(o + len) = o + len /\ U(s - o) = s - o /\ U(o + d) = o + d
  BY <1>1, <1>2, <1>3, <1>4
<1>6. Clipped(fd, len) = IF o + len > s THEN s - o ELSE len
  BY <1>5 DEF Clipped, o, s
<1>7. OnDisk(fd) = o + d
  BY <1>5 DEF OnDisk, o, d
<1>8. Clipped(fd, len) \in Nat /\ o + Clipped(fd, len) <= s
  BY <1>2, <1>3, <1>6
<1>9. U(o + Clipped(fd, len)) = o + Clipped(fd, len)
  <2>1. o + Clipped(fd, len) \in Nat /\ o + Clipped(fd, len) < Wrap
    BY <1>1, <1>2, <1>3, <1>8
  <2>2. QED
    BY <1>4, <2>1
<1>10. /\ Clipped(fd, len) = IF len < s - o THEN len ELSE s - o
       /\ OnDisk(fd) = d + o /\ OnDisk(fd) \in Nat
       /\ OnDisk(fd) + Clipped(fd, len) <= Wrap
  BY <1>1, <1>2, <1>3, <1>6, <1>7, <1>8
<1>11. QED
  BY <1>2, <1>3, <1>8, <1>9, <1>10 DEF o, s, d

(* A seek ends at a byte of the file, wherever it aims.                    *)
LEMMA SeekIsInFile ==
  ASSUME FileInv, NEW fd \in Fds, NEW offset \in Seeks, NEW whence \in Whences
  PROVE  /\ Clamp(fd, Target(fd, offset, whence)) \in Nat
         /\ Clamp(fd, Target(fd, offset, whence)) <= size(fd)
<1>1. fd - 3 \in Files /\ Wrap \in Nat \ {0} /\ offset \in Int
  BY FileAssumption DEF Fds, Files
<1>2. size(fd) \in Nat /\ size(fd) > 0 /\ files[fd].offset \in Nat
  BY <1>1, FileAssumption DEF size, FileInv
<1>3. \A x \in Int : U(x) \in Nat
  BY <1>1 DEF U
<1>4. Target(fd, offset, whence) \in Nat
  BY <1>1, <1>2, <1>3 DEF Target, Whences
<1>5. QED
  BY <1>2, <1>4 DEF Clamp

(* The system calls that only change the table of files.                   *)
LEMMA FilesMove ==
  ASSUME IInv, Calls, FileInv'
  PROVE  IInv'
<1> USE DEF IInv
<1>1. /\ stage = "program" /\ UNCHANGED <<disk_vars, handler_vars>>
      /\ UNCHANGED <<IFlag, stage, memory, call>>
  BY DEF Calls, Program, kernel
<1>2. pc = "idle" /\ buf = <<>> /\ UNCHANGED <<pc, buf>>
  BY <1>1, AtRest DEF disk_vars, loop
<1>3. StageInv' /\ ReadInv' /\ MemoryInv'
  BY <1>1, <1>2 DEF StageInv, Stages, ReadInv, MemoryInv
<1>4. CountInv'
  BY <1>1, ChainsUntouched DEF CountInv
<1>5. QED
  BY <1>1, <1>3, <1>4, DiskUntouched, ChainsUntouched

(* Every system call of the program, and its cli and sti.                   *)
LEMMA CallKeeps ==
  ASSUME IInv, do_syscall \/ sys_read_ends \/ SysAddEnds \/ Cli \/ Sti
  PROVE  IInv'
<1> USE DEF IInv
<1>1. Calls => UNCHANGED call
  BY DEF Calls, kernel
<1>2. CASE sys_open
  <2>1. PICK fd \in Fds : fs_open(fd) \/ fails
    BY <1>2 DEF sys_open
  <2>2. size(fd) \in Nat
    BY FileAssumption DEF size, Fds, Files
  <2>3. FileInv'
    <3>1. \/ UNCHANGED files
          \/ files' = [files EXCEPT ![fd] = [used |-> TRUE, offset |-> 0]]
      BY <2>1 DEF fs_open, fails
    <3>2. UNCHANGED <<stage, call>>
      BY <1>2 DEF sys_open, Calls, kernel
    <3>3. /\ files' \in [Fds -> [used : BOOLEAN, offset : Nat]]
          /\ \A f \in Fds : files'[f].offset <= size(f)
      <4> DEFINE new == [used |-> TRUE, offset |-> 0]
      <4>1. new \in [used : BOOLEAN, offset : Nat] /\ new.offset = 0
        OBVIOUS
      <4> HIDE DEF new
      <4>2. UNCHANGED files \/ files' = [files EXCEPT ![fd] = new]
        BY <3>1 DEF new
      <4>3. QED
        BY <2>2, <4>1, <4>2 DEF FileInv
    <3>4. QED
      BY <3>2, <3>3 DEF FileInv, size
  <2>4. QED
    BY <1>2, <2>3, FilesMove DEF sys_open
<1>3. CASE sys_close
  <2>1. PICK fd \in Fds : fs_close(fd)
    BY <1>3 DEF sys_close
  <2>2. size(fd) \in Nat
    BY FileAssumption DEF size, Fds, Files
  <2>3. FileInv'
    <3>1. \/ UNCHANGED files
          \/ files' = [files EXCEPT ![fd] = [used |-> FALSE, offset |-> 0]]
      BY <2>1 DEF fs_close, fails
    <3>2. UNCHANGED <<stage, call>>
      BY <1>3 DEF sys_close, Calls, kernel
    <3>3. /\ files' \in [Fds -> [used : BOOLEAN, offset : Nat]]
          /\ \A f \in Fds : files'[f].offset <= size(f)
      <4> DEFINE new == [used |-> FALSE, offset |-> 0]
      <4>1. new \in [used : BOOLEAN, offset : Nat] /\ new.offset = 0
        OBVIOUS
      <4> HIDE DEF new
      <4>2. UNCHANGED files \/ files' = [files EXCEPT ![fd] = new]
        BY <3>1 DEF new
      <4>3. QED
        BY <2>2, <4>1, <4>2 DEF FileInv
    <3>4. QED
      BY <3>2, <3>3 DEF FileInv, size
  <2>4. QED
    BY <1>3, <2>3, FilesMove DEF sys_close
<1>4. CASE sys_read_empty
  <2>1. UNCHANGED files /\ Calls
    BY <1>4 DEF sys_read_empty, fails
  <2>2. FileInv'
    BY <1>1, <2>1 DEF Calls, kernel, FileInv, size
  <2>3. QED
    BY <2>1, <2>2, FilesMove
<1>5. CASE \E fd \in Fds, offset \in Seeks, whence \in Whences : sys_lseek(fd, offset, whence)
  <2>1. PICK fd \in Fds, offset \in Seeks, whence \in Whences : sys_lseek(fd, offset, whence)
    BY <1>5
  <2>2. /\ Clamp(fd, Target(fd, offset, whence)) \in Nat
        /\ Clamp(fd, Target(fd, offset, whence)) <= size(fd)
    BY SeekIsInFile
  <2>3. FileInv'
    <3>1. \/ UNCHANGED files
          \/ files' = [files EXCEPT ![fd].offset = Clamp(fd, Target(fd, offset, whence))]
      BY <2>1 DEF sys_lseek, fs_lseek, fails
    <3>2. Calls /\ UNCHANGED <<stage, call>>
      BY <2>1 DEF sys_lseek, Calls, kernel
    <3>3. /\ files' \in [Fds -> [used : BOOLEAN, offset : Nat]]
          /\ \A f \in Fds : files'[f].offset <= size(f)
      BY <2>2, <3>1 DEF FileInv
    <3>4. QED
      BY <3>2, <3>3 DEF FileInv, size
  <2>4. QED
    BY <2>1, <2>3, FilesMove DEF sys_lseek
<1>6. CASE sys_read
  <2>1. PICK fd \in Fds, len \in Lens :
          /\ call' = [fd |-> fd, len |-> len]
          /\ ide_read(OnDisk(fd), Clipped(fd, len))
    BY <1>6 DEF sys_read
  <2>2. /\ stage = "program" /\ stage' = "read"
        /\ UNCHANGED <<files, handler_vars, IFlag, memory>>
    BY <1>6 DEF sys_read, Program
  <2>3. /\ OnDisk(fd) \in Nat /\ Clipped(fd, len) \in Nat
        /\ OnDisk(fd) + Clipped(fd, len) <= Wrap
    BY ReadIsInFile
  <2>4. PICK o \in Nat, l \in Nat : o = OnDisk(fd) /\ l = Clipped(fd, len)
    BY <2>3
  <2>5. /\ DiskTypes' /\ CommandInv' /\ IrqInv' /\ EntriesHold'
        /\ Reading(o, l)' /\ pc' # "idle"
    BY <2>1, <2>3, <2>4, ReadStarts
  <2>6. call'.fd = fd /\ call'.len = len
    BY <2>1
  <2>7. o = OnDisk(call.fd)' /\ l = Clipped(call.fd, call.len)'
    BY <2>2, <2>4, <2>6 DEF OnDisk, Clipped, size
  <2>8. ReadInv'
    BY <2>2, <2>5, <2>7 DEF ReadInv
  <2>9. FileInv' /\ StageInv' /\ MemoryInv'
    BY <2>2, <2>5, <2>6 DEF FileInv, StageInv, Stages, MemoryInv, size
  <2>10. CountInv'
    BY <2>2, ChainsUntouched DEF CountInv
  <2>11. QED
    BY <2>2, <2>5, <2>8, <2>9, <2>10, ChainsUntouched
<1>7. CASE sys_read_ends
  <2>1. /\ stage = "read" /\ Taken /\ stage' = "program" /\ call' = NoCall
        /\ fs_read_ends(call.fd, Clipped(call.fd, call.len))
        /\ UNCHANGED <<handler_vars, IFlag, memory>>
    BY <1>7 DEF sys_read_ends
  <2>2. PICK fd \in Fds, len \in Lens : fd = call.fd /\ len = call.len
    BY <2>1 DEF FileInv
  <2>3. files' = [files EXCEPT ![fd].offset = files[fd].offset + Clipped(fd, len)]
    BY <2>1, <2>2, ReadIsInFile DEF fs_read_ends
  <2>4. FileInv'
    <3>1. 3 \in Fds
      BY FileAssumption DEF Fds
    <3>2. /\ files[fd].offset + Clipped(fd, len) \in Nat
          /\ files[fd].offset + Clipped(fd, len) <= size(fd)
      BY ReadIsInFile
    <3>3. /\ files' \in [Fds -> [used : BOOLEAN, offset : Nat]]
          /\ \A f \in Fds : files'[f].offset <= size(f)
      BY <2>3, <3>2 DEF FileInv
    <3>4. QED
      BY <2>1, <3>1, <3>3 DEF FileInv, NoCall, size
  <2>5. StageInv' /\ ReadInv' /\ MemoryInv'
    BY <2>1, ReadIsTaken DEF StageInv, Stages, ReadInv, MemoryInv
  <2>6. CountInv'
    BY <2>1, ChainsUntouched DEF CountInv
  <2>7. QED
    BY <2>1, <2>4, <2>5, <2>6, ReadIsTaken, ChainsUntouched
<1>8. CASE SysAdd
  <2>1. PICK g \in Guest :
          /\ \A i \in 1 .. Len(installed[g.irq]) : installed[g.irq][i] # g.routine
          /\ stage = "program" /\ AddTake(g.irq, g.routine) /\ stage' = "added"
          /\ UNCHANGED <<disk_vars, files, memory, call>> /\ IFlag' = FALSE
    BY <1>8 DEF SysAdd, Installs
  <2>2. pc = "idle" /\ buf = <<>> /\ UNCHANGED <<pc, buf>>
    BY <2>1, AtRest DEF disk_vars, loop
  <2>3. FileInv' /\ StageInv' /\ ReadInv' /\ MemoryInv'
    BY <2>1, <2>2 DEF FileInv, StageInv, Stages, ReadInv, MemoryInv, size
  <2>4. g.irq \in Irqs /\ g.routine \in Routines /\ g.routine # "ide_intr"
    BY KernelAssumption DEF Routines
  <2>5. g \in Guest \ Done
    BY <2>1 DEF Done, Installed
  <2>6. /\ ChainInv' /\ Adding' /\ UNCHANGED <<installed, Done>>
        /\ handle_count' = handle_count + 1 /\ handle_count \in Nat
        /\ adding' = [at |-> "routine", irq |-> g.irq, routine |-> g.routine]
        /\ handle_count <= 2 + Cardinality(Done)
    BY <2>1, <2>4, TakeKeeps DEF CountInv
  <2>7. CountInv'
    <3>1. handle_count' <= 3 + Cardinality(Done') /\ handle_count' \in Nat
      BY <2>6, DoneIsFinite
    <3>2. \E h \in Guest \ Done' : h.irq = adding'.irq /\ h.routine = adding'.routine
      BY <2>5, <2>6
    <3>3. QED
      BY <2>1, <2>4, <2>6, <3>1, <3>2 DEF CountInv
  <2>8. QED
    BY <2>1, <2>3, <2>6, <2>7, DiskUntouched
<1>9. CASE SysAddEnds \/ Cli \/ Sti
  <2>1. /\ \/ stage = "added" /\ ~Adding /\ IFlag' = TRUE /\ stage' = "program"
           \/ stage = "program" /\ IFlag' = FALSE /\ stage' = "keys"
           \/ stage = "keys" /\ IFlag' = TRUE /\ stage' = "program"
        /\ UNCHANGED <<disk_vars, files, handler_vars, memory, call>>
    BY <1>9 DEF SysAddEnds, Cli, Sti, Program, Adding
  <2>2. pc = "idle" /\ buf = <<>> /\ UNCHANGED <<pc, buf>>
    BY <2>1, AtRest DEF disk_vars, loop
  <2>3. FileInv' /\ StageInv' /\ ReadInv' /\ MemoryInv'
    BY <2>1, <2>2 DEF FileInv, StageInv, Stages, ReadInv, MemoryInv, size
  <2>4. CountInv'
    BY <2>1, ChainsUntouched DEF CountInv
  <2>5. QED
    BY <2>1, <2>3, <2>4, DiskUntouched, ChainsUntouched
<1>10. QED
  BY <1>2, <1>3, <1>4, <1>5, <1>6, <1>7, <1>8, <1>9 DEF do_syscall
-----------------------------------------------------------------------------
(* Only the interrupt of the disk finds ide_intr in its list.              *)
LEMMA WhoseIntr ==
  ASSUME CountInv, ChainInv, NEW n \in Irqs,
         NEW i \in 1 .. Len(irq_handle(n)), irq_handle(n)[i] = "ide_intr"
  PROVE  n = 14
<1>1. irq_handle(n) = installed[n]
  BY ChainsAreRead DEF HandlersAreChained
<1>2. QED
  BY <1>1 DEF CountInv

(* An interrupt, and the end of a hlt by it.                                *)
LEMMA InterruptKeeps ==
  ASSUME IInv, TimerIntr \/ KeyIntr \/ IdeIntr
  PROVE  IInv'
<1> USE DEF IInv
<1>1. /\ IFlag /\ pc' = (IF pc = "hlt" THEN "wait" ELSE pc)
      /\ UNCHANGED <<cache, port, position, byte_cnt, k, at, upto, buf, files, handler_vars>>
      /\ UNCHANGED <<IFlag, stage, memory, call>>
  BY DEF TimerIntr, KeyIntr, IdeIntr, Interrupt, Wakes, device, loop, kernel
<1>2. \/ UNCHANGED <<irq, has_ide_intr>>
      \/ irq /\ irq' = FALSE /\ has_ide_intr' \in {has_ide_intr, 1}
  <2>1. CASE TimerIntr \/ KeyIntr
    <3>1. PICK n \in {0, 1} : Interrupt(n) /\ UNCHANGED irq
      BY <2>1 DEF TimerIntr, KeyIntr
    <3>2. ~\E i \in 1 .. Len(irq_handle(n)) : irq_handle(n)[i] = "ide_intr"
      BY WhoseIntr DEF Irqs
    <3>3. UNCHANGED has_ide_intr
      BY <3>1, <3>2 DEF Interrupt
    <3>4. QED
      BY <3>1, <3>3
  <2>2. CASE IdeIntr
    BY <2>2 DEF IdeIntr, Interrupt, ide_intr
  <2>3. QED
    BY <2>1, <2>2
<1>3. want' = want
  BY <1>1 DEF want
<1>4. DiskTypes'
  BY <1>1, <1>2 DEF DiskTypes, Pc
<1>5. FileInv' /\ StageInv'
  BY <1>1 DEF FileInv, StageInv, size
<1>6. ReadInv'
  BY <1>1 DEF ReadInv, Reading, Segment, OnDisk, Clipped, size
<1>7. CommandInv'
  BY <1>1, <1>3 DEF CommandInv, Named
<1>8. IrqInv'
  BY <1>1, <1>2 DEF IrqInv, DiskTypes
<1>9. EntriesHold' /\ MemoryInv'
  BY <1>1, <1>3 DEF EntriesHold, MemoryInv
<1>10. CountInv'
  BY <1>1, ChainsUntouched DEF CountInv
<1>11. QED
  BY <1>1, <1>4, <1>5, <1>6, <1>7, <1>8, <1>9, <1>10, ChainsUntouched

(* The kernel when it is entered.                                           *)
LEMMA InitHolds == ASSUME Init PROVE IInv
<1> USE DEF Init
<1>1. DiskTypes
  <2>1. \A w \in 0 .. Words - 1 : Nowhere \in Int
    BY DEF Nowhere
  <2>2. QED
    BY <2>1 DEF DiskInit, DiskTypes, EmptyEntry, Pc
<1>2. FileInv
  BY FileAssumption DEF FileInit, FileInv, NoCall, Fds, Files, size
<1>3. StageInv /\ ReadInv /\ CommandInv /\ IrqInv
  <2>1. pc = "idle" /\ buf = <<>> /\ irq = FALSE /\ has_ide_intr = 0
    BY DEF DiskInit
  <2>2. StageInv /\ ReadInv
    BY <2>1 DEF StageInv, Stages, ReadInv
  <2>3. CommandInv /\ IrqInv
    BY <2>1 DEF CommandInv, IrqInv
  <2>4. QED
    BY <2>2, <2>3
<1>4. EntriesHold
  BY DEF DiskInit, EntriesHold, EmptyEntry
<1>5. MemoryInv
  BY KernelAssumption DEF MemoryInv
<1>6. /\ adding = NotAdding /\ handle_count = 0 /\ installed = [n \in Irqs |-> <<>>]
      /\ handle_pool = [n \in Nodes |-> [routine |-> "none", next |-> NULL]]
      /\ handles = [n \in Irqs |-> NULL] /\ stage = "init_idt"
  BY DEF HandlersInit
<1>7. ~Adding /\ "none" \in Routines /\ 0 \in Irqs /\ NULL \in 0 .. NR_IRQ_HANDLE
  BY <1>6, HandlerAssumption DEF Adding, NotAdding, Routines, Irqs, NULL
<1>8. CountInv
  BY <1>6, <1>7 DEF CountInv, NotAdding
<1>9. ChainInv
  <2> DEFINE All == 0 .. NR_IRQ_HANDLE
             none == [n \in All |-> IF n = NULL THEN <<>> ELSE <<"none">>]
  <2>1. NULL \in All /\ NULL \in Pointers /\ \A n \in All : n # NULL => n \in Nodes
    BY <1>7, HandlerAssumption DEF Pointers, Nodes, NULL
  <2>2. \A n \in All : none[n] = IF n = NULL THEN <<>>
                                 ELSE <<handle_pool[n].routine>> \o none[handle_pool[n].next]
    <3>1. \A n \in Nodes : handle_pool[n].routine = "none" /\ handle_pool[n].next = NULL
      BY <1>6
    <3>2. none[NULL] = <<>> /\ \A n \in All : n # NULL => none[n] = <<"none">>
      BY <2>1
    <3>3. <<"none">> \o <<>> = <<"none">>
      OBVIOUS
    <3>4. QED
      BY <2>1, <3>1, <3>2, <3>3
  <2>3. none = [n \in All |-> none[n]]
    OBVIOUS
  <2> HIDE DEF none
  <2>4. Chains(handle_pool, none)
    <3>1. none = [n \in All |-> IF n = NULL THEN <<>>
                     ELSE <<handle_pool[n].routine>> \o none[handle_pool[n].next]]
      BY <2>2, <2>3
    <3>2. QED
      BY <3>1 DEF Chains
  <2>5. ASSUME NEW f, Chains(handle_pool, f), NEW n \in Irqs
        PROVE  f[handles[n]] = installed[n]
    BY <1>6, <2>1, <2>5 DEF Chains
  <2>6. /\ handle_pool \in [Nodes -> [routine : Routines, next : 0 .. NR_IRQ_HANDLE]]
        /\ handles \in [Irqs -> Pointers] /\ \A n \in Nodes : handle_pool[n].next \in Pointers
        /\ adding.at = "none"
    BY <1>6, <1>7, <2>1 DEF NotAdding
  <2>7. QED
    BY <2>4, <2>5, <2>6 DEF ChainInv
<1>10. QED
  BY <1>1, <1>2, <1>3, <1>4, <1>5, <1>8, <1>9 DEF IInv

(* Every step of kernel, program and devices.                               *)
LEMMA NextKeeps == IInv /\ [Next]_vars => IInv'
<1> SUFFICES ASSUME IInv, [Next]_vars PROVE IInv'
  OBVIOUS
<1>1. CASE init_idt \/ cache_init \/ AddTimer \/ AddIde
  BY <1>1, StartKeeps
<1>2. CASE LoadHeader \/ HeaderRead \/ LoadSegment \/ SegmentRead \/ StartProgram
  BY <1>2, LoaderKeeps
<1>3. CASE Disk
  BY <1>3, DiskKeeps
<1>4. CASE Add
  BY <1>4, AddKeeps
<1>5. CASE do_syscall \/ sys_read_ends \/ SysAddEnds \/ Cli \/ Sti
  BY <1>5, CallKeeps
<1>6. CASE TimerIntr \/ KeyIntr \/ IdeIntr
  BY <1>6, InterruptKeeps
<1>7. CASE UNCHANGED vars
  <2>1. UNCHANGED <<disk_vars, files, handler_vars, IFlag, stage, memory, call>>
    BY <1>7 DEF vars
  <2>2. CountInv'
    BY <2>1, ChainsUntouched DEF IInv, CountInv
  <2>3. QED
    BY <2>1, <2>2, KernelUntouched, ChainsUntouched DEF IInv, kernel
<1>8. QED
  BY <1>1, <1>2, <1>3, <1>4, <1>5, <1>6, <1>7 DEF Next, Ongoing

(* The kernel never leaves the inductive invariant.                        *)
THEOREM Invariance == Spec => []IInv
BY InitHolds, NextKeeps, PTL DEF Spec
-----------------------------------------------------------------------------
(* Whatever sectors share an entry of the cache (cache.c), an entry that   *)
(* is not being replaced holds the sector it names.                        *)
THEOREM CacheHolds == Spec => []EntriesHold
<1>1. IInv => EntriesHold
  BY DEF IInv
<1>2. QED
  BY <1>1, Invariance, PTL

(* The kernel takes the words of a sector after the interrupt of its own   *)
(* command and of no other, at any point that an interrupt may come        *)
(* between the test of has_ide_intr and the hlt (disk.c disk_do_read).     *)
THEOREM CommandsAreAnswered == Spec => []AnsweredFirst
<1>1. IInv => AnsweredFirst
  BY DEF IInv, IrqInv, DiskTypes, AnsweredFirst
<1>2. QED
  BY <1>1, Invariance, PTL

(* An interrupt between any two stores of add_irq_handle calls what is     *)
(* installed, and the pool is long enough for the program's handlers.      *)
THEOREM ListsStayWhole == Spec => []HandlersAreChained
<1>1. IInv => HandlersAreChained
  BY ChainsAreRead DEF IInv
<1>2. QED
  BY <1>1, Invariance, PTL

(* The kernel halts with interrupts on only: wait_intr is called for the   *)
(* loader and for read, and IF is off around no call of theirs.            *)
THEOREM WakesUp == Spec => []HaltsInterruptible
<1>1. IInv => HaltsInterruptible
  BY DEF IInv, StageInv, HaltsInterruptible
<1>2. QED
  BY <1>1, Invariance, PTL

(* The program starts with its segments in memory as the headers of the    *)
(* image name them (elf.c loader), whatever interrupts came meanwhile.     *)
THEOREM LoaderIsRight == Spec => []ProgramIsLoaded
<1>1. IInv => ProgramIsLoaded
  BY DEF IInv, MemoryInv, Content, ProgramIsLoaded
<1>2. QED
  BY <1>1, Invariance, PTL

-----------------------------------------------------------------------------
(* The variables of PlainFiles, as Kernel keeps them.                      *)
plainVars == <<files, result, memory, Request, Brought>>

(* A read that is under way has something to bring.                        *)
AskedInv == stage = "read" => Clipped(call.fd, call.len) # 0

(* The byte that is missing last ends a read, and then all are there.      *)
LEMMA ReadIsWhole ==
  ASSUME NEW o, NEW l, Reading(o, l), pc = "done"
  PROVE  buf = Bytes(o, l) /\ o \in Nat /\ l \in Nat
<1>1. o \in Nat /\ l \in Nat /\ at = o + l /\ buf = Bytes(o, at - o)
  BY DEF Reading
<1>2. (o + l) - o = l
  BY <1>1
<1>3. QED
  BY <1>1, <1>2

(* Apart from the call of fs_read, a step of the kernel either leaves the  *)
(* files and the call alone, or does not leave the program inside fs_read. *)
LEMMA OthersDoNotAsk ==
  ASSUME [Next]_vars, ~sys_read
  PROVE  UNCHANGED <<files, stage, call>> \/ stage' # "read"
<1> USE DEF kernel
<1>1. CASE UNCHANGED vars \/ Disk \/ Add \/ SysAddEnds \/ Sti \/ Cli
  BY <1>1 DEF vars, Disk, Add, SysAddEnds, Sti, Cli
<1>2. CASE TimerIntr \/ KeyIntr \/ IdeIntr
  BY <1>2 DEF TimerIntr, KeyIntr, IdeIntr, Interrupt
<1>3. CASE init_idt \/ cache_init \/ AddTimer \/ AddIde
  BY <1>3 DEF init_idt, cache_init, AddTimer, AddIde, Installs
<1>4. CASE LoadHeader \/ HeaderRead \/ SegmentRead \/ LoadSegment \/ StartProgram
  BY <1>4 DEF LoadHeader, HeaderRead, SegmentRead, LoadSegment, StartProgram
<1>5. CASE do_syscall \/ sys_read_ends
  BY <1>5 DEF do_syscall, sys_open, sys_close, sys_read_empty, SysAdd, Installs, sys_lseek,
              Calls, Program, sys_read_ends
<1> QED
  BY <1>5, <1>4, <1>3, <1>2, <1>1 DEF Next, Ongoing

(* fs_read calls ide_read only when something is left, and no other call   *)
(* moves the offset of the file meanwhile.                                 *)
LEMMA AskedKeeps ==
  ASSUME IInv, AskedInv, [Next]_vars
  PROVE  AskedInv'
<1>1. CASE sys_read
  <2>1. PICK fd \in Fds, len \in Lens :
          Clipped(fd, len) # 0 /\ call' = [fd |-> fd, len |-> len]
    BY <1>1 DEF sys_read
  <2>2. call'.fd = fd /\ call'.len = len /\ UNCHANGED files
    BY <1>1, <2>1 DEF sys_read
  <2>3. QED
    BY <2>1, <2>2 DEF AskedInv, Clipped, size
<1>2. CASE UNCHANGED <<files, stage, call>>
  BY <1>2 DEF AskedInv, Clipped, size
<1>3. CASE stage' # "read"
  BY <1>3 DEF AskedInv
<1>4. QED
  BY <1>1, <1>2, <1>3, OthersDoNotAsk

(* Start-up, the handlers, cli, sti and the interrupts are not seen.       *)
LEMMA KernelIsUnseen ==
  ASSUME IInv,
         \/ init_idt \/ cache_init \/ AddTimer \/ AddIde \/ LoadHeader \/ HeaderRead
         \/ LoadSegment \/ StartProgram \/ Add \/ SysAdd \/ SysAddEnds \/ Cli \/ Sti
         \/ TimerIntr \/ KeyIntr \/ IdeIntr
  PROVE  UNCHANGED plainVars
<1> USE DEF plainVars, Request, Brought, kernel
<1>1. CASE init_idt \/ cache_init \/ AddTimer \/ AddIde
  BY <1>1 DEF init_idt, cache_init, AddTimer, AddIde, Installs
<1>2. CASE LoadHeader \/ HeaderRead \/ LoadSegment \/ StartProgram
  BY <1>2 DEF LoadHeader, HeaderRead, LoadSegment, StartProgram
<1>3. CASE Add
  BY <1>3 DEF Add, disk_vars, loop
<1>4. CASE SysAdd \/ SysAddEnds \/ Cli \/ Sti
  BY <1>4 DEF SysAdd, Installs, SysAddEnds, Cli, Sti, Program
<1>5. CASE TimerIntr \/ KeyIntr \/ IdeIntr
  BY <1>5 DEF TimerIntr, KeyIntr, IdeIntr, Interrupt, Wakes, loop
<1>6. QED
  BY <1>1, <1>2, <1>3, <1>4, <1>5

(* A segment is loaded when its last byte is taken.                        *)
LEMMA SegmentIsLoaded ==
  ASSUME IInv, SegmentRead
  PROVE  Plain!Load
<1>1. /\ stage = "segment" /\ pc = "done"
      /\ memory' = Append(memory, buf \o Zeros(Segment.memsz - Segment.filesz))
      /\ UNCHANGED <<files, result, stage, call>>
  BY DEF SegmentRead, Taken
<1>2. Len(memory) < Len(Segments) /\ Reading(Segment.offset, Segment.filesz)
  BY <1>1 DEF IInv, ReadInv
<1>3. buf = Bytes(Segment.offset, Segment.filesz)
  BY <1>1, <1>2, ReadIsWhole
<1>4. UNCHANGED <<Request, Brought>>
  BY <1>1 DEF Request, Brought
<1>5. QED
  BY <1>1, <1>2, <1>3, <1>4 DEF Plain!Load, Plain!DiskBytes, Bytes, Zeros, Segment

(* Of ide_read, with its misses, commands and waits, the last byte is the  *)
(* step that brings.                                                       *)
LEMMA DiskBrings ==
  ASSUME IInv, IInv', AskedInv, Disk
  PROVE  Plain!Bring \/ UNCHANGED plainVars
<1>1. UNCHANGED <<files, result, stage, memory, call>> /\ DiskStep
  BY DEF Disk, kernel
<1>2. CASE stage # "read" \/ pc' # "done"
  <2>1. stage = "read" => pc # "done"
    BY <1>1 DEF DiskStep, FetchHit, FetchMiss, Clear, WaitDisk, OutAddr, IssueRead,
                WaitTest, Halt, WaitClear, InData, Tag
  <2>2. QED
    BY <1>1, <1>2, <2>1 DEF plainVars, Request, Brought
<1>3. CASE stage = "read" /\ pc' = "done"
  <2>1. pc = "fetch"
    BY <1>1, <1>3 DEF DiskStep, FetchHit, FetchMiss, Clear, WaitDisk, OutAddr, IssueRead,
                      WaitTest, Halt, WaitClear, InData, Tag
  <2>2. PICK fd \in Fds, len \in Lens : fd = call.fd /\ len = call.len
    BY <1>3 DEF IInv, FileInv
  <2>3. /\ Clipped(fd, len) \in Nat \ {0} /\ len \in Nat
        /\ Clipped(fd, len) = IF len < size(fd) - files[fd].offset
                              THEN len ELSE size(fd) - files[fd].offset
        /\ OnDisk(fd) = DiskOffset[fd - 3] + files[fd].offset
    BY <1>3, <2>2, ReadIsInFile DEF IInv, AskedInv
  <2>4. call # NoCall
    <3>1. len # 0
      BY <2>3, ReadIsInFile DEF IInv
    <3>2. QED
      BY <2>2, <3>1 DEF NoCall
  <2>5. buf' = Bytes(OnDisk(fd), Clipped(fd, len))
    <3>1. Reading(OnDisk(call.fd), Clipped(call.fd, call.len))'
      BY <1>1, <1>3 DEF IInv, ReadInv
    <3>2. /\ OnDisk(call.fd)' = OnDisk(fd)
          /\ Clipped(call.fd, call.len)' = Clipped(fd, len)
      BY <1>1, <2>2 DEF OnDisk, Clipped, size
    <3>3. PICK o \in Nat, l \in Nat : o = OnDisk(fd) /\ l = Clipped(fd, len)
      BY <2>3, <3>1, <3>2 DEF Reading
    <3>4. at' = o + l /\ buf' = Bytes(o, at' - o)
      BY <1>3, <3>1, <3>2, <3>3 DEF Reading, Bytes
    <3>5. (o + l) - o = l
      OBVIOUS
    <3>6. QED
      BY <3>3, <3>4, <3>5
  <2>6. /\ Request = call /\ Request' = Request /\ Brought = <<>> /\ Brought' = buf'
    BY <1>1, <1>3, <2>1 DEF Request, Brought
  <2>7. Plain!Count(fd, len) = Clipped(fd, len)
    BY <2>3 DEF Plain!Count, Plain!Left, size
  <2>8. QED
    BY <1>1, <2>2, <2>3, <2>4, <2>5, <2>6, <2>7
       DEF Plain!Bring, Plain!NoRequest, Plain!DiskBytes, NoCall, Bytes
<1>4. QED
  BY <1>2, <1>3

(* What a sum of uint32_t that left the numbers below Wrap becomes.        *)
LEMMA Wrapped ==
  ASSUME NEW x \in Int, -Wrap <= x, x < Wrap
  PROVE  U(x) = IF x >= 0 THEN x ELSE x + Wrap
<1>1. Wrap \in Nat /\ Wrap > 0
  BY FileAssumption
<1>2. CASE x >= 0
  BY <1>1, <1>2 DEF U
<1>3. CASE x < 0
  <2>1. \A n \in Nat \ {0}, y \in Int : -n <= y /\ y < 0 => y % n = y + n
    OBVIOUS
  <2>2. QED
    BY <1>1, <1>3, <2>1 DEF U
<1>4. QED
  BY <1>2, <1>3

(* A seek goes where arithmetic says, or to the last byte: an offset that  *)
(* wrapped is past the end of the file.                                    *)
LEMMA SeekIsPlain ==
  ASSUME FileInv, NEW fd \in Fds, NEW offset \in Seeks, NEW whence \in Whences
  PROVE  Clamp(fd, Target(fd, offset, whence)) =
           LET sum == Plain!From(fd, whence) + offset
           IN IF sum \in 0 .. Size[fd - 3] - 1 THEN sum ELSE Size[fd - 3] - 1
<1> DEFINE from == Plain!From(fd, whence)
           s == Size[fd - 3]
<1>1. fd - 3 \in Files /\ Wrap \in Nat /\ offset \in Int /\ size(fd) = s
  BY FileAssumption DEF Fds, Files, size
<1>2. s \in Nat /\ s > 0 /\ s < Wrap /\ files[fd].offset \in Nat /\ files[fd].offset <= s
  BY <1>1, FileAssumption DEF FileInv
<1>3. s - Wrap <= offset /\ offset + s < Wrap
  BY <1>1, SeekAssumption
<1>4. from \in Nat /\ from <= s
  BY <1>2 DEF Plain!From, Whences
<1>5. Target(fd, offset, whence) = U(from + offset)
  BY <1>1, <1>2 DEF Target, Plain!From, Whences
<1> HIDE DEF from, s
<1>6. U(from + offset) = IF from + offset >= 0 THEN from + offset ELSE from + offset + Wrap
  <2>1. from + offset \in Int /\ -Wrap <= from + offset /\ from + offset < Wrap
    BY <1>1, <1>2, <1>3, <1>4
  <2>2. QED
    BY <2>1, Wrapped
<1>7. Clamp(fd, Target(fd, offset, whence)) =
        IF from + offset \in 0 .. s - 1 THEN from + offset ELSE s - 1
  BY <1>1, <1>2, <1>3, <1>4, <1>5, <1>6 DEF Clamp
<1>8. QED
  BY <1>7 DEF from, s

(* The calls that come back at once.                                       *)
LEMMA CallsAreAnswered ==
  ASSUME IInv, do_syscall, ~SysAdd
  PROVE  Plain!Call
<1>1. stage = "program" /\ memory' = memory
  BY DEF do_syscall, sys_open, sys_close, sys_read_empty, sys_read, sys_lseek, SysAdd,
         Calls, Program, kernel
<1>2. Plain!Running
  BY <1>1 DEF Plain!Running, Plain!NoRequest, Request, NoCall, IInv, MemoryInv
<1>3. Calls => UNCHANGED <<memory, Request, Brought>>
  BY DEF Calls, kernel, disk_vars, loop, Request, Brought
<1>4. Calls /\ fails => Plain!Fail
  BY <1>3 DEF fails, Plain!Fail, Plain!Answer
<1>5. CASE sys_open
  <2>1. PICK fd \in Fds : fs_open(fd) \/ fails
    BY <1>5 DEF sys_open
  <2>2. CASE fs_open(fd)
    <3>1. Plain!Open(fd) /\ fd \in Plain!Fds
      BY <1>5, <1>3, <2>2 DEF sys_open, fs_open, Plain!Open, Plain!Answer, Plain!Fds, Fds
    <3>2. QED
      BY <1>2, <3>1 DEF Plain!Call
  <2>3. QED
    BY <1>2, <1>4, <1>5, <2>1, <2>2 DEF sys_open, Plain!Call
<1>6. CASE sys_close
  <2>1. PICK fd \in Fds : fs_close(fd)
    BY <1>6 DEF sys_close
  <2>2. CASE files[fd].used
    <3>1. Plain!Close(fd) /\ fd \in Plain!Fds
      BY <1>6, <1>3, <2>1, <2>2
         DEF sys_close, fs_close, Plain!Close, Plain!Closed, Plain!Answer, Plain!Fds, Fds
    <3>2. QED
      BY <1>2, <3>1 DEF Plain!Call
  <2>3. CASE ~files[fd].used
    BY <1>2, <1>4, <1>6, <2>1, <2>3 DEF sys_close, fs_close, Plain!Call
  <2>4. QED
    BY <2>2, <2>3
<1>7. CASE sys_read_empty
  <2>1. PICK fd \in Fds, len \in Lens :
          IF files[fd].used THEN Clipped(fd, len) = 0 /\ result' = 0 /\ UNCHANGED files
                            ELSE fails
    BY <1>7 DEF sys_read_empty
  <2>2. CASE files[fd].used
    <3>1. Plain!Count(fd, len) = 0
      BY <2>1, <2>2, ReadIsInFile DEF IInv, Plain!Count, Plain!Left, size
    <3>2. Plain!ReadNothing(fd) /\ fd \in Plain!Fds
      BY <1>7, <1>3, <2>1, <2>2, <3>1
         DEF sys_read_empty, Plain!ReadNothing, Plain!Answer, Plain!Fds, Fds
    <3>3. QED
      BY <1>2, <3>2 DEF Plain!Call
  <2>3. CASE ~files[fd].used
    BY <1>2, <1>4, <1>7, <2>1, <2>3 DEF sys_read_empty, Plain!Call
  <2>4. QED
    BY <2>2, <2>3
<1>8. CASE sys_read
  <2>1. PICK fd \in Fds, len \in Lens :
          /\ files[fd].used /\ Clipped(fd, len) # 0
          /\ call' = [fd |-> fd, len |-> len]
          /\ ide_read(OnDisk(fd), Clipped(fd, len))
    BY <1>8 DEF sys_read
  <2>2. Plain!Count(fd, len) > 0
    BY <2>1, ReadIsInFile DEF IInv, Plain!Count, Plain!Left, size
  <2>3. stage' = "read" /\ UNCHANGED <<files, result, memory>> /\ buf' = buf
    BY <1>8, <2>1 DEF sys_read, ide_read
  <2>4. buf = <<>>
    BY <1>1, AtRest
  <2>5. Request' = [fd |-> fd, len |-> len] /\ UNCHANGED Brought
    BY <1>1, <2>1, <2>3, <2>4 DEF Request, Brought
  <2>6. Plain!Read(fd) /\ fd \in Plain!Fds
    BY <2>1, <2>2, <2>3, <2>5 DEF Plain!Read, Plain!Fds, Fds
  <2>7. QED
    BY <1>2, <2>6 DEF Plain!Call
<1>9. CASE \E fd \in Fds, offset \in Seeks, whence \in Whences : sys_lseek(fd, offset, whence)
  <2>1. PICK fd \in Fds, offset \in Seeks, whence \in Whences : sys_lseek(fd, offset, whence)
    BY <1>9
  <2>2. CASE files[fd].used
    <3> DEFINE to == Clamp(fd, Target(fd, offset, whence))
    <3>1. to = LET sum == Plain!From(fd, whence) + offset
               IN IF sum \in 0 .. Size[fd - 3] - 1 THEN sum ELSE Size[fd - 3] - 1
      BY SeekIsPlain DEF IInv
    <3>2. files' = [files EXCEPT ![fd].offset = to] /\ result' = files'[fd].offset
      BY <2>1, <2>2 DEF sys_lseek, fs_lseek
    <3> HIDE DEF to
    <3>3. result' = to
      BY <3>2 DEF IInv, FileInv
    <3>4. Plain!Seek(fd, offset, whence) /\ fd \in Plain!Fds
      BY <1>3, <2>1, <2>2, <3>1, <3>2, <3>3
         DEF sys_lseek, Plain!Seek, Plain!Answer, Plain!Fds, Fds
    <3>5. QED
      BY <1>2, <3>4 DEF Plain!Call, Whences
  <2>3. CASE ~files[fd].used
    BY <1>2, <1>4, <2>1, <2>3 DEF sys_lseek, fs_lseek, Plain!Call
  <2>4. QED
    BY <2>2, <2>3
<1>10. QED
  BY <1>5, <1>6, <1>7, <1>8, <1>9 DEF do_syscall

(* A read brings the bytes of its file from the offset, as many as are     *)
(* asked for or left, and the next one goes on behind them (fs.c fs_read). *)
LEMMA ReadsGoOn ==
  ASSUME IInv, AskedInv, sys_read_ends
  PROVE  Plain!Return
<1>1. /\ stage = "read" /\ pc = "done" /\ pc' = "idle" /\ stage' = "program"
      /\ fs_read_ends(call.fd, Clipped(call.fd, call.len)) /\ memory' = memory
  BY DEF sys_read_ends, Taken
<1>2. PICK fd \in Fds, len \in Lens : fd = call.fd /\ len = call.len
  BY <1>1 DEF IInv, FileInv
<1>3. /\ Clipped(fd, len) \in Nat \ {0}
      /\ U(files[fd].offset + Clipped(fd, len)) = files[fd].offset + Clipped(fd, len)
  BY <1>1, <1>2, ReadIsInFile DEF IInv, AskedInv
<1>4. buf = Bytes(OnDisk(fd), Clipped(fd, len))
  BY <1>1, <1>2, ReadIsWhole DEF IInv, ReadInv
<1>5. buf # <<>> /\ Len(buf) = Clipped(fd, len)
  <2>1. PICK o, l \in Nat : o = OnDisk(fd) /\ l = Clipped(fd, len) /\ l # 0
    BY <1>1, <1>2, <1>3, ReadIsWhole DEF IInv, ReadInv
  <2>2. Len(Bytes(o, l)) = l
    BY <2>1 DEF Bytes
  <2>3. QED
    BY <1>4, <2>1, <2>2
<1>6. /\ result' = Len(buf)
      /\ files' = [files EXCEPT ![fd].offset = @ + Len(buf)]
  BY <1>1, <1>2, <1>3, <1>5 DEF fs_read_ends
<1>7. Request = call /\ Brought = buf /\ Request' = NoCall /\ Brought' = <<>>
  BY <1>1 DEF Request, Brought
<1>8. QED
  BY <1>1, <1>2, <1>5, <1>6, <1>7 DEF Plain!Return, Plain!NoRequest, NoCall

(* Kernel, cache, disk and interrupts together keep the promise to the     *)
(* program: it is loaded as its headers say, its calls have the results of *)
(* plain files, and a read brings the bytes in order (fs.c, ide.c, elf.c). *)
THEOREM Refinement == Spec => ImplementsFiles
<1>1. Init => Plain!Init /\ AskedInv
  BY DEF Init, FileInit, Plain!Init, Plain!Fds, Plain!Closed, Plain!NoRequest, Fds, NoCall,
         Request, Brought, AskedInv
<1>2. IInv /\ IInv' /\ AskedInv /\ [Next]_vars => [Plain!Next]_plainVars
  <2> SUFFICES ASSUME IInv, IInv', AskedInv, [Next]_vars PROVE [Plain!Next]_plainVars
    OBVIOUS
  <2>1. CASE Disk
    BY <2>1, DiskBrings DEF Plain!Next
  <2>2. CASE SegmentRead
    BY <2>2, SegmentIsLoaded DEF Plain!Next
  <2>3. CASE do_syscall /\ ~SysAdd
    BY <2>3, CallsAreAnswered DEF Plain!Next
  <2>4. CASE sys_read_ends
    BY <2>4, ReadsGoOn DEF Plain!Next
  <2>5. CASE UNCHANGED vars
    BY <2>5 DEF vars, disk_vars, loop, plainVars, Request, Brought
  <2>6. CASE \/ init_idt \/ cache_init \/ AddTimer \/ AddIde \/ LoadHeader \/ HeaderRead
             \/ LoadSegment \/ StartProgram \/ Add \/ SysAdd \/ SysAddEnds \/ Cli \/ Sti
             \/ TimerIntr \/ KeyIntr \/ IdeIntr
    BY <2>6, KernelIsUnseen
  <2>7. QED
    BY <2>1, <2>2, <2>3, <2>4, <2>5, <2>6 DEF Next, Ongoing
<1>3. IInv /\ AskedInv /\ [Next]_vars => AskedInv'
  BY AskedKeeps
<1>4. QED
  BY <1>1, <1>2, <1>3, Invariance, PTL DEF Spec, ImplementsFiles, Plain!Spec, plainVars
=============================================================================
