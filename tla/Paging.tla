------------------------------- MODULE Paging --------------------------------
(***************************************************************************)
(* The address space of a program and accesses in it: the tables of        *)
(* kvm.c, mm.c and vmem.c, the loader's use of them (elf.c), the break     *)
(* (mm_brk, and sbrk of the games), and memory.c with page.c, which walk   *)
(* the tables, split an access that crosses a page, and turn to the screen *)
(* where memory is mapped to it.  A directory gives a table of frames for  *)
(* each of its entries; the TLB is not compiled (config.h).                *)
(***************************************************************************)
EXTENDS Stack, FiniteSetsExt

LOCAL Seqs == INSTANCE SequencesExt

CONSTANTS Page,      \* PAGE_SIZE, in bytes
          NR_PTE,    \* entries of a table
          KOFFSET, PHY_MEM, KMEM, VMEM_ADDR, SCR_SIZE, STACK_SIZE,
          VideoLen,  \* bytes of the map that vga.c adds
          Layouts,   \* the segments of programs: vaddr, file (its bytes) and memsz
          Growths,   \* what a program passes to sbrk
          Stored,    \* what is stored
          MaxCalls,  \* of sbrk
          MaxStores

PT_SIZE == NR_PTE * Page
NR_PDE == Word \div PT_SIZE

(* Areas begin and end at pages, those with tables of their own at tables; *)
(* a program is linked above the first table and below its stack, and its  *)
(* segments follow each other, as in an ELF file.                          *)
Segment == [vaddr : PT_SIZE .. KOFFSET - 1, file : Seq(0 .. 2^Byte - 1), memsz : 1 .. KOFFSET - 1]
ASSUME PagingAssumption ==
  /\ Page \in Nat /\ Page >= 4 /\ NR_PTE \in Nat \ {0} /\ Word % PT_SIZE = 0
  /\ \A size \in {KMEM, PHY_MEM, KOFFSET} : size \in Nat \ {0} /\ size % PT_SIZE = 0
  /\ KMEM <= PHY_MEM /\ PHY_MEM <= KOFFSET /\ KOFFSET + PHY_MEM <= Word
  /\ VMEM_ADDR \in Nat /\ VMEM_ADDR % Page = 0 /\ VideoLen \in Nat /\ VideoLen % Page = 0
  /\ SCR_SIZE \in 1 .. VideoLen /\ VMEM_ADDR + VideoLen <= PT_SIZE
  /\ STACK_SIZE \in Nat \ {0}
  /\ \A s \in Layouts :
       /\ s \in Seq(Segment) /\ s # <<>>
       /\ \A k \in 1 .. Len(s) :
            /\ Len(s[k].file) <= s[k].memsz /\ s[k].vaddr + s[k].memsz <= KOFFSET - STACK_SIZE
            /\ k < Len(s) => s[k].vaddr + s[k].memsz <= s[k + 1].vaddr
  /\ Growths \subseteq Nat \ {0} /\ Stored \subseteq 0 .. Word - 1
  /\ MaxCalls \in Nat /\ MaxStores \in Nat

VARIABLES space,     \* updir, the next free frame pf, the break, memory and the screen
          segments,  \* of the program
          loaded,    \* how many of them are in place; one more when the program runs
          heap,      \* of the program: calls of sbrk, heap_end, and from where on it is mapped
          stored     \* how many stores there were, and the last one

pageVars == <<space, segments, loaded, heap, stored>>

NotPresent == -1
NoTable == [i \in 0 .. NR_PTE - 1 |-> NotPresent]

PdeOf(l) == l \div PT_SIZE
PteOf(l) == (l \div Page) % NR_PTE
Frame(dir, l) == dir[PdeOf(l)][PteOf(l)]
-----------------------------------------------------------------------------
init_page ==  \* kpdir: physical memory at 0 and once more at KOFFSET
  LET kptable == [t \in 0 .. PHY_MEM \div PT_SIZE - 1 |-> [i \in 0 .. NR_PTE - 1 |-> t * NR_PTE + i]]
  IN [d \in 0 .. NR_PDE - 1 |->
        IF d \in DOMAIN kptable THEN kptable[d]
        ELSE IF d - PdeOf(KOFFSET) \in DOMAIN kptable THEN kptable[d - PdeOf(KOFFSET)] ELSE NoTable]

init_mm == [d \in 0 .. NR_PDE - 1 |-> IF d < PdeOf(KOFFSET) THEN NoTable ELSE init_page[d]]

(* mm_malloc is a binary: it gives each page of the area that has none the *)
(* next frame above KMEM, and returns where the area begins.               *)
mm_malloc(s, vaddr, size) ==
  LET new == {n \in vaddr \div Page .. (vaddr + size - 1) \div Page : Frame(s.updir, n * Page) = NotPresent}
      FrameOf(n) == s.pf + Cardinality({p \in new : p < n})
  IN [s EXCEPT !.pf = @ + Cardinality(new),
               !.updir = [d \in DOMAIN @ |-> [i \in DOMAIN @[d] |->
                  IF d * NR_PTE + i \in new THEN FrameOf(d * NR_PTE + i) ELSE @[d][i]]]]
Physical(dir, l) == Frame(dir, l) * Page + (l % Page)

create_video_mapping(dir) ==  \* a new table for entry 0
  LET pages == VMEM_ADDR \div Page .. VMEM_ADDR \div Page + (Page + SCR_SIZE - 1) \div Page - 1
  IN [dir EXCEPT ![0] = [i \in DOMAIN NoTable |-> IF i \in pages THEN i ELSE NotPresent]]

(* One segment: the file's bytes and zeros go to consecutive addresses,    *)
(* and the break becomes the last of them.                                 *)
LoadPart(s, ph) ==
  LET got == mm_malloc(s, ph.vaddr, ph.memsz)
      at == Physical(got.updir, ph.vaddr)
      new_brk == at + ph.memsz - 1
  IN [got EXCEPT !.brk = IF @ < new_brk THEN new_brk ELSE @,
                 !.mem = [a \in DOMAIN @ |->
                    IF a - at \in 0 .. ph.memsz - 1
                    THEN IF a - at < Len(ph.file) THEN ph.file[a - at + 1] ELSE 0
                    ELSE @[a]]]

mm_brk(s, new_brk) ==
  [(IF new_brk > s.brk THEN mm_malloc(s, s.brk, new_brk - s.brk) ELSE s) EXCEPT !.brk = new_brk]
-----------------------------------------------------------------------------
(* A machine here is [dir, mem, screen]: dir is what cr3 points to.         *)
Present(m, l) == Frame(m.dir, l) # NotPresent
page_translate(m, l) == Physical(m.dir, l)

is_mmio(a) == a \in VMEM_ADDR .. VMEM_ADDR + VideoLen - 1
OnScreen(m) == [mem |-> m.screen]

paddr_read(m, a, len) == IF is_mmio(a) THEN Load(OnScreen(m), a - VMEM_ADDR, len) ELSE Load(m, a, len)

paddr_write(m, a, len, data) ==
  IF is_mmio(a) THEN [m EXCEPT !.screen = Store(OnScreen(m), a - VMEM_ADDR, len, data).mem]
                ELSE Store(m, a, len, data)

Crosses(l, len) == (l \div Page) % 2 # ((l + len - 1) \div Page) % 2
LowPart(l) == Page - (l % Page)

laddr_read(m, l, len) ==
  IF Crosses(l, len)
  THEN LET lenL == LowPart(l)
           dataL == Load(m, page_translate(m, l), lenL)
           dataH == Load(m, page_translate(m, l + lenL), len - lenL)
       IN Halved(Doubled((dataL + Doubled(dataH, lenL * Byte)) % Word, Host - len * Byte), Host - len * Byte)
  ELSE paddr_read(m, page_translate(m, l), len)

laddr_writeUnshifted(m, l, len, data) ==  \* mutated form: both pages get the data's first bytes
  IF Crosses(l, len)
  THEN LET low == Store(m, page_translate(m, l), LowPart(l), data)
       IN Store(low, page_translate(m, l + LowPart(l)), len - LowPart(l), data)
  ELSE paddr_write(m, page_translate(m, l), len, data)

laddr_write(m, l, len, data) ==
  IF Crosses(l, len)
  THEN LET lenL == LowPart(l)
           dataL == Halved(Doubled(data, (len - lenL) * Byte), (len - lenL) * Byte)
           dataH == Halved(data, lenL * Byte)
           low == Store(m, page_translate(m, l), lenL, dataL)
       IN Store(low, page_translate(m, l + lenL), len - lenL, dataH)
  ELSE paddr_write(m, page_translate(m, l), len, data)
-----------------------------------------------------------------------------
NoHeap == [calls |-> 0, end |-> 0, from |-> 0]

PagingInit ==
  /\ space = [updir |-> init_mm, pf |-> KMEM \div Page, brk |-> 0,
              mem |-> [a \in 0 .. PHY_MEM - 1 |-> (a + (a \div Page)) % 2^Byte],
              screen |-> [a \in 0 .. VideoLen - 1 |-> a % 2^Byte]]
  /\ segments = <<>> /\ loaded = 0 /\ heap = NoHeap /\ stored = [count |-> 0]

Running == segments # <<>> /\ loaded > Len(segments)
HasMemory(s) == s.pf * Page <= PHY_MEM

ReadHeader ==
  /\ segments = <<>>
  /\ segments' \in Layouts
  /\ UNCHANGED <<space, loaded, heap, stored>>

LoadSegment ==
  /\ loaded < Len(segments)
  /\ space' = LoadPart(space, segments[loaded + 1])
  /\ HasMemory(space')
  /\ loaded' = loaded + 1
  /\ UNCHANGED <<segments, heap, stored>>

End == LET l == segments[Len(segments)] IN l.vaddr + l.memsz  \* where the linker put it

StartProgram ==
  /\ segments # <<>> /\ loaded = Len(segments)
  /\ LET stacked == mm_malloc(space, KOFFSET - STACK_SIZE, STACK_SIZE)
     IN space' = [stacked EXCEPT !.updir = create_video_mapping(@)]
  /\ HasMemory(space')
  /\ loaded' = loaded + 1
  /\ heap' = [calls |-> 0, end |-> End, from |-> End]
  /\ UNCHANGED <<segments, stored>>

sbrk == \E incr \in Growths :
  LET new_end == heap.end + incr
  IN /\ Running /\ heap.calls < MaxCalls /\ new_end <= KOFFSET - STACK_SIZE
     /\ space' = mm_brk(space, new_end)
     /\ HasMemory(space')
     /\ heap' = [calls |-> heap.calls + 1, end |-> new_end,
                 from |-> IF heap.calls = 0 THEN new_end ELSE heap.from]
     /\ UNCHANGED <<segments, loaded, stored>>

Addresses == 0 .. KOFFSET + KMEM - 1  \* up to the end of the kernel's own memory
Area(l, len) == l .. l + len - 1
IsMapped(m, l, len) == \A a \in Area(l, len) : a \in Addresses /\ Present(m, a)

ProgramView == [dir |-> space.updir, mem |-> space.mem, screen |-> space.screen]
View == [ProgramView EXCEPT !.dir = IF Running THEN @ ELSE init_page]

Access == \E len \in {1, 2, 4}, l \in Addresses, data \in Stored :
  LET out == laddr_write(View, l, len, data)
  IN /\ stored.count < MaxStores /\ IsMapped(View, l, len)
     /\ space' = [space EXCEPT !.mem = out.mem, !.screen = out.screen]
     /\ stored' = [count |-> stored.count + 1, at |-> l, len |-> len, data |-> data]
     /\ UNCHANGED <<segments, loaded, heap>>

PagingStep == ReadHeader \/ LoadSegment \/ StartProgram \/ sbrk \/ Access
PagingSpec == PagingInit /\ [][PagingStep]_pageVars
-----------------------------------------------------------------------------
(* What an address stands for: physical memory at KOFFSET, and under the   *)
(* kernel's directory at 0, the screen where it is in physical memory, and *)
(* a place of its own for every other byte of a program.                   *)
StandsFor(l) ==
  CASE l >= KOFFSET -> <<"memory", l - KOFFSET>>
    [] l < KOFFSET /\ (~Running \/ PdeOf(l) = 0) -> <<"memory", l>>
    [] OTHER -> <<"program", l>>
Split(m, l, len) == Crosses(l, len) /\ \E a \in Area(l, len) : is_mmio(page_translate(m, a))

(* A read returns, byte for byte, what was last written at the addresses   *)
(* it names, through directories whose pages are scattered over memory     *)
(* and through accesses that cross a page (memory.c, page.c).  Left out    *)
(* are accesses across two pages of the screen: they go to the memory      *)
(* behind it.                                                              *)
ReadsSeeWrites ==
  LET Byte_(b) ==
        LET same == {a \in Area(stored'.at, stored'.len) : StandsFor(a) = StandsFor(b)}
        IN IF same = {} THEN laddr_read(View, b, 1)
           ELSE LET a == CHOOSE x \in same : TRUE
                IN Low(stored'.data \div 2^(Byte * (a - stored'.at)), Byte)
  IN stored' # stored /\ ~Split(View, stored'.at, stored'.len) =>
       \A l \in Addresses, len \in {1, 2, 4} :
         IsMapped(View, l, len) /\ ~Split(View, l, len) =>
           laddr_read(View', l, len) =
             PartialSums([i \in 0 .. len - 1 |-> Byte_(l + i) * 2^(Byte * i)], len)[len]

(* A program finds its segments where it was linked to, with zeros behind  *)
(* the bytes of the file, although the loader wrote them to consecutive    *)
(* physical addresses; and nothing else that it has changes its place or   *)
(* its contents when the loader or sbrk maps more.                         *)
MappingsKeep ==
  LET ph == segments[loaded + 1]
      loads == loaded < loaded' /\ loaded < Len(segments)
      filled == IF loads THEN Area(ph.vaddr, ph.memsz) ELSE {}
  IN loaded' # loaded \/ heap' # heap =>
       /\ loads =>
            \A i \in 0 .. ph.memsz - 1 :
              /\ Present(ProgramView', ph.vaddr + i)
              /\ laddr_read(ProgramView', ph.vaddr + i, 1) = IF i < Len(ph.file) THEN ph.file[i + 1] ELSE 0
       /\ \A l \in Addresses \ filled :
            Present(ProgramView, l) =>
              /\ Present(ProgramView', l)
              /\ laddr_read(ProgramView', l, 1) = laddr_read(ProgramView, l, 1)

(* A program that runs has all its segments, its video memory is the       *)
(* screen, and its heap is mapped as far as sbrk says, except for what the *)
(* first call added: the loader leaves a physical address as the break,    *)
(* above all that it is compared with in mm_brk (elf.c:53).                *)
SpaceIsComplete ==
  Running =>
    /\ \A k \in 1 .. Len(segments), l \in Addresses :
         l \in Area(segments[k].vaddr, segments[k].memsz) => Present(View, l)
    /\ \A i \in 0 .. SCR_SIZE - 1 :
         /\ Present(View, VMEM_ADDR + i)
         /\ laddr_read(View, VMEM_ADDR + i, 1) = space.screen[i]
    /\ \A a \in heap.from .. heap.end - 1 : Present(View, a)

(* Whatever is loaded, mapped and stored, each step keeps the address      *)
(* space of the program what it is meant to be.                            *)
PagesHold == [][ReadsSeeWrites /\ MappingsKeep /\ SpaceIsComplete']_pageVars
=============================================================================
