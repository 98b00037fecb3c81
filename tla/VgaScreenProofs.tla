--------------------------- MODULE VgaScreenProofs ---------------------------
(***************************************************************************)
(* Proofs about VgaScreen, for any size of the picture, any colors and any *)
(* number of stores: that a line without a mark shows what is in memory,   *)
(* and that no mark is left behind when the VGA thread waits.  Neither is  *)
(* inductive: LineInv follows a line through the refresh, pixel by pixel,  *)
(* MarkInv the marks through the clearing of the two flags.                *)
(***************************************************************************)
EXTENDS VgaScreen, TLAPS

(* The store into a line is done, its mark is not.                         *)
UnderWay(r) == cpu = "line" /\ line = r

(* The refresh is over with the line and has yet to clear its mark.        *)
Drawn(r) == \/ vga \in {"scan", "pixel"} /\ r < i
            \/ vga = "clear"
            \/ vga = "memset" /\ r >= i

LineInv ==
  \A r \in Rows : r \notin raced /\ ~UnderWay(r) =>
    /\ ~line_dirty[r] \/ Drawn(r) => screen[r] = vmem[r]
    /\ vga = "pixel" /\ r = i => \A c \in Cols : c < j => screen[r][c] = vmem[r][c]

(* A mark of a line is backed by the flag that wakes the VGA thread, but   *)
(* for those that the memset under way is going to clear.                  *)
MarkInv ==
  /\ vga = "clear" => i = 0
  /\ \A r \in Rows : line_dirty[r] /\ (vga = "memset" => r < i)
                       => vmem_dirty \/ cpu = "vmem"

IInv == TypeOK /\ LineInv /\ MarkInv

(* While the VGA thread waits and the CPU is outside of the handler, every *)
(* marked line is announced by vmem_dirty.                                 *)
NoMarkIsLeft ==
  vga = "test" /\ cpu = "run" => vmem_dirty \/ \A r \in Rows : ~line_dirty[r]
-----------------------------------------------------------------------------
(* The loop over the lines goes on to the next one or starts anew.         *)
LEMMA AdvanceFacts ==
  ASSUME NEW to, NEW end, i \in Rows, Advance(to, end)
  PROVE  /\ i' \in Rows /\ vga' \in {to, end}
         /\ vga' = to \/ (vga' = end /\ i' = 0 /\ \A r \in Rows : r <= i)
         /\ i' = 0 \/ (i' = i + 1 /\ vga' = to)
         /\ vga' # end => vga' = to /\ i' = i + 1
BY VgaAssumption DEF Advance, Rows

(* A store changes pixels of the line under way only.                      *)
LEMMA StoreStep == IInv /\ Store => IInv'
<1> SUFFICES ASSUME IInv, Store PROVE IInv'
  OBVIOUS
<1>1. PICK r \in Rows, c \in Cols, v \in Colors :
        vmem' = [vmem EXCEPT ![r][c] = v] /\ line' = r
  BY DEF Store
<1>2. /\ cpu = "run" /\ cpu' = "line" /\ stores < MaxStores /\ stores' = stores + 1
      /\ UNCHANGED <<vgaVars, line_dirty, vmem_dirty, raced>>
  BY DEF Store
<1>3. vmem' \in [Rows -> [Cols -> Colors]] /\ \A s \in Rows : s # r => vmem'[s] = vmem[s]
  BY <1>1 DEF IInv, TypeOK
<1>4. TypeOK'
  BY <1>1, <1>2, <1>3, VgaAssumption DEF IInv, TypeOK, vgaVars
<1>5. LineInv'
  BY <1>1, <1>2, <1>3 DEF IInv, LineInv, UnderWay, Drawn, vgaVars
<1>6. MarkInv'
  BY <1>2 DEF IInv, MarkInv, vgaVars
<1>7. QED
  BY <1>4, <1>5, <1>6 DEF IInv

(* A line is marked before the refresh reaches it, and redrawn, or counts  *)
(* as raced.                                                               *)
LEMMA MarkStep == IInv /\ Mark => IInv'
<1> SUFFICES ASSUME IInv, Mark PROVE IInv'
  OBVIOUS
<1>1. CASE MarkLine
  <2>1. /\ line \in Rows /\ cpu = "line" /\ cpu' = "vmem"
        /\ line_dirty' = [line_dirty EXCEPT ![line] = TRUE]
        /\ raced' = IF Passed(line) THEN raced \cup {line} ELSE raced
        /\ UNCHANGED <<vmem, line, stores, vgaVars, vmem_dirty>>
    BY <1>1 DEF MarkLine, IInv, TypeOK
  <2>2. TypeOK'
    BY <2>1 DEF IInv, TypeOK, vgaVars
  <2>3. LineInv'
    <3> SUFFICES ASSUME NEW r \in Rows, r \notin raced', ~UnderWay(r)'
                 PROVE  /\ ~line_dirty'[r] \/ Drawn(r)' => screen'[r] = vmem'[r]
                        /\ vga' = "pixel" /\ r = i' =>
                             \A c \in Cols : c < j' => screen'[r][c] = vmem'[r][c]
      BY DEF LineInv
    <3>1. CASE r = line
      <4>1. ~Passed(r) /\ line_dirty'[r]
        BY <2>1, <3>1 DEF IInv, TypeOK
      <4>2. ~Drawn(r)' /\ ~(vga' = "pixel" /\ r = i')
        BY <2>1, <4>1 DEF Passed, Drawn, vgaVars
      <4>3. QED
        BY <4>1, <4>2
    <3>2. CASE r # line
      BY <2>1, <3>2 DEF IInv, TypeOK, LineInv, UnderWay, Drawn, vgaVars
    <3>3. QED
      BY <3>1, <3>2
  <2>4. MarkInv'
    BY <2>1 DEF IInv, MarkInv, vgaVars
  <2>5. QED
    BY <2>2, <2>3, <2>4 DEF IInv
<1>2. CASE MarkVmem
  BY <1>2 DEF MarkVmem, IInv, TypeOK, LineInv, MarkInv, UnderWay, Drawn, vgaVars
<1>3. QED
  BY <1>1, <1>2 DEF Mark
-----------------------------------------------------------------------------
(* A line that needs no drawing, or one whose drawing starts.              *)
LEMMA ScanStep == IInv /\ (Test \/ ScanClean \/ ScanDirty) => IInv'
<1> SUFFICES ASSUME IInv, Test \/ ScanClean \/ ScanDirty PROVE IInv'
  OBVIOUS
<1>0. i \in Rows /\ Rows \subseteq Nat /\ 0 \in Rows /\ 0 \in Cols /\ Cols \subseteq Nat
  BY VgaAssumption DEF IInv, TypeOK, Rows, Cols
<1>1. CASE Test
  BY <1>0, <1>1 DEF Test, IInv, TypeOK, LineInv, MarkInv, UnderWay, Drawn, cpuVars
<1>2. CASE ScanClean
  <2>1. /\ vga = "scan" /\ ~line_dirty[i] /\ Advance("scan", "clear")
        /\ UNCHANGED <<cpuVars, screen, j, line_dirty, vmem_dirty, raced>>
    BY <1>2 DEF ScanClean
  <2>2. \A r \in Rows : Drawn(r)' => Drawn(r) \/ r = i
    BY <1>0, <2>1, AdvanceFacts DEF Drawn
  <2>3. TypeOK'
    BY <1>0, <2>1, AdvanceFacts DEF IInv, TypeOK, cpuVars
  <2>4. LineInv'
    BY <1>0, <2>1, <2>2, AdvanceFacts DEF IInv, LineInv, UnderWay, cpuVars
  <2>5. MarkInv'
    BY <1>0, <2>1, AdvanceFacts DEF IInv, MarkInv, cpuVars
  <2>6. QED
    BY <2>3, <2>4, <2>5 DEF IInv
<1>3. CASE ScanDirty
  BY <1>0, <1>3 DEF ScanDirty, IInv, TypeOK, LineInv, MarkInv, UnderWay, Drawn, cpuVars
<1>4. QED
  BY <1>1, <1>2, <1>3

(* One more pixel agrees, and after the last one the line.                 *)
LEMMA PixelStep == IInv /\ Pixel => IInv'
<1> SUFFICES ASSUME IInv, Pixel PROVE IInv'
  OBVIOUS
<1>0. /\ i \in Rows /\ Rows \subseteq Nat /\ 0 \in Rows
      /\ j \in Cols /\ Cols \subseteq Nat /\ 0 \in Cols
      /\ j # CTR_COL - 1 => j + 1 \in Cols
      /\ j = CTR_COL - 1 => \A c \in Cols : c < j \/ c = j
      /\ \A c \in Cols : c < j + 1 => c < j \/ c = j
  BY VgaAssumption DEF IInv, TypeOK, Rows, Cols
<1>1. /\ vga = "pixel" /\ screen' = [screen EXCEPT ![i][j] = vmem[i][j]]
      /\ UNCHANGED <<cpuVars, line_dirty, vmem_dirty, raced>>
  BY DEF Pixel
<1>2. /\ screen' \in [Rows -> [Cols -> Colors]]
      /\ \A r \in Rows : r # i => screen'[r] = screen[r]
      /\ \A c \in Cols : screen'[i][c] = IF c = j THEN vmem[i][c] ELSE screen[i][c]
  BY <1>0, <1>1 DEF IInv, TypeOK
<1>3. screen[i] = vmem[i] => screen'[i] = vmem[i]
  BY <1>0, <1>1 DEF IInv, TypeOK
<1>4. CASE j = CTR_COL - 1
  <2>1. Advance("scan", "clear") /\ j' = 0
    BY <1>4 DEF Pixel
  <2>2. TypeOK'
    BY <1>0, <1>1, <1>2, <2>1, AdvanceFacts DEF IInv, TypeOK, cpuVars
  <2>3. \A r \in Rows : Drawn(r)' => Drawn(r) \/ r = i
    BY <1>0, <1>1, <2>1, AdvanceFacts DEF Drawn
  <2>4. i \notin raced /\ ~UnderWay(i) => screen'[i] = vmem[i]
    <3> SUFFICES ASSUME i \notin raced, ~UnderWay(i) PROVE screen'[i] = vmem[i]
      OBVIOUS
    <3>1. \A c \in Cols : c < j => screen[i][c] = vmem[i][c]
      BY <1>0, <1>1 DEF IInv, LineInv
    <3>2. \A c \in Cols : screen'[i][c] = vmem[i][c]
      BY <1>0, <1>2, <1>4, <3>1
    <3>3. screen'[i] \in [Cols -> Colors] /\ vmem[i] \in [Cols -> Colors]
      BY <1>0, <1>2 DEF IInv, TypeOK
    <3>4. QED
      BY <3>2, <3>3
  <2>5. LineInv'
    <3> SUFFICES ASSUME NEW r \in Rows, r \notin raced, ~UnderWay(r),
                        ~line_dirty[r] \/ Drawn(r)'
                 PROVE  screen'[r] = vmem[r]
      BY <1>0, <1>1, <2>1, AdvanceFacts DEF LineInv, UnderWay, cpuVars
    <3>1. CASE r = i
      BY <2>4, <3>1
    <3>2. CASE r # i
      BY <1>2, <2>3, <3>2 DEF IInv, LineInv
    <3>3. QED
      BY <3>1, <3>2
  <2>6. MarkInv'
    BY <1>0, <1>1, <2>1, AdvanceFacts DEF IInv, MarkInv, cpuVars
  <2>7. QED
    BY <2>2, <2>5, <2>6 DEF IInv
<1>5. CASE j # CTR_COL - 1
  <2>1. vga' = vga /\ i' = i /\ j' = j + 1
    BY <1>5 DEF Pixel
  <2>2. TypeOK'
    BY <1>0, <1>1, <1>2, <1>5, <2>1 DEF IInv, TypeOK, cpuVars
  <2>3. LineInv'
    <3> SUFFICES ASSUME NEW r \in Rows, r \notin raced, ~UnderWay(r)
                 PROVE  /\ ~line_dirty[r] \/ Drawn(r) => screen'[r] = vmem[r]
                        /\ r = i => \A c \in Cols : c < j + 1 => screen'[r][c] = vmem[r][c]
      BY <1>1, <2>1 DEF LineInv, UnderWay, Drawn, cpuVars
    <3>1. /\ ~line_dirty[r] \/ Drawn(r) => screen[r] = vmem[r]
          /\ r = i => \A c \in Cols : c < j => screen[r][c] = vmem[r][c]
      BY <1>1 DEF IInv, LineInv
    <3>2. CASE r = i
      BY <1>0, <1>2, <1>3, <3>1, <3>2
    <3>3. CASE r # i
      BY <1>2, <3>1, <3>3
    <3>4. QED
      BY <3>2, <3>3
  <2>4. MarkInv'
    BY <1>1, <2>1 DEF IInv, MarkInv, cpuVars
  <2>5. QED
    BY <2>2, <2>3, <2>4 DEF IInv
<1>6. QED
  BY <1>4, <1>5

(* The flag goes first and every line was drawn by then; a line loses its  *)
(* mark only after that.                                                   *)
LEMMA ClearStep == IInv /\ (ClearVmem \/ ClearLine) => IInv'
<1> SUFFICES ASSUME IInv, ClearVmem \/ ClearLine PROVE IInv'
  OBVIOUS
<1>0. i \in Rows /\ Rows \subseteq Nat
  BY VgaAssumption DEF IInv, TypeOK, Rows
<1>1. CASE ClearVmem
  <2>1. /\ vga = "clear" /\ vga' = "memset" /\ vmem_dirty' = FALSE
        /\ i = 0 /\ UNCHANGED <<cpuVars, screen, i, j, line_dirty, raced>>
    BY <1>1 DEF ClearVmem, IInv, MarkInv
  <2>2. TypeOK'
    BY <2>1 DEF IInv, TypeOK, cpuVars
  <2>3. LineInv'
    BY <2>1 DEF IInv, LineInv, UnderWay, Drawn, cpuVars
  <2>4. MarkInv'
    BY <1>0, <2>1 DEF MarkInv
  <2>5. QED
    BY <2>2, <2>3, <2>4 DEF IInv
<1>2. CASE ClearLine
  <2>1. /\ vga = "memset" /\ line_dirty' = [line_dirty EXCEPT ![i] = FALSE]
        /\ Advance("memset", "test")
        /\ UNCHANGED <<cpuVars, screen, j, vmem_dirty, raced>>
    BY <1>2 DEF ClearLine
  <2>2. \A r \in Rows : line_dirty'[r] = IF r = i THEN FALSE ELSE line_dirty[r]
    BY <1>0, <2>1 DEF IInv, TypeOK
  <2>3. TypeOK'
    BY <1>0, <2>1, AdvanceFacts DEF IInv, TypeOK, cpuVars
  <2>4. \A r \in Rows : Drawn(r)' => Drawn(r)
    BY <1>0, <2>1, AdvanceFacts DEF Drawn
  <2>5. Drawn(i) /\ vga' # "pixel"
    BY <1>0, <2>1, AdvanceFacts DEF Drawn
  <2>6. LineInv'
    BY <2>1, <2>2, <2>4, <2>5 DEF IInv, LineInv, UnderWay, cpuVars
  <2>7. MarkInv'
    <3>1. \A r \in Rows : r # i /\ (vga' = "memset" => r < i') => r < i
      BY <1>0, <2>1, AdvanceFacts
    <3>2. vga' # "clear"
      BY <1>0, <2>1, AdvanceFacts
    <3>3. QED
      BY <2>1, <2>2, <3>1, <3>2 DEF IInv, MarkInv, cpuVars
  <2>8. QED
    BY <2>3, <2>6, <2>7 DEF IInv
<1>3. QED
  BY <1>1, <1>2
-----------------------------------------------------------------------------
(* Both threads, however their accesses interleave, keep the invariant.    *)
THEOREM Invariance == Spec => []IInv
<1>1. Init => IInv
  <2> SUFFICES ASSUME Init PROVE IInv
    OBVIOUS
  <2>1. 0 \in Rows /\ 0 \in Cols /\ 0 \in 0 .. MaxStores
    BY VgaAssumption DEF Rows, Cols
  <2>2. Blank \in [Rows -> [Cols -> Colors]]
    BY VgaAssumption DEF Blank
  <2>3. TypeOK
    BY <2>1, <2>2 DEF Init, TypeOK
  <2>4. LineInv /\ MarkInv
    BY DEF Init, LineInv, MarkInv
  <2>5. QED
    BY <2>3, <2>4 DEF IInv
<1>2. IInv /\ [Next]_vars => IInv'
  <2> SUFFICES ASSUME IInv, [Next]_vars PROVE IInv'
    OBVIOUS
  <2>1. CASE Store
    BY <2>1, StoreStep
  <2>2. CASE Mark
    BY <2>2, MarkStep
  <2>3. CASE Update
    BY <2>3, ScanStep, PixelStep, ClearStep DEF Update
  <2>4. CASE UNCHANGED vars
    BY <2>4 DEF vars, cpuVars, vgaVars, IInv, TypeOK, LineInv, MarkInv, UnderWay, Drawn
  <2>5. QED
    BY <2>1, <2>2, <2>3, <2>4 DEF Next
<1>3. QED
  BY <1>1, <1>2, PTL DEF Spec

(* Every variable keeps its type; the loops stay within the picture.       *)
THEOREM TypeCorrect == Spec => []TypeOK
<1>1. IInv => TypeOK
  BY DEF IInv
<1>2. QED
  BY <1>1, Invariance, PTL

(* Without a lock around the marks, a line that carries none is on the     *)
(* screen as it is in memory, but for the lines that a refresh under way   *)
(* had passed when they were marked.                                       *)
THEOREM CleanLinesShow == Spec => []CleanIsShown
<1>1. IInv => CleanIsShown
  BY DEF IInv, LineInv, CleanIsShown, UnderWay
<1>2. QED
  BY <1>1, Invariance, PTL

(* The VGA thread, which clears vmem_dirty before the marks of the lines,  *)
(* never goes to wait with a marked line that nothing announces.           *)
THEOREM MarksWakeTheScreen == Spec => []NoMarkIsLeft
<1>1. IInv => NoMarkIsLeft
  BY DEF IInv, MarkInv, NoMarkIsLeft
<1>2. QED
  BY <1>1, Invariance, PTL
=============================================================================
