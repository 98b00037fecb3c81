------------------------------ MODULE VgaScreen ------------------------------
(***************************************************************************)
(* The picture on its way from the guest's video memory to the window:     *)
(*   - the CPU thread stores into the video memory and marks what it       *)
(*     touched (device/io/mm_io.c mmio_write, device/dev/vga.c             *)
(*     vga_vmem_io_handler);                                               *)
(*   - the VGA thread redraws the marked lines 25 times a second           *)
(*     (update_screen, do_update_screen_graphic_mode).                     *)
(* No lock protects the marks.  One action per access to them.  A store    *)
(* stays within one line, a line is redrawn pixel by pixel.                *)
(***************************************************************************)
EXTENDS Naturals

CONSTANTS CTR_ROW, CTR_COL,  \* lines and columns of the picture
          Colors,            \* values of a pixel
          MaxStores          \* bound of the model: stores of the guest

Rows == 0 .. CTR_ROW - 1
Cols == 0 .. CTR_COL - 1

ASSUME VgaAssumption ==
  /\ CTR_ROW \in Nat \ {0} /\ CTR_COL \in Nat \ {0}
  /\ 0 \in Colors /\ MaxStores \in Nat

VARIABLES
  vmem,       \* the video memory
  line_dirty, vmem_dirty,
  screen,     \* what the window shows
  cpu,        \* "run", then "line" and "vmem" within the handler of a store
  line,       \* the line of that store
  vga,        \* where the VGA thread stands
  i, j,       \* its loop indexes
  stores,     \* number of stores so far
  raced       \* history: lines marked after the refresh under way had passed
              \* them and before it clears the marks, and not redrawn since

cpuVars == <<vmem, cpu, line, stores>>
vgaVars == <<screen, vga, i, j>>
vars == <<cpuVars, vgaVars, line_dirty, vmem_dirty, raced>>

Blank == [r \in Rows |-> [c \in Cols |-> 0]]

Init ==
  /\ vmem = Blank /\ screen = Blank
  /\ line_dirty = [r \in Rows |-> FALSE] /\ vmem_dirty = FALSE
  /\ cpu = "run" /\ line = 0 /\ stores = 0
  /\ vga = "test" /\ i = 0 /\ j = 0
  /\ raced = {}
-----------------------------------------------------------------------------
(* mmio_write: the bytes first, then the callback.                         *)
Store ==
  /\ cpu = "run" /\ stores < MaxStores
  /\ \E r \in Rows, c \in Cols, v \in Colors :
       /\ vmem' = [vmem EXCEPT ![r][c] = v]
       /\ line' = r
  /\ stores' = stores + 1
  /\ cpu' = "line"
  /\ UNCHANGED <<vgaVars, line_dirty, vmem_dirty, raced>>

Passed(r) == \/ vga \in {"scan", "pixel"} /\ r < i
             \/ vga = "pixel" /\ r = i
             \/ vga = "clear"
             \/ vga = "memset" /\ r >= i

MarkLine ==
  /\ cpu = "line"
  /\ line_dirty' = [line_dirty EXCEPT ![line] = TRUE]
  /\ raced' = IF Passed(line) THEN raced \cup {line} ELSE raced
  /\ cpu' = "vmem"
  /\ UNCHANGED <<vmem, line, stores, vgaVars, vmem_dirty>>

MarkVmemNot ==  \* mutated form: the store forgets vmem_dirty
  /\ cpu = "vmem"
  /\ cpu' = "run"
  /\ UNCHANGED <<vmem, line, stores, vgaVars, line_dirty, vmem_dirty, raced>>

MarkVmem ==
  /\ cpu = "vmem"
  /\ vmem_dirty' = TRUE
  /\ cpu' = "run"
  /\ UNCHANGED <<vmem, line, stores, vgaVars, line_dirty, raced>>
-----------------------------------------------------------------------------
(* update_screen.                                                          *)
Test ==
  /\ vga = "test" /\ vmem_dirty
  /\ vga' = "scan" /\ i' = 0
  /\ UNCHANGED <<cpuVars, screen, j, line_dirty, vmem_dirty, raced>>

Advance(to, end) == IF i = CTR_ROW - 1 THEN vga' = end /\ i' = 0 ELSE vga' = to /\ i' = i + 1

ScanClean ==
  /\ vga = "scan" /\ ~line_dirty[i]
  /\ Advance("scan", "clear")
  /\ UNCHANGED <<cpuVars, screen, j, line_dirty, vmem_dirty, raced>>

ScanDirty ==
  /\ vga = "scan" /\ line_dirty[i]
  /\ vga' = "pixel" /\ j' = 0
  /\ raced' = raced \ {i}
  /\ UNCHANGED <<cpuVars, screen, i, line_dirty, vmem_dirty>>

PixelShort ==  \* mutated form: the last column is not drawn
  /\ vga = "pixel"
  /\ screen' = IF j = CTR_COL - 1 THEN screen
               ELSE [screen EXCEPT ![i][j] = vmem[i][j]]
  /\ IF j = CTR_COL - 1 THEN Advance("scan", "clear") /\ j' = 0
     ELSE vga' = vga /\ i' = i /\ j' = j + 1
  /\ UNCHANGED <<cpuVars, line_dirty, vmem_dirty, raced>>

Pixel ==
  /\ vga = "pixel"
  /\ screen' = [screen EXCEPT ![i][j] = vmem[i][j]]
  /\ IF j = CTR_COL - 1 THEN Advance("scan", "clear") /\ j' = 0
     ELSE vga' = vga /\ i' = i /\ j' = j + 1
  /\ UNCHANGED <<cpuVars, line_dirty, vmem_dirty, raced>>

ClearVmem ==
  /\ vga = "clear"
  /\ vmem_dirty' = FALSE
  /\ vga' = "memset"
  /\ UNCHANGED <<cpuVars, screen, i, j, line_dirty, raced>>

ClearLine ==
  /\ vga = "memset"
  /\ line_dirty' = [line_dirty EXCEPT ![i] = FALSE]
  /\ Advance("memset", "test")
  /\ UNCHANGED <<cpuVars, screen, j, vmem_dirty, raced>>
-----------------------------------------------------------------------------
Mark == MarkLine \/ MarkVmem
Update == Test \/ ScanClean \/ ScanDirty \/ Pixel \/ ClearVmem \/ ClearLine

Next == Store \/ Mark \/ Update

Spec == Init /\ [][Next]_vars

(* Both threads run; the guest need not store anything.                    *)
FairSpec == Spec /\ WF_vars(Mark) /\ WF_vars(Update)
-----------------------------------------------------------------------------
TypeOK ==
  /\ vmem \in [Rows -> [Cols -> Colors]] /\ screen \in [Rows -> [Cols -> Colors]]
  /\ line_dirty \in [Rows -> BOOLEAN] /\ vmem_dirty \in BOOLEAN
  /\ cpu \in {"run", "line", "vmem"} /\ line \in Rows
  /\ vga \in {"test", "scan", "pixel", "clear", "memset"}
  /\ i \in Rows /\ j \in Cols
  /\ stores \in 0 .. MaxStores /\ raced \subseteq Rows

(* A line that carries no mark is on the screen as it is in memory, unless *)
(* its store is still under way or it was marked during a refresh: stores  *)
(* between two refreshes are never lost (vga.c, update_screen).            *)
CleanIsShown ==
  \A r \in Rows :
    ~line_dirty[r] /\ r \notin raced /\ ~(cpu = "line" /\ line = r)
      => screen[r] = vmem[r]

(* Once the guest stops drawing, every line but the raced ones shows.      *)
ShownInTheEnd ==
  <>[](\A r \in Rows : r \notin raced /\ ~(cpu = "line" /\ line = r)
                         => screen[r] = vmem[r])
=============================================================================
