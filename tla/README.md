# Verification of NEMU, its kernel and its games

This directory holds TLA+ models of the x86 emulator NEMU (`nemu/`), of the
small kernel that runs on it (`kernel/`) and of the parts of the games (`game/`)
that talk to the kernel's devices, with TLC configurations that check them and
TLAPS proofs of the most important results.

    tlasany <M>.tla                         parse
    tlc -workers 2 -config <X>.cfg <M>      model-check
    tlapm <M>Proofs.tla                     check the proofs (minutes; ExecutionProofs and
                                            MemoryProofs ten to fifteen)

`PROJECT.json` lists the components, runs, mutants (a broken variant of one
definition for every property, under which the property must fail), the source
lines of every definition, the findings, the hazards and the theorems.

## 1. Inventory

NEMU is one CPU thread (`exec()` in `nemu/src/cpu/cpu.c`, driven by the debugger
`monitor/ui.c`) and several host threads: a timer, an SDL event (keyboard)
thread, a VGA refresh thread, an audio monitor, SDL's own audio callback, and
short-lived helpers (the HLT thread, two copy workers). They share plain global
variables; only the interrupt controller and the audio chunks have mutexes. The
kernel and the games are guest programs: for them, concurrency means an interrupt
between any two instructions.

| Component | State | Operations | Talks to | What is hard |
|---|---|---|---|---|
| Interrupt controller `nemu/src/device/i8259_pic.c` | `i8259_intr_no`, `cpu.intr`, mutex | raise, query, ack, init, destroy | device threads, `exec()` | one slot, unlocked query, destroyed while in use |
| Execution loop `nemu/src/cpu/cpu.c`, `intr.c`, `instr/{hlt,sti,cli,int,iret,nemu_trap}.c` | `nemu_state`, `eip`, `eflags.IF`, stack | `exec`, `raise_intr`, iret, hlt | controller, breakpoints, memory | tests of shared state between instructions |
| Timer, keyboard `nemu/src/device/dev/{timer,keyboard}.c` | active flags, `scan_code_buf` | raise a line, answer port 0x60, close the window | controller | one-byte buffer |
| Disk `nemu/src/device/dev/ide.c` | file position, `byte_cnt`, `ide_write` | port writes and reads | controller | registers written byte by byte |
| VGA `nemu/src/device/dev/vga.c`, `device/io/mm_io.c` | video memory, `line_dirty`, `vmem_dirty`, palette | store, refresh, DAC and CRTC ports | CPU thread, SDL | marks without a lock |
| Audio `nemu/src/device/dev/audio.c` | two chunks, their indexes, lengths and flags, two mutexes | two ports, callback, monitor, workers | controller, SDL | indexes swapped under the locks they choose |
| Port space, serial, window `nemu/src/device/{io/port_io,dev/serial,sdl}.c` | 64K bytes of ports | read, write, dispatch | devices | teardown |
| Decoder and instructions `nemu/src/cpu/{decode,instr}` | registers | one function per opcode | memory, ALU, FPU | operand sizes, lengths, nesting |
| ALU, FPU `nemu/src/cpu/{alu,fpu}.c` | flags, register stack | arithmetic | instructions | boundary values |
| Memory `nemu/src/memory` | `hw_mem`, cache, TLB, segment shadows | v/l/p reads and writes | all | crossings, stale copies |
| Debugger `nemu/src/monitor` | pool of breakpoints, watchpoints | b, w, d, c, si, p, x, info | `exec()`, memory | code patched while the program runs |
| Kernel interrupts `kernel/src/irq` | IDT, lists of handlers | install, dispatch | syscalls, drivers | lists changed while interrupts are on |
| Kernel disk driver `kernel/src/driver/ide` | sector cache, `has_ide_intr` | `ide_read`, handlers | disk, timer | waiting for an interrupt |
| File system `kernel/src/fs`, `syscall` | `files[]` | open, read, lseek, close | disk driver | unsigned offsets, shared descriptors |
| Kernel memory and loader `kernel/src/{memory,elf}` | page tables, `brk` | `mm_brk`, `loader` | disk driver | virtual against physical addresses |
| Games `game/src/{credits,typing,nemu-pal/hal,common}` | event flags, key states | main loops, handlers | system calls, ports | handler against loop |

What makes each correct:

- *Controller and loop*: no invented and no repeated interrupt, the assertion in
  `exec()` holds, the disk's request (for which the kernel sleeps) is never lost,
  hlt ends, a closed window ends the run.
- *Audio*: a chunk is filled and played under its mutex, in order, whole; nobody
  waits for ever.
- *Kernel*: start-up reaches the program with its segments loaded, handlers are
  called as they were installed, every system call comes back, and a read gives the
  next bytes of its file.
- *VGA*: what was stored is shown in the end.
- *Keys*: no press and no release is reported twice, and a held key is reported.
- *Debugger*: the program runs as if its code were untouched, and stops in front
  of every breakpoint; an expression has the value of its tree.
- *Memory*: a read returns what was last written; the cache cannot be told from
  plain memory.
- *Instructions*: results and flags are those of the integers and of the rounded real
  numbers; calls, frames and interrupts unwind.

## 2. Modules

| Module | Models | State ↔ code |
|---|---|---|
| `IrqLatch` | what the controller promises: one place, highest line wins | abstract |
| `IntrDelivery` | controller, device threads, `exec()`'s interrupt check, IF and handler nesting | `i8259_intr_no`, `intr` = `cpu.intr`, `holders`/`destroyed` = the mutex, `pc[t]` = position of a thread, `frames` = the saved flags on the guest's stacks |
| `IntrDeliveryProofs` | theorems about `IntrDelivery` | |
| `SoundQueue` | what the sound path promises: a queue of one block behind the one on the air | abstract |
| `AudioPlayback` | `audio.c` and the loop of `credits.c` | chunk halves hold the number of the block they were filled from; `owner` = the mutexes |
| `AudioPlaybackProofs` | theorems about `AudioPlayback` | |
| `PlainFiles` | what the kernel promises a program: its segments in memory, then one call at a time, a read bringing the next bytes of the image | abstract |
| `DiskDriver` | kernel `driver/ide` and NEMU `dev/ide.c` | `cache[]`, the address ports, the file position, `has_ide_intr`, `pc` = position in `ide_read` |
| `FileTable` | `fs.c` | `files[]`; offsets wrap at `Wrap` |
| `Handlers` | `irq_handle.c` | `handle_pool`, `handles`, `handle_count`; `adding` = between which two stores `add_irq_handle` is |
| `Kernel`, `MCKernel` | `main.c`, `idt.c`, `elf.c`, `do_syscall.c`: the three above composed, with interrupts in between | `IFlag`, `stage` = where start-up is, then the system call; `memory` = the segments loaded |
| `KernelProofs` | theorems about `Kernel` and the three modules it composes | |
| `Debugger` | what a breakpoint promises | abstract |
| `Breakpoints` | `breakpoint.c`, the whole loop of `exec()`, the commands, the thread that closes the window | `mem` = the guest's code bytes, `list`/`free` = the linked lists, `nemu_state` and every access to it |
| `BreakpointsProofs` | theorems about `Breakpoints` | |
| `VgaScreen` | stores to video memory against `update_screen` | `vmem`, `line_dirty`, `vmem_dirty`, `screen` |
| `VgaScreenProofs` | theorems about `VgaScreen` | |
| `KeyInput` | `keyboard.c` of NEMU and of nemu-pal's hal | `scan_code_buf`, the latched line, `key_state` |
| `KeyInputProofs` | theorems about `KeyInput` | |
| `PlainMemory` | what `paddr_read` and `paddr_write` promise | abstract |
| `DataCache`, `MCDataCache` | `memory/cache.c`; four lines for the run | an address is a line `<<mark, group>>` and an offset, as the shifts split it; `cache[g][w]` = `cache[group*8+i]` |
| `Alu` | `alu.c`, the instructions that widen or pair its results, the conditions of `instr_helper.h` | operators; `Byte` bits stand for 8 |
| `Decode` | `modrm.c`, `sib.c`, `operand.c` | operators over the fields of the encoding |
| `Fpu`, `X87` | `fpu.c`, `x87.c` | a number is its three fields; the register stack is `top` and `regStack` |
| `Stack` | push, pop, pusha, popa, call, ret, leave, jmp, `raise_intr`, iret, rep with movs, stos, cmps | a machine is registers, eip, eflags, cs and memory |
| `IntInstructions` | one integer instruction or operand on one of its inputs, and what it should give | `last` = operands and result |
| `Execution` | a guest on its stack: calls, frames, saved registers and interrupts in any nesting, moves and sti/cli in between; the loop of a repeated string instruction (`exec`, `raise_intr`, `rep_repe.c`) | `machine`; `nest` = what is not undone yet, each with the machine before it; `string` = the repeated instruction under way |
| `ExecutionProofs` | theorems about `IntInstructions` and `Execution` at the code's widths | |
| `Instructions` | one integer instruction, or one operation on floats | `last` as above |
| `Terms` | terms and comparisons of a compiled program on the register stack of the FPU | `last` as above |
| `Expr`, `Evaluator` | `expr.c`; trees written out and evaluated | |
| `Paging` | `kvm.c`, `mm.c`, `vmem.c`, the loader of `elf.c` segment by segment, sbrk, `memory.c`, `page.c` | `space.updir` = the program's directory, a table of frames per entry; `space.pf` = the next frame that `mm_malloc` hands out, `space.brk` = the kernel's `brk`; `heap.end` = `heap_end` of sbrk; before `write_cr3` accesses go through `init_page` (`View`) |
| `MemoryProofs` | theorems about `Paging`, at the code's width, and about `DataCache` | |
| `Computations`, `MCComputations` | all of these in one next-state relation | |

`IntrDelivery` has one action per access to shared state: `i8259_raise_intr` is
`RaiseLock`, `RaiseLatch`, `RaiseSet` (the last with the unlock), and so on. The
other device modules take from it only what it establishes: a line may be lost
(`AckClearsWhatWasQueried`), the disk's line is not (`SyncNeverLost`,
`SyncServed`). So `AudioPlayback!MonitorRaise` and `KeyInput!RaiseLost` may lose
the request, and in `DiskDriver` and `Kernel` the request stays until its handler has
run. `Breakpoints` in turn has an interrupt wherever `exec()` checks for one; its entry pushes
three words behind the scan of the watchpoints (`raise_intr`), so it may change the watched value.

A system call or an instruction that nothing interrupts is one step; `Kernel` splits the
ones that halt (`ide_read`) or that store with interrupts on (`add_irq_handle`). The modules
below `Computations`, `Execution` and `Paging` aside, are functions: their one step takes an
input and leaves the result in `last`, and the properties compare it with a definition that does
not look at the code (integers, real numbers, an encoding, a tree written out by a table of
precedences of its own, `Binds`). `Paging` has a step for each
segment that the loader places, for the start of the program, for each call of sbrk and for each
store, in the order in which the code makes them (`PagingSpec`), with stores of the kernel and of
the program in between. `Execution` runs a guest, one instruction or one pass of a repeated instruction per step: which interrupt
arrives, what is called and what runs in between are choices, and what is on the stack is
undone in the order in which it was put there. `ProgramSpec` is this guest alone.

Operators marked *mutated form* stand before the definition they vary. They take
no part in any specification; they are the bugs the properties are tested with.

## 3. Runs, bounds and what they show

| Run | Instance | Shows |
|---|---|---|
| `intr` | three devices, handlers nested two deep, fairness | safety of delivery, the refinement of `IrqLatch`, `HltEnds`, `SyncServed` |
| `intr_ack` | two devices | **violated**: the acknowledgement clears a request it did not see |
| `audio` | three blocks of two samples, both halves | locks, refinement of `SoundQueue`, no deadlock |
| `audio_whole` | the same | **violated**: a chunk is played with one half missing |
| `kernel` | two files (one needs three address bytes), a program of two segments, cache of two sectors of two words, pool of four handlers, timer, keyboard and disk | start-up, loader, dispatch, refinement of `PlainFiles`; everything comes back |
| `file_size` | the same | **violated**: a seek to the end does not give the size |
| `bp` | five instructions, an interrupt handler, pool of two, all commands, a careful user, the window closed at any moment | refinement of `Debugger`; the pool stays whole; a change is reported at the next scan; a closed window ends the run |
| `bp_two` | breakpoints at two addresses | **violated**: resuming after one spoils the other |
| `vga` | 2×2 pixels, three stores | stores outside a refresh are never lost |
| `key` | two keys | no second press without a release, no second release without another code; no release is undone; a held key is reported |
| `cache` | four lines of two bytes, three of them in a group of two ways | refinement of `PlainMemory`, no stale copy |
| `computations` | words of eight bits, floats of 3+4 bits, pages of four bytes | every function against its reference |

Why the bounds are enough. Threads that differ only by their line are exchangeable
but for the order of the lines, so three asynchronous lines below the disk give
every relation (`intr`; the proofs lift it to any number). Two chunks are all there
are, and three blocks fill each chunk at least once again after it was played. Two
cache entries shared by two files and the program give every hit, replacement and
re-read; files are larger and smaller than the counts, and a seek below 0 wraps. The
pool of four handlers is used up, with two of them on one line. Three lines in a group
of two ways make the data cache hit, fill a free way and drop a line, and accesses of two
bytes cross a line with and without a carry into the mark. The breakpoint code needs one
address before, at and after a breakpoint, a jump and the entry of a handler, and a pool of
two holds a breakpoint and a watchpoint and runs empty. Three stores over two lines put one
store in each window of a refresh.

In `computations` the byte is two bits, so that the three operand sizes are 2, 4 and 8:
carries, signs and truncations at a size and across two of them all occur, on 19 operands
that include the ends and the middles of every size; division runs over 13. Floats are all
values of seven magnitude bits, so every alignment distance, tie, denormal and overflow is
there. Every operand encoding is decoded. The guest of `Execution` nests two deep (`Depth`) and
begins three instructions (`Budget`), so that every opening holds every other and one more
instruction runs before, inside or behind them; two registers, two values (one of them negative
as a byte) and frames with and without local variables tell what comes back apart. Strings have
up to three elements of three sizes in both directions, at places below and above each other;
the bytes of memory repeat, so that cmps meets equal pairs and unequal ones. Trees have two
levels of operators; terms have two operations. Programs have two segments,
apart and on a common page, a stack of one page, and up to two calls of sbrk (`MaxCalls`), by less
than a page and by one; before, between and after these steps every address is stored to, once in
a run (`MaxStores`), and read back, in every length and under both directories. A heap is taken to
grow only, to stay below the stack, and to find free frames (`HasMemory`: `mm_malloc` is a binary,
and what it does without any is not known).

The only counters capped by a bound of the model are the nesting of handlers (`MaxDepth`),
the stores (`MaxStores`), the calls of sbrk (`MaxCalls`) and the argument of si (`MaxSteps`); the guest of `IntrDelivery`
does not nest deeper, but the theorems hold for every bound.

Deadlock is checked except where the system really stops: after the trap, a closed window
or an exhausted pool in `Breakpoints`, when the guest has stopped drawing in `VgaScreen`,
and where `Computations` has taken its input or used up a bound.

### Fairness

- `IntrDelivery!Fairness`: threads run (the host schedules them); the timer keeps
  ticking; the CPU and the raising instruction get the mutex in the end, because
  every other user sleeps between two uses.
- `AudioPlayback!Fairness`: SDL's callback, monitor, workers and game go on when they
  can, with strong fairness only where a mutex is contended.
- `Kernel!FairSpec`: what has begun goes on, the disk's interrupt is served while IF is
  set (`SyncServed`), the timer ticks. `TimerIntr` matters: an interrupt served between
  the test and the hlt of `wait_ide_intr` leaves the kernel asleep until the next tick.
- `Breakpoints!FairSpec`: `exec()` goes on by itself; neither the user nor the window need
  do anything.
- `VgaScreen`: both threads run; the guest need not draw.
- `KeyInput`: SDL repeats the held key, some of its requests get through, and a
  latched request is taken because the game turns interrupts on again and again.

## 4. Findings

Four runs show the code doing something else than its comments say; each quotes the
line (`PROJECT.json`, "findings"): the acknowledgement outside the mutex (`cpu.c:96`), the
workers' shared index (`audio.c:43`), INT3 saved as an original byte
(`breakpoint.c:167`), and the size of a file off by one (`fs.c:100`).

More came up while modelling and has no run of its own. A property that meets one of these
says so where it is stated, and leaves out exactly that case.

- Debugger (`Careful` FALSE shows the first three): a deleted breakpoint leaves INT3 in the
  code (`breakpoint.c:104`); the break state is overwritten when the count of si runs out
  (`cpu.c:108`); a breakpoint set while stopped at another is saved twice. A second breakpoint at
  the same address saves INT3 as its byte (`breakpoint.c:57`). With two watchpoints
  that change together the second is reported late (`breakpoint.c:197`). What the entry of an
  interrupt does to a watched `$esp` or word of the stack comes behind the scan (`cpu.c:99`): it
  is reported one instruction late, as if the handler's first had done it. If there is also a
  breakpoint at that instruction, the report overwrites its break state (`cpu.c:88`), and it is
  never planted again; `MaySet` and `MayWatch` keep a careful user from having both. A window closed at the
  prompt is forgotten by the next c (`cpu.c:56`). In an expression, what stands before a sign
  with one operand is dropped, and two signs in a row are not understood (`expr.c`, `Evaluator!Text`).
- Loader: the break it leaves is a physical address (`elf.c:53`), far above the virtual ones that
  `mm_brk` compares it with, so the first growth of a heap is never mapped.
  `create_video_mapping` replaces the whole table of directory entry 0, so a program linked
  below 4 MB would lose its pages.
- Memory: an access across two pages of the screen goes to the memory behind it
  (`memory.c:53`); with `CACHE_ENABLED`, one across any page leaves a stale line.
- ALU: `alu_div` cuts the dividend to the width of the divisor, so a high half other than 0
  is ignored; `set_OF_imul` sets OF for nearly every product; shifts do not mask
  their count, and those to the right leave OF alone; neg sets no flag but CF; cltd with 16 bits
  never sees a negative number.
- FPU: `internal_normalize` takes exponent 0 for exponent 1 in products, and leaves a denormal
  that rounds up to the smallest normal number with exponent 0; a division drops its
  remainder, so a quotient may be one place low; a NaN compares equal to everything.
- Strings: `repe cmps` stops at the first pair that is equal, not at the first that differs
  (`rep_repe.c:16`).
- Kernel: `irq_handle.c:23` admits a handler past the end of the pool; no program installs
  so many. A key tapped between two calls of `process_keys` is reported as released but never as
  pressed (`hal/keyboard.c:22`), so two releases may be reported in a row; `ReportedOnce` bounds
  each kind of report for itself. A seek below 0 is taken for one beyond the end and lands on
  the last byte of the file (`fs.c:101`).

## 5. What is proved

Each `*Proofs` module states the invariants of its runs as theorems of the specification,
for every value of the constants that the assumption of the component's module admits. Few
of the invariants are inductive alone; the strengthening is `IInv` there, with one step
lemma per group of actions or per conjunct. What each adds, and why it is needed:

**`IntrDeliveryProofs`** (`IrqAssumption`: the disk's line is the highest, vectors fit below
`NO_INTR`, the timer's and the keyboard's line are asynchronous): `TypeCorrect`,
`LineCorrect`, `QueryCorrect`, `NoSpuriousInterrupt`, `DiskInterruptKept`, and `Refinement`
of `IrqLatch`. Who holds the mutex is where its pc says it is (`MutexInv`); the line is never
up over an empty slot except inside an acknowledgement, and a filled slot has its line up or
a thread about to raise it (`LineInv`); a latched vector is outstanding (`SlotInv`); and
between the check and the acknowledgement the slot can only be outbid, never emptied, because
only the CPU thread acknowledges (`AckInv`). The last one is what makes the unlocked query
safe for the assertion and for the disk.

**`MemoryProofs`** has two parts.

- The address space (`PagingAssumption`: areas begin and end at pages, those with tables of their
  own at tables; a program is linked above the first table and below its stack, its segments in
  order): `PagesAreHeld`, of `PagingSpec` with `Byte = 8`, for pages, tables, memory and stack of any
  size, programs of any number of segments and any number of stores and growths. `PagingInv` says
  what a directory looks like (`Placed`): a page of the program has no frame or one between `KMEM` and
  `pf`, no two have the same, and the entries from `KOFFSET` on are those of the kernel. It says
  what entry 0 shows (`FirstTable`), which segments are in place (`Parts`), from where on the heap is
  mapped (`Heaped`), and that no page above the last segment placed has a frame yet (`Topped`).
  The last one is why the loader may write a segment to consecutive physical addresses:
  `mm_malloc` gives its new pages consecutive frames, and the one page that may have a frame
  already, shared with the segment before, has the last one given away. Two addresses are in the
  same byte of memory or of the screen exactly if they stand for the same place (`StandsFor`); so a
  store changes what is read at those addresses and no other, and the shifts that put the two parts
  of an access across a page together, or take them apart, are worked out digit by digit
  (`Joined`, `Digit`).
- The cache (`CacheAssumption`: an access is not longer than a line): `TypeCorrect`,
  `CopiesAgree`, `NoTwin`, and `Refinement` of `PlainMemory`. A write updates one copy only, so
  `CopiesAgree` needs `NoTwin`, and a fetch keeps `NoTwin` because it follows a miss. The invariant
  is a predicate of any cache and memory (`Good`), because an access across a line passes through
  an intermediate state.

**`AudioPlaybackProofs`** (`AudioAssumption`: blocks are not empty): `TypeCorrect`,
`ChunksStayApart`, `BlocksInOrder`, and `Refinement` of `SoundQueue`. The owner of a mutex is where its
pc says (`MutexInv`), and the chunk played is not the one to be filled except between the two
stores of the swap (`PhaseInv`). The order rests on a token: the permission to fill is in one
place only, with the monitor, in the request, with the game or in `ready[fill]`
(`TokenInv`), so no block is asked for twice or while one waits. `BlocksInOrder` is about the
blocks and not about every sample: whichever index the two workers read, one of them
leaves the new block in the chunk (`CopyInv`), but the other half may be old, which is the
finding of `audio_whole`. In the queue the block on the air is the one before the block that
the game reads next until that one is swapped in, and the place behind it is taken from the end
of the copy to the swap: what the two mutexes and two flags amount to is that nothing is put
into a full queue and no block is passed over or played before the one ahead of it.

**`KernelProofs`** (`DiskAssumption`, `FileAssumption`, `HandlerAssumption`, and
`KernelAssumption`: the sectors below the wrap of the offsets can be named by the three address
ports, the segments are in the image, the program installs no second disk handler, and at most
as many handlers as the pool has nodes beside the two of start-up): `CacheHolds`,
`CommandsAreAnswered`, `ListsStayWhole`, `WakesUp`, `LoaderIsRight`, and `Refinement` of `PlainFiles`. The
invariant follows a read from the system call (`ReadInv`: what `buf` holds is the bytes from
the first to `at`) through the ports (`CommandInv`: those written so far name the sector that
is wanted, and the words taken so far are its words) and the interrupt (`IrqInv`: a request or a
set flag belongs to the command under way), whatever is interrupted where. That three bytes in
three ports give the sector number back is a lemma of arithmetic. `RoutinesFrom` follows a list by
a recursive function; the proof needs no induction, because the function is the solution
of an equation that each store of `add_irq_handle` leaves with exactly one value at every
installed list (`ChainInv`), as long as no installed node points to the one being filled. In the refinement the ports, the cache, the
sleep and the interrupts are stutter; one step of the code brings the rest of a sector, so that a
read under way must have something left to bring (`AskedInv`), and what an offset is once the
unsigned sum of a seek has wrapped is a lemma of arithmetic (`SeekAssumption`: offsets are ints,
files shorter than half of what an offset can hold).

**`BreakpointsProofs`** (`BreakpointAssumption`, and in each theorem `Careful`: the user has one
breakpoint and one watchpoint at a time, sets the first where no break stopped the program,
deletes it only where it did, gives si only while there is none, and has none at the handler's
entry together with a watchpoint, as in run `bp`; `bp_two`
and section 4 show what the code does otherwise): `PoolAndCode`, `BreaksAreFound`, `ChangesAreSeen`, and `Refinement` of `Debugger`. The
pool is partitioned (`PoolInv`), a byte is the program's own or INT3 at a breakpoint that
remembers it (`CodeInv`), and at a stop, until the instruction there was executed, the whole
code is the program's own (`StopInv`). Until the window is closed INT3 stands at the breakpoint at
all other times (`OpenInv`): that is what the refinement needs to arrive at no breakpoint
unnoticed. A watched value that has changed is still to be reported only between an instruction
and its scan, or from the entry of an interrupt to the scan behind the handler's first instruction,
which cannot be a break or the end of the program (`WatchInv`): so no report is lost to the state
of a stop. The abstract program is where `eip` is, but one byte back between INT3 and the
repair of `eip`.

**`VgaScreenProofs`** (`VgaAssumption`): `TypeCorrect`, `CleanLinesShow`, and
`MarksWakeTheScreen` (which no run states: the VGA thread never waits before a marked line that
`vmem_dirty` does not announce). `LineInv` says of each line not stored into behind the
refresh's back how far it is on the screen; `MarkInv` says which marks the memset under way will
still clear.

**`KeyInputProofs`** (`KeyAssumption`): `TypeCorrect`, `NoReportTwice`,
`NoReleaseUndone`. An open report has left PRESS behind and has not reached EMPTY, except while
the callback runs (`OpenReport`), a key in RELEASE has a release code that was not reported yet,
with the same exception (`ReleaseToCome`), and interrupts stay off from the test of a state to its change
(`IntrOffWithin`).

**`ExecutionProofs`** (`OperandAssumption`: operands, dividends and registers are words;
`ExecutionAssumption`: esp and ebp are not used for values, and strings neither wrap nor overlap;
and in each theorem `Byte = 8`, the code's own width, which TLC cannot enumerate). The run covers
every operand pattern at eight bits, the theorems all words of 32.

- One instruction: `SumsAreRight`, `JumpsAreRight`, `OperandsAreRight`, `AluIsRight`.
  `IntegerSpec` is the integer part of `Computations`, one instruction after another. `alu.c`
  widens both operands with their sign and then compares the truncated result with one of them
  for CF, and signs for OF; `SumIs` and `DifferenceIs` show that this finds the carry and the
  overflow of the integers, with a carry in and at each operand size, and `ConditionsFit` that SF
  differs from OF exactly when the signed operands are in order. Shifts, products and quotients
  rest on the one quotient and remainder that a division has (`ModUnique`). And, or and xor are
  sums over the bits of a word: the induction over the number of bits goes through the set of
  numbers for which the statement fails and its least element, as no theorem of the library that
  takes a predicate can be used. Decoding: each of the encodings that share register numbers 4 and 5
  decodes to its own operand, and the parts of a register that share no bit do not disturb each
  other.
- A guest on its stack: `ProgramStands` (the invariant) and `StackUnwinds`, of `ProgramSpec`, for any
  depth, length of the run, values, registers and local variables. A store is read back as long as it
  does not wrap; so what each opening leaves on the stack and in the registers is known (`Entered`),
  and the instruction that undoes it finds it there. The invariant says of every opening of the
  nest at once (`NestStands`) that up to the next one, or up to now, esp is where it left it and
  nothing above its local variables changed (`Arrived`). It has to be about the whole nest: when the
  innermost opening is undone, what is known of the one around it must still hold, and does because
  undoing restores the machine of before in exactly these parts.
- Repeated strings: `StringsAreRight`, of `ProgramSpec`, for any count and any places that do not
  overlap. `LoopStands` is the invariant of the loop: after so many passes the index registers are so
  many elements further, the elements passed are copied or filled and every other byte is as
  before, and of the pairs passed by cmps only the last can be equal. A pass of movs reads an
  element of the source, which no pass before wrote to.

In every specification `TypeCorrect` or the type conjunct of `IInv` is proved along with the
rest, as the other invariants rest on it.

Only model-checked:

- all liveness: fairness and ENABLED are outside of what the prover does. This is `HltEnds`,
  `SyncServed`, the end of every wait of audio and kernel, the screen and the held key;
- `FloatsAreRounded`, `FpuStackUnwinds`, `TreesMeanWhatTheySay`: their modules
  compute with recursive operators (normalisation, terms, trees), and a theorem about all
  inputs would be an induction over them;
- the four runs that expect a violation.

## 6. Not modelled

See "components" in `PROJECT.json`. Left out for good:

- nemu-pal's game logic and its fonts. They are a port of third-party SDLPAL, run by one
  thread of one guest program, and are about three quarters of the lines of the repository: the
  two font headers alone, tables of bitmaps, have 47,000 of 107,000. The models cover the
  repository's own emulator, kernel and device code, and so a small share of all lines;
- newlib, the reference library and `mm_malloc` (binaries and headers), the test programs,
  the self-tests and scripts;
- the write path of the disk (no caller), DMA and the TLB (not compiled), the DAC and CRTC
  ports (colours), the port table, serial output, the disassembler, the tokeniser;
- set-up that runs once before any thread: command line, symbol tables, SDL's window.

`DataCache` is of a build with `CACHE_ENABLED`, which is off by default; two
threads that use the cache at once (the audio workers) are left out of it.

## 7. Plan

Modelling is complete as far as the list above says, and every invariant, action property and
refinement that a passing run checks is a theorem, but for the three named under "Only
model-checked". What is left:

1. `FloatsAreRounded` at 8 and 23 bits: one theorem per operation, from the same lemmas on quotients
   and remainders as `AluIsRight`, once `internal_normalize` is a step per shift.
2. `FpuStackUnwinds` and `TreesMeanWhatTheySay` remain inductions over terms and trees.
