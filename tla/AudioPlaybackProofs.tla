------------------------- MODULE AudioPlaybackProofs -------------------------
(***************************************************************************)
(* Proofs about AudioPlayback, for any number of blocks of any length:     *)
(* that the two chunks are never confused, that the blocks are heard in    *)
(* the order of the file, and that all of it implements SoundQueue.  They  *)
(* rest on TokenInv: there is one permission to fill a chunk, which goes   *)
(* from the swap through switch_buf, the monitor, the interrupt, the game  *)
(* and the filled chunk to the next swap.  It may get lost on the way but  *)
(* is never doubled.                                                       *)
(***************************************************************************)
EXTENDS AudioPlayback, TLAPS

(* Before port AUDIO_CTL is written nothing moves; then the chunk that is  *)
(* played is not the one to be filled, except halfway through the swap.    *)
PhaseInv ==
  /\ audio_state = 1 <=> cpu \in {"ctl", "play"}
  /\ cpu \in {"ctl", "play"} => sdl = "call" /\ ~reload
  /\ cpu = "ctl" => /\ play = 0 /\ fill = 0
                    /\ ~switch_buf /\ mon = "test" /\ ~irq
                    /\ \A c \in Chunks : ~ready[c]
  /\ sdl = "swapplay" => play = fill
  /\ cpu # "ctl" /\ sdl # "swapplay" => play # fill

SdlHolds(c) ==
  \/ sdl \in {"test", "lockfill", "flag", "mix", "unlock"} /\ c = play
  \/ sdl \in {"peek", "swapfill", "swapplay"}

CpuHolds(c) == cpu \in Filling /\ c = taken

(* The owner of a mutex is where its pc says, and alone.                   *)
MutexInv ==
  \A c \in Chunks : /\ "sdl" \in owner[c] <=> SdlHolds(c)
                    /\ "cpu" \in owner[c] <=> CpuHolds(c)
                    /\ ~(SdlHolds(c) /\ CpuHolds(c))

(* Where the permission may be: with the monitor, with the game or the     *)
(* handler of its write, with fill_audio; or in irq, or in ready[fill].    *)
Signal == mon = "raise" \/ (mon = "test" /\ switch_buf)
Writing == {"lock"} \cup (Filling \ {"len", "unlock"})
Asked == (cpu = "wait" /\ reload) \/ cpu \in {"read", "data"} \cup Writing
Swapped == sdl \in {"swapplay", "flag"}

TokenInv ==
  /\ Signal => ~irq /\ ~Asked /\ ~ready[fill] /\ ~Swapped
  /\ irq => ~Asked /\ ~ready[fill] /\ ~Swapped
  /\ Asked => ~ready[fill] /\ ~Swapped
  /\ ready[fill] => ~Swapped
  /\ sdl = "swapfill" => ready[fill]
  /\ cpu \in {"lock"} \cup Filling => taken = fill
  /\ cpu \in {"len", "unlock"} => ready[fill]

(* A chunk that is not ready is empty, as is the one about to be swapped.  *)
LenInv ==
  /\ \A c \in Chunks : ~ready[c] => len[c] = 0
  /\ sdl \in {"lockfill", "peek", "swapfill"} => ~ready[play]

(* Whichever index the workers read, one of them leaves the newest block   *)
(* in the chunk by the time that both are joined.                          *)
Copying == {"inc1", "create1", "inc2", "reset", "join0", "join1"}

CopyInv ==
  /\ \A w \in Workers : worker[w] = "created" => cpu \in Copying
  /\ cpu \in Copying \cup {"ready"} =>
       \A w \in Workers : worker[w] = "done" /\ block <= NBlocks =>
         \E h \in Halves : chunk[fill][h] = block
  /\ cpu \in {"join1", "ready"} => worker[0] = "done"
  /\ cpu = "create0" => \A w \in Workers : worker[w] = "none"
  /\ \A c \in Chunks, h \in Halves : chunk[c][h] <= block

(* The block last read waits in the chunk to be filled until it is swapped *)
(* in; Front is the other chunk, and InFront the block that is there.      *)
Unswapped == cpu \in {"data"} \cup Writing \/ ready[fill]
InFront == IF Unswapped THEN block - 1 ELSE block
Front == 1 - fill

OrderInv ==
  /\ cpu \in {"data", "lock", "clear"} \cup Filling => block >= 1
  /\ ready[fill] => block >= 1 /\ (block <= NBlocks => Newest(fill) = block)
  /\ ready[fill] /\ cpu # "len" => len[fill] = DataLen
  /\ len[Front] > 0 => Newest(Front) = InFront
  /\ \/ last = InFront
     \/ last = NBlocks /\ InFront > NBlocks
     \/ last = InFront - 1 /\ len[Front] > 0

IInv == /\ TypeOK /\ PhaseInv /\ MutexInv /\ TokenInv /\ LenInv
        /\ CopyInv /\ OrderInv
-----------------------------------------------------------------------------
(* The monitor passes the permission on to irq, or loses it.               *)
LEMMA MonitorKeeps == IInv /\ MonitorStep => IInv'
<1> SUFFICES ASSUME IInv, MonitorStep PROVE IInv'
  OBVIOUS
<1> USE AudioAssumption
    DEF IInv, TypeOK, PhaseInv, MutexInv, TokenInv, LenInv, CopyInv, OrderInv,
        SdlHolds, CpuHolds, Free, Filling, Signal, Writing, Asked, Swapped,
        Copying, Unswapped, InFront, Front, Newest, DataLen,
        Chunks, Workers, Halves, CpuPc, SdlPc, bufVars, sigVars, cpuVars, pcVars
<1>1. CASE MonitorTest
  BY <1>1 DEF MonitorTest
<1>2. CASE MonitorRaise
  <2>1. TypeOK'
    <3>1. irq' \in BOOLEAN
      BY <1>2, Zenon DEF MonitorRaise
    <3>2. QED
      BY <1>2, <3>1, Zenon DEF MonitorRaise
  <2>2. /\ PhaseInv' /\ MutexInv' /\ TokenInv'
        /\ LenInv' /\ CopyInv' /\ OrderInv'
    BY <1>2 DEF MonitorRaise
  <2>3. QED
    BY <2>1, <2>2
<1>3. CASE MonitorReset
  <2>1. TypeOK'
    <3>1. switch_buf' \in BOOLEAN
      BY <1>3, Zenon DEF MonitorReset
    <3>2. QED
      BY <1>3, <3>1, Zenon DEF MonitorReset
  <2>2. /\ PhaseInv' /\ MutexInv' /\ TokenInv'
        /\ LenInv' /\ CopyInv' /\ OrderInv'
    BY <1>3 DEF MonitorReset
  <2>3. QED
    BY <2>1, <2>2
<1>4. QED
  BY <1>1, <1>2, <1>3 DEF MonitorStep

(* The game takes it from irq, reads one block for it and forgets it when  *)
(* it clears audio_reload.                                                 *)
LEMMA GameKeeps == IInv /\ (AudioEvent \/ GameStep) => IInv'
<1> SUFFICES ASSUME IInv, AudioEvent \/ GameStep PROVE IInv'
  OBVIOUS
<1> USE AudioAssumption
    DEF IInv, TypeOK, PhaseInv, MutexInv, TokenInv, LenInv, CopyInv, OrderInv,
        SdlHolds, CpuHolds, Free, Filling, Signal, Writing, Asked, Swapped,
        Copying, Unswapped, InFront, Front, Newest, DataLen,
        Chunks, Workers, Halves, CpuPc, SdlPc, bufVars, sigVars, cpuVars, pcVars
<1>1. CASE AudioEvent
  <2>1. TypeOK'
    <3>1. reload' \in BOOLEAN /\ irq' \in BOOLEAN
      BY <1>1, Zenon DEF AudioEvent
    <3>2. QED
      BY <1>1, <3>1, Zenon DEF AudioEvent
  <2>2. /\ PhaseInv' /\ MutexInv' /\ TokenInv'
        /\ LenInv' /\ CopyInv' /\ OrderInv'
    BY <1>1 DEF AudioEvent
  <2>3. QED
    BY <2>1, <2>2
<1>2. CASE CtlStart
  BY <1>2 DEF CtlStart
<1>3. CASE CtlPlay
  BY <1>3 DEF CtlPlay
<1>4. CASE WaitIntr
  BY <1>4 DEF WaitIntr
<1>5. CASE ReadBlock
  BY <1>5 DEF ReadBlock
<1>6. CASE ClearReload
  <2>1. TypeOK'
    <3>1. reload' \in BOOLEAN
      BY <1>6, Zenon DEF ClearReload
    <3>2. QED
      BY <1>6, <3>1, Zenon DEF ClearReload
  <2>2. /\ PhaseInv' /\ MutexInv' /\ TokenInv'
        /\ LenInv' /\ CopyInv' /\ OrderInv'
    BY <1>6 DEF ClearReload
  <2>3. QED
    BY <2>1, <2>2
<1>7. QED
  BY <1>1, <1>2, <1>3, <1>4, <1>5, <1>6 DEF GameStep

(* The write turns it into a chunk that is ready.                          *)
LEMMA DataKeeps == IInv /\ (DataStep \/ \E w \in Workers : WorkerCopy(w)) => IInv'
<1> SUFFICES ASSUME IInv, DataStep \/ \E w \in Workers : WorkerCopy(w) PROVE IInv'
  OBVIOUS
<1> USE AudioAssumption
    DEF IInv, TypeOK, PhaseInv, MutexInv, TokenInv, LenInv, CopyInv, OrderInv,
        SdlHolds, CpuHolds, Free, Filling, Signal, Writing, Asked, Swapped,
        Copying, Unswapped, InFront, Front, Newest, DataLen,
        Chunks, Workers, Halves, CpuPc, SdlPc, bufVars, sigVars, cpuVars, pcVars
<1>1. CASE DataTake
  BY <1>1 DEF DataTake
<1>2. CASE DataLock
  BY <1>2 DEF DataLock
<1>3. CASE CopyStep
  BY <1>3 DEF CopyStep, CopyAt
<1>4. CASE DataReady
  BY <1>4 DEF DataReady
<1>5. CASE DataSetLen
  BY <1>5 DEF DataSetLen
<1>6. CASE DataUnlock
  BY <1>6 DEF DataUnlock
<1>7. CASE \E w \in Workers : WorkerCopy(w)
  BY <1>7 DEF WorkerCopy
<1>8. QED
  BY <1>1, <1>2, <1>3, <1>4, <1>5, <1>6, <1>7 DEF DataStep

(* fill_audio swaps a chunk in for it, and hands it back in switch_buf.    *)
LEMMA SdlKeeps == IInv /\ SdlStep => IInv'
<1> SUFFICES ASSUME IInv, SdlStep PROVE IInv'
  OBVIOUS
<1> USE AudioAssumption
    DEF IInv, TypeOK, PhaseInv, MutexInv, TokenInv, LenInv, CopyInv, OrderInv,
        SdlHolds, CpuHolds, Free, Filling, Signal, Writing, Asked, Swapped,
        Copying, Unswapped, InFront, Front, Newest, DataLen,
        Chunks, Workers, Halves, CpuPc, SdlPc, bufVars, sigVars, cpuVars, pcVars
<1>1. CASE FillCall
  BY <1>1 DEF FillCall, Sdl
<1>2. CASE FillLockPlay
  BY <1>2 DEF FillLockPlay, Sdl
<1>3. CASE FillGoesOn
  BY <1>3 DEF FillGoesOn, Sdl
<1>4. CASE FillIsEmpty
  BY <1>4 DEF FillIsEmpty, Sdl
<1>5. CASE FillLockFill
  BY <1>5 DEF FillLockFill, Sdl
<1>6. CASE FillRetry
  BY <1>6 DEF FillRetry, Sdl
<1>7. CASE FillValid
  BY <1>7 DEF FillValid, Sdl
<1>8. CASE FillSwapFill
  BY <1>8 DEF FillSwapFill, Sdl
<1>9. CASE FillSwapPlay
  BY <1>9 DEF FillSwapPlay, Sdl
<1>10. CASE FillFlag
  BY <1>10 DEF FillFlag
<1>11. CASE FillMix
  BY <1>11 DEF FillMix, Sdl
<1>12. CASE FillUnlock
  BY <1>12 DEF FillUnlock, Sdl
<1>13. QED
  BY <1>1, <1>2, <1>3, <1>4, <1>5, <1>6, <1>7, <1>8, <1>9, <1>10, <1>11, <1>12 DEF SdlStep

-----------------------------------------------------------------------------
(* The five threads, however they interleave, keep the invariant.          *)
LEMMA StepInv == IInv /\ [Next]_vars => IInv'
<1> SUFFICES ASSUME IInv, [Next]_vars PROVE IInv'
  OBVIOUS
<1>1. CASE Next
  BY <1>1, MonitorKeeps, GameKeeps, DataKeeps, SdlKeeps DEF Next
<1>2. CASE UNCHANGED vars
  BY <1>2
     DEF vars, bufVars, sigVars, cpuVars, pcVars, IInv, TypeOK, PhaseInv, MutexInv,
         TokenInv, LenInv, CopyInv, OrderInv, SdlHolds, CpuHolds, Signal, Asked,
         Swapped, Unswapped, InFront, Front, Newest, DataLen
<1>3. QED
  BY <1>1, <1>2

(* From the start of the program the invariant holds.                      *)
THEOREM Invariance == Spec => []IInv
<1>1. Init => IInv
  <2> SUFFICES ASSUME Init PROVE IInv
    OBVIOUS
  <2>1. TypeOK
    <3>1. /\ chunk \in [Chunks -> [Halves -> 0 .. NBlocks]]
          /\ len \in [Chunks -> 0 .. BlockLen] /\ ready \in [Chunks -> BOOLEAN]
          /\ owner \in [Chunks -> SUBSET {"cpu", "sdl"}]
          /\ worker \in [Workers -> {"none", "created", "done"}]
      BY AudioAssumption DEF Init
    <3>2. /\ switch_buf \in BOOLEAN /\ active \in BOOLEAN
          /\ irq \in BOOLEAN /\ reload \in BOOLEAN
      BY DEF Init
    <3>3. /\ play \in Chunks /\ fill \in Chunks /\ taken \in Chunks
          /\ audio_state \in 0 .. 1 /\ i \in 0 .. 2
          /\ block \in 0 .. NBlocks + 1 /\ last \in 0 .. NBlocks
      BY AudioAssumption DEF Init, Chunks
    <3>4. sdl \in SdlPc /\ cpu \in CpuPc /\ mon \in {"test", "raise", "reset"}
      BY DEF Init, SdlPc, CpuPc
    <3>5. QED
      BY <3>1, <3>2, <3>3, <3>4, Zenon DEF TypeOK
  <2>2. PhaseInv /\ MutexInv
    BY DEF Init, PhaseInv, MutexInv, SdlHolds, CpuHolds, Filling
  <2>3. TokenInv /\ LenInv
    BY DEF Init, TokenInv, LenInv, Signal, Writing, Asked, Swapped, Filling, Chunks
  <2>4. CopyInv /\ OrderInv
    BY DEF Init, CopyInv, OrderInv, Copying, Writing, Unswapped, InFront, Front,
           Filling, Chunks, Workers, Halves
  <2>5. QED
    BY <2>1, <2>2, <2>3, <2>4 DEF IInv
<1>2. QED
  BY <1>1, StepInv, PTL DEF Spec

(* Every variable keeps its type; the threads stay in their program.       *)
THEOREM TypeCorrect == Spec => []TypeOK
<1>1. IInv => TypeOK
  BY DEF IInv
<1>2. QED
  BY <1>1, Invariance, PTL

(* The mutex that the CPU thread chose before it blocked is still that of  *)
(* the chunk it fills, and fill_audio starts each call with two different  *)
(* chunks, as it asserts (audio.c, AUDIO_DATA and fill_audio).             *)
THEOREM ChunksStayApart == Spec => []ChunksAreApart
<1>1. IInv => FillsWhatItLocked
  <2> SUFFICES ASSUME IInv, cpu \in Filling
               PROVE  taken = fill /\ owner[fill] = {"cpu"}
    BY DEF FillsWhatItLocked
  <2>1. taken = fill /\ fill \in Chunks /\ owner[fill] \in SUBSET {"cpu", "sdl"}
    BY DEF IInv, TokenInv, TypeOK
  <2>2. "cpu" \in owner[fill] /\ "sdl" \notin owner[fill]
    BY <2>1 DEF IInv, MutexInv, CpuHolds
  <2>3. QED
    BY <2>1, <2>2
<1>2. IInv => PlayIsNotFill
  BY DEF IInv, PhaseInv, PlayIsNotFill
<1>3. QED
  BY <1>1, <1>2, Invariance, PTL DEF ChunksAreApart

(* No block is skipped and none is heard again, whatever interrupts are    *)
(* lost and however the workers race.                                      *)
THEOREM BlocksInOrder == Spec => HeardInOrder
<1>1. IInv /\ [Next]_vars => [last' # last => last' = last + 1]_last
  <2> SUFFICES ASSUME IInv, [Next]_vars, last' # last PROVE last' = last + 1
    OBVIOUS
  <2>1. FillMix
    BY DEF Next, vars, MonitorStep, MonitorTest, MonitorRaise, MonitorReset,
           AudioEvent, GameStep, CtlStart, CtlPlay, WaitIntr, ReadBlock, ClearReload,
           DataStep, DataTake, DataLock, CopyStep, CopyAt, DataReady, DataSetLen,
           DataUnlock, WorkerCopy, SdlStep, FillCall, FillLockPlay, FillGoesOn,
           FillIsEmpty, FillLockFill, FillRetry, FillValid, FillSwapFill,
           FillSwapPlay, FillFlag, FillUnlock
  <2>2. sdl = "mix" /\ len[play] > 0 /\ last' = Newest(play)
    BY <2>1 DEF FillMix, Sdl
  <2>3. play = Front /\ play \in Chunks /\ fill \in Chunks
    BY <2>2 DEF IInv, TypeOK, PhaseInv, Front, Chunks
  <2>4. last' = InFront /\ InFront <= NBlocks /\ InFront \in Nat /\ last \in Nat
    BY <2>2, <2>3, AudioAssumption
       DEF IInv, TypeOK, OrderInv, Newest, Halves, InFront
  <2>5. QED
    BY <2>3, <2>4 DEF IInv, OrderInv
<1>2. QED
  BY <1>1, Invariance, PTL DEF Spec, HeardInOrder

-----------------------------------------------------------------------------
(* The queue that the two chunks, their flags and the block last read make *)
(* up, in the order of the variables of SoundQueue.                        *)
queueVars == <<Waiting, OnAir, len[1 - fill], last>>

(* The monitor, the interrupt, the game's loop and the copy workers leave  *)
(* the queue alone: reading the next block moves what is on the air from   *)
(* `block' to the one before it.                                           *)
LEMMA OthersStutter ==
  ASSUME IInv, IInv', MonitorStep \/ AudioEvent \/ GameStep \/ (\E w \in Workers : WorkerCopy(w))
  PROVE  UNCHANGED queueVars
<1> USE AudioAssumption
    DEF IInv, TypeOK, TokenInv, Asked, Filling, Writing,
        Chunks, CpuPc, Waiting, OnAir, queueVars, bufVars, sigVars, cpuVars, pcVars
<1>1. CASE MonitorStep
  BY <1>1 DEF MonitorStep, MonitorTest, MonitorRaise, MonitorReset
<1>2. CASE AudioEvent
  BY <1>2 DEF AudioEvent
<1>3. CASE CtlStart
  BY <1>3 DEF CtlStart, PhaseInv, LenInv
<1>4. CASE CtlPlay
  BY <1>4 DEF CtlPlay
<1>5. CASE WaitIntr
  BY <1>5 DEF WaitIntr
<1>6. CASE ReadBlock
  BY <1>6 DEF ReadBlock
<1>7. CASE ClearReload
  BY <1>7 DEF ClearReload
<1>8. CASE \E w \in Workers : WorkerCopy(w)
  BY <1>8 DEF WorkerCopy
<1>9. QED
  BY <1>1, <1>2, <1>3, <1>4, <1>5, <1>6, <1>7, <1>8 DEF GameStep

(* Of the handler of AUDIO_DATA the store to audio_chunk_ready is the      *)
(* write; its token says that no other block waits then.                   *)
LEMMA DataWrites ==
  ASSUME IInv, IInv', DataStep
  PROVE  Queue!Write \/ UNCHANGED queueVars
<1> USE AudioAssumption
    DEF IInv, TypeOK, TokenInv, Asked, Filling, Writing,
        Chunks, CpuPc, Waiting, OnAir, queueVars, bufVars, sigVars, cpuVars, pcVars
<1>1. CASE DataTake
  BY <1>1 DEF DataTake
<1>2. CASE DataLock
  BY <1>2 DEF DataLock
<1>3. CASE CopyStep
  BY <1>3 DEF CopyStep, CopyAt
<1>4. CASE DataReady
  BY <1>4 DEF DataReady, Queue!Write, Queue!Silence, OrderInv
<1>5. CASE DataSetLen
  BY <1>5 DEF DataSetLen
<1>6. CASE DataUnlock
  BY <1>6 DEF DataUnlock
<1>7. QED
  BY <1>1, <1>2, <1>3, <1>4, <1>5, <1>6 DEF DataStep

(* Of fill_audio the store to audio_chunk_fill_idx is the swap, from which *)
(* the filled chunk counts as in front, and the mixing plays a part of it. *)
LEMMA SdlSwapsAndPlays ==
  ASSUME IInv, IInv', SdlStep
  PROVE  Queue!Swap \/ Queue!Play \/ UNCHANGED queueVars
<1> USE AudioAssumption
    DEF IInv, TypeOK, TokenInv, Asked, Filling, Writing,
        Chunks, CpuPc, SdlPc, Waiting, OnAir, queueVars, bufVars, sigVars, cpuVars, pcVars
<1>1. CASE FillCall
  BY <1>1 DEF FillCall, Sdl
<1>2. CASE FillLockPlay
  BY <1>2 DEF FillLockPlay, Sdl
<1>3. CASE FillGoesOn
  BY <1>3 DEF FillGoesOn, Sdl
<1>4. CASE FillLockFill
  BY <1>4 DEF FillLockFill, Sdl
<1>5. CASE FillRetry
  BY <1>5 DEF FillRetry, Sdl
<1>6. CASE FillValid
  BY <1>6 DEF FillValid, Sdl
<1>7. CASE FillSwapPlay
  BY <1>7 DEF FillSwapPlay, Sdl
<1>8. CASE FillFlag
  BY <1>8 DEF FillFlag
<1>9. CASE FillUnlock
  BY <1>9 DEF FillUnlock, Sdl
<1>10. CASE FillIsEmpty
  BY <1>10 DEF FillIsEmpty, Sdl, PhaseInv
<1>11. CASE FillSwapFill
  <2>1. sdl = "swapfill" /\ sdl' = "swapplay" /\ fill' = play
        /\ ready' = ready /\ len' = len /\ last' = last /\ block' = block /\ cpu' = cpu
    BY <1>11 DEF FillSwapFill, Sdl
  <2>2. ready[fill] /\ ~ready[play] /\ play # fill /\ len[play] = 0 /\ len[fill] = DataLen
    BY <2>1 DEF PhaseInv, LenInv, OrderInv, MutexInv, SdlHolds, CpuHolds
  <2>3. cpu \notin {"data", "lock"} \cup (Filling \ {"len", "unlock"})
    BY <2>2
  <2>4. Queue!Swap
    BY <2>1, <2>2, <2>3 DEF Queue!Swap, Queue!Silence, DataLen, OrderInv
  <2>5. QED
    BY <2>4
<1>12. CASE FillMix
  <2>1. sdl = "mix" /\ fill' = fill /\ ready' = ready /\ block' = block /\ cpu' = cpu
        /\ len' = [len EXCEPT ![play] = IF @ > 0 THEN @ - 1 ELSE 0]
        /\ last' = IF len[play] > 0 THEN Newest(play) ELSE last
    BY <1>12 DEF FillMix, Sdl, cpuVars
  <2>2. play = 1 - fill
    BY <2>1 DEF PhaseInv
  <2>3. CASE len[play] > 0
    <3>1. Newest(play) = InFront /\ Newest(play) <= NBlocks
      BY <2>2, <2>3 DEF OrderInv, Front, Newest, Halves
    <3>2. QED
      BY <2>1, <2>2, <2>3, <3>1 DEF Queue!Play, InFront, Unswapped
  <2>4. CASE ~(len[play] > 0)
    BY <2>1, <2>2, <2>4
  <2>5. QED
    BY <2>3, <2>4
<1>13. QED
  BY <1>1, <1>2, <1>3, <1>4, <1>5, <1>6, <1>7, <1>8, <1>9, <1>10, <1>11, <1>12
     DEF SdlStep

(* The five threads with their mutexes, flags and a signal that may get    *)
(* lost make one queue of sound: a block is only taken when none waits,    *)
(* each is heard to its end and in the order of the file (audio.c).        *)
THEOREM Refinement == Spec => ImplementsQueue
<1>1. Init => Queue!Init
  BY AudioAssumption DEF Init, Queue!Init, Waiting, OnAir, Filling, Chunks
<1>2. IInv /\ IInv' /\ [Next]_vars => [Queue!Next]_queueVars
  <2> SUFFICES ASSUME IInv, IInv', [Next]_vars PROVE [Queue!Next]_queueVars
    OBVIOUS
  <2>1. CASE Next
    BY <2>1, OthersStutter, DataWrites, SdlSwapsAndPlays DEF Next, Queue!Next
  <2>2. CASE UNCHANGED vars
    BY <2>2 DEF vars, bufVars, sigVars, cpuVars, pcVars, queueVars, Waiting, OnAir
  <2>3. QED
    BY <2>1, <2>2
<1>3. QED
  BY <1>1, <1>2, Invariance, PTL DEF Spec, ImplementsQueue, Queue!Spec, queueVars
=============================================================================
