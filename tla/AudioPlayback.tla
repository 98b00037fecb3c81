---------------------------- MODULE AudioPlayback ----------------------------
(***************************************************************************)
(* The sound path from the credits game to SDL, across five threads:       *)
(*   - the CPU thread runs the game's loop (game credits/credits.c): wait  *)
(*     for an interrupt, and when audio_event set audio_reload, read the   *)
(*     next block of the file and write it to port AUDIO_DATA;             *)
(*   - the port's handler (nemu device/dev/audio.c) copies the block into  *)
(*     the chunk to be filled with two worker threads;                     *)
(*   - SDL's audio thread calls fill_audio, which plays one chunk, and     *)
(*     swaps the two chunks when the one it plays is empty;                *)
(*   - the monitor thread turns the swap into interrupt AUDIO_IRQ.         *)
(* One action per access to shared state.  Blocks of sound are numbered in *)
(* the order of the file, the bytes of a block are its two interleaved     *)
(* halves (one per worker), its length is counted in callbacks.            *)
(* The machine runs throughout: the returns on NEMU_STOP are left out.     *)
(***************************************************************************)
EXTENDS Naturals, FiniteSets

CONSTANTS NBlocks,  \* blocks of PCM_BUF_SIZE bytes in the file
          BlockLen  \* callbacks that one block feeds

ASSUME AudioAssumption == NBlocks \in Nat /\ BlockLen \in Nat \ {0}

Chunks == 0 .. 1     \* audio_chunk[2]
Workers == 0 .. 1    \* NUM_AUDIO_WORKER
Halves == 0 .. 1     \* the bytes i * NUM_AUDIO_WORKER + idx for idx = 0, 1

CpuPc == {"ctl", "play", "wait", "read", "data", "lock", "create0", "inc1",
          "create1", "inc2", "reset", "join0", "join1", "ready", "len",
          "unlock", "clear"}
SdlPc == {"call", "lockplay", "test", "lockfill", "peek", "swapfill",
          "swapplay", "flag", "mix", "unlock"}

VARIABLES
  chunk,      \* audio_chunk: the block each half of each chunk comes from
  len,        \* audio_len, in callbacks
  ready,      \* audio_chunk_ready
  play, fill, \* audio_chunk_play_idx, audio_chunk_fill_idx
  owner,      \* audio_mutex: the set of threads holding each mutex
  switch_buf, \* set by fill_audio and the first AUDIO_CTL, read by the monitor
  audio_state,\* 1 paused, 0 playing
  active,     \* the monitor thread exists
  sdl, mon, cpu,  \* where the three threads stand
  taken,      \* the mutex the CPU thread is about to lock, then holds
  i, worker,  \* copy_audio_data: the loop index the workers read, the workers
  irq,        \* AUDIO_IRQ is latched in the interrupt controller
  reload,     \* audio_reload of the game
  block,      \* the block last read from the file
  last        \* history: the newest block that was played

bufVars == <<chunk, len, ready, play, fill, owner>>
sigVars == <<switch_buf, audio_state, active, irq, reload>>
cpuVars == <<taken, i, worker, block>>
pcVars == <<sdl, mon, cpu>>
vars == <<bufVars, sigVars, cpuVars, pcVars, last>>

Init ==
  /\ chunk = [c \in Chunks |-> [h \in Halves |-> 0]]
  /\ len = [c \in Chunks |-> 0]
  /\ ready = [c \in Chunks |-> FALSE]
  /\ play = 0 /\ fill = 0
  /\ owner = [c \in Chunks |-> {}]
  /\ switch_buf = FALSE /\ audio_state = 1 /\ active = FALSE
  /\ sdl = "call" /\ mon = "test" /\ cpu = "ctl"
  /\ taken = 0 /\ i = 0 /\ worker = [w \in Workers |-> "none"]
  /\ irq = FALSE /\ reload = FALSE
  /\ block = 0 /\ last = 0

(* SDL mutexes may be locked again by their owner.                         *)
Free(c, t) == owner[c] \subseteq {t}
-----------------------------------------------------------------------------
(* Port AUDIO_CTL, command 0: the first time, the CPU prepares chunk 1 to  *)
(* be filled and starts the monitor; then it lets SDL play.                *)
CtlStart ==
  /\ cpu = "ctl"
  /\ fill' = 1
  /\ active' = TRUE
  /\ switch_buf' = TRUE
  /\ cpu' = "play"
  /\ UNCHANGED <<chunk, len, ready, play, owner, audio_state, irq, reload,
                 cpuVars, sdl, mon, last>>

CtlPlay ==
  /\ cpu = "play"
  /\ audio_state' = 0
  /\ cpu' = "wait"
  /\ UNCHANGED <<bufVars, switch_buf, active, irq, reload, cpuVars, sdl, mon,
                 last>>

(* The monitor polls switch_buf.  The raised line is lost if it falls      *)
(* between the query and the acknowledgement of another one                *)
(* (IntrDelivery!AckClearsWhatWasQueried).                                 *)
MonitorTest ==
  /\ active /\ mon = "test" /\ switch_buf
  /\ mon' = "raise"
  /\ UNCHANGED <<bufVars, sigVars, cpuVars, sdl, cpu, last>>

MonitorRaise ==
  /\ mon = "raise"
  /\ irq' \in {irq, TRUE}
  /\ mon' = "reset"
  /\ UNCHANGED <<bufVars, switch_buf, audio_state, active, reload, cpuVars,
                 sdl, cpu, last>>

MonitorReset ==
  /\ mon = "reset"
  /\ switch_buf' = FALSE
  /\ mon' = "test"
  /\ UNCHANGED <<bufVars, audio_state, active, irq, reload, cpuVars, sdl, cpu,
                 last>>
-----------------------------------------------------------------------------
(* The game.  The handler of AUDIO_IRQ runs between two instructions of    *)
(* main_loop; the out to AUDIO_DATA, with all that its handler does, is    *)
(* one instruction.                                                        *)
AudioEvent ==
  /\ irq
  /\ cpu \in {"wait", "read", "data", "clear"}
  /\ irq' = FALSE
  /\ reload' = TRUE
  /\ UNCHANGED <<bufVars, switch_buf, audio_state, active, cpuVars, pcVars,
                 last>>

WaitIntrAny ==  \* mutated form: writes after every interrupt
  /\ cpu = "wait"
  /\ cpu' = "read"
  /\ UNCHANGED <<bufVars, sigVars, cpuVars, sdl, mon, last>>

WaitIntr ==
  /\ cpu = "wait"
  /\ reload
  /\ cpu' = "read"
  /\ UNCHANGED <<bufVars, sigVars, cpuVars, sdl, mon, last>>

(* fread: past the end of the file the block is empty.                     *)
ReadBlock ==
  /\ cpu = "read"
  /\ block' = IF block <= NBlocks THEN block + 1 ELSE block
  /\ cpu' = "data"
  /\ UNCHANGED <<bufVars, sigVars, taken, i, worker, sdl, mon, last>>

DataLen == IF block <= NBlocks THEN BlockLen ELSE 0

ClearReloadNot ==  \* mutated form: audio_reload stays set
  /\ cpu = "clear"
  /\ cpu' = "wait"
  /\ UNCHANGED <<bufVars, sigVars, cpuVars, sdl, mon, last>>

ClearReload ==
  /\ cpu = "clear"
  /\ reload' = FALSE
  /\ cpu' = "wait"
  /\ UNCHANGED <<bufVars, switch_buf, audio_state, active, irq, cpuVars, sdl,
                 mon, last>>
-----------------------------------------------------------------------------
(* Port AUDIO_DATA: which mutex to lock is decided before the CPU thread   *)
(* blocks on it.                                                           *)
DataTake ==
  /\ cpu = "data"
  /\ taken' = fill
  /\ cpu' = "lock"
  /\ UNCHANGED <<bufVars, sigVars, i, worker, block, sdl, mon, last>>

DataLock ==
  /\ cpu = "lock"
  /\ Free(taken, "cpu")
  /\ owner' = [owner EXCEPT ![taken] = @ \cup {"cpu"}]
  /\ i' = 0
  /\ worker' = [w \in Workers |-> "none"]
  /\ cpu' = "create0"
  /\ UNCHANGED <<chunk, len, ready, play, fill, sigVars, taken, block, sdl,
                 mon, last>>

(* copy_audio_data hands every worker the address of the same i, which it  *)
(* goes on changing: while it creates the threads and while it joins them. *)
CopyAt(at, to, j, w) ==
  /\ cpu = at
  /\ cpu' = to
  /\ i' = j
  /\ worker' = w
  /\ UNCHANGED <<bufVars, sigVars, taken, block, sdl, mon, last>>

CopyStep ==
  \/ CopyAt("create0", "inc1", i, [worker EXCEPT ![0] = "created"])
  \/ CopyAt("inc1", "create1", 1, worker)
  \/ CopyAt("create1", "inc2", i, [worker EXCEPT ![1] = "created"])
  \/ CopyAt("inc2", "reset", 2, worker)
  \/ CopyAt("reset", "join0", 0, worker)
  \/ worker[0] = "done" /\ CopyAt("join0", "join1", 1, worker)
  \/ worker[1] = "done" /\ CopyAt("join1", "ready", 2, worker)

(* AUDIO_CP_Thread reads the index through the pointer whenever it starts  *)
(* to run.  Index 2 addresses the half of index 0, bar its first byte.     *)
WorkerCopy(w) ==
  /\ worker[w] = "created"
  /\ worker' = [worker EXCEPT ![w] = "done"]
  /\ chunk' = IF DataLen = 0 THEN chunk
              ELSE [chunk EXCEPT ![fill][i % 2] = block]
  /\ UNCHANGED <<len, ready, play, fill, owner, sigVars, taken, i, block,
                 pcVars, last>>

DataReady ==
  /\ cpu = "ready"
  /\ ready' = [ready EXCEPT ![fill] = TRUE]
  /\ cpu' = "len"
  /\ UNCHANGED <<chunk, len, play, fill, owner, sigVars, cpuVars, sdl, mon,
                 last>>

DataSetLen ==
  /\ cpu = "len"
  /\ len' = [len EXCEPT ![fill] = DataLen]
  /\ cpu' = "unlock"
  /\ UNCHANGED <<chunk, ready, play, fill, owner, sigVars, cpuVars, sdl, mon,
                 last>>

DataUnlock ==
  /\ cpu = "unlock"
  /\ owner' = [owner EXCEPT ![fill] = @ \ {"cpu"}]
  /\ cpu' = "clear"
  /\ UNCHANGED <<chunk, len, ready, play, fill, sigVars, cpuVars, sdl, mon,
                 last>>
-----------------------------------------------------------------------------
(* fill_audio, called by SDL whenever it is not paused and needs samples.  *)
Sdl(at, to) ==
  /\ sdl = at
  /\ sdl' = to
  /\ UNCHANGED <<chunk, sigVars, cpuVars, mon, cpu>>

FillCall ==
  /\ audio_state = 0
  /\ Sdl("call", "lockplay")
  /\ UNCHANGED <<len, ready, play, fill, owner, last>>

FillLockPlay ==
  /\ Sdl("lockplay", "test")
  /\ Free(play, "sdl")
  /\ owner' = [owner EXCEPT ![play] = @ \cup {"sdl"}]
  /\ UNCHANGED <<len, ready, play, fill, last>>

FillGoesOn ==
  /\ len[play] > 0 /\ ready[play]
  /\ Sdl("test", "mix")
  /\ UNCHANGED <<len, ready, play, fill, owner, last>>

FillIsEmpty ==
  /\ ~(len[play] > 0 /\ ready[play])
  /\ Sdl("test", "lockfill")
  /\ ready' = [ready EXCEPT ![play] = FALSE]
  /\ UNCHANGED <<len, play, fill, owner, last>>

FillLockFill ==
  /\ Sdl("lockfill", "peek")
  /\ Free(fill, "sdl")
  /\ owner' = [owner EXCEPT ![fill] = @ \cup {"sdl"}]
  /\ UNCHANGED <<len, ready, play, fill, last>>

FillRetryHolding ==  \* mutated form: waits with both mutexes in hand
  /\ ~ready[fill]
  /\ Sdl("peek", "lockfill")
  /\ UNCHANGED <<len, ready, play, fill, owner, last>>

FillRetry ==
  /\ ~ready[fill]
  /\ Sdl("peek", "lockfill")
  /\ owner' = [owner EXCEPT ![fill] = @ \ {"sdl"}]
  /\ UNCHANGED <<len, ready, play, fill, last>>

FillValid ==
  /\ ready[fill]
  /\ Sdl("peek", "swapfill")
  /\ UNCHANGED <<len, ready, play, fill, owner, last>>

FillSwapFill ==
  /\ Sdl("swapfill", "swapplay")
  /\ fill' = play
  /\ UNCHANGED <<len, ready, play, owner, last>>

(* The old play chunk is unlocked, the old fill chunk stays locked.        *)
FillSwapPlay ==
  /\ Sdl("swapplay", "flag")
  /\ play' = (play + 1) % 2
  /\ owner' = [owner EXCEPT ![fill] = @ \ {"sdl"}]
  /\ UNCHANGED <<len, ready, fill, last>>

FillFlag ==
  /\ sdl = "flag"
  /\ sdl' = "mix"
  /\ switch_buf' = TRUE
  /\ UNCHANGED <<bufVars, audio_state, active, irq, reload, cpuVars, mon, cpu,
                 last>>

Newest(c) == IF chunk[c][0] >= chunk[c][1] THEN chunk[c][0] ELSE chunk[c][1]

FillMix ==
  /\ Sdl("mix", "unlock")
  /\ len' = [len EXCEPT ![play] = IF @ > 0 THEN @ - 1 ELSE 0]
  /\ last' = IF len[play] > 0 THEN Newest(play) ELSE last
  /\ UNCHANGED <<ready, play, fill, owner>>

FillUnlock ==
  /\ Sdl("unlock", "call")
  /\ owner' = [owner EXCEPT ![play] = @ \ {"sdl"}]
  /\ UNCHANGED <<len, ready, play, fill, last>>
-----------------------------------------------------------------------------
MonitorStep == MonitorTest \/ MonitorRaise \/ MonitorReset
GameStep == CtlStart \/ CtlPlay \/ WaitIntr \/ ReadBlock \/ ClearReload
DataStep == DataTake \/ DataLock \/ CopyStep \/ DataReady \/ DataSetLen \/ DataUnlock
SdlStep == \/ FillCall \/ FillLockPlay \/ FillGoesOn \/ FillIsEmpty
           \/ FillLockFill \/ FillRetry \/ FillValid
           \/ FillSwapFill \/ FillSwapPlay \/ FillFlag \/ FillMix \/ FillUnlock

Next == \/ MonitorStep \/ AudioEvent \/ GameStep \/ DataStep \/ SdlStep
        \/ \E w \in Workers : WorkerCopy(w)

Spec == Init /\ [][Next]_vars

(* Every thread runs; a mutex that is free again and again is obtained,    *)
(* since fill_audio sleeps between two looks at the chunk to be filled.    *)
Fairness ==
  /\ WF_vars(MonitorStep) /\ WF_vars(AudioEvent) /\ WF_vars(GameStep)
  /\ WF_vars(DataStep) /\ SF_vars(DataLock)
  /\ WF_vars(SdlStep)
  /\ \A w \in Workers : WF_vars(WorkerCopy(w))

FairSpec == Spec /\ Fairness
-----------------------------------------------------------------------------
TypeOK ==
  /\ chunk \in [Chunks -> [Halves -> 0 .. NBlocks]]
  /\ len \in [Chunks -> 0 .. BlockLen]
  /\ ready \in [Chunks -> BOOLEAN]
  /\ play \in Chunks /\ fill \in Chunks /\ taken \in Chunks
  /\ owner \in [Chunks -> SUBSET {"cpu", "sdl"}]
  /\ switch_buf \in BOOLEAN /\ active \in BOOLEAN
  /\ irq \in BOOLEAN /\ reload \in BOOLEAN
  /\ audio_state \in 0 .. 1
  /\ sdl \in SdlPc /\ cpu \in CpuPc /\ mon \in {"test", "raise", "reset"}
  /\ i \in 0 .. 2
  /\ worker \in [Workers -> {"none", "created", "done"}]
  /\ block \in 0 .. NBlocks + 1
  /\ last \in 0 .. NBlocks

(* The chunk that the CPU thread fills is the one whose mutex it holds,    *)
(* although it picked the mutex before it blocked and fill_audio may swap  *)
(* the chunks at any time (audio.c, AUDIO_DATA).                           *)
Filling == {"create0", "inc1", "create1", "inc2", "reset", "join0", "join1",
            "ready", "len", "unlock"}
FillsWhatItLocked ==
  cpu \in Filling => taken = fill /\ owner[fill] = {"cpu"}

(* assert(audio_chunk_play_idx != audio_chunk_fill_idx) of fill_audio.     *)
PlayIsNotFill == audio_state = 0 /\ sdl \in {"call", "lockplay"} => play # fill

(* Both: the two threads never hold the same chunk by different mutexes.   *)
ChunksAreApart == FillsWhatItLocked /\ PlayIsNotFill

(* The blocks are heard in the order of the file: none is skipped and none *)
(* is heard again, whatever events are lost (fill_audio, credits.c).       *)
HeardInOrder == [][last' # last => last' = last + 1]_last

(* What SoundQueue calls its queue.  On the air is the block in front of   *)
(* the one that was read, as long as that one is not swapped in; a block   *)
(* waits when the chunk to be filled is ready.                             *)
OnAir ==
  LET front == IF ready[fill] \/ cpu \in {"data", "lock"} \cup (Filling \ {"len", "unlock"})
               THEN block - 1 ELSE block
  IN IF front > NBlocks THEN NBlocks ELSE front

Waiting == IF ready[fill] THEN {IF block <= NBlocks THEN block ELSE 0} ELSE {}

Queue == INSTANCE SoundQueue WITH
  waiting <- Waiting,
  air <- OnAir,
  left <- len[1 - fill],
  heard <- last

(* The two chunks, their flags and their mutexes are the queue that the    *)
(* game relies on: the store to audio_chunk_ready puts a block into it     *)
(* (AUDIO_DATA), the first store of the swap puts it on the air, and every *)
(* callback plays a part of it (fill_audio).                               *)
ImplementsQueue == Queue!Spec

(* The write to AUDIO_DATA always comes back: fill_audio, which spins with *)
(* one mutex in hand until the game has filled the other chunk, does not   *)
(* keep the game from filling it.                                          *)
WriteReturns == cpu = "data" ~> cpu = "clear"

(* fill_audio takes the chunk it swaps in to be complete ("should be       *)
(* already ready"): both halves come from one block.                       *)
SwappedInWhole == sdl = "flag" => chunk[play][0] = chunk[play][1]
=============================================================================

