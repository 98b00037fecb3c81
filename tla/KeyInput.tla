------------------------------ MODULE KeyInput -------------------------------
(***************************************************************************)
(* A key on its way from the window to the game nemu-pal:                  *)
(*   - the keyboard thread (nemu device/dev/keyboard.c) puts the scan code *)
(*     of every SDL event into scan_code_buf, one byte, and raises         *)
(*     KEYBOARD_IRQ;                                                       *)
(*   - the handler of the game (nemu-pal hal/keyboard.c keyboard_event)    *)
(*     reads the byte from port 0x60 and updates key_state;                *)
(*   - the game's loop calls process_keys, with interrupts off, which      *)
(*     reports one key that was pressed or released.                       *)
(* Keys outside keycode_hash are left out, as the handler skips them.      *)
(***************************************************************************)
EXTENDS Naturals

CONSTANTS NR_KEYS  \* keys of keycode_hash

Keys == 0 .. NR_KEYS - 1
None == NR_KEYS    \* no key

ASSUME KeyAssumption == NR_KEYS \in Nat \ {0}

VARIABLES
  down,          \* the keys that the user holds
  latest,        \* the key pressed last, the only one SDL repeats
  scan_code_buf, \* the key and, for bit 0x80, whether it was released
  device,        \* "poll", or "raise": the code is in the buffer
  irq,           \* KEYBOARD_IRQ is latched in the interrupt controller
  key_state,
  intrFlag,      \* IF of the CPU
  game,          \* "run", or a place in process_keys: "scan", "press", "release", "sti"
  k,             \* its loop index
  open,          \* history: press reports of a key since its last release report
  released,      \* history: its release reports since the handler last read a release
  seen           \* history: the last code of a key that the handler read

userVars == <<down, latest>>
deviceVars == <<scan_code_buf, device>>
gameVars == <<intrFlag, game, k>>
histVars == <<open, released, seen>>
vars == <<userVars, deviceVars, irq, key_state, gameVars, histVars>>

Init ==
  /\ down = {} /\ latest = None
  /\ scan_code_buf = [key |-> None, up |-> FALSE] /\ device = "poll"
  /\ irq = FALSE
  /\ key_state = [x \in Keys |-> "EMPTY"]
  /\ intrFlag = 1 /\ game = "run" /\ k = 0
  /\ open = [x \in Keys |-> 0] /\ released = [x \in Keys |-> 1]
  /\ seen = [x \in Keys |-> "none"]
-----------------------------------------------------------------------------
(* keyboard_down and keyboard_up, up to the interrupt.                     *)
Put(x, up) ==
  /\ device = "poll"
  /\ scan_code_buf' = [key |-> x, up |-> up]
  /\ device' = "raise"
  /\ UNCHANGED <<irq, key_state, gameVars, histVars>>

KeyDown(x) ==
  /\ x \notin down
  /\ Put(x, FALSE)
  /\ down' = down \cup {x} /\ latest' = x

KeyRepeat ==
  /\ latest \in down
  /\ Put(latest, FALSE)
  /\ UNCHANGED userVars

KeyUp(x) ==
  /\ x \in down
  /\ Put(x, TRUE)
  /\ down' = down \ {x} /\ UNCHANGED latest

(* The request takes the slot of the controller, or loses it to another    *)
(* (IntrDelivery).                                                         *)
RaiseLost ==
  /\ device = "raise"
  /\ device' = "poll"
  /\ UNCHANGED <<userVars, scan_code_buf, irq, key_state, gameVars, histVars>>

Raise ==
  /\ device = "raise"
  /\ irq' = TRUE
  /\ device' = "poll"
  /\ UNCHANGED <<userVars, scan_code_buf, key_state, gameVars, histVars>>
-----------------------------------------------------------------------------
AfterCodePressAgain(state, up) ==  \* mutated form: a repeated press counts
  IF up THEN "RELEASE" ELSE "PRESS"

(* keyboard_event, as far as it concerns key x.                            *)
AfterCode(state, up) ==
  IF up THEN "RELEASE" ELSE IF state = "EMPTY" THEN "PRESS" ELSE state

KeyboardEvent ==
  /\ irq /\ intrFlag = 1
  /\ irq' = FALSE
  /\ LET x == scan_code_buf.key
     IN /\ key_state' = [key_state EXCEPT ![x] = AfterCode(@, scan_code_buf.up)]
        /\ released' = [released EXCEPT ![x] = IF scan_code_buf.up THEN 0 ELSE @]
        /\ seen' = [seen EXCEPT ![x] = IF scan_code_buf.up THEN "up" ELSE "down"]
  /\ UNCHANGED <<userVars, deviceVars, gameVars, open>>

ProcessKeysNoCli ==  \* mutated form: interrupts stay on
  /\ game = "run"
  /\ game' = "scan" /\ k' = 0
  /\ UNCHANGED <<userVars, deviceVars, irq, key_state, intrFlag, histVars>>

(* process_keys: cli, then the loop over the keys, which ends at the first *)
(* that has something to report.                                           *)
ProcessKeys ==
  /\ game = "run"
  /\ intrFlag' = 0
  /\ game' = "scan" /\ k' = 0
  /\ UNCHANGED <<userVars, deviceVars, irq, key_state, histVars>>

ScanPress ==
  /\ game = "scan" /\ key_state[k] = "PRESS"
  /\ open' = [open EXCEPT ![k] = @ + 1]
  /\ game' = "press"
  /\ UNCHANGED <<userVars, deviceVars, irq, key_state, intrFlag, k, released, seen>>

ScanRelease ==
  /\ game = "scan" /\ key_state[k] = "RELEASE"
  /\ open' = [open EXCEPT ![k] = 0] /\ released' = [released EXCEPT ![k] = @ + 1]
  /\ game' = "release"
  /\ UNCHANGED <<userVars, deviceVars, irq, key_state, intrFlag, k, seen>>

ScanNextShort ==  \* mutated form: the last key is not looked at
  /\ game = "scan" /\ key_state[k] \notin {"PRESS", "RELEASE"}
  /\ IF k + 1 >= NR_KEYS - 1 THEN game' = "sti" /\ k' = 0 ELSE game' = game /\ k' = k + 1
  /\ UNCHANGED <<userVars, deviceVars, irq, key_state, intrFlag, histVars>>

ScanNext ==
  /\ game = "scan" /\ key_state[k] \notin {"PRESS", "RELEASE"}
  /\ IF k = NR_KEYS - 1 THEN game' = "sti" /\ k' = 0 ELSE game' = game /\ k' = k + 1
  /\ UNCHANGED <<userVars, deviceVars, irq, key_state, intrFlag, histVars>>

(* After the callback the state of the key is set.                         *)
SetState(from, state) ==
  /\ game = from
  /\ key_state' = [key_state EXCEPT ![k] = state]
  /\ game' = "sti" /\ k' = 0
  /\ UNCHANGED <<userVars, deviceVars, irq, intrFlag, histVars>>

Sti ==
  /\ game = "sti"
  /\ intrFlag' = 1
  /\ game' = "run"
  /\ UNCHANGED <<userVars, deviceVars, irq, key_state, k, histVars>>
-----------------------------------------------------------------------------
Game == \/ ProcessKeys \/ ScanPress \/ ScanRelease \/ ScanNext \/ Sti
        \/ SetState("press", "WAIT_RELEASE") \/ SetState("release", "EMPTY")

Next == \/ \E x \in Keys : KeyDown(x) \/ KeyUp(x)
        \/ KeyRepeat \/ Raise \/ RaiseLost \/ KeyboardEvent \/ Game

Spec == Init /\ [][Next]_vars

(* The game calls process_keys again and again, SDL repeats the key that   *)
(* is held, some of its requests get through, and an interrupt that stays  *)
(* latched is taken once the CPU has turned interrupts on often enough.    *)
Fairness == /\ WF_vars(Game) /\ WF_vars(KeyRepeat)
            /\ WF_vars(Raise \/ RaiseLost) /\ SF_vars(Raise) /\ SF_vars(KeyboardEvent)

FairSpec == Spec /\ Fairness
-----------------------------------------------------------------------------
TypeOK ==
  /\ down \subseteq Keys /\ latest \in Keys \cup {None}
  /\ scan_code_buf \in [key : Keys \cup {None}, up : BOOLEAN]
  /\ device \in {"poll", "raise"} /\ irq \in BOOLEAN
  /\ key_state \in [Keys -> {"EMPTY", "WAIT_RELEASE", "RELEASE", "PRESS"}]
  /\ intrFlag \in 0 .. 1 /\ k \in Keys
  /\ game \in {"run", "scan", "press", "release", "sti"}
  /\ open \in [Keys -> 0 .. 2] /\ released \in [Keys -> 0 .. 2]
  /\ seen \in [Keys -> {"none", "down", "up"}]

(* The game hears of one press of a key at most until it hears of a        *)
(* release, however often the key is repeated, and of one release at most  *)
(* for the release codes that the handler has read since the last one.     *)
(* A release may come without a press: the code of the press was           *)
(* overwritten, by another code or in key_state.                           *)
ReportedOnce == \A x \in Keys : open[x] <= 1 /\ released[x] <= 1

(* What the handler read last is never undone by process_keys, which sets  *)
(* the state of a key after its callback: a key seen up does not wait for  *)
(* a release any more.                                                     *)
ReleaseIsKept == \A x \in Keys : seen[x] = "up" => key_state[x] # "WAIT_RELEASE"

(* The key pressed last, if the user keeps holding it, comes to count as   *)
(* pressed, whatever codes were overwritten and interrupts lost before.    *)
HeldIsReported ==
  \A x \in Keys : <>[](x \in down /\ latest = x) => <>[](key_state[x] = "WAIT_RELEASE")
=============================================================================
