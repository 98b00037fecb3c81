--------------------------- MODULE KeyInputProofs ----------------------------
(***************************************************************************)
(* Proofs about KeyInput, for any number of keys: that no press and no     *)
(* release is reported twice, and that process_keys never undoes what the  *)
(* handler of the keyboard wrote.  Both rest on one inductive invariant,   *)
(* which says that interrupts are off from cli to sti and what the state   *)
(* of a key tells of its past reports and codes.                           *)
(***************************************************************************)
EXTENDS KeyInput, TLAPS

(* The buffer holds a key as soon as an interrupt can announce it.         *)
CodeIsThere == irq \/ device = "raise" => scan_code_buf.key \in Keys

IntrOffWithin == intrFlag = 0 <=> game # "run"

(* No code comes between the report of a key and the change of its state.  *)
CallbackState ==
  /\ game = "press" => key_state[k] = "PRESS"
  /\ game = "release" => key_state[k] = "RELEASE" /\ open[k] = 0

(* An open report has left PRESS behind and has not yet reached EMPTY.     *)
OpenReport ==
  \A x \in Keys : open[x] # 0 => \/ key_state[x] \in {"WAIT_RELEASE", "RELEASE"}
                                 \/ game = "press" /\ k = x

(* A release was read since it was last reported, until it is reported.    *)
ReleaseToCome ==
  \A x \in Keys : key_state[x] = "RELEASE" => released[x] = 0 \/ (game = "release" /\ k = x)

(* A key that was seen up is about to be reported so, or was.              *)
SeenUp == \A x \in Keys : seen[x] = "up" => key_state[x] \in {"RELEASE", "EMPTY"}

IInv == /\ TypeOK /\ CodeIsThere /\ IntrOffWithin /\ CallbackState
        /\ OpenReport /\ ReleaseToCome /\ ReportedOnce /\ SeenUp
-----------------------------------------------------------------------------
(* The user and the keyboard thread write a key into the buffer and touch  *)
(* neither the game nor the state of a key.                                *)
LEMMA DeviceStep ==
  ASSUME IInv,
         \/ \E x \in Keys : KeyDown(x) \/ KeyUp(x)
         \/ KeyRepeat \/ Raise \/ RaiseLost
  PROVE  IInv'
<1> USE DEF IInv, TypeOK
<1>1. UNCHANGED <<key_state, gameVars, histVars>>
  BY DEF KeyDown, KeyUp, KeyRepeat, Raise, RaiseLost, Put
<1>2. /\ down' \subseteq Keys /\ latest' \in Keys \cup {None}
      /\ scan_code_buf' \in [key : Keys \cup {None}, up : BOOLEAN]
      /\ device' \in {"poll", "raise"} /\ irq' \in BOOLEAN
  <2>1. ASSUME NEW x \in Keys, NEW up \in BOOLEAN, Put(x, up)
        PROVE  /\ scan_code_buf' \in [key : Keys \cup {None}, up : BOOLEAN]
               /\ device' \in {"poll", "raise"} /\ irq' \in BOOLEAN
    BY <2>1 DEF Put
  <2>2. ASSUME NEW x \in Keys, KeyDown(x) \/ KeyUp(x)  
        PROVE  /\ down' \subseteq Keys /\ latest' \in Keys \cup {None}
               /\ scan_code_buf' \in [key : Keys \cup {None}, up : BOOLEAN]
               /\ device' \in {"poll", "raise"} /\ irq' \in BOOLEAN
    BY <2>1, <2>2 DEF KeyDown, KeyUp
  <2>3. CASE KeyRepeat
    BY <2>1, <2>3 DEF KeyRepeat, userVars
  <2>4. CASE Raise \/ RaiseLost
    BY <2>4 DEF Raise, RaiseLost, userVars
  <2>5. QED
    BY <2>2, <2>3, <2>4
<1>3. CodeIsThere'
  BY DEF CodeIsThere, KeyDown, KeyUp, KeyRepeat, Raise, RaiseLost, Put
<1>4. QED
  BY <1>1, <1>2, <1>3
     DEF gameVars, histVars, IntrOffWithin, CallbackState, OpenReport, ReleaseToCome,
         ReportedOnce, SeenUp

(* The handler runs with interrupts on, hence outside process_keys, and    *)
(* moves a key only forward: a release is recorded whatever the state, a   *)
(* press only in an EMPTY key.                                             *)
LEMMA HandlerStep == IInv /\ KeyboardEvent => IInv'
<1> SUFFICES ASSUME IInv, KeyboardEvent PROVE IInv'
  OBVIOUS
<1> DEFINE x == scan_code_buf.key
<1>1. x \in Keys /\ intrFlag = 1 /\ game = "run" /\ scan_code_buf.up \in BOOLEAN
  BY DEF IInv, TypeOK, CodeIsThere, IntrOffWithin, KeyboardEvent
<1>2. /\ key_state' = [key_state EXCEPT ![x] = AfterCode(@, scan_code_buf.up)]
      /\ released' = [released EXCEPT ![x] = IF scan_code_buf.up THEN 0 ELSE @]
      /\ seen' = [seen EXCEPT ![x] = IF scan_code_buf.up THEN "up" ELSE "down"]
      /\ irq' = FALSE
      /\ UNCHANGED <<userVars, deviceVars, gameVars, open>>
  BY DEF KeyboardEvent
<1>3. TypeOK' /\ CodeIsThere' /\ IntrOffWithin' /\ CallbackState'
  <2>1. released' \in [Keys -> 0 .. 2] /\ seen' \in [Keys -> {"none", "down", "up"}]
    BY <1>1, <1>2 DEF IInv, TypeOK
  <2>2. TypeOK'
    BY <1>1, <1>2, <2>1 DEF IInv, TypeOK, AfterCode, userVars, deviceVars, gameVars
  <2>3. QED
    BY <1>1, <1>2, <2>2
       DEF IInv, TypeOK, CodeIsThere, IntrOffWithin, CallbackState, deviceVars, gameVars
<1>4. ReportedOnce'
  <2>1. \A y \in Keys : released'[y] = 0 \/ released'[y] = released[y]
    BY <1>1, <1>2 DEF IInv, TypeOK
  <2>2. \A y \in Keys : released[y] <= 1 /\ open[y] <= 1
    BY DEF IInv, ReportedOnce
  <2>3. QED
    BY <1>2, <2>1, <2>2 DEF ReportedOnce
<1>5. OpenReport' /\ ReleaseToCome'
  BY <1>1, <1>2 DEF IInv, TypeOK, OpenReport, ReleaseToCome, AfterCode, gameVars
<1>6. SeenUp'
  BY <1>1, <1>2 DEF IInv, TypeOK, SeenUp, AfterCode
<1>7. QED
  BY <1>3, <1>4, <1>5, <1>6 DEF IInv
-----------------------------------------------------------------------------
(* A key is reported as pressed in state PRESS only, where no report of it *)
(* is open, and one that was seen up is in no state that SetState loses.   *)
LEMMA GameStep == IInv /\ Game => IInv'
<1> SUFFICES ASSUME IInv, Game PROVE IInv'
  OBVIOUS
<1> USE KeyAssumption DEF IInv, TypeOK, CodeIsThere, IntrOffWithin, CallbackState,
        OpenReport, ReleaseToCome, ReportedOnce, SeenUp, userVars, deviceVars, gameVars, histVars
<1>1. CASE ProcessKeys
  BY <1>1 DEF ProcessKeys, Keys
<1>2. CASE ScanPress
  <2>1. k \in Keys /\ game = "scan" /\ key_state[k] = "PRESS"
    BY <1>2 DEF ScanPress
  <2>2. open[k] = 0
    BY <2>1
  <2>3. open' = [open EXCEPT ![k] = 1]
    BY <1>2, <2>1, <2>2 DEF ScanPress
  <2>4. QED
    BY <1>2, <2>1, <2>2, <2>3 DEF ScanPress
<1>3. CASE ScanRelease
  <2>1. k \in Keys /\ game = "scan" /\ released[k] = 0
    BY <1>3 DEF ScanRelease
  <2>2. released' = [released EXCEPT ![k] = 1]
    BY <1>3, <2>1 DEF ScanRelease
  <2>3. QED
    BY <1>3, <2>1, <2>2 DEF ScanRelease
<1>4. CASE ScanNext
  BY <1>4 DEF ScanNext, Keys
<1>5. CASE SetState("press", "WAIT_RELEASE")
  <2>1. k \in Keys /\ key_state[k] = "PRESS" /\ seen[k] # "up"
    BY <1>5 DEF SetState
  <2>2. QED
    BY <1>5, <2>1 DEF SetState, Keys
<1>6. CASE SetState("release", "EMPTY")
  <2>1. k \in Keys /\ key_state[k] = "RELEASE" /\ open[k] = 0
    BY <1>6 DEF SetState
  <2>2. QED
    BY <1>6, <2>1 DEF SetState, Keys
<1>7. CASE Sti
  BY <1>7 DEF Sti
<1>8. QED
  BY <1>1, <1>2, <1>3, <1>4, <1>5, <1>6, <1>7 DEF Game

(* The keyboard thread, the handler and the game keep the invariant.       *)
THEOREM Invariance == Spec => []IInv
<1>1. Init => IInv
  <2> SUFFICES ASSUME Init PROVE IInv
    OBVIOUS
  <2>1. k \in Keys /\ scan_code_buf \in [key : Keys \cup {None}, up : BOOLEAN]
    BY KeyAssumption DEF Init, Keys, None
  <2>2. TypeOK
    <3>1. open \in [Keys -> 0 .. 2] /\ released \in [Keys -> 0 .. 2] /\ intrFlag \in 0 .. 1
      BY DEF Init
    <3>2. QED
      BY <2>1, <3>1, Zenon DEF Init, TypeOK
  <2>3. /\ CodeIsThere /\ IntrOffWithin /\ CallbackState
        /\ OpenReport /\ ReleaseToCome /\ ReportedOnce /\ SeenUp
    BY DEF Init, CodeIsThere, IntrOffWithin, CallbackState, OpenReport, ReleaseToCome,
           ReportedOnce, SeenUp
  <2>4. QED
    BY <2>2, <2>3 DEF IInv
<1>2. IInv /\ [Next]_vars => IInv'
  <2> SUFFICES ASSUME IInv, [Next]_vars PROVE IInv'
    OBVIOUS
  <2>1. CASE \/ \E x \in Keys : KeyDown(x) \/ KeyUp(x)
             \/ KeyRepeat \/ Raise \/ RaiseLost
    BY <2>1, DeviceStep
  <2>2. CASE KeyboardEvent
    BY <2>2, HandlerStep
  <2>3. CASE Game
    BY <2>3, GameStep
  <2>4. CASE UNCHANGED vars
    BY <2>4 DEF vars, userVars, deviceVars, gameVars, histVars, IInv, TypeOK,
                CodeIsThere, IntrOffWithin, CallbackState, OpenReport, ReleaseToCome,
                ReportedOnce, SeenUp
  <2>5. QED
    BY <2>1, <2>2, <2>3, <2>4 DEF Next
<1>3. QED
  BY <1>1, <1>2, PTL DEF Spec

(* Every variable keeps its type; in particular the loop of process_keys   *)
(* never leaves key_state.                                                 *)
THEOREM TypeCorrect == Spec => []TypeOK
<1>1. IInv => TypeOK
  BY DEF IInv
<1>2. QED
  BY <1>1, Invariance, PTL

(* However often SDL repeats a key that is held and whichever codes are    *)
(* overwritten, the game hears of no second press of it before a release,  *)
(* and of no second release before the handler has read another one.       *)
THEOREM NoReportTwice == Spec => []ReportedOnce
<1>1. IInv => ReportedOnce
  BY DEF IInv
<1>2. QED
  BY <1>1, Invariance, PTL

(* process_keys sets the state of a key after its callback, and never over *)
(* a release that the handler recorded meanwhile (keyboard.c, cli).        *)
THEOREM NoReleaseUndone == Spec => []ReleaseIsKept
<1>1. IInv => ReleaseIsKept
  BY DEF IInv, SeenUp, ReleaseIsKept
<1>2. QED
  BY <1>1, Invariance, PTL
=============================================================================
