------------------------------ MODULE Debugger -------------------------------
(***************************************************************************)
(* What a breakpoint promises, with no word of how it is done: the program *)
(* runs from instruction to instruction, and stops in front of every       *)
(* address of set bps, once each time it arrives there.  Something else (a *)
(* watchpoint) may stop it at any time, and an interrupt may take it away  *)
(* from where it is.  Nothing is promised once the window was closed.      *)
(***************************************************************************)
EXTENDS Naturals

CONSTANTS Addrs,   \* the addresses of the program
          Exit,    \* the address of its nemu_trap
          Handler  \* where an interrupt takes it

VARIABLES at,       \* the instruction to be executed next
          bps,      \* the breakpoints
          reported, \* the program has been stopped in front of at
          mode      \* "ui", "run", "stop" or "closed"

vars == <<at, bps, reported, mode>>

Init == at = 0 /\ bps = {} /\ reported = FALSE /\ mode = "ui"

Set(a) ==
  /\ mode = "ui"
  /\ bps' = bps \cup {a}
  /\ UNCHANGED <<at, reported, mode>>

Unset ==
  /\ mode = "ui" /\ at \in bps /\ reported
  /\ bps' = bps \ {at} /\ reported' = FALSE
  /\ UNCHANGED <<at, mode>>

Continue == mode = "ui" /\ mode' = "run" /\ UNCHANGED <<at, bps, reported>>
Pause    == mode = "run" /\ mode' = "ui" /\ UNCHANGED <<at, bps, reported>>

Report ==
  /\ mode = "run" /\ at \in bps /\ ~reported
  /\ reported' = TRUE
  /\ mode' = "ui"
  /\ UNCHANGED <<at, bps>>

Execute ==
  /\ mode = "run" /\ (at \in bps => reported)
  /\ reported' = FALSE
  /\ IF at = Exit THEN mode' = "stop" /\ at' = at + 1
                  ELSE mode' = mode /\ at' \in Addrs
  /\ UNCHANGED bps

Interrupted == at' = Handler /\ reported' = FALSE /\ UNCHANGED <<bps, mode>>

Close == mode' = "closed"

Next == Unset \/ Continue \/ Pause \/ Report \/ Execute \/ Interrupted \/ Close
        \/ \E a \in Addrs : Set(a)

Spec == Init /\ [][Next]_vars
=============================================================================
