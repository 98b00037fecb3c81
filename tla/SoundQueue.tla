----------------------------- MODULE SoundQueue ------------------------------
(***************************************************************************)
(* What the sound card promises the game that writes to it: a queue with   *)
(* room for one block behind the one that is on the air.  A block is taken *)
(* when no other waits, put on the air when the one before it was heard to *)
(* its end, and heard in equal parts; none is lost or cut short.          *)
(***************************************************************************)
EXTENDS Naturals

CONSTANTS NBlocks,  \* blocks of the file, in the order 1 .. NBlocks
          BlockLen  \* parts that a block is heard in

VARIABLES waiting,  \* the block that waits, as a set of at most one
          air,      \* the last block that was put on the air
          left,     \* the parts of it that are still to be heard
          heard     \* the last block of which a part was heard

Silence == 0        \* an empty block, which the game writes after the last

Init == waiting = {} /\ air = 0 /\ left = 0 /\ heard = 0

Write ==
  /\ waiting = {}
  /\ waiting' = {IF air < NBlocks THEN air + 1 ELSE Silence}
  /\ UNCHANGED <<air, left, heard>>

Swap ==
  /\ left = 0
  /\ \E b \in waiting : IF b = Silence THEN UNCHANGED <<air, left>>
                                       ELSE air' = b /\ left' = BlockLen
  /\ waiting' = {}
  /\ UNCHANGED heard

Play ==
  /\ left > 0
  /\ left' = left - 1
  /\ heard' = air
  /\ UNCHANGED <<waiting, air>>

Next == Write \/ Swap \/ Play

Spec == Init /\ [][Next]_<<waiting, air, left, heard>>
=============================================================================
