---------------------------- MODULE MotionChannel -----------------------------
(***************************************************************************)
(* What the bridge promises about mouse motion, without chips, queues or   *)
(* wires: a channel that may lose a delta but never repeats, invents or    *)
(* reorders one.                                                           *)
(***************************************************************************)
EXTENDS Naturals

VARIABLES
  issued,   \* deltas a mouse has reported
  taken,    \* deltas a reader has got
  lost      \* deltas that will never be taken

Outstanding == issued \ (taken \cup lost)

Init == issued = {} /\ taken = {} /\ lost = {}

\* A mouse moves; with nowhere to put it the new delta is lost at once.
Move ==
  \E n \in issued' \ issued :
    /\ issued' = issued \cup {n}
    /\ lost' \in {lost, lost \cup {n}}
    /\ UNCHANGED taken

\* A reader gets some of what is outstanding, all of it newer than what was
\* taken before.
Take ==
  /\ taken \subseteq taken'
  /\ taken' \ taken \subseteq Outstanding
  /\ \A new \in taken' \ taken : \A old \in taken : old < new
  /\ UNCHANGED <<issued, lost>>

Lose ==
  /\ lost \subseteq lost'
  /\ lost' \ lost \subseteq Outstanding
  /\ UNCHANGED <<issued, taken>>

Next == Move \/ Take \/ Lose

Spec == Init /\ [][Next]_<<issued, taken, lost>>

===============================================================================
