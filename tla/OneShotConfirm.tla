---------------------------- MODULE OneShotConfirm ----------------------------
(***************************************************************************)
(* What the confirmation of dangerous operations of an external MCP client *)
(* promises: an operation runs at most once, and only after the user said  *)
(* yes to it while it was still open; otherwise it is refused or lapses.   *)
(***************************************************************************)
CONSTANT Requests

VARIABLES
  phase, \* where each request is
  said   \* what the user answered to it: "none", "yes" or "no"

vars == <<phase, said>>

Init ==
  /\ phase = [r \in Requests |-> "new"]
  /\ said = [r \in Requests |-> "none"]

Move(r, from, to) == phase[r] \in from /\ phase' = [phase EXCEPT ![r] = to]

Ask(r) == Move(r, {"new"}, "open") /\ UNCHANGED said

(* The user answers once, and only what has been asked; the answer may come*)
(* too late.                                                               *)
Say(r, answer) ==
  /\ phase[r] # "new"
  /\ said[r] = "none"
  /\ said' = [said EXCEPT ![r] = answer]
  /\ UNCHANGED phase

Run(r) == said[r] = "yes" /\ Move(r, {"open"}, "run") /\ UNCHANGED said
Refuse(r) == said[r] = "no" /\ Move(r, {"open"}, "refused") /\ UNCHANGED said
Lapse(r) == Move(r, {"open"}, "lapsed") /\ UNCHANGED said

Next ==
  \E r \in Requests :
    \/ Ask(r)
    \/ \E answer \in {"yes", "no"} : Say(r, answer)
    \/ Run(r)
    \/ Refuse(r)
    \/ Lapse(r)

Spec == Init /\ [][Next]_vars
=============================================================================
