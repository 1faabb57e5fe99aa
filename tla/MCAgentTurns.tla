---------------------------- MODULE MCAgentTurns ----------------------------
(* Model-checking instances of AgentTurns: turns that only differ in their *)
(* name may be exchanged, and so may threads.  Symmetry sets are unsound   *)
(* for liveness; the run with liveness puts the turns of ChatSync on one   *)
(* thread instead, which leaves out renamings of threads and nothing else. *)
EXTENDS AgentTurns, TLC

TurnSymmetry ==
  Permutations(Turns \ SyncTurns) \cup Permutations(SyncTurns)

SyncThread == CHOOSE t \in Threads : TRUE

InitOfOneThread == Init /\ \A u \in SyncTurns : thread[u] = SyncThread
FairSpecOfOneThread == InitOfOneThread /\ [][Next]_vars /\ Fairness
=============================================================================
