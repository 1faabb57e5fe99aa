-------------------------- MODULE AgentTurns_proofs --------------------------
(***************************************************************************)
(* Proofs about AgentTurns, for every set of threads and turns.            *)
(*                                                                         *)
(* The inductive invariant is IInv.  EntryIsAlive and                      *)
(* ReachableUnlessOverlapped are inductive next to the types.  What is     *)
(* said about "stopped" is not: it needs to know that a context is only    *)
(* cancelled for a reason while its turn can still report (CancelHasCause),*)
(* that a turn that has not registered has a live one, and which guest a   *)
(* goroutine runs (GuestOK).                                               *)
(***************************************************************************)
EXTENDS AgentTurns, TLAPS

(* A turn that may still report a verdict has a cancelled context only if  *)
(* somebody cancelled it; before it registers nobody can.                  *)
CancelHasCause ==
  \A u \in Turns :
    /\ pc[u] \in {"unborn", "spawned"} => ctx[u] = "live"
    /\ (ctx[u] = "canceled" /\ pc[u] \in Registered)
         => u \in stopped \cup superseded \cup timedOut

(* A goroutine takes a guest out of the slot once, and somebody has set one*)
(* by then.                                                                *)
GuestOK ==
  \A u \in Turns :
    /\ pc[u] \in {"unborn", "spawned", "running", "set"} => guest[u] = NoTurn
    /\ pc[u] = "set" => slot \in Turns
    /\ pc[u] \in {"guest", "confirmed"} => guest[u] \in Turns

IInv ==
  /\ TypeOK
  /\ GuestOK
  /\ EntryIsAlive
  /\ ReachableUnlessOverlapped
  /\ CancelHasCause
  /\ StoppedHasCause

-----------------------------------------------------------------------------
LEMMA InitTypeOK == Init => TypeOK
BY DEF Init, TypeOK, PCs, Contexts, DoneKinds

(* Verdicts are kinds of agent:done.                                       *)
LEMMA VerdictType ==
  ASSUME NEW u \in Turns, NEW err \in BOOLEAN
  PROVE  TurnVerdict(u, err) \in DoneKinds
BY DEF TurnVerdict, DoneKinds

(* Cancelling keeps contexts contexts.                                     *)
LEMMA CancelledType ==
  ASSUME ctx \in [Turns -> Contexts], NEW u \in Turns
  PROVE  /\ Cancelled(u) \in [Turns -> Contexts]
         /\ Cancelled(u)[u] = IF ctx[u] = "live" THEN "canceled" ELSE ctx[u]
         /\ \A v \in Turns : v # u => Cancelled(u)[v] = ctx[v]
BY DEF Cancelled, Contexts

LEMMA EmitType ==
  ASSUME TypeOK, NEW u \in Turns, NEW kind \in DoneKinds, Emit(u, kind)
  PROVE  /\ done' \in [Turns -> Seq(DoneKinds)]
         /\ done'[u] = Append(done[u], kind)
         /\ \A v \in Turns : v # u => done'[v] = done[v]
BY DEF TypeOK, Emit

LEMMA GotoType ==
  ASSUME TypeOK, NEW u \in Turns, NEW here, NEW there \in PCs,
         Goto(u, here, there)
  PROVE  /\ pc' \in [Turns -> PCs]
         /\ pc[u] = here
         /\ pc'[u] = there
         /\ \A v \in Turns : v # u => pc'[v] = pc[v]
BY DEF TypeOK, Goto

(* Types are preserved, one group of actions at a time.                    *)
LEMMA TurnStepType ==
  ASSUME TypeOK, GuestOK, NEW u \in Turns, TurnStep(u)
  PROVE  TypeOK'
<1>. USE DEF PCs
<1>0. pc[u] = "guest" => guest[u] \in Turns
  BY DEF GuestOK
<1>1. CASE Spawn(u)
  BY <1>1, GotoType DEF Spawn, TypeOK, guests
<1>2. CASE ChatSync(u)
  BY <1>2, GotoType DEF ChatSync, TypeOK, guests
<1>3. CASE SyncReturns(u)
  BY <1>3 DEF SyncReturns, TypeOK, guests
<1>4. CASE SyncDeadline(u)
  BY <1>4, CancelledType DEF SyncDeadline, TypeOK, guests
<1>5. CASE PreludeFails(u)
  BY <1>5, GotoType, EmitType DEF PreludeFails, TypeOK, DoneKinds, guests
<1>6. CASE Register(u)
  BY <1>6, GotoType, CancelledType DEF Register, TypeOK, guests
<1>7. CASE GuestAnswers(u)
  <2>1. guest[u] \in Turns
    BY <1>0, <1>7, GotoType DEF GuestAnswers
  <2>. QED
    BY <1>7, <2>1, GotoType, EmitType DEF GuestAnswers, TypeOK, DoneKinds, guests
<1>8. CASE GuestOffers(u)
  <2>1. guest[u] \in Turns
    BY <1>0, <1>8, GotoType DEF GuestOffers
  <2>. QED
    BY <1>8, <2>1, GotoType, EmitType DEF GuestOffers, TypeOK, DoneKinds, guests
<1>9. CASE GuestSeesContext(u)
  <2>1. guest[u] \in Turns
    BY <1>0, <1>9, GotoType DEF GuestSeesContext
  <2>. QED
    BY <1>9, <2>1, GotoType, EmitType, VerdictType DEF GuestSeesContext, TypeOK, guests
<1>10. CASE GuestFails(u) \/ GuestPanics(u)
  BY <1>10, GotoType DEF GuestFails, GuestPanics, TypeOK, guests
<1>11. CASE FinishesWithoutGuest(u)
  <2>1. PICK kind \in {"error", TurnVerdict(u, TRUE), TurnVerdict(u, FALSE)} :
          Emit(u, kind)
    BY <1>11 DEF FinishesWithoutGuest
  <2>2. kind \in DoneKinds
    BY VerdictType DEF DoneKinds
  <2>. QED
    BY <1>11, <2>1, <2>2, GotoType, EmitType DEF FinishesWithoutGuest, TypeOK, guests
<1>12. CASE LifecycleSucceeds(u) \/ LifecycleFails(u)
  BY <1>12, GotoType DEF LifecycleSucceeds, LifecycleFails, TypeOK, guests
<1>13. CASE ReportFailure(u)
  BY <1>13, GotoType, EmitType, VerdictType DEF ReportFailure, TypeOK, guests
<1>14. CASE Unregister(u)
  BY <1>14, GotoType, CancelledType DEF Unregister, TypeOK, guests
<1>15. CASE Recover(u)
  BY <1>15, GotoType, EmitType DEF Recover, TypeOK, DoneKinds, guests
<1>16. CASE Expire(u)
  BY <1>16 DEF Expire, TypeOK, Contexts, guests
<1>17. CASE SetGuest(u)
  BY <1>17, GotoType DEF SetGuest, TypeOK
<1>18. CASE RunGuest(u)
  BY <1>18, GotoType DEF RunGuest, TypeOK
<1>19. CASE ExecuteConfirmed(u) \/ ConfirmedReturns(u)
  BY <1>19, GotoType DEF ExecuteConfirmed, ConfirmedReturns, TypeOK, guests
<1>. QED
  BY <1>1, <1>2, <1>3, <1>4, <1>5, <1>6, <1>7, <1>8, <1>9, <1>10, <1>11,
     <1>12, <1>13, <1>14, <1>15, <1>16, <1>17, <1>18, <1>19
  DEF TurnStep, Start, ToGuest, GuestExit, Winddown

LEMMA NextTypeOK == TypeOK /\ GuestOK /\ [Next]_vars => TypeOK'
<1> SUFFICES ASSUME TypeOK, GuestOK, [Next]_vars PROVE TypeOK'
  OBVIOUS
<1>1. ASSUME NEW u \in Turns, TurnStep(u) PROVE TypeOK'
  BY <1>1, TurnStepType
<1>2. ASSUME NEW t \in Threads, Stop(t) PROVE TypeOK'
  BY <1>2, CancelledType DEF Stop, TypeOK, guests
<1>3. CASE UNCHANGED vars
  BY <1>3 DEF vars, TypeOK
<1>. QED
  BY <1>1, <1>2, <1>3 DEF Next

(* Which guest a goroutine runs: only SetGuest and RunGuest say anew.      *)
LEMMA NextGuestOK == TypeOK /\ GuestOK /\ [Next]_vars => GuestOK'
<1> SUFFICES ASSUME TypeOK, GuestOK, [Next]_vars PROVE GuestOK'
  OBVIOUS
<1>. USE DEF TypeOK, GuestOK, Goto, guests
<1>1. ASSUME NEW u \in Turns, TurnStep(u) PROVE GuestOK'
  <2>1. CASE Spawn(u) \/ ChatSync(u) \/ SyncReturns(u) \/ SyncDeadline(u)
    BY <2>1 DEF Spawn, ChatSync, SyncReturns, SyncDeadline
  <2>2. CASE PreludeFails(u) \/ Register(u)
    BY <2>2 DEF PreludeFails, Register
  <2>3. CASE FinishesWithoutGuest(u)
    BY <2>3 DEF FinishesWithoutGuest
  <2>4. CASE SetGuest(u)
    BY <2>4 DEF SetGuest
  <2>5. CASE RunGuest(u)
    BY <2>5 DEF RunGuest
  <2>6. CASE ExecuteConfirmed(u) \/ ConfirmedReturns(u)
    BY <2>6 DEF ExecuteConfirmed, ConfirmedReturns
  <2>7. CASE GuestExit(u)
    BY <2>7 DEF GuestExit, GuestAnswers, GuestOffers, GuestSeesContext,
                GuestFails, GuestPanics
  <2>8. CASE Winddown(u)
    BY <2>8 DEF Winddown, LifecycleSucceeds, LifecycleFails, ReportFailure,
                Unregister, Recover
  <2>9. CASE Expire(u)
    BY <2>9 DEF Expire
  <2>. QED
    BY <1>1, <2>1, <2>2, <2>3, <2>4, <2>5, <2>6, <2>7, <2>8, <2>9
    DEF TurnStep, Start, ToGuest
<1>2. ASSUME NEW t \in Threads, Stop(t) PROVE GuestOK'
  BY <1>2 DEF Stop
<1>3. CASE UNCHANGED vars
  BY <1>3 DEF vars
<1>. QED
  BY <1>1, <1>2, <1>3 DEF Next

LEMMA InitGuestOK == Init => GuestOK
BY DEF Init, GuestOK

(* Every reachable state of the registry has the types of TypeOK.          *)
THEOREM TypeCorrect == Spec => []TypeOK
<1>1. Spec => [](TypeOK /\ GuestOK)
  BY InitTypeOK, InitGuestOK, NextTypeOK, NextGuestOK, PTL DEF Spec
<1>. QED
  BY <1>1, PTL

-----------------------------------------------------------------------------
(* The registry: entries, registered turns and causes.                     *)

LEMMA InitIInv == Init => IInv
<1> SUFFICES ASSUME Init PROVE IInv
  OBVIOUS
<1>1. TypeOK
  BY InitTypeOK
<1>2. EntryIsAlive
  BY NoTurnAssumption DEF Init, EntryIsAlive
<1>3. ReachableUnlessOverlapped /\ CancelHasCause /\ GuestOK
  BY InitGuestOK DEF Init, ReachableUnlessOverlapped, CancelHasCause, Registered
<1>4. StoppedHasCause
  BY DEF Init, StoppedHasCause
<1>. QED
  BY <1>1, <1>2, <1>3, <1>4 DEF IInv

(* A step that moves one turn between two registered places, or outside    *)
(* of them, and leaves the registry and the contexts alone.                *)
LEMMA QuietStep ==
  ASSUME IInv, NEW u \in Turns, NEW here \in PCs, NEW there \in PCs,
         Goto(u, here, there),
         here \in Registered <=> there \in Registered,
         there \notin {"unborn", "spawned"} \/ here \in {"unborn", "spawned"},
         UNCHANGED <<thread, ctx, runs, stopped, superseded, timedOut>>
  PROVE  /\ EntryIsAlive'
         /\ ReachableUnlessOverlapped'
         /\ CancelHasCause'
<1>1. /\ pc' \in [Turns -> PCs]
      /\ \A v \in Turns : pc'[v] \in Registered <=> pc[v] \in Registered
      /\ \A v \in Turns : pc'[v] \in {"unborn", "spawned"}
                            => pc[v] \in {"unborn", "spawned"}
  BY GotoType DEF IInv
<1>2. EntryIsAlive'
  BY <1>1 DEF IInv, EntryIsAlive
<1>3. ReachableUnlessOverlapped'
  BY <1>1 DEF IInv, ReachableUnlessOverlapped, Overlapped
<1>4. CancelHasCause'
  BY <1>1 DEF IInv, CancelHasCause
<1>. QED
  BY <1>2, <1>3, <1>4

(* Who runs a guest is settled once: runners are never lost.               *)
LEMMA RunnersStay ==
  ASSUME IInv, NEW u \in Turns,
         guest' = guest \/ RunGuest(u)
  PROVE  \A v \in Turns : Runners(v) \subseteq Runners(v)'
BY NoTurnAssumption DEF Runners, RunGuest, Goto, IInv, GuestOK, TypeOK

(* Reporting a kind other than "stopped", or a verdict while registered,   *)
(* keeps the claim about causes.                                           *)
LEMMA EmitKeepsCause ==
  ASSUME IInv, NEW u \in Turns, NEW kind \in DoneKinds, Emit(u, kind),
         kind = "stopped" =>
           ({u} \cup Runners(u)) \cap (stopped \cup superseded \cup timedOut) # {},
         UNCHANGED <<guests, stopped, superseded, timedOut>>
  PROVE  StoppedHasCause'
<1>1. /\ done' \in [Turns -> Seq(DoneKinds)]
      /\ done'[u] = Append(done[u], kind)
      /\ \A v \in Turns : v # u => done'[v] = done[v]
  BY EmitType DEF IInv
<1>2. SUFFICES ASSUME NEW v \in Turns, NEW i \in 1..Len(done'[v]),
                      done'[v][i] = "stopped"
               PROVE  ({v} \cup Runners(v))
                        \cap (stopped \cup superseded \cup timedOut) # {}
  BY DEF StoppedHasCause, Runners, guests
<1>3. done[u] \in Seq(DoneKinds)
  BY DEF IInv, TypeOK
<1>4. CASE v # u
  BY <1>1, <1>2, <1>4 DEF IInv, StoppedHasCause
<1>5. CASE v = u /\ i = Len(done[u]) + 1
  BY <1>1, <1>2, <1>3, <1>5
<1>6. CASE v = u /\ i \in 1..Len(done[u])
  BY <1>1, <1>2, <1>3, <1>6, SMTT(40) DEF IInv, StoppedHasCause
<1>. QED
  BY <1>1, <1>2, <1>3, <1>4, <1>5, <1>6

(* The same for a verdict, in the name of the turn or of the guest it runs:*)
(* it says "stopped" of a cancelled context only.                          *)
LEMMA VerdictKeepsCause ==
  ASSUME IInv, NEW u \in Turns, NEW err \in BOOLEAN, NEW v \in Turns,
         v = u \/ guest[u] = v,
         pc[u] \in Registered, Emit(v, TurnVerdict(u, err)),
         UNCHANGED <<guests, stopped, superseded, timedOut>>
  PROVE  StoppedHasCause'
<1>1. TurnVerdict(u, err) = "stopped" => ctx[u] = "canceled"
  BY DEF TurnVerdict
<1>2. TurnVerdict(u, err) = "stopped"
        => u \in stopped \cup superseded \cup timedOut
  BY <1>1 DEF IInv, CancelHasCause
<1>3. u \in {v} \cup Runners(v)
  BY DEF Runners
<1>. QED
  BY <1>2, <1>3, VerdictType, EmitKeepsCause

(* Cancelling a registered turn for a recorded cause.                      *)
LEMMA CancelKeepsCause ==
  ASSUME IInv, NEW u \in Turns, pc[u] \in Registered,
         ctx' = Cancelled(u),
         ctx[u] = "live" => u \in stopped' \cup superseded' \cup timedOut',
         stopped \subseteq stopped', superseded \subseteq superseded',
         timedOut \subseteq timedOut'
  PROVE  \A v \in Turns :
           /\ pc[v] \in {"unborn", "spawned"} => ctx'[v] = "live"
           /\ (ctx'[v] = "canceled" /\ pc[v] \in Registered)
                => v \in stopped' \cup superseded' \cup timedOut'
<1>1. /\ ctx'[u] = IF ctx[u] = "live" THEN "canceled" ELSE ctx[u]
      /\ \A v \in Turns : v # u => ctx'[v] = ctx[v]
  BY CancelledType DEF IInv, TypeOK
<1>2. pc[u] \notin {"unborn", "spawned"}
  BY DEF Registered
<1>3. ASSUME NEW v \in Turns, v # u
      PROVE  /\ pc[v] \in {"unborn", "spawned"} => ctx'[v] = "live"
             /\ (ctx'[v] = "canceled" /\ pc[v] \in Registered)
                  => v \in stopped' \cup superseded' \cup timedOut'
  BY <1>1, <1>3 DEF IInv, CancelHasCause
<1>4. (ctx'[u] = "canceled") => u \in stopped' \cup superseded' \cup timedOut'
  BY <1>1 DEF IInv, CancelHasCause
<1>. QED
  BY <1>2, <1>3, <1>4

(* Growing the sets of causes keeps what was said of earlier reports.      *)
LEMMA CausesGrow ==
  ASSUME IInv, UNCHANGED done,
         \A v \in Turns : Runners(v) \subseteq Runners(v)',
         stopped \subseteq stopped', superseded \subseteq superseded',
         timedOut \subseteq timedOut'
  PROVE  StoppedHasCause'
BY DEF IInv, StoppedHasCause

LEMMA SameGuests ==
  ASSUME UNCHANGED guests
  PROVE  guest' = guest /\ \A v \in Turns : Runners(v) \subseteq Runners(v)'
BY DEF guests, Runners

-----------------------------------------------------------------------------
LEMMA RegisterKeeps ==
  ASSUME IInv, NEW u \in Turns, Register(u)
  PROVE  /\ EntryIsAlive'
         /\ ReachableUnlessOverlapped'
         /\ CancelHasCause'
         /\ StoppedHasCause'
<1> DEFINE old == runs[thread[u]]
<1>1. /\ pc' \in [Turns -> PCs]
      /\ pc[u] = "spawned"
      /\ pc'[u] = "running"
      /\ \A v \in Turns : v # u => pc'[v] = pc[v]
  BY GotoType DEF IInv, Register, PCs
<1>2. /\ thread' = thread /\ thread[u] \in Threads
      /\ done' = done /\ stopped' = stopped /\ timedOut' = timedOut
      /\ UNCHANGED guests
      /\ superseded' = superseded \cup ({old} \cap Turns)
      /\ runs'[thread[u]] = u
      /\ \A t \in Threads : t # thread[u] => runs'[t] = runs[t]
  BY DEF Register, IInv, TypeOK
<1>3. EntryIsAlive'
  BY <1>1, <1>2 DEF EntryIsAlive, IInv, Registered
<1>4. ReachableUnlessOverlapped'
  <2>1. SUFFICES ASSUME NEW v \in Turns, pc'[v] \in Registered,
                        thread[v] \notin Overlapped'
                 PROVE  runs'[thread[v]] = v
    BY <1>2 DEF ReachableUnlessOverlapped
  <2>2. CASE v = u
    BY <2>2, <1>2
  <2>3. CASE v # u
    <3>1. pc[v] \in Registered /\ thread[v] \notin Overlapped
      BY <1>1, <1>2, <2>1, <2>3 DEF Overlapped
    <3>2. runs[thread[v]] = v
      BY <3>1 DEF IInv, ReachableUnlessOverlapped
    <3>3. thread[v] # thread[u]
      BY <1>2, <2>1, <3>2 DEF Overlapped
    <3>4. thread[v] \in Threads
      BY DEF IInv, TypeOK
    <3>. QED
      BY <1>2, <3>2, <3>3, <3>4
  <2>. QED
    BY <2>2, <2>3
<1>5. CancelHasCause'
  <2>1. ctx[u] = "live"
    BY <1>1 DEF IInv, CancelHasCause
  <2>2. CASE old \in Turns
    <3>1. pc[old] \in Registered /\ old # u
      BY <1>1, <1>2, <2>2 DEF IInv, EntryIsAlive, Registered
    <3>2. ctx' = Cancelled(old)
      BY <2>2 DEF Register
    <3>3. \A v \in Turns :
            /\ pc[v] \in {"unborn", "spawned"} => ctx'[v] = "live"
            /\ (ctx'[v] = "canceled" /\ pc[v] \in Registered)
                 => v \in stopped' \cup superseded' \cup timedOut'
      BY <1>2, <2>2, <3>1, <3>2, CancelKeepsCause
    <3>. QED
      BY <1>1, <3>3 DEF CancelHasCause
  <2>3. CASE old \notin Turns
    <3>1. ctx' = ctx
      BY <2>3 DEF Register
    <3>. QED
      BY <1>1, <1>2, <2>1, <3>1 DEF IInv, CancelHasCause
  <2>. QED
    BY <2>2, <2>3
<1>6. StoppedHasCause'
  BY <1>2, SameGuests, CausesGrow
<1>. QED
  BY <1>3, <1>4, <1>5, <1>6

LEMMA UnregisterKeeps ==
  ASSUME IInv, NEW u \in Turns, Unregister(u)
  PROVE  /\ EntryIsAlive'
         /\ ReachableUnlessOverlapped'
         /\ CancelHasCause'
         /\ StoppedHasCause'
<1>1. /\ pc' \in [Turns -> PCs]
      /\ pc[u] \in Registered
      /\ pc'[u] \in {"gone", "recovering"}
      /\ \A v \in Turns : v # u => pc'[v] = pc[v]
  BY GotoType DEF IInv, Unregister, PCs, Registered
<1>2. /\ thread' = thread /\ thread[u] \in Threads
      /\ done' = done /\ stopped' = stopped /\ timedOut' = timedOut
      /\ UNCHANGED guests
      /\ superseded' = superseded
      /\ ctx' = Cancelled(u)
      /\ runs'[thread[u]] = NoTurn
      /\ \A t \in Threads : t # thread[u] => runs'[t] = runs[t]
  BY DEF Unregister, IInv, TypeOK
<1>3. \A v \in Turns : v # u => ctx'[v] = ctx[v]
  BY <1>2, CancelledType DEF IInv, TypeOK
<1>4. EntryIsAlive'
  BY <1>1, <1>2, NoTurnAssumption DEF EntryIsAlive, IInv
<1>5. ReachableUnlessOverlapped'
  <2>1. SUFFICES ASSUME NEW v \in Turns, pc'[v] \in Registered,
                        thread[v] \notin Overlapped
                 PROVE  runs'[thread[v]] = v
    BY <1>2 DEF ReachableUnlessOverlapped, Overlapped
  <2>2. v # u /\ pc[v] \in Registered
    BY <1>1, <2>1 DEF Registered
  <2>3. runs[thread[v]] = v
    BY <2>1, <2>2 DEF IInv, ReachableUnlessOverlapped
  <2>4. thread[v] # thread[u]
    BY <1>1, <2>1, <2>2, <2>3 DEF IInv, ReachableUnlessOverlapped
  <2>5. thread[v] \in Threads
    BY DEF IInv, TypeOK
  <2>. QED
    BY <1>2, <2>3, <2>4, <2>5
<1>6. CancelHasCause'
  BY <1>1, <1>2, <1>3 DEF CancelHasCause, IInv, Registered
<1>7. StoppedHasCause'
  BY <1>2, SameGuests, CausesGrow
<1>. QED
  BY <1>4, <1>5, <1>6, <1>7

(* Stop and the deadline of ChatSync: the entry they cancel is registered. *)
LEMMA CancelEntryKeeps ==
  ASSUME IInv, NEW t \in Threads, runs[t] \in Turns,
         ctx' = Cancelled(runs[t]),
         UNCHANGED <<guests, pc, thread, runs, done, superseded>>,
         ctx[runs[t]] = "live" => runs[t] \in stopped' \cup timedOut',
         stopped \subseteq stopped', timedOut \subseteq timedOut'
  PROVE  /\ EntryIsAlive'
         /\ ReachableUnlessOverlapped'
         /\ CancelHasCause'
         /\ StoppedHasCause'
<1>1. pc[runs[t]] \in Registered
  BY DEF IInv, EntryIsAlive
<1>2. \A v \in Turns :
        /\ pc[v] \in {"unborn", "spawned"} => ctx'[v] = "live"
        /\ (ctx'[v] = "canceled" /\ pc[v] \in Registered)
             => v \in stopped' \cup superseded' \cup timedOut'
  BY <1>1, CancelKeepsCause
<1>3. EntryIsAlive' /\ ReachableUnlessOverlapped'
  BY DEF IInv, EntryIsAlive, ReachableUnlessOverlapped, Overlapped
<1>4. StoppedHasCause'
  BY SameGuests, CausesGrow
<1>. QED
  BY <1>2, <1>3, <1>4 DEF CancelHasCause

(* Nothing but contexts that expire, or nothing at all, changes.           *)
LEMMA IdleKeeps ==
  ASSUME IInv,
         UNCHANGED <<guests, pc, thread, runs, done, stopped, superseded, timedOut>>,
         \A v \in Turns : \/ ctx'[v] = ctx[v]
                          \/ pc[v] \in Registered /\ ctx'[v] = "expired"
  PROVE  /\ EntryIsAlive'
         /\ ReachableUnlessOverlapped'
         /\ CancelHasCause'
         /\ StoppedHasCause'
<1>1. EntryIsAlive' /\ ReachableUnlessOverlapped'
  BY DEF IInv, EntryIsAlive, ReachableUnlessOverlapped, Overlapped
<1>2. CancelHasCause'
  BY DEF IInv, CancelHasCause, Registered
<1>3. StoppedHasCause'
  BY SameGuests, CausesGrow
<1>. QED
  BY <1>1, <1>2, <1>3

-----------------------------------------------------------------------------
LEMMA TurnStepKeeps ==
  ASSUME IInv, NEW u \in Turns, TurnStep(u)
  PROVE  /\ EntryIsAlive'
         /\ ReachableUnlessOverlapped'
         /\ CancelHasCause'
         /\ StoppedHasCause'
<1>. USE DEF PCs, Registered
<1>1. CASE Spawn(u)
  BY <1>1, QuietStep, SameGuests, CausesGrow DEF Spawn
<1>2. CASE ChatSync(u)
  BY <1>2, QuietStep, SameGuests, CausesGrow DEF ChatSync
<1>3. CASE SyncReturns(u)
  BY <1>3, IdleKeeps DEF SyncReturns
<1>4. CASE SyncDeadline(u)
  <2>1. thread[u] \in Threads
    BY DEF IInv, TypeOK
  <2>2. CASE runs[thread[u]] \in Turns
    BY <1>4, <2>1, <2>2, CancelEntryKeeps DEF SyncDeadline
  <2>3. CASE runs[thread[u]] \notin Turns
    BY <1>4, <2>3, IdleKeeps DEF SyncDeadline
  <2>. QED
    BY <2>2, <2>3
<1>5. CASE PreludeFails(u)
  <2>1. Goto(u, "spawned", "gone")
    BY <1>5 DEF PreludeFails
  <2>2. StoppedHasCause'
    BY <1>5, EmitKeepsCause DEF PreludeFails, DoneKinds
  <2>. QED
    BY <1>5, <2>1, <2>2, QuietStep DEF PreludeFails
<1>6. CASE Register(u)
  BY <1>6, RegisterKeeps
<1>7. CASE GuestAnswers(u)
  <2>1. guest[u] \in Turns
    BY <1>7 DEF GuestAnswers, Goto, IInv, GuestOK
  <2>2. StoppedHasCause'
    BY <1>7, <2>1, EmitKeepsCause DEF GuestAnswers, DoneKinds
  <2>. QED
    BY <1>7, <2>2, QuietStep DEF GuestAnswers
<1>8. CASE GuestOffers(u)
  <2>1. guest[u] \in Turns
    BY <1>8 DEF GuestOffers, Goto, IInv, GuestOK
  <2>2. StoppedHasCause'
    BY <1>8, <2>1, EmitKeepsCause DEF GuestOffers, DoneKinds
  <2>. QED
    BY <1>8, <2>2, QuietStep DEF GuestOffers
<1>9. CASE GuestSeesContext(u)
  <2>1. guest[u] \in Turns
    BY <1>9 DEF GuestSeesContext, Goto, IInv, GuestOK
  <2>2. StoppedHasCause'
    BY <1>9, <2>1, VerdictKeepsCause DEF GuestSeesContext, Goto
  <2>. QED
    BY <1>9, <2>2, QuietStep DEF GuestSeesContext
<1>10. CASE GuestFails(u)
  BY <1>10, QuietStep, SameGuests, CausesGrow DEF GuestFails
<1>11. CASE GuestPanics(u)
  BY <1>11, QuietStep, SameGuests, CausesGrow DEF GuestPanics
<1>12. CASE FinishesWithoutGuest(u)
  <2>1. \/ Emit(u, "error")
        \/ Emit(u, TurnVerdict(u, TRUE))
        \/ Emit(u, TurnVerdict(u, FALSE))
    BY <1>12 DEF FinishesWithoutGuest, Emit
  <2>2. pc[u] \in Registered /\ UNCHANGED <<guests, stopped, superseded, timedOut>>
    BY <1>12 DEF FinishesWithoutGuest, Goto
  <2>3. ASSUME Emit(u, "error") PROVE StoppedHasCause'
    BY <2>2, <2>3, EmitKeepsCause DEF DoneKinds
  <2>4. ASSUME Emit(u, TurnVerdict(u, TRUE)) PROVE StoppedHasCause'
    BY <2>2, <2>4, VerdictKeepsCause
  <2>5. ASSUME Emit(u, TurnVerdict(u, FALSE)) PROVE StoppedHasCause'
    BY <2>2, <2>5, VerdictKeepsCause
  <2>6. StoppedHasCause'
    BY <2>1, <2>3, <2>4, <2>5
  <2>. QED
    BY <1>12, <2>6, QuietStep DEF FinishesWithoutGuest
<1>13. CASE LifecycleSucceeds(u)
  BY <1>13, QuietStep, SameGuests, CausesGrow DEF LifecycleSucceeds
<1>14. CASE LifecycleFails(u)
  <2>1. Goto(u, "set", "failed") \/ Goto(u, "returned", "failed")
    BY <1>14 DEF LifecycleFails
  <2>. QED
    BY <1>14, <2>1, QuietStep, SameGuests, CausesGrow DEF LifecycleFails
<1>15. CASE ReportFailure(u)
  <2>1. StoppedHasCause'
    BY <1>15, VerdictKeepsCause, SameGuests, CausesGrow DEF ReportFailure, Goto
  <2>. QED
    BY <1>15, <2>1, QuietStep DEF ReportFailure
<1>16. CASE Unregister(u)
  BY <1>16, UnregisterKeeps
<1>17. CASE Recover(u)
  <2>1. StoppedHasCause'
    BY <1>17, EmitKeepsCause DEF Recover, DoneKinds
  <2>. QED
    BY <1>17, <2>1, QuietStep DEF Recover
<1>18. CASE Expire(u)
  <2>1. \A v \in Turns : \/ ctx'[v] = ctx[v]
                         \/ pc[v] \in Registered /\ ctx'[v] = "expired"
    BY <1>18 DEF Expire, IInv, TypeOK
  <2>. QED
    BY <1>18, <2>1, IdleKeeps DEF Expire
<1>19. CASE SetGuest(u)
  <2>1. \A v \in Turns : Runners(v) \subseteq Runners(v)'
    BY <1>19, RunnersStay DEF SetGuest
  <2>. QED
    BY <1>19, <2>1, QuietStep, CausesGrow DEF SetGuest
<1>20. CASE RunGuest(u)
  <2>1. \A v \in Turns : Runners(v) \subseteq Runners(v)'
    BY <1>20, RunnersStay
  <2>. QED
    BY <1>20, <2>1, QuietStep, CausesGrow DEF RunGuest
<1>21. CASE ExecuteConfirmed(u)
  BY <1>21, QuietStep, SameGuests, CausesGrow DEF ExecuteConfirmed
<1>22. CASE ConfirmedReturns(u)
  BY <1>22, QuietStep, SameGuests, CausesGrow DEF ConfirmedReturns
<1>. QED
  BY <1>1, <1>2, <1>3, <1>4, <1>5, <1>6, <1>7, <1>8, <1>9, <1>10, <1>11,
     <1>12, <1>13, <1>14, <1>15, <1>16, <1>17, <1>18, <1>19, <1>20, <1>21, <1>22
  DEF TurnStep, Start, ToGuest, GuestExit, Winddown

LEMMA NextIInv == IInv /\ [Next]_vars => IInv'
<1> SUFFICES ASSUME IInv, [Next]_vars PROVE IInv'
  OBVIOUS
<1>1. TypeOK' /\ GuestOK'
  BY NextTypeOK, NextGuestOK DEF IInv
<1>2. ASSUME NEW u \in Turns, TurnStep(u)
      PROVE  IInv'
  BY <1>1, <1>2, TurnStepKeeps DEF IInv
<1>3. ASSUME NEW t \in Threads, Stop(t)
      PROVE  IInv'
  <2>1. /\ EntryIsAlive'
        /\ ReachableUnlessOverlapped'
        /\ CancelHasCause'
        /\ StoppedHasCause'
    BY <1>3, CancelEntryKeeps DEF Stop
  <2>. QED
    BY <1>1, <2>1 DEF IInv
<1>4. CASE UNCHANGED vars
  <2>1. /\ EntryIsAlive'
        /\ ReachableUnlessOverlapped'
        /\ CancelHasCause'
        /\ StoppedHasCause'
    BY <1>4, IdleKeeps DEF vars, guests
  <2>. QED
    BY <1>1, <2>1 DEF IInv
<1>. QED
  BY <1>2, <1>3, <1>4 DEF Next

THEOREM Invariance == Spec => []IInv
BY InitIInv, NextIInv, PTL DEF Spec

(* The registry never holds a turn that has cleaned up.                    *)
THEOREM EntriesAreAlive == Spec => []EntryIsAlive
<1>1. IInv => EntryIsAlive
  BY DEF IInv
<1>. QED
  BY <1>1, Invariance, PTL

(* On a thread whose turns never overlapped, Stop reaches the one turn.    *)
THEOREM ReachableWithoutOverlap == Spec => []ReachableUnlessOverlapped
<1>1. IInv => ReachableUnlessOverlapped
  BY DEF IInv
<1>. QED
  BY <1>1, Invariance, PTL

(* "stopped" is only reported of a turn that somebody cancelled.           *)
THEOREM StoppedIsCaused == Spec => []StoppedHasCause
<1>1. IInv => StoppedHasCause
  BY DEF IInv
<1>. QED
  BY <1>1, Invariance, PTL

(* A guest of a turn that waits has run; if only in its own turn, that turn*)
(* is on its way out.                                                      *)
WaitsQuietly ==
  \A v \in waiting :
    /\ Runners(v) # {}
    /\ Runners(v) = {v} => pc[v] \in {"returned", "failed", "unwinding", "gone"}

(* A turn whose guest waits, and ran in no other goroutine, has reported   *)
(* its last event.                                                         *)
THEOREM WaitingTurnsAreSilent == Spec => WaitingIsFinal
<1> DEFINE Silent == \A u \in waiting : Runners(u) = {u} => done'[u] = done[u]
<1>1. Init => WaitsQuietly
  BY DEF Init, WaitsQuietly
<1>2. IInv /\ WaitsQuietly /\ [Next]_vars => WaitsQuietly' /\ Silent
  <2> SUFFICES ASSUME IInv, WaitsQuietly, [Next]_vars
               PROVE  WaitsQuietly' /\ Silent
    OBVIOUS
  <2>. USE DEF Goto, Emit, guests
  <2>1. TypeOK /\ GuestOK
    BY DEF IInv
  <2>2. ASSUME UNCHANGED <<guests, waiting>>,
               \A v \in waiting : Runners(v) = {v} =>
                 /\ pc'[v] \in {"returned", "failed", "unwinding", "gone"}
                 /\ done'[v] = done[v]
        PROVE  WaitsQuietly' /\ Silent
    <3>1. \A v : Runners(v)' = Runners(v)
      BY <2>2 DEF Runners
    <3>. QED
      BY <2>2, <3>1 DEF WaitsQuietly
  <2>3. CASE UNCHANGED vars
    BY <2>2, <2>3 DEF vars, WaitsQuietly
  <2>4. ASSUME NEW t \in Threads, Stop(t)
        PROVE  WaitsQuietly' /\ Silent
    BY <2>2, <2>4 DEF Stop, WaitsQuietly
  <2>5. ASSUME NEW u \in Turns, TurnStep(u)
        PROVE  WaitsQuietly' /\ Silent
    <3>1. \A v \in waiting : Runners(v) = {v} =>
             pc[v] \in {"returned", "failed", "unwinding", "gone"}
      BY DEF WaitsQuietly
    <3>2. \A v \in waiting : v \in Turns
      BY <2>1 DEF TypeOK
    <3>4. \A v \in Turns : guest[u] = v => u \in Runners(v)
      BY DEF Runners
    <3>5. CASE Spawn(u) \/ ChatSync(u) \/ SyncReturns(u) \/ SyncDeadline(u)
      BY <2>1, <2>2, <3>1, <3>2, <3>5
      DEF Spawn, ChatSync, SyncReturns, SyncDeadline, TypeOK
    <3>6. CASE PreludeFails(u) \/ Register(u)
      BY <2>1, <2>2, <3>1, <3>2, <3>6 DEF PreludeFails, Register, TypeOK
    <3>7. CASE SetGuest(u)
      <4>1. \A v : Runners(v)' = Runners(v)
        BY <3>7 DEF SetGuest, Runners
      <4>2. ASSUME NEW v \in waiting, Runners(v) = {v}
            PROVE  pc'[v] \in {"returned", "failed", "unwinding", "gone"}
        BY <2>1, <3>1, <3>2, <3>7, <4>2 DEF SetGuest, TypeOK
      <4>3. waiting' = waiting /\ done' = done
        BY <3>7 DEF SetGuest
      <4>. QED
        BY <4>1, <4>2, <4>3 DEF WaitsQuietly
    <3>16. CASE FinishesWithoutGuest(u)
      <4>1. PICK kind : Emit(u, kind)
        BY <3>16 DEF FinishesWithoutGuest
      <4>. QED
        BY <2>1, <2>2, <3>1, <3>2, <3>16, <4>1 DEF FinishesWithoutGuest, TypeOK
    <3>8. CASE RunGuest(u)
      <4>1. \A v \in Turns : Runners(v) \subseteq Runners(v)'
        BY <3>8, RunnersStay
      <4>2. ASSUME NEW v \in waiting, Runners(v)' = {v}
            PROVE  pc'[v] \in {"returned", "failed", "unwinding", "gone"}
        <5>1. Runners(v) = {v}
          BY <3>2, <4>1, <4>2 DEF WaitsQuietly
        <5>2. v # u
          BY <3>1, <3>8, <5>1 DEF RunGuest
        <5>. QED
          BY <2>1, <3>1, <3>2, <3>8, <5>1, <5>2 DEF RunGuest, TypeOK
      <4>3. \A v \in waiting : Runners(v)' # {}
        BY <3>2, <4>1 DEF WaitsQuietly
      <4>4. waiting' = waiting /\ done' = done
        BY <3>8 DEF RunGuest
      <4>. QED
        BY <4>2, <4>3, <4>4 DEF WaitsQuietly
    <3>9. CASE ExecuteConfirmed(u) \/ ConfirmedReturns(u) \/ GuestPanics(u)
      <4>1. pc[u] \in {"guest", "confirmed"}
        BY <3>9 DEF ExecuteConfirmed, ConfirmedReturns, GuestPanics
      <4>2. ~(u \in waiting /\ Runners(u) = {u})
        BY <3>1, <4>1
      <4>. QED
        BY <2>1, <2>2, <3>1, <3>2, <3>9, <4>2
        DEF ExecuteConfirmed, ConfirmedReturns, GuestPanics, TypeOK
    <3>10. CASE GuestAnswers(u) \/ GuestSeesContext(u) \/ GuestOffers(u)
      <4>1. pc[u] = "guest" /\ guest[u] \in Turns
        BY <2>1, <3>10 DEF GuestAnswers, GuestSeesContext, GuestOffers, GuestOK
      <4>2. ~(guest[u] \in waiting /\ Runners(guest[u]) = {guest[u]})
        BY <3>1, <3>4, <4>1
      <4>3. UNCHANGED guests /\ waiting' \in {waiting, waiting \cup {guest[u]}}
            /\ pc' \in [Turns -> PCs] /\ pc'[u] \in {"returned", "failed"}
            /\ (\A v \in Turns : v # u => pc'[v] = pc[v])
            /\ (\A v \in Turns : v # guest[u] => done'[v] = done[v])
        BY <2>1, <3>10, <4>1 DEF GuestAnswers, GuestSeesContext, GuestOffers, TypeOK, PCs
      <4>4. \A v \in Turns : Runners(v)' = Runners(v)
        BY <4>3 DEF Runners
      <4>5. Silent
        BY <3>2, <4>2, <4>3
      <4>6. ASSUME NEW v \in waiting'
            PROVE  /\ Runners(v)' # {}
                   /\ Runners(v)' = {v} =>
                        pc'[v] \in {"returned", "failed", "unwinding", "gone"}
        <5>1. v \in Turns
          BY <2>1, <4>1, <4>3 DEF TypeOK
        <5>2. CASE v = guest[u]
          BY <3>4, <4>1, <4>3, <4>4, <5>1, <5>2
        <5>3. CASE v # guest[u]
          BY <4>3, <4>4, <5>1, <5>3 DEF WaitsQuietly
        <5>. QED
          BY <5>2, <5>3
      <4>. QED
        BY <4>5, <4>6 DEF WaitsQuietly
    <3>11. CASE GuestFails(u) \/ LifecycleSucceeds(u) \/ LifecycleFails(u)
      BY <2>1, <2>2, <3>1, <3>2, <3>11 DEF GuestFails, LifecycleSucceeds, LifecycleFails, TypeOK
    <3>12. CASE ReportFailure(u)
      BY <2>1, <2>2, <3>1, <3>2, <3>12 DEF ReportFailure, TypeOK
    <3>13. CASE Unregister(u)
      BY <2>1, <2>2, <3>1, <3>2, <3>13 DEF Unregister, TypeOK
    <3>14. CASE Recover(u)
      BY <2>1, <2>2, <3>1, <3>2, <3>14 DEF Recover, TypeOK
    <3>15. CASE Expire(u)
      BY <2>2, <3>1, <3>15 DEF Expire
    <3>. QED
      BY <2>5, <3>5, <3>6, <3>7, <3>8, <3>9, <3>10, <3>11, <3>12, <3>13, <3>14, <3>15, <3>16
      DEF TurnStep, Start, ToGuest, GuestExit, Winddown
  <2>. QED
    BY <2>3, <2>4, <2>5 DEF Next
<1>3. IInv /\ WaitsQuietly /\ [Next]_vars
        => WaitsQuietly' /\ [\A u \in waiting : Runners(u) = {u} => done'[u] = done[u]]_vars
  BY <1>2
<1>. QED
  BY <1>1, <1>3, Invariance, PTL DEF Spec, WaitingIsFinal
=============================================================================
