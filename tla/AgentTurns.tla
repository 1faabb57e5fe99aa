------------------------------ MODULE AgentTurns ------------------------------
(***************************************************************************)
(* The turn registry of the in-app agent: internal/agent/runner.go and     *)
(* runner_sync.go.                                                         *)
(*                                                                         *)
(* Runner.runs maps a conversation thread to the cancel function of one    *)
(* turn.  A turn is a goroutine running runTurn: it registers itself       *)
(* (cancelling the turn it finds registered), sets its guest in the        *)
(* runtime that all turns share and has the runtime run the guest it finds *)
(* there, which may by then be that of another turn.  The guest talks to   *)
(* the model until it answers, waits for a choice or fails; the turn       *)
(* reports its end with agent:done and unregisters in a deferred function. *)
(* Stop and the deadline of ChatSync cancel whatever turn is registered.   *)
(***************************************************************************)
EXTENDS Naturals, Sequences

CONSTANTS
  Threads,   \* conversation threads
  Turns,     \* turn goroutines, each started at most once: bounds the run
  SyncTurns, \* the turns started by ChatSync; Chat, Choose or Confirm start
             \* the others
  NoTurn     \* the value of runs for a thread with no entry, of the
             \* runtime's slot before the first guest

ASSUME NoTurnAssumption == NoTurn \notin Turns
ASSUME SyncTurnsAssumption == SyncTurns \subseteq Turns

VARIABLES
  pc,          \* where each turn goroutine is
  thread,      \* the thread a turn was started for, a member of Threads
  syncCall,    \* turns started by ChatSync whose caller still waits
  ctx,         \* the turn's context: "live", "canceled" or "expired"
  slot,        \* the guest of the shared runtime: the turn that set it last
  guest,       \* the turn whose guest the goroutine runs or ran, or NoTurn
  waiting,     \* g.waiting: the turn's guest has offered choices
  runs,        \* Runner.runs
  done,        \* the agent:done events in the name of each turn, oldest first
  stopped,     \* history: turns cancelled by a Stop call of the user
  superseded,  \* history: turns a newer turn found registered
  timedOut     \* history: turns cancelled by the deadline of a ChatSync call

vars == <<pc, thread, syncCall, ctx, slot, guest, waiting, runs, done,
          stopped, superseded, timedOut>>
guests == <<slot, guest>>

PCs == {"unborn", "spawned", "running", "set", "guest", "confirmed",
        "returned", "failed", "unwinding", "panicking", "recovering", "gone"}
Contexts == {"live", "canceled", "expired"}
DoneKinds == {"plain", "waitingChoice", "stopped", "timeout", "error"}

(* A turn between its registration and its deferred cleanup.               *)
Registered == {"running", "set", "guest", "confirmed",
               "returned", "failed", "unwinding", "panicking"}

TypeOK ==
  /\ pc \in [Turns -> PCs]
  /\ thread \in [Turns -> Threads]
  /\ syncCall \in SUBSET Turns
  /\ ctx \in [Turns -> Contexts]
  /\ slot \in Turns \cup {NoTurn}
  /\ guest \in [Turns -> Turns \cup {NoTurn}]
  /\ waiting \in SUBSET Turns
  /\ runs \in [Threads -> Turns \cup {NoTurn}]
  /\ done \in [Turns -> Seq(DoneKinds)]
  /\ stopped \in SUBSET Turns
  /\ superseded \in SUBSET Turns
  /\ timedOut \in SUBSET Turns

Init ==
  /\ pc = [u \in Turns |-> "unborn"]
  /\ thread \in [Turns -> Threads]
  /\ syncCall = {}
  /\ ctx = [u \in Turns |-> "live"]
  /\ slot = NoTurn
  /\ guest = [u \in Turns |-> NoTurn]
  /\ waiting = {}
  /\ runs = [t \in Threads |-> NoTurn]
  /\ done = [u \in Turns |-> <<>>]
  /\ stopped = {}
  /\ superseded = {}
  /\ timedOut = {}

-----------------------------------------------------------------------------
(* Helpers.                                                                *)

Goto(u, here, there) ==
  /\ pc[u] = here
  /\ pc' = [pc EXCEPT ![u] = there]

(* Calling a cancel function: only a live context changes.                 *)
Cancelled(u) == [ctx EXCEPT ![u] = IF @ = "live" THEN "canceled" ELSE @]

(* Mutants of TurnVerdict: the context's error passed on, a deadline       *)
(* reported as a stop.                                                     *)
TurnVerdict_Raw(u, err) == IF ctx[u] # "live" THEN ctx[u] ELSE "plain"
TurnVerdict_DeadlineStops(u, err) ==
  IF ctx[u] # "live" THEN "stopped" ELSE IF err THEN "error" ELSE "plain"

(* The kind emitTurnDone reports: the context decides before the error.    *)
TurnVerdict(u, err) ==
  CASE ctx[u] = "canceled" -> "stopped"
    [] ctx[u] = "expired"  -> "timeout"
    [] OTHER               -> IF err THEN "error" ELSE "plain"

Emit(u, kind) == done' = [done EXCEPT ![u] = Append(@, kind)]

-----------------------------------------------------------------------------
(* Starting a turn: Chat, Choose and Confirm end in "go r.runTurn(...)".   *)

Spawn(u) ==
  /\ u \notin SyncTurns
  /\ Goto(u, "unborn", "spawned")
  /\ UNCHANGED <<guests, thread, syncCall, ctx, waiting, runs, done,
                 stopped, superseded, timedOut>>

(* ChatSync runs the turn in a goroutine and waits for it or its deadline. *)
ChatSync(u) ==
  /\ u \in SyncTurns
  /\ Goto(u, "unborn", "spawned")
  /\ syncCall' = syncCall \cup {u}
  /\ UNCHANGED <<guests, thread, ctx, waiting, runs, done,
                 stopped, superseded, timedOut>>

(* ChatSync's other case: the turn has returned, the caller reads history. *)
SyncReturns(u) ==
  /\ u \in syncCall
  /\ pc[u] = "gone"
  /\ syncCall' = syncCall \ {u}
  /\ UNCHANGED <<guests, pc, thread, ctx, waiting, runs, done,
                 stopped, superseded, timedOut>>

(* Mutant: the early return of runTurn without its report.                 *)
PreludeFails_Silent(u) ==
  /\ Goto(u, "spawned", "gone")
  /\ UNCHANGED <<guests, thread, syncCall, ctx, waiting, runs, done,
                 stopped, superseded, timedOut>>

(* The thread cannot be loaded: done is reported without registering.      *)
PreludeFails(u) ==
  /\ Goto(u, "spawned", "gone")
  /\ Emit(u, "error")
  /\ UNCHANGED <<guests, thread, syncCall, ctx, waiting, runs,
                 stopped, superseded, timedOut>>

(* The block under runsMu: cancel the registered turn, take its place.     *)
Register(u) ==
  LET old == runs[thread[u]]
  IN  /\ Goto(u, "spawned", "running")
      /\ runs' = [runs EXCEPT ![thread[u]] = u]
      /\ ctx' = IF old \in Turns THEN Cancelled(old) ELSE ctx
      /\ superseded' = superseded \cup ({old} \cap Turns)
      /\ UNCHANGED <<guests, thread, syncCall, waiting, done, stopped, timedOut>>

-----------------------------------------------------------------------------
(* The guest and the report of its end.                                    *)

(* RT.SetGuest: one slot for the turns of all threads.                     *)
SetGuest(u) ==
  /\ Goto(u, "running", "set")
  /\ slot' = u
  /\ UNCHANGED <<thread, syncCall, ctx, guest, waiting, runs, done,
                 stopped, superseded, timedOut>>

(* RunTurn comes to its guest and takes the one in the slot; the context   *)
(* is that of the turn that runs it, the thread that of the guest.         *)
RunGuest(u) ==
  /\ Goto(u, "set", "guest")
  /\ guest' = [guest EXCEPT ![u] = slot]
  /\ UNCHANGED <<thread, syncCall, ctx, slot, waiting, runs, done,
                 stopped, superseded, timedOut>>

(* executeConfirmed runs a tool under the context of the application: it   *)
(* does not see the turn's end, and not every tool has a limit of its own. *)
ExecuteConfirmed(u) ==
  /\ Goto(u, "guest", "confirmed")
  /\ UNCHANGED <<guests, thread, syncCall, ctx, waiting, runs, done,
                 stopped, superseded, timedOut>>

ConfirmedReturns(u) ==
  /\ Goto(u, "confirmed", "guest")
  /\ UNCHANGED <<guests, thread, syncCall, ctx, waiting, runs, done,
                 stopped, superseded, timedOut>>

(* A final answer, or the progress-poll limit: done, then a nil error.     *)
GuestAnswers(u) ==
  /\ Goto(u, "guest", "returned")
  /\ Emit(guest[u], "plain")
  /\ UNCHANGED <<guests, thread, syncCall, ctx, waiting, runs,
                 stopped, superseded, timedOut>>

(* Choices are pending: agent:offer_choices, done{waitingChoice}, nil.     *)
GuestOffers(u) ==
  /\ Goto(u, "guest", "returned")
  /\ waiting' = waiting \cup {guest[u]}
  /\ Emit(guest[u], "waitingChoice")
  /\ UNCHANGED <<guests, thread, syncCall, ctx, runs,
                 stopped, superseded, timedOut>>

(* The check at the top of the guest's loop reports before it returns.     *)
GuestSeesContext(u) ==
  /\ ctx[u] # "live"
  /\ Goto(u, "guest", "failed")
  /\ Emit(guest[u], TurnVerdict(u, TRUE))
  /\ UNCHANGED <<guests, thread, syncCall, ctx, waiting, runs,
                 stopped, superseded, timedOut>>

(* Model call, history or step limit: an error the guest leaves unreported.*)
GuestFails(u) ==
  /\ Goto(u, "guest", "failed")
  /\ UNCHANGED <<guests, thread, syncCall, ctx, waiting, runs, done,
                 stopped, superseded, timedOut>>

(* A panic in the guest unwinds through the deferred functions of runTurn. *)
GuestPanics(u) ==
  /\ Goto(u, "guest", "panicking")
  /\ UNCHANGED <<guests, thread, syncCall, ctx, waiting, runs, done,
                 stopped, superseded, timedOut>>

(* The Cursor path, and the failures between registration and the guest:   *)
(* one done, either the plain error or emitTurnDone's verdict.             *)
FinishesWithoutGuest(u) ==
  /\ Goto(u, "running", "unwinding")
  /\ \E kind \in {"error", TurnVerdict(u, TRUE), TurnVerdict(u, FALSE)} :
        Emit(u, kind)
  /\ UNCHANGED <<guests, thread, syncCall, ctx, waiting, runs,
                 stopped, superseded, timedOut>>

(* RunTurn hands back the guest's nil error ...                            *)
LifecycleSucceeds(u) ==
  /\ Goto(u, "returned", "unwinding")
  /\ UNCHANGED <<guests, thread, syncCall, ctx, waiting, runs, done,
                 stopped, superseded, timedOut>>

(* ... or fails in its own bookkeeping, before or after the guest.         *)
LifecycleFails(u) ==
  /\ Goto(u, "set", "failed") \/ Goto(u, "returned", "failed")
  /\ UNCHANGED <<guests, thread, syncCall, ctx, waiting, runs, done,
                 stopped, superseded, timedOut>>

(* Mutant: an error is reported even if the guest waits for a choice.      *)
ReportFailure_Always(u) ==
  /\ Goto(u, "failed", "unwinding")
  /\ Emit(u, TurnVerdict(u, TRUE))
  /\ UNCHANGED <<guests, thread, syncCall, ctx, waiting, runs,
                 stopped, superseded, timedOut>>

(* runTurn on an error: silent if the turn's own guest, whichever ran here,*)
(* waits for a choice.                                                     *)
ReportFailure(u) ==
  /\ Goto(u, "failed", "unwinding")
  /\ IF u \in waiting THEN UNCHANGED done ELSE Emit(u, TurnVerdict(u, TRUE))
  /\ UNCHANGED <<guests, thread, syncCall, ctx, waiting, runs,
                 stopped, superseded, timedOut>>

-----------------------------------------------------------------------------
(* Mutant: the cleanup cancels its context and forgets the entry.          *)
Unregister_KeepsEntry(u) ==
  /\ \/ Goto(u, "unwinding", "gone")
     \/ Goto(u, "panicking", "recovering")
  /\ ctx' = Cancelled(u)
  /\ UNCHANGED <<guests, thread, syncCall, waiting, runs, done,
                 stopped, superseded, timedOut>>

(* The deferred cleanup: the entry of the thread is deleted, whoever owns  *)
(* it, then the own context is cancelled.                                  *)

Unregister(u) ==
  /\ \/ Goto(u, "unwinding", "gone")
     \/ Goto(u, "panicking", "recovering")
  /\ runs' = [runs EXCEPT ![thread[u]] = NoTurn]
  /\ ctx' = Cancelled(u)
  /\ UNCHANGED <<guests, thread, syncCall, waiting, done,
                 stopped, superseded, timedOut>>

(* The recovering deferred function runs last.                             *)
Recover(u) ==
  /\ Goto(u, "recovering", "gone")
  /\ Emit(u, "error")
  /\ UNCHANGED <<guests, thread, syncCall, ctx, waiting, runs,
                 stopped, superseded, timedOut>>

-----------------------------------------------------------------------------
(* Cancellation from outside.                                              *)

(* Mutant: Stop deletes the entry of the turn it cancels.                  *)
Stop_Forgets(t) ==
  LET u == runs[t]
  IN  /\ u \in Turns
      /\ ctx' = Cancelled(u)
      /\ runs' = [runs EXCEPT ![t] = NoTurn]
      /\ stopped' = IF ctx[u] = "live" THEN stopped \cup {u} ELSE stopped
      /\ UNCHANGED <<guests, pc, thread, syncCall, waiting, done,
                     superseded, timedOut>>

(* Runner.Stop returns false, and does nothing, without an entry.          *)
Stop(t) ==
  LET u == runs[t]
  IN  /\ u \in Turns
      /\ ctx' = Cancelled(u)
      /\ stopped' = IF ctx[u] = "live" THEN stopped \cup {u} ELSE stopped
      /\ UNCHANGED <<guests, pc, thread, syncCall, waiting, runs, done,
                     superseded, timedOut>>

(* The 180 s of ChatSync are over: it calls Stop on the thread.            *)
SyncDeadline(u) ==
  LET cur == runs[thread[u]]
  IN  /\ u \in syncCall
      /\ pc[u] # "gone"
      /\ syncCall' = syncCall \ {u}
      /\ ctx' = IF cur \in Turns THEN Cancelled(cur) ELSE ctx
      /\ timedOut' = IF cur \in Turns /\ ctx[cur] = "live"
                     THEN timedOut \cup {cur} ELSE timedOut
      /\ UNCHANGED <<guests, pc, thread, waiting, runs, done, stopped, superseded>>

(* The 12 minutes of context.WithTimeout.                                  *)
Expire(u) ==
  /\ pc[u] \in Registered
  /\ ctx[u] = "live"
  /\ ctx' = [ctx EXCEPT ![u] = "expired"]
  /\ UNCHANGED <<guests, pc, thread, syncCall, waiting, runs, done,
                 stopped, superseded, timedOut>>

-----------------------------------------------------------------------------
GuestExit(u) ==
  \/ GuestAnswers(u)
  \/ GuestOffers(u)
  \/ GuestSeesContext(u)
  \/ GuestFails(u)
  \/ GuestPanics(u)

(* What the goroutine does by itself from its registration to the guest.   *)
ToGuest(u) ==
  \/ SetGuest(u)
  \/ FinishesWithoutGuest(u)
  \/ RunGuest(u)

Winddown(u) ==
  \/ LifecycleSucceeds(u)
  \/ LifecycleFails(u)
  \/ ReportFailure(u)
  \/ Unregister(u)
  \/ Recover(u)

Start(u) ==
  \/ PreludeFails(u)
  \/ Register(u)

TurnStep(u) ==
  \/ Spawn(u)
  \/ ChatSync(u)
  \/ SyncReturns(u)
  \/ SyncDeadline(u)
  \/ Start(u)
  \/ ToGuest(u)
  \/ ExecuteConfirmed(u)
  \/ ConfirmedReturns(u)
  \/ GuestExit(u)
  \/ Winddown(u)
  \/ Expire(u)

Next ==
  \/ \E u \in Turns : TurnStep(u)
  \/ \E t \in Threads : Stop(t)

Spec == Init /\ [][Next]_vars

(* The goroutine runs; the clock reaches the turn's deadline; a guest that *)
(* comes back to the head of its loop with its context done returns (model *)
(* and tool calls take the context, and an answer has finitely many calls).*)
(* Nothing makes a tool that runs under executeConfirmed return.           *)
Fairness ==
  \A u \in Turns :
    /\ WF_vars(Start(u))
    /\ WF_vars(ToGuest(u))
    /\ WF_vars(Winddown(u))
    /\ WF_vars(Expire(u))
    /\ SF_vars(ctx[u] # "live" /\ GuestExit(u))

FairSpec == Spec /\ Fairness

-----------------------------------------------------------------------------
(* Properties.                                                             *)

(* Runner.runs never holds a turn that has cleaned up, nor a turn of       *)
(* another thread: Stop and isRunning never take a finished turn for a     *)
(* running one (runner.go, the deferred delete; runner_sync.go isRunning). *)
EntryIsAlive ==
  \A t \in Threads : \A u \in Turns :
    runs[t] = u => pc[u] \in Registered /\ thread[u] = t

(* Threads on which a turn registered over one that had not yet cleaned up.*)
Overlapped == {thread[u] : u \in superseded}

(* As long as no turn of a thread was superseded, a turn between its       *)
(* registration and its cleanup is the registered one: Stop reaches it and *)
(* there is no second one.  (Without the condition the statement is false: *)
(* see StopReachesLiveTurn.)                                               *)
ReachableUnlessOverlapped ==
  \A u \in Turns :
    (pc[u] \in Registered /\ thread[u] \notin Overlapped)
      => runs[thread[u]] = u

(* The turns whose goroutines ran the guest of u.                          *)
Runners(u) == {w \in Turns : guest[w] = u}

(* "stopped" is reported only of a turn somebody cancelled, itself or the  *)
(* one that ran its guest: by the user's Stop, a newer turn, or the        *)
(* deadline of ChatSync; never of a turn whose own 12 minutes ran out or   *)
(* that failed (emitTurnDone).                                             *)
StoppedHasCause ==
  \A u \in Turns : \A i \in 1..Len(done[u]) :
    done[u][i] = "stopped"
      => ({u} \cup Runners(u)) \cap (stopped \cup superseded \cup timedOut) # {}

(* After done{waitingChoice} nothing more is reported in the name of the   *)
(* turn, whatever RunTurn returns, unless another goroutine has taken its  *)
(* guest out of the shared slot: a later done would make the panel drop    *)
(* the choice card (runner.go, the check of g.waiting).                    *)
WaitingIsFinal ==
  [][\A u \in waiting : Runners(u) = {u} => done'[u] = done[u]]_vars

(* Every turn that is started ends with a report in its name or in that of *)
(* the turn whose guest it ran, so that no panel is left streaming for     *)
(* both; or it hangs in a confirmed tool, which no deadline ends.          *)
EveryTurnReports ==
  \A u \in Turns :
    (pc[u] = "spawned")
      ~> \/ pc[u] = "gone" /\ \E v \in {u, guest[u]} \cap Turns : done[v] # <<>>
         \/ [](pc[u] = "confirmed")

-----------------------------------------------------------------------------
(* Statements of the code's comments that the code does not keep.          *)

(* runner.go, Stop: stops the generation in progress of the thread.  Every *)
(* turn in progress that nobody cancelled yet is one Stop can reach.       *)
StopReachesLiveTurn ==
  \A u \in Turns :
    (pc[u] \in {"running", "set", "guest"} /\ ctx[u] = "live")
      => runs[thread[u]] = u

(* runner.go, emitTurnDone: only the user's Stop or a newer message end a  *)
(* turn as stopped.                                                        *)
StoppedOnlyByUserOrNewer ==
  \A u \in Turns : \A i \in 1..Len(done[u]) :
    done[u][i] = "stopped"
      => ({u} \cup Runners(u)) \cap (stopped \cup superseded) # {}
=============================================================================
