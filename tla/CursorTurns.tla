----------------------------- MODULE CursorTurns -----------------------------
(* Turns of the Cursor agent (src/internal/agent/cursor_guest.go) and the  *)
(* bridge process they talk to (src/internal/cursorbridge).                *)
(*                                                                         *)
(* A turn is a goroutine. It cancels the turn it finds registered for its  *)
(* thread and goes on at once, so turns overlap, on one thread as on two.  *)
(* The runner has one slot for the turns of all threads: the active        *)
(* thread, its context and the buffer of tool calls. The bridge calls      *)
(* tools back over HTTP; a callback reads the slots when it comes, works   *)
(* detached from its request, and fills the buffer.                        *)
EXTENDS Sequences, Functions

CONSTANTS
  Threads,    \* chat threads
  Prompts,    \* the prompts sent, with a turn each
  Calls,      \* tool calls the bridge makes, each once
  NoThread,   \* the empty thread id
  NoPrompt    \* no turn: a missing entry, a nil context

ASSUME CursorAssumption == NoThread \notin Threads /\ NoPrompt \notin Prompts

VARIABLES
  threadOf,      \* threadOf[p]: the thread of the prompt
  turn,          \* turn[p]: how far the turn of the prompt is
  runs,          \* runs[t]: the turn whose cancel function is registered
  cursorActiveThread, cursorTurnCtx, cursorTurnBuf,   \* the slots
  cut,           \* turns whose requests fail: cancelled, or connected to a dead process
  bridge,        \* the process: "none", "up", "dead"
  endpoint,      \* the manager keeps an endpoint and the process it started
  call,          \* call[k]: "none", "asked" by the bridge, "bound", "pushed"
  asker,         \* asker[k]: the turn whose Send asked for it
  target,        \* target[k]: thread and context the callback took from the slots
  filed,         \* the histories: the turn that filed a call, and the call
  met            \* <<p, q>>: q worked while p did, or while a late callback of p ran

cursorVars == <<threadOf, turn, runs, cursorActiveThread, cursorTurnCtx, cursorTurnBuf,
                cut, bridge, endpoint, call, asker, target, filed, met>>
slotVars == <<cursorActiveThread, cursorTurnCtx, cursorTurnBuf>>
callVars == <<call, asker, target>>
bridgeVars == <<bridge, endpoint>>

TurnSteps == {"unsent", "registered", "active", "begun", "connected", "sending", "sent",
              "ending", "dropped", "ended", "gone"}

\* A turn that may have a value of its own in the slots.
Works(p) == turn[p] \in {"active", "begun", "connected", "sending", "sent", "ending",
                         "dropped"}
Working == {p \in Prompts : Works(p)}

CursorTypeOK ==
  /\ threadOf \in [Prompts -> Threads]
  /\ turn \in [Prompts -> TurnSteps]
  /\ runs \in [Threads -> Prompts \cup {NoPrompt}]
  /\ cursorActiveThread \in Threads \cup {NoThread}
  /\ cursorTurnCtx \in Prompts \cup {NoPrompt}
  /\ IsInjective(cursorTurnBuf) /\ Range(cursorTurnBuf) \subseteq Calls
  /\ cut \subseteq Prompts
  /\ bridge \in {"none", "up", "dead"} /\ endpoint \in BOOLEAN
  /\ call \in [Calls -> {"none", "asked", "bound", "pushed"}]
  /\ asker \in [Calls -> Prompts \cup {NoPrompt}]
  /\ target \in [Calls -> (Threads \cup {NoThread}) \X (Prompts \cup {NoPrompt})]
  /\ filed \subseteq Prompts \X Calls
  /\ met \subseteq Prompts \X Prompts

CursorInit ==
  /\ threadOf \in [Prompts -> Threads]
  /\ turn = [p \in Prompts |-> "unsent"]
  /\ runs = [t \in Threads |-> NoPrompt]
  /\ cursorActiveThread = NoThread /\ cursorTurnCtx = NoPrompt /\ cursorTurnBuf = <<>>
  /\ cut = {}
  /\ bridge = "none" /\ endpoint = FALSE
  /\ call = [k \in Calls |-> "none"]
  /\ asker = [k \in Calls |-> NoPrompt]
  /\ target = [k \in Calls |-> <<NoThread, NoPrompt>>]
  /\ filed = {} /\ met = {}

Moves(p, from, to) == turn[p] = from /\ turn' = [turn EXCEPT ![p] = to]
-----------------------------------------------------------------------------
(* The turn of a prompt, from runTurn to its return.                       *)

\* The block under runsMu: cancel the turn of the thread, take its place.
Register(p) ==
  LET old == runs[threadOf[p]] IN
  /\ Moves(p, "unsent", "registered")
  /\ runs' = [runs EXCEPT ![threadOf[p]] = p]
  /\ cut' = IF old = NoPrompt THEN cut ELSE cut \cup {old}
  /\ UNCHANGED <<threadOf, slotVars, bridgeVars, callVars, filed, met>>

ActivateTurn(p) ==
  /\ Moves(p, "registered", "active")
  /\ cursorActiveThread' = threadOf[p]
  /\ met' = met \cup ({p} \X Working) \cup (Working \X {p})
  /\ UNCHANGED <<threadOf, runs, cursorTurnCtx, cursorTurnBuf, cut, bridgeVars, callVars,
                 filed>>

SetTurnCtx(p) ==
  /\ Moves(p, "active", "begun")
  /\ cursorTurnCtx' = p
  /\ UNCHANGED <<threadOf, runs, cursorActiveThread, cursorTurnBuf, cut, bridgeVars,
                 callVars, filed, met>>

\* aliveLocked: nobody calls Wait once the ready line was read, so ProcessState
\* stays nil and the death of the process is not seen.
Alive == endpoint

\* Session.Ensure reuses what is alive, or starts a process and waits for its
\* ready line, 45 seconds at most. A failure, or a missing key, ends the turn.
EnsureBridge(p) ==
  /\ \/ /\ Alive /\ Moves(p, "begun", "connected")
        /\ cut' = IF bridge = "up" THEN cut ELSE cut \cup {p}
        /\ UNCHANGED bridgeVars
     \/ /\ ~Alive /\ p \notin cut /\ Moves(p, "begun", "connected")
        /\ bridge' = "up" /\ endpoint' = TRUE /\ UNCHANGED cut
     \/ /\ Moves(p, "begun", "ending")
        /\ UNCHANGED <<bridgeVars, cut>>
  /\ UNCHANGED <<threadOf, runs, slotVars, callVars, filed, met>>

\* ResumeAgent, CreateAgent and CancelActiveRuns; then the buffer is cleared and
\* Send begins.
ClearTurnBuf_Skipped == UNCHANGED cursorTurnBuf
ClearTurnBuf == cursorTurnBuf' = <<>>

AttachAgent(p) ==
  /\ \/ p \notin cut /\ Moves(p, "connected", "sending") /\ ClearTurnBuf
     \/ Moves(p, "connected", "ending") /\ UNCHANGED cursorTurnBuf
  /\ UNCHANGED <<threadOf, runs, cursorActiveThread, cursorTurnCtx, cut, bridgeVars,
                 callVars, filed, met>>

\* cursorSend returns, with an answer or with the error of a cut turn.
SendReturns(p) ==
  /\ Moves(p, "sending", "sent")
  /\ UNCHANGED <<threadOf, runs, slotVars, cut, bridgeVars, callVars, filed, met>>
SendFails(p) == p \in cut /\ SendReturns(p)

PersistTurn(p) ==
  /\ Moves(p, "sent", "ending")
  /\ filed' = filed \cup ({p} \X Range(cursorTurnBuf))
  /\ cursorTurnBuf' = <<>>
  /\ UNCHANGED <<threadOf, runs, cursorActiveThread, cursorTurnCtx, cut, bridgeVars,
                 callVars, met>>

\* The deferred reset of the context, then that of the active thread, whoever
\* set them, then the deferred delete of the registration.
DropTurnCtx(p) ==
  /\ Moves(p, "ending", "dropped")
  /\ cursorTurnCtx' = NoPrompt
  /\ UNCHANGED <<threadOf, runs, cursorActiveThread, cursorTurnBuf, cut, bridgeVars,
                 callVars, filed, met>>

EndTurn(p) ==
  /\ Moves(p, "dropped", "ended")
  /\ cursorActiveThread' = NoThread
  /\ UNCHANGED <<threadOf, runs, cursorTurnCtx, cursorTurnBuf, cut, bridgeVars, callVars,
                 filed, met>>

Unregister(p) ==
  /\ Moves(p, "ended", "gone")
  /\ runs' = [runs EXCEPT ![threadOf[p]] = NoPrompt]
  /\ UNCHANGED <<threadOf, slotVars, cut, bridgeVars, callVars, filed, met>>

\* Stop of the thread, or the deadline of twelve minutes. (After the last request
\* there is nothing left to cut.)
CutTurn(p) ==
  /\ turn[p] \in {"registered", "active", "begun", "connected", "sending"}
  /\ cut' = cut \cup {p}
  /\ UNCHANGED <<threadOf, turn, runs, slotVars, bridgeVars, callVars, filed, met>>
-----------------------------------------------------------------------------
(* Tool callbacks: handleCursorTool.                                       *)
BridgeCalls(p, k) ==
  /\ turn[p] = "sending" /\ p \notin cut /\ call[k] = "none"
  /\ call' = [call EXCEPT ![k] = "asked"]
  /\ asker' = [asker EXCEPT ![k] = p]
  /\ UNCHANGED <<threadOf, turn, runs, slotVars, cut, bridgeVars, target, filed, met>>

\* A callback is late when the Send that asked for it has returned: it runs on
\* the slots of the turns that work now.
Meets(k) ==
  IF turn[asker[k]] = "sending" THEN {} ELSE {asker[k]} \X (Working \cup {asker[k]})

BindCall(k) ==
  /\ call[k] = "asked"
  /\ call' = [call EXCEPT ![k] = "bound"]
  /\ target' = [target EXCEPT ![k] = <<cursorActiveThread, cursorTurnCtx>>]
  /\ met' = met \cup Meets(k)
  /\ UNCHANGED <<threadOf, turn, runs, slotVars, cut, bridgeVars, asker, filed>>

PushCall(k) ==
  /\ call[k] = "bound"
  /\ call' = [call EXCEPT ![k] = "pushed"]
  /\ cursorTurnBuf' = Append(cursorTurnBuf, k)
  /\ met' = met \cup Meets(k)
  /\ UNCHANGED <<threadOf, turn, runs, cursorActiveThread, cursorTurnCtx, cut, bridgeVars,
                 asker, target, filed>>
-----------------------------------------------------------------------------
(* The process dies. (It is stopped at shutdown only.)                     *)
Connected == {p \in Prompts : turn[p] \in {"connected", "sending"}}

BridgeDies ==
  /\ bridge = "up" /\ bridge' = "dead"
  /\ cut' = cut \cup Connected
  /\ UNCHANGED <<threadOf, turn, runs, slotVars, endpoint, callVars, filed, met>>

CursorNext ==
  \/ BridgeDies
  \/ \E p \in Prompts :
       \/ Register(p) \/ ActivateTurn(p) \/ SetTurnCtx(p) \/ EnsureBridge(p)
       \/ AttachAgent(p) \/ SendReturns(p) \/ PersistTurn(p) \/ DropTurnCtx(p)
       \/ EndTurn(p) \/ Unregister(p) \/ CutTurn(p)
       \/ \E k \in Calls : BridgeCalls(p, k)
  \/ \E k \in Calls : BindCall(k) \/ PushCall(k)

CursorSpec == CursorInit /\ [][CursorNext]_cursorVars

\* The goroutine of a turn runs, its requests fail once they are cut. Nothing is
\* asked of the user, the model or the bridge.
TurnStep(p) ==
  \/ ActivateTurn(p) \/ SetTurnCtx(p) \/ EnsureBridge(p) \/ AttachAgent(p)
  \/ SendFails(p) \/ PersistTurn(p) \/ DropTurnCtx(p) \/ EndTurn(p) \/ Unregister(p)
CursorFairness == \A p \in Prompts : WF_cursorVars(TurnStep(p))
-----------------------------------------------------------------------------
\* Whom a turn has met, by working at the same time or by a late callback. A
\* turn that met nobody had the slots to itself.
Met(p) == {q \in Prompts : <<p, q>> \in met}

\* The tool events of a call go to the thread that asked for it, and Stop of that
\* turn ends the tool. If turns overlapped, of one thread or of two, or the
\* callback came after its Send had returned, they go to the thread of a turn
\* that was met, or to none.
CallsAttributed ==
  \A k \in Calls : call[k] \in {"bound", "pushed"} =>
    LET p == asker[k] IN
    \/ target[k] = <<threadOf[p], p>>
    \/ /\ Met(p) # {}
       /\ target[k][1] \in {threadOf[q] : q \in Met(p) \cup {p}} \cup {NoThread}
       /\ target[k][2] \in Met(p) \cup {p, NoPrompt}

\* A turn files its own calls and those of turns that met it, and no others; a
\* turn that met nobody has filed all its calls when it ends. What a late callback
\* left in the buffer goes nowhere.
CallsFiled ==
  /\ \A p \in Prompts, k \in Calls :
       <<p, k>> \in filed => asker[k] = p \/ p \in Met(asker[k])
  /\ \A p \in Prompts, k \in Calls :
       (turn[p] \in {"ended", "gone"} /\ call[k] = "pushed" /\ asker[k] = p)
         => <<p, k>> \in filed \/ Met(p) # {}

\* No call is filed by two turns, overlap or not.
FiledOnce ==
  \A p, q \in Prompts, k \in Calls : <<p, k>> \in filed /\ <<q, k>> \in filed => p = q

\* What the shared slots still promise.
CursorSafe == CallsAttributed /\ CallsFiled /\ FiledOnce

\* The turns that were stopped or superseded, or whose bridge has died, have come
\* to their end. As a turn that is gone stays so, each of them does when this holds
\* again and again.
CutTurnsGone == \A p \in cut : turn[p] = "gone"

\* Alive means that the process is running and may be reused, as the comment on
\* Manager.Alive says.
AliveMeansRunning == Alive => bridge = "up"
=============================================================================
