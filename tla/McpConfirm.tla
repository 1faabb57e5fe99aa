------------------------------ MODULE McpConfirm ------------------------------
(***************************************************************************)
(* The confirmation of dangerous tool calls of external MCP clients.  Each *)
(* call waits in MCPConfirmGate.Await (workbenchtools/mcp_confirm.go) for  *)
(* the user's answer to a dialog, at most five minutes.  The front end     *)
(* (agentUiActions.ts) shows the dialogs one after the other through       *)
(* askConfirm.ts, whose single slot it shares with the SFTP editor, and    *)
(* sends the answer back to MCPConfirmGate.Resolve.                        *)
(*                                                                         *)
(* Every call has an id of its own (the tools pass uuid.NewString()), so   *)
(* that the branch of Await for an id already waiting is never taken.      *)
(***************************************************************************)
EXTENDS Sequences

CONSTANTS
  Requests, \* bound: the calls that need a confirmation
  Editor,   \* the question of the SFTP editor
  None

ASSUME EditorAssumption == Editor \notin Requests
ASSUME NoneAssumption == None \notin Requests \cup {Editor}

VARIABLES
  call,     \* where the goroutine of each call is
  wait,     \* MCPConfirmGate.wait
  chan,     \* the buffered channel of each call
  due,      \* calls whose waitCtx is done: timeout, or the client left
  mounted,  \* the front end has subscribed to mcp:confirm
  queue,    \* mcpConfirmQueue: the events not yet handled
  handler,  \* handleMcpConfirm in progress
  slot,     \* the question askConfirm shows
  said,     \* history: the user's click on the dialog of each call
  shown     \* calls that the stage shows as confirmed

gate == <<call, wait, chan, due>>
frontend == <<mounted, queue, handler, slot, said, shown>>
vars == <<gate, frontend>>

Idle == [r |-> None, pc |-> "idle", ok |-> FALSE]

TypeOK ==
  /\ call \in [Requests -> {"idle", "registered", "waiting", "running",
                            "executed", "rejected", "lapsed"}]
  /\ wait \in SUBSET Requests
  /\ chan \in [Requests -> {"empty", "yes", "no"}]
  /\ due \in SUBSET Requests
  /\ mounted \in BOOLEAN
  /\ queue \in Seq(Requests)
  /\ handler \in [r : Requests \cup {None}, ok : BOOLEAN,
                  pc : {"idle", "asking", "answered", "sending", "resolved"}]
  /\ slot \in Requests \cup {Editor, None}
  /\ said \in [Requests -> {"none", "yes", "no"}]
  /\ shown \in SUBSET Requests

Init ==
  /\ call = [r \in Requests |-> "idle"]
  /\ wait = {}
  /\ chan = [r \in Requests |-> "empty"]
  /\ due = {}
  /\ mounted = FALSE
  /\ queue = <<>>
  /\ handler = Idle
  /\ slot = None
  /\ said = [r \in Requests |-> "none"]
  /\ shown = {}

Goes(r, from, to) == call[r] = from /\ call' = [call EXCEPT ![r] = to]

-----------------------------------------------------------------------------
(* The goroutine of a call: AwaitConfirmAndExecute and Await.              *)

Register(r) ==
  /\ Goes(r, "idle", "registered")
  /\ wait' = wait \cup {r}
  /\ UNCHANGED <<chan, due, frontend>>

(* emit: an event that nobody has subscribed to is lost.                   *)
Emit(r) ==
  /\ Goes(r, "registered", "waiting")
  /\ queue' = IF mounted THEN Append(queue, r) ELSE queue
  /\ UNCHANGED <<wait, chan, due, mounted, handler, slot, said, shown>>

(* Mutant: Await waits without a timeout.                                  *)
Expire_Never(r) == FALSE

Expire(r) ==
  /\ call[r] = "waiting"
  /\ due' = due \cup {r}
  /\ UNCHANGED <<call, wait, chan, frontend>>

(* The two branches of the select; when both are ready either is taken.    *)
TakeAnswer_Raw(r) == \* mutant: the answer itself is the outcome
  /\ chan[r] # "empty"
  /\ Goes(r, "waiting", chan[r])
  /\ wait' = wait \ {r}
  /\ UNCHANGED <<chan, due, frontend>>

TakeAnswer(r) ==
  /\ chan[r] # "empty"
  /\ Goes(r, "waiting", IF chan[r] = "yes" THEN "running" ELSE "rejected")
  /\ wait' = wait \ {r}
  /\ UNCHANGED <<chan, due, frontend>>

TakeTimeout_Leaks(r) == \* mutant: the entry stays in the gate
  /\ r \in due
  /\ Goes(r, "waiting", "lapsed")
  /\ UNCHANGED <<wait, chan, due, frontend>>

TakeTimeout_Runs(r) == \* mutant: the error of Await is dropped
  /\ r \in due
  /\ Goes(r, "waiting", "running")
  /\ wait' = wait \ {r}
  /\ UNCHANGED <<chan, due, frontend>>

TakeTimeout(r) ==
  /\ r \in due
  /\ Goes(r, "waiting", "lapsed")
  /\ wait' = wait \ {r}
  /\ UNCHANGED <<chan, due, frontend>>

(* ExecuteConfirmed.                                                       *)
Execute(r) ==
  /\ Goes(r, "running", "executed")
  /\ UNCHANGED <<wait, chan, due, frontend>>

-----------------------------------------------------------------------------
(* The front end.                                                          *)

Mount ==
  /\ ~mounted
  /\ mounted' = TRUE
  /\ UNCHANGED <<gate, queue, handler, slot, said, shown>>

(* The next event of the queue; askConfirm answers no to what it replaces. *)
ShowDialog ==
  /\ handler.pc = "idle"
  /\ queue # <<>>
  /\ handler' = [r |-> Head(queue), pc |-> "asking", ok |-> FALSE]
  /\ queue' = Tail(queue)
  /\ slot' = Head(queue)
  /\ UNCHANGED <<gate, mounted, said, shown>>

(* The dialog covers the window: the editor can ask only when none is open.*)
EditorAsks ==
  /\ slot = None
  /\ slot' = Editor
  /\ UNCHANGED <<gate, mounted, queue, handler, said, shown>>

Click_KeepsSlot(yes) == \* mutant: the answered question is not cleared
  /\ slot # None
  /\ IF slot = Editor
     THEN UNCHANGED <<handler, said>>
     ELSE /\ handler' = [handler EXCEPT !.pc = "answered", !.ok = yes]
          /\ said' = [said EXCEPT ![slot] = IF yes THEN "yes" ELSE "no"]
  /\ UNCHANGED <<gate, mounted, queue, slot, shown>>

(* resolveConfirm.                                                         *)
Click(yes) ==
  /\ slot # None
  /\ slot' = None
  /\ IF slot = Editor
     THEN UNCHANGED <<handler, said>>
     ELSE /\ handler' = [handler EXCEPT !.pc = "answered", !.ok = yes]
          /\ said' = [said EXCEPT ![slot] = IF yes THEN "yes" ELSE "no"]
  /\ UNCHANGED <<gate, mounted, queue, shown>>

(* Resolve takes the call out of the gate, unlocks, and then sends.        *)
ResolveTakes ==
  LET r == handler.r
  IN  /\ handler.pc = "answered"
      /\ wait' = wait \ {r}
      /\ handler' = [handler EXCEPT !.pc = IF r \in wait THEN "sending"
                                           ELSE "resolved"]
      /\ UNCHANGED <<call, chan, due, mounted, queue, slot, said, shown>>

ResolveSends_Yes == \* mutant: the answer is not looked at
  /\ handler.pc = "sending"
  /\ chan' = [chan EXCEPT ![handler.r] = "yes"]
  /\ handler' = [handler EXCEPT !.pc = "resolved"]
  /\ UNCHANGED <<call, wait, due, mounted, queue, slot, said, shown>>

ResolveSends ==
  /\ handler.pc = "sending"
  /\ chan' = [chan EXCEPT ![handler.r] = IF handler.ok THEN "yes" ELSE "no"]
  /\ handler' = [handler EXCEPT !.pc = "resolved"]
  /\ UNCHANGED <<call, wait, due, mounted, queue, slot, said, shown>>

(* The finally block: "confirmed" is shown for an answer of yes, whether   *)
(* Resolve knew the call or not, unless another stage has come up.         *)
Finish ==
  /\ handler.pc = "resolved"
  /\ handler' = Idle
  /\ shown' \in IF handler.ok THEN {shown, shown \cup {handler.r}} ELSE {shown}
  /\ UNCHANGED <<gate, mounted, queue, slot, said>>

-----------------------------------------------------------------------------
CallStep(r) ==
  \/ Register(r)
  \/ Emit(r)
  \/ Expire(r)
  \/ TakeAnswer(r)
  \/ TakeTimeout(r)
  \/ Execute(r)

FrontendStep ==
  \/ Mount
  \/ ShowDialog
  \/ EditorAsks
  \/ \E yes \in BOOLEAN : Click(yes)
  \/ ResolveTakes
  \/ ResolveSends
  \/ Finish

Next == FrontendStep \/ \E r \in Requests : CallStep(r)

Spec == Init /\ [][Next]_vars

(* The goroutines run and the clock advances; nothing is assumed of the    *)
(* user or the front end.                                                  *)
Fairness ==
  \A r \in Requests :
    /\ WF_vars(Emit(r))
    /\ WF_vars(Expire(r))
    /\ WF_vars(TakeAnswer(r) \/ TakeTimeout(r))

LiveSpec == Spec /\ Fairness

-----------------------------------------------------------------------------
(* Properties.                                                             *)

(* The gate holds exactly the calls that still wait for Resolve: no entry  *)
(* outlives its call (Await deletes it on every path), and none is missing.*)
GateExact ==
  \A r \in Requests :
    r \in wait <=> /\ call[r] \in {"registered", "waiting"}
                   /\ chan[r] = "empty"
                   /\ ~(handler.r = r /\ handler.pc = "sending")

(* A call runs only if the user clicked yes on its own dialog, whatever    *)
(* was shown before, timed out or queued meanwhile.                        *)
RunsOnlyIfApproved ==
  \A r \in Requests : call[r] \in {"running", "executed"} => said[r] = "yes"

(* The dialogs come one at a time: the handler that waits for an answer is *)
(* the one whose dialog is open (agentUiActions.ts serializes the requests *)
(* so that they do not replace each other).                                *)
DialogsAreSerial ==
  /\ slot \in Requests => handler.r = slot /\ handler.pc = "asking"
  /\ handler.pc = "asking" => slot = handler.r

(* Every Await returns, whether or not the front end is there.             *)
EveryAwaitReturns ==
  \A r \in Requests :
    call[r] = "registered" ~> call[r] \notin {"registered", "waiting"}

(* The gate and the dialogs implement OneShotConfirm.                      *)
Phase(r) ==
  CASE call[r] = "idle" -> "new"
    [] call[r] \in {"registered", "waiting"} -> "open"
    [] call[r] \in {"running", "executed"} -> "run"
    [] call[r] = "rejected" -> "refused"
    [] OTHER -> "lapsed"

OneShot == INSTANCE OneShotConfirm WITH phase <- [r \in Requests |-> Phase(r)]

ImplementsOneShot == OneShot!Spec

-----------------------------------------------------------------------------
(* Statements of the code's comments that the code does not keep.          *)

(* mcp_confirm.go (app): an approval that comes after the timeout is       *)
(* reported to the user; it is not shown as confirmed.                     *)
ShownAsConfirmedRuns ==
  \A r \in Requests : r \in shown => call[r] # "lapsed"
=============================================================================
