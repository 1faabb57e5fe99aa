----------------------------- MODULE AgentChoices -----------------------------
(***************************************************************************)
(* One conversation of the in-app agent, end to end: the guest that runs   *)
(* the model's tool calls (internal/agent/guest.go), the agent_pending     *)
(* rows of the choices it leaves to the user (internal/store), Choose      *)
(* (internal/agent/runner.go) and the panel that shows the card            *)
(* (frontend/src/features/agent/useAgentSession.ts, stores/agentStore.ts). *)
(*                                                                         *)
(* The history is kept as which turn asked a tool call and how many        *)
(* results the call got.  The time between a turn's last report and its    *)
(* unregistration, panics and ChatSync are the subject of AgentTurns; here *)
(* a turn reports and unregisters in one step.  Text deltas are left out:  *)
(* a tool_start event has the same effect on the panel's phase.            *)
(***************************************************************************)
EXTENDS Naturals, Sequences, FiniteSets

CONSTANTS
  NumCalls,   \* tool calls of the model, numbered as asked: bounds the run
  NumTurns,   \* turns, numbered as started; a turn's task_id is its number
  MaxBatch,   \* tool calls in one answer of the model
  PollLimit,  \* maxProgressPolls
  MaxLag,     \* events the panel may be behind: bounds the run
  NumSubmits, \* AgentChoose calls under way at a time: bounds the run
  None        \* no turn

Calls == 1..NumCalls
Turns == 1..NumTurns
Submits == 1..NumSubmits

ASSUME NoneAssumption == None \notin Turns
ASSUME BoundsAssumption ==
  /\ {NumCalls, NumTurns, MaxBatch, PollLimit, NumSubmits}
       \subseteq Nat \ {0}
  /\ MaxLag \in Nat \ {0, 1}

VARIABLES
  asked,      \* the turn that wrote a call into the history, or None
  results,    \* how many tool results of a call the history holds
  row,        \* agent_pending: the task_id of a call's row, or None
  st,         \* where each turn is
  todo,       \* the calls of the model's answer a turn has not finished
  awaiting,   \* awaitingChoice of a turn
  polls,      \* progressPolls of a turn
  cancelled,  \* turns whose context was cancelled
  runs,       \* Runner.runs of the thread
  resumes,    \* the task whose choices a turn resumes, or None
  submit,     \* the AgentChoose calls of the panel
  events,     \* events emitted and not yet delivered to the panel, in order
  phase,      \* sessionPhase of the panel
  card,       \* pendingChoice: the calls of the card on display
  open,       \* tool steps of the panel that are still running
  disturbed,  \* history: the card's way to the user was cut, see Disturb
  crashed     \* history: the application was killed and started again

guestVars == <<todo, awaiting, polls>>
panelVars == <<phase, card, open>>
vars == <<asked, results, row, st, guestVars, cancelled, runs, resumes,
          submit, events, panelVars, disturbed, crashed>>

Phases == {"idle", "streaming", "tools", "needs_choice", "error"}
TurnStates == {"unborn", "spawned", "thinking", "calling", "intool", "gone"}
SubmitStates == {"free", "called", "writing", "deleted"}
EventTags == {"tool_start", "tool_end", "offer_choices",
              "plain", "waitingChoice", "stopped", "error"}
Events == [tag : EventTags, calls : SUBSET Calls]
SubmitRecords == [pc : SubmitStates, answers : SUBSET Calls,
                  batch : SUBSET Calls, task : Turns \cup {None}]

Free == [pc |-> "free", answers |-> {}, batch |-> {}, task |-> None]

TypeOK ==
  /\ asked \in [Calls -> Turns \cup {None}]
  /\ results \in [Calls -> Nat]
  /\ row \in [Calls -> Turns \cup {None}]
  /\ st \in [Turns -> TurnStates]
  /\ todo \in [Turns -> Seq(Calls)]
  /\ awaiting \in [Turns -> SUBSET Calls]
  /\ polls \in [Turns -> 0..(PollLimit - 1)]
  /\ cancelled \in SUBSET Turns
  /\ runs \in Turns \cup {None}
  /\ resumes \in [Turns -> Turns \cup {None}]
  /\ submit \in [Submits -> SubmitRecords]
  /\ events \in Seq(Events)
  /\ phase \in Phases
  /\ card \in SUBSET Calls
  /\ open \in SUBSET Calls
  /\ disturbed \in BOOLEAN
  /\ crashed \in BOOLEAN

Init ==
  /\ asked = [c \in Calls |-> None]
  /\ results = [c \in Calls |-> 0]
  /\ row = [c \in Calls |-> None]
  /\ st = [u \in Turns |-> "unborn"]
  /\ todo = [u \in Turns |-> <<>>]
  /\ awaiting = [u \in Turns |-> {}]
  /\ polls = [u \in Turns |-> 0]
  /\ cancelled = {}
  /\ runs = None
  /\ resumes = [u \in Turns |-> None]
  /\ submit = [s \in Submits |-> Free]
  /\ events = <<>>
  /\ phase = "idle"
  /\ card = {}
  /\ open = {}
  /\ disturbed = FALSE
  /\ crashed = FALSE

-----------------------------------------------------------------------------
(* Helpers.                                                                *)

Event(tag, calls) == [tag |-> tag, calls |-> calls]
Emit(es) ==
  /\ Len(events) + Len(es) <= MaxLag
  /\ events' = events \o es
Done(tag) == Event(tag, {})

Unborn == {u \in Turns : st[u] = "unborn"}
LiveSubmits == {s \in Submits : submit[s].pc # "free"}

(* A turn is kept back for every submit under way, so that the bound on    *)
(* turns never leaves a Choose without the turn it resumes.                *)
TurnsLeft == Cardinality(Unborn) > Cardinality(LiveSubmits)

NextTurn(u) == u \in Unborn /\ \A v \in Unborn : u <= v

NextSlot(s) ==
  /\ submit[s].pc = "free"
  /\ \A r \in Submits : submit[r].pc = "free" => s <= r

Rows == {c \in Calls : row[c] # None}
SameTask(task) == {c \in Calls : row[c] = task}

(* The user has lost the way to answer a row: see OfferReachesUser.        *)
Disturb(cause) == disturbed' = (disturbed \/ cause)

-----------------------------------------------------------------------------
(* The guest.                                                              *)

(* runTurn up to the guest's loop: cancel the registered turn, replace it. *)
Register(u) ==
  /\ st[u] = "spawned"
  /\ st' = [st EXCEPT ![u] = "thinking"]
  /\ runs' = u
  /\ cancelled' = cancelled \cup ({runs} \cap Turns)
  /\ Disturb(runs # None)
  /\ UNCHANGED <<asked, results, row, guestVars, resumes, submit, events,
                 panelVars, crashed>>

(* The locals of the guest go out of scope.                                *)
Returned(u) ==
  /\ st' = [st EXCEPT ![u] = "gone"]
  /\ todo' = [todo EXCEPT ![u] = <<>>]
  /\ awaiting' = [awaiting EXCEPT ![u] = {}]
  /\ polls' = [polls EXCEPT ![u] = 0]
  /\ cancelled' = cancelled \ {u}

(* A turn's end: its reports, and the deferred delete of the entry.        *)
Finish(u, reports) ==
  /\ Returned(u)
  /\ runs' = None
  /\ Emit(reports)

(* The top of the loop reports a done context, and so does runTurn.        *)
SeesContext(u) ==
  /\ st[u] = "thinking"
  /\ u \in cancelled
  /\ Finish(u, <<Done("stopped"), Done("stopped")>>)
  /\ UNCHANGED <<asked, results, row, resumes, submit, panelVars,
                 disturbed, crashed>>

(* The model call, the history or the step limit fails.                    *)
ModelFails(u) ==
  /\ st[u] = "thinking"
  /\ Finish(u, <<Done(IF u \in cancelled THEN "stopped" ELSE "error")>>)
  /\ UNCHANGED <<asked, results, row, resumes, submit, panelVars,
                 disturbed, crashed>>

(* No tool calls: the final answer.                                        *)
ModelAnswers(u) ==
  /\ st[u] = "thinking"
  /\ Finish(u, <<Done("plain")>>)
  /\ UNCHANGED <<asked, results, row, resumes, submit, panelVars,
                 disturbed, crashed>>

(* The answer names tool calls: it is appended to the history with them.   *)
ModelAsks(u) ==
  /\ st[u] = "thinking"
  /\ \E n \in 1..MaxBatch :
       LET first == Cardinality({c \in Calls : asked[c] # None}) + 1
           batch == first..(first + n - 1)
       IN  /\ batch \subseteq Calls
           /\ asked' = [c \in Calls |-> IF c \in batch THEN u ELSE asked[c]]
           /\ todo' = [todo EXCEPT ![u] = [i \in 1..n |-> first + i - 1]]
  /\ awaiting' = [awaiting EXCEPT ![u] = {}]
  /\ st' = [st EXCEPT ![u] = "calling"]
  /\ UNCHANGED <<results, row, polls, cancelled, runs, resumes, submit,
                 events, panelVars, disturbed, crashed>>

(* tool_start.  The permissions or the mode may deny the call at once: it  *)
(* gets a result and no tool_end.                                          *)
CallStarts(u) ==
  /\ st[u] = "calling"
  /\ todo[u] # <<>>
  /\ LET c == Head(todo[u])
     IN  /\ Emit(<<Event("tool_start", {c})>>)
         /\ \/ /\ results' = [results EXCEPT ![c] = @ + 1]
               /\ todo' = [todo EXCEPT ![u] = Tail(@)]
               /\ UNCHANGED st
            \/ /\ st' = [st EXCEPT ![u] = "intool"]
               /\ UNCHANGED <<results, todo>>
  /\ UNCHANGED <<asked, row, awaiting, polls, cancelled, runs, resumes,
                 submit, panelVars, disturbed, crashed>>

(* offer_choices, NeedsChoice: the row is saved, there is no result yet.   *)
CallWaits(u) ==
  /\ st[u] = "intool"
  /\ LET c == Head(todo[u])
     IN  /\ row' = [row EXCEPT ![c] = u]
         /\ awaiting' = [awaiting EXCEPT ![u] = @ \cup {c}]
         /\ Emit(<<Event("tool_end", {c})>>)
  /\ todo' = [todo EXCEPT ![u] = Tail(@)]
  /\ st' = [st EXCEPT ![u] = "calling"]
  /\ UNCHANGED <<asked, results, polls, cancelled, runs, resumes, submit,
                 panelVars, disturbed, crashed>>

(* Mutant: the limit is checked with > instead of >=.                      *)
CallEnds_OffByOne(u) ==
  /\ st[u] = "intool"
  /\ LET c     == Head(todo[u])
         ended == Event("tool_end", {c})
     IN  /\ results' = [results EXCEPT ![c] = @ + 1]
         /\ \E count \in {0, polls[u] + 1} :
              IF count > PollLimit
              THEN /\ Finish(u, <<ended, Done("plain")>>)
                   /\ Disturb(awaiting[u] # {})
              ELSE /\ st' = [st EXCEPT ![u] = "calling"]
                   /\ polls' = [polls EXCEPT ![u] = count]
                   /\ todo' = [todo EXCEPT ![u] = Tail(@)]
                   /\ Emit(<<ended>>)
                   /\ UNCHANGED <<awaiting, cancelled, runs, disturbed>>
  /\ UNCHANGED <<asked, row, resumes, submit, panelVars, crashed>>

(* Any other tool: a result.  The PollLimit-th progress poll in a row ends *)
(* the turn in the middle of the batch: the calls after it get no result,  *)
(* and the choices saved before it are never offered.                      *)
CallEnds(u) ==
  /\ st[u] = "intool"
  /\ LET c     == Head(todo[u])
         ended == Event("tool_end", {c})
     IN  /\ results' = [results EXCEPT ![c] = @ + 1]
         /\ \E count \in {0, polls[u] + 1} :
              IF count >= PollLimit
              THEN /\ Finish(u, <<ended, Done("plain")>>)
                   /\ Disturb(awaiting[u] # {})
              ELSE /\ st' = [st EXCEPT ![u] = "calling"]
                   /\ polls' = [polls EXCEPT ![u] = count]
                   /\ todo' = [todo EXCEPT ![u] = Tail(@)]
                   /\ Emit(<<ended>>)
                   /\ UNCHANGED <<awaiting, cancelled, runs, disturbed>>
  /\ UNCHANGED <<asked, row, resumes, submit, panelVars, crashed>>

(* Mutant: only the batch's last choice is offered.                        *)
BatchEnds_OffersOne(u) ==
  /\ st[u] = "calling"
  /\ todo[u] = <<>>
  /\ IF awaiting[u] = {}
     THEN /\ st' = [st EXCEPT ![u] = "thinking"]
          /\ UNCHANGED <<guestVars, cancelled, runs, events>>
     ELSE Finish(u, <<Event("offer_choices",
                       {c \in awaiting[u] : \A d \in awaiting[u] : d <= c}),
                      Done("waitingChoice")>>)
  /\ UNCHANGED <<asked, results, row, resumes, submit, panelVars,
                 disturbed, crashed>>

(* The batch is done: offer its choices and return, or ask the model again.*)
BatchEnds(u) ==
  /\ st[u] = "calling"
  /\ todo[u] = <<>>
  /\ IF awaiting[u] = {}
     THEN /\ st' = [st EXCEPT ![u] = "thinking"]
          /\ UNCHANGED <<guestVars, cancelled, runs, events>>
     ELSE Finish(u, <<Event("offer_choices", awaiting[u]),
                      Done("waitingChoice")>>)
  /\ UNCHANGED <<asked, results, row, resumes, submit, panelVars,
                 disturbed, crashed>>

-----------------------------------------------------------------------------
(* Choose.                                                                 *)

Choosing(s, here) == submit[s].pc = here

(* The answers are incomplete, empty, or their row is gone: an error.  The *)
(* panel has taken its card away and shows the error.                      *)
ChooseRejects(s) ==
  /\ Choosing(s, "called")
  /\ submit' = [submit EXCEPT ![s] = Free]
  /\ phase' = "error"
  /\ Disturb(TRUE)
  /\ UNCHANGED <<asked, results, row, st, guestVars, cancelled, runs,
                 resumes, events, card, open, crashed>>

(* Mutant: the batch is what was answered, not what is pending.            *)
ChooseReads_Partial(s) ==
  /\ Choosing(s, "called")
  /\ \E seed \in submit[s].answers :
       /\ row[seed] # None
       /\ submit' = [submit EXCEPT ![s].pc = "writing",
                       ![s].batch = submit[s].answers,
                       ![s].task = row[seed]]
  /\ UNCHANGED <<asked, results, row, st, guestVars, cancelled, runs,
                 resumes, events, panelVars, disturbed, crashed>>

(* The rows of the task are read, and every one of them is answered.       *)
ChooseReads(s) ==
  /\ Choosing(s, "called")
  /\ \E seed \in submit[s].answers :
       LET batch == SameTask(row[seed])
       IN  /\ row[seed] # None
           /\ batch \subseteq submit[s].answers
           /\ submit' = [submit EXCEPT ![s].pc = "writing", ![s].answers = {},
                           ![s].batch = batch, ![s].task = row[seed]]
  /\ UNCHANGED <<asked, results, row, st, guestVars, cancelled, runs,
                 resumes, events, panelVars, disturbed, crashed>>

(* The next pending of the batch: its row is deleted ...                   *)
NextOf(s, c) == c \in submit[s].batch /\ \A d \in submit[s].batch : c <= d

ChooseDeletes(s) ==
  /\ Choosing(s, "writing")
  /\ \E c \in submit[s].batch :
       /\ NextOf(s, c)
       /\ row' = [row EXCEPT ![c] = None]
  /\ submit' = [submit EXCEPT ![s].pc = "deleted"]
  /\ UNCHANGED <<asked, results, st, guestVars, cancelled, runs, resumes,
                 events, panelVars, disturbed, crashed>>

(* ... then its result is appended to the history and reported.            *)
ChooseAppends(s) ==
  /\ Choosing(s, "deleted")
  /\ \E c \in submit[s].batch :
       /\ NextOf(s, c)
       /\ results' = [results EXCEPT ![c] = @ + 1]
       /\ submit' = [submit EXCEPT ![s].pc = "writing", ![s].batch = @ \ {c}]
       /\ Emit(<<Event("tool_end", {c})>>)
  /\ UNCHANGED <<asked, row, st, guestVars, cancelled, runs, resumes,
                 panelVars, disturbed, crashed>>

(* All written: go r.runTurn(...), and Choose returns.                     *)
ChooseResumes(s) ==
  /\ Choosing(s, "writing")
  /\ submit[s].batch = {}
  /\ \E u \in Turns :
       /\ NextTurn(u)
       /\ st' = [st EXCEPT ![u] = "spawned"]
       /\ resumes' = [resumes EXCEPT ![u] = submit[s].task]
  /\ submit' = [submit EXCEPT ![s] = Free]
  /\ UNCHANGED <<asked, results, row, guestVars, cancelled, runs, events,
                 panelVars, disturbed, crashed>>

-----------------------------------------------------------------------------
(* The panel.                                                              *)

Busy == {"streaming", "tools", "needs_choice"}

(* A turn whose end the panel has not seen: it runs, or its events wait.   *)
UnseenTurn ==
  \/ \E u \in Turns : st[u] \notin {"unborn", "gone"}
  \/ LiveSubmits # {}
  \/ events # <<>>

(* send: refused while busy.  AgentChat fails, or starts a turn.           *)
Send ==
  /\ phase \notin Busy
  /\ TurnsLeft
  /\ card' = {}
  /\ \/ /\ phase' = "error"
        /\ UNCHANGED st
     \/ /\ phase' = "streaming"
        /\ \E u \in Turns : NextTurn(u) /\ st' = [st EXCEPT ![u] = "spawned"]
  /\ Disturb(UnseenTurn)
  /\ UNCHANGED <<asked, results, row, guestVars, cancelled, runs, resumes,
                 submit, events, open, crashed>>

(* stopGeneration: the panel is idle at once, and Runner.Stop cancels the  *)
(* registered turn.  (That a Stop may come late is part of AgentTurns.)    *)
ClickStop ==
  /\ phase \in Busy
  /\ card' = {}
  /\ phase' = "idle"
  /\ cancelled' = cancelled \cup ({runs} \cap Turns)
  /\ Disturb(card # {})
  /\ UNCHANGED <<asked, results, row, st, guestVars, runs, resumes, submit,
                 events, open, crashed>>

(* openThread on the same thread: the card is not restored from its rows.  *)
Reopen ==
  /\ card' = {}
  /\ phase' = "idle"
  /\ open' = {}
  /\ Disturb(card # {})
  /\ UNCHANGED <<asked, results, row, st, guestVars, cancelled, runs,
                 resumes, submit, events, crashed>>

(* Mutant: the card stays after it was submitted.                          *)
SubmitChoice_KeepsCard(s) ==
  /\ NextSlot(s)
  /\ TurnsLeft
  /\ card # {}
  /\ submit' = [submit EXCEPT ![s].pc = "called", ![s].answers = card]
  /\ phase' = "streaming"
  /\ UNCHANGED <<asked, results, row, st, guestVars, cancelled, runs,
                 resumes, events, card, open, disturbed, crashed>>

(* submitChoice: the card goes, AgentChoose is called with the answers.    *)
SubmitChoice(s) ==
  /\ NextSlot(s)
  /\ TurnsLeft
  /\ \E answers \in SUBSET card :
       /\ answers # {}
       /\ submit' = [submit EXCEPT ![s].pc = "called", ![s].answers = answers]
  /\ card' = {}
  /\ phase' = "streaming"
  /\ UNCHANGED <<asked, results, row, st, guestVars, cancelled, runs,
                 resumes, events, open, disturbed, crashed>>

(* sessionPhase after a tool step ended: finishToolStep.                   *)
PhaseAfterTool(running) ==
  IF card # {} THEN "needs_choice"
  ELSE IF running # {} THEN "tools"
  ELSE IF phase = "error" THEN "error" ELSE "idle"

OnTool(e) ==
  /\ \/ /\ e.tag = "tool_start"
        /\ open' = open \cup e.calls
        /\ phase' = IF card # {} THEN "needs_choice" ELSE "tools"
     \/ /\ e.tag = "tool_end"
        /\ open' = open \ e.calls
        /\ phase' = PhaseAfterTool(open \ e.calls)
  /\ UNCHANGED card

OnOfferChoices(e) ==
  /\ e.tag = "offer_choices"
  /\ card' = e.calls
  /\ phase' = "needs_choice"
  /\ UNCHANGED open

(* Mutant: a done clears the card whatever it says.                        *)
OnDone_DropsCard(e) ==
  /\ e.tag \in {"plain", "stopped", "error", "waitingChoice"}
  /\ open' = {}
  /\ card' = {}
  /\ phase' = "idle"

(* Mutant: a failed turn leaves the phase as it is.                        *)
OnDone_ErrorKeepsPhase(e) ==
  /\ \/ /\ e.tag \in {"plain", "stopped"}
        /\ card' = {}
        /\ phase' = "idle"
     \/ /\ e.tag = "error"
        /\ UNCHANGED <<card, phase>>
     \/ /\ e.tag = "waitingChoice"
        /\ phase' = IF open # {} THEN PhaseAfterTool({}) ELSE phase
        /\ UNCHANGED card
  /\ open' = {}

(* onDone ends the running steps.  Without waitingChoice it also drops the *)
(* card, and setPendingChoice(null) computes the phase anew: an error's    *)
(* phase does not survive it.                                              *)
OnDone(e) ==
  /\ \/ /\ e.tag \in {"plain", "stopped", "error"}
        /\ card' = {}
        /\ phase' = "idle"
     \/ /\ e.tag = "waitingChoice"
        /\ phase' = IF open # {} THEN PhaseAfterTool({}) ELSE phase
        /\ UNCHANGED card
  /\ open' = {}

Deliver ==
  /\ events # <<>>
  /\ LET e == Head(events) IN OnTool(e) \/ OnOfferChoices(e) \/ OnDone(e)
  /\ events' = Tail(events)
  /\ UNCHANGED <<asked, results, row, st, guestVars, cancelled, runs,
                 resumes, submit, disturbed, crashed>>

(* Kill and restart: history and rows are on disk, the rest is gone.       *)
Crash ==
  /\ ~crashed
  /\ crashed' = TRUE
  /\ st' = [u \in Turns |-> IF st[u] = "unborn" THEN "unborn" ELSE "gone"]
  /\ submit' = [s \in Submits |-> Free]
  /\ todo' = [u \in Turns |-> <<>>]
  /\ awaiting' = [u \in Turns |-> {}]
  /\ polls' = [u \in Turns |-> 0]
  /\ cancelled' = {}
  /\ runs' = None
  /\ events' = <<>>
  /\ phase' = "idle"
  /\ card' = {}
  /\ open' = {}
  /\ Disturb(TRUE)
  /\ UNCHANGED <<asked, results, row, resumes>>

-----------------------------------------------------------------------------
GuestStep(u) ==
  \/ Register(u)
  \/ SeesContext(u)
  \/ ModelFails(u)
  \/ ModelAnswers(u)
  \/ ModelAsks(u)
  \/ CallStarts(u)
  \/ CallWaits(u)
  \/ CallEnds(u)
  \/ BatchEnds(u)

ChooseStep(s) ==
  \/ ChooseRejects(s)
  \/ ChooseReads(s)
  \/ ChooseDeletes(s)
  \/ ChooseAppends(s)
  \/ ChooseResumes(s)

PanelStep ==
  \/ Send
  \/ ClickStop
  \/ Reopen
  \/ \E s \in Submits : SubmitChoice(s)
  \/ Deliver

Next ==
  \/ \E u \in Turns : GuestStep(u)
  \/ \E s \in Submits : ChooseStep(s)
  \/ PanelStep
  \/ Crash

Spec == Init /\ [][Next]_vars

(* Goroutines run and the calls they make return (a turn has 12 minutes,   *)
(* and a step limit); the webview delivers events.  The user is free.      *)
Fairness ==
  /\ \A u \in Turns : WF_vars(GuestStep(u))
  /\ \A s \in Submits : WF_vars(ChooseStep(s))
  /\ WF_vars(Deliver)

FairSpec == Spec /\ Fairness

-----------------------------------------------------------------------------
(* Properties.                                                             *)

(* No tool call gets two results in the history, over every order of the   *)
(* guest, the submits, stops and sends of the panel and a restart: a       *)
(* second result for a call id breaks the request to the model (guest.go,  *)
(* runner.go Choose, useAgentSession.ts submitChoice).                     *)
OneResultPerCall == \A c \in Calls : results[c] <= 1

(* The choices of a card are exactly the rows of their task, so the        *)
(* complete answer of the card is one Choose accepts (runner.go Choose:    *)
(* every row of the task must be answered).                                *)
CardIsAcceptable ==
  \A c \in card : row[c] # None /\ SameTask(row[c]) = card

(* A turn that resumes after a choice finds every call of the turn that    *)
(* offered it answered: the model is never resumed on a history with a     *)
(* call of that task open (guest.go's return, runner.go Choose).           *)
ResumesAnswered ==
  \A u \in Turns : resumes[u] # None =>
    \A c \in Calls : asked[c] = resumes[u] => results[c] = 1

(* Once nothing runs and the panel has seen every event, a choice the      *)
(* guest saved is on display, unless the user stopped or reopened the      *)
(* thread over the card, sent a message before the panel had seen the end  *)
(* of a turn, gave answers Choose rejects, the poll limit cut the batch    *)
(* after the choice, or the application was restarted (guest.go,           *)
(* useAgentSession.ts onOfferChoices and onDone).                          *)
OfferReachesUser == (~UnseenTurn /\ ~disturbed) => card = Rows

(* The panel never stays streaming or in tools: however the turn ends, an  *)
(* event or an error takes it back to idle, error or the card              *)
(* (useAgentSession.ts onDone, submitChoice).                              *)
PanelSettles ==
  (phase \in {"streaming", "tools"}) ~> (phase \notin {"streaming", "tools"})
=============================================================================
