-------------------------- MODULE McpConfirm_proofs --------------------------
(***************************************************************************)
(* Proofs about McpConfirm, for every set of calls.                        *)
(*                                                                         *)
(* That a call runs only if it was approved is not inductive: it has to be *)
(* known that the answer in a channel is the user's (AnswersAreClicks), for*)
(* which the handler must carry it unchanged (HandlerCarries), for which   *)
(* each call's dialog is shown at most once (QueuedOnce, NotAskedYet).     *)
(***************************************************************************)
EXTENDS McpConfirm, Naturals, TLAPS

Queued(r) == \E i \in 1..Len(queue) : queue[i] = r

(* Nothing is known of a call before its event is out.                     *)
NotAskedYet ==
  \A r \in Requests :
    call[r] \in {"idle", "registered"} =>
      chan[r] = "empty" /\ said[r] = "none" /\ ~Queued(r) /\ handler.r # r

(* An event is queued once, and its call has not been answered or handled. *)
QueuedOnce ==
  /\ \A i, j \in 1..Len(queue) : queue[i] = queue[j] => i = j
  /\ \A i \in 1..Len(queue) :
       said[queue[i]] = "none" /\ chan[queue[i]] = "empty" /\ handler.r # queue[i]

(* What the handler sends is what the user clicked.                        *)
HandlerCarries ==
  /\ handler.pc = "idle" <=> handler.r = None
  /\ handler.pc = "asking" => said[handler.r] = "none"
  /\ handler.pc \in {"answered", "sending", "resolved"} =>
       said[handler.r] = IF handler.ok THEN "yes" ELSE "no"
  /\ handler.pc \in {"asking", "answered", "sending"} => chan[handler.r] = "empty"

AnswersAreClicks ==
  \A r \in Requests : chan[r] # "empty" => chan[r] = said[r]

IInv ==
  /\ TypeOK
  /\ GateExact
  /\ DialogsAreSerial
  /\ RunsOnlyIfApproved
  /\ NotAskedYet
  /\ QueuedOnce
  /\ HandlerCarries
  /\ AnswersAreClicks

-----------------------------------------------------------------------------
(* The queue.                                                              *)

LEMMA AppendedQueue ==
  ASSUME NEW q \in Seq(Requests), NEW r \in Requests
  PROVE  /\ Append(q, r) \in Seq(Requests)
         /\ Len(Append(q, r)) = Len(q) + 1
         /\ \A i \in 1..Len(q) : Append(q, r)[i] = q[i]
         /\ Append(q, r)[Len(q) + 1] = r
         /\ Len(q) \in Nat
OBVIOUS

LEMMA ShiftedQueue ==
  ASSUME NEW q \in Seq(Requests), q # <<>>
  PROVE  /\ Head(q) \in Requests
         /\ Head(q) = q[1]
         /\ 1 \in 1..Len(q)
         /\ Tail(q) \in Seq(Requests)
         /\ Len(Tail(q)) = Len(q) - 1
         /\ \A i \in 1..Len(Tail(q)) :
              Tail(q)[i] = q[i + 1] /\ i + 1 \in 1..Len(q)
         /\ Len(q) \in Nat
OBVIOUS

-----------------------------------------------------------------------------
(* The inductive invariant.                                                *)

LEMMA InitIInv == Init => IInv
<1> SUFFICES ASSUME Init PROVE IInv
  OBVIOUS
<1>. USE NoneAssumption DEF Init
<1>1. Len(queue) = 0 /\ queue \in Seq(Requests)
  OBVIOUS
<1>2. TypeOK
  BY <1>1 DEF TypeOK, Idle
<1>3. NotAskedYet /\ QueuedOnce
  BY <1>1 DEF NotAskedYet, QueuedOnce, Queued, Idle
<1>4. GateExact /\ DialogsAreSerial /\ RunsOnlyIfApproved
  BY DEF GateExact, DialogsAreSerial, RunsOnlyIfApproved, Idle
<1>5. HandlerCarries /\ AnswersAreClicks
  BY DEF HandlerCarries, AnswersAreClicks, Idle
<1>. QED
  BY <1>2, <1>3, <1>4, <1>5 DEF IInv

(* A call changes its own state only, and its event goes to the queue.     *)
LEMMA CallStepIInv ==
  ASSUME IInv, NEW r \in Requests, CallStep(r)
  PROVE  IInv'
<1>. USE NoneAssumption
     DEF IInv, GateExact, DialogsAreSerial, RunsOnlyIfApproved, NotAskedYet,
         QueuedOnce, HandlerCarries, AnswersAreClicks, Queued, gate, frontend
<1>1. CASE Register(r)
  BY <1>1 DEF Register, Goes, TypeOK
<1>2. CASE Emit(r)
  BY <1>2, AppendedQueue DEF Emit, Goes, TypeOK
<1>3. CASE Expire(r)
  BY <1>3 DEF Expire, TypeOK
<1>4. CASE TakeAnswer(r)
  BY <1>4 DEF TakeAnswer, Goes, TypeOK
<1>5. CASE TakeTimeout(r)
  BY <1>5 DEF TakeTimeout, Goes, TypeOK
<1>6. CASE Execute(r)
  BY <1>6 DEF Execute, Goes, TypeOK
<1>. QED
  BY <1>1, <1>2, <1>3, <1>4, <1>5, <1>6 DEF CallStep

LEMMA FrontendStepIInv ==
  ASSUME IInv, FrontendStep
  PROVE  IInv'
<1>. USE NoneAssumption, EditorAssumption
     DEF IInv, GateExact, DialogsAreSerial, RunsOnlyIfApproved, NotAskedYet,
         QueuedOnce, HandlerCarries, AnswersAreClicks, Queued, gate, frontend
<1>1. CASE Mount
  BY <1>1 DEF Mount, TypeOK
<1>2. CASE ShowDialog
  BY <1>2, ShiftedQueue DEF ShowDialog, TypeOK
<1>3. CASE EditorAsks
  BY <1>3 DEF EditorAsks, TypeOK
<1>4. ASSUME NEW yes \in BOOLEAN, Click(yes)
      PROVE  IInv'
  <2>1. CASE slot = Editor
    BY <1>4, <2>1 DEF Click, TypeOK
  <2>2. CASE slot \in Requests
    <3>1. handler.r = slot /\ handler.pc = "asking" /\ said[slot] = "none"
      BY <2>2
    <3>2. /\ handler' = [handler EXCEPT !.pc = "answered", !.ok = yes]
          /\ said' = [said EXCEPT ![slot] = IF yes THEN "yes" ELSE "no"]
          /\ slot' = None
      BY <1>4, <2>2 DEF Click
    <3>3. UNCHANGED <<call, wait, chan, due, mounted, queue, shown>>
      BY <1>4 DEF Click
    <3>4. /\ handler'.r = slot /\ handler'.pc = "answered" /\ handler'.ok = yes
          /\ said'[slot] = IF yes THEN "yes" ELSE "no"
          /\ \A r \in Requests : r # slot => said'[r] = said[r]
      BY <2>2, <3>1, <3>2 DEF TypeOK
    <3>5. TypeOK'
      BY <2>2, <3>2, <3>3 DEF TypeOK
    <3>6. GateExact' /\ DialogsAreSerial'
      BY <2>2, <3>1, <3>2, <3>3, <3>4
    <3>7. RunsOnlyIfApproved' /\ AnswersAreClicks'
      BY <2>2, <3>1, <3>3, <3>4
    <3>8. HandlerCarries'
      BY <2>2, <3>1, <3>2, <3>3, <3>4 DEF TypeOK
    <3>9. NotAskedYet' /\ QueuedOnce'
      BY <2>2, <3>1, <3>3, <3>4 DEF TypeOK
    <3>. QED
      BY <3>5, <3>6, <3>7, <3>8, <3>9
  <2>. QED
    BY <1>4, <2>1, <2>2 DEF Click, TypeOK
<1>5. CASE ResolveTakes
  BY <1>5 DEF ResolveTakes, TypeOK
<1>6. CASE ResolveSends
  BY <1>6 DEF ResolveSends, TypeOK
<1>7. CASE Finish
  BY <1>7 DEF Finish, Idle, TypeOK
<1>. QED
  BY <1>1, <1>2, <1>3, <1>4, <1>5, <1>6, <1>7 DEF FrontendStep

LEMMA StepIInv == IInv /\ [Next]_vars => IInv'
<1> SUFFICES ASSUME IInv, [Next]_vars PROVE IInv'
  OBVIOUS
<1>1. CASE UNCHANGED vars
  BY <1>1
  DEF IInv, TypeOK, GateExact, DialogsAreSerial, RunsOnlyIfApproved,
      NotAskedYet, QueuedOnce, HandlerCarries, AnswersAreClicks, Queued,
      vars, gate, frontend
<1>. QED
  BY <1>1, CallStepIInv, FrontendStepIInv DEF Next

THEOREM Invariance == Spec => []IInv
BY InitIInv, StepIInv, PTL DEF Spec

(* The types of the gate and of the front end.                             *)
THEOREM TypeCorrect == Spec => []TypeOK
BY Invariance, PTL DEF IInv

(* The gate holds exactly the calls that wait for Resolve.                 *)
THEOREM GateIsExact == Spec => []GateExact
BY Invariance, PTL DEF IInv

(* A call runs only if the user said yes to its own dialog.                *)
THEOREM OnlyApprovedCallsRun == Spec => []RunsOnlyIfApproved
BY Invariance, PTL DEF IInv

(* The dialogs of calls never replace each other.                          *)
THEOREM DialogsDoNotCollide == Spec => []DialogsAreSerial
BY Invariance, PTL DEF IInv

-----------------------------------------------------------------------------
(* The refinement.                                                         *)

LEMMA InitImplements == Init => OneShot!Init
BY DEF Init, OneShot!Init, Phase

(* The goroutine of a call moves the phase of that call.                   *)
LEMMA CallStepImplements ==
  ASSUME IInv, NEW r \in Requests, CallStep(r)
  PROVE  [OneShot!Next]_OneShot!vars
<1> DEFINE phases == [x \in Requests |-> Phase(x)]
<1>. USE DEF IInv, TypeOK, gate, frontend
<1>1. ASSUME NEW from, NEW to, Goes(r, from, to)
      PROVE  /\ call[r] = from /\ call'[r] = to
             /\ \A x \in Requests : x # r => call'[x] = call[x]
  BY <1>1 DEF Goes
<1>2. ASSUME NEW to, Phase(r)' = to, \A x \in Requests : x # r => call'[x] = call[x]
      PROVE  phases' = [phases EXCEPT ![r] = to]
  BY <1>2 DEF Phase
<1>3. CASE Register(r)
  <2>1. call[r] = "idle" /\ phases' = [phases EXCEPT ![r] = "open"]
    BY <1>1, <1>2, <1>3 DEF Register, Phase
  <2>2. OneShot!Ask(r)
    BY <1>3, <2>1 DEF Register, OneShot!Ask, OneShot!Move, Phase
  <2>. QED
    BY <2>2 DEF OneShot!Next
<1>4. CASE Emit(r) \/ Expire(r) \/ Execute(r)
  <2>1. \A x \in Requests : Phase(x)' = Phase(x)
    BY <1>4 DEF Emit, Expire, Execute, Goes, Phase
  <2>. QED
    BY <1>4, <2>1 DEF Emit, Expire, Execute, OneShot!vars
<1>5. CASE TakeAnswer(r)
  <2>1. call[r] = "waiting" /\ chan[r] = said[r] /\ said' = said
    BY <1>1, <1>5 DEF TakeAnswer, AnswersAreClicks
  <2>2. CASE chan[r] = "yes"
    <3>1. phases' = [phases EXCEPT ![r] = "run"]
      BY <1>1, <1>2, <1>5, <2>2 DEF TakeAnswer, Phase
    <3>2. OneShot!Run(r)
      BY <2>1, <2>2, <3>1 DEF OneShot!Run, OneShot!Move, Phase
    <3>. QED
      BY <3>2 DEF OneShot!Next
  <2>3. CASE chan[r] = "no"
    <3>1. phases' = [phases EXCEPT ![r] = "refused"]
      BY <1>1, <1>2, <1>5, <2>3 DEF TakeAnswer, Phase
    <3>2. OneShot!Refuse(r)
      BY <2>1, <2>3, <3>1 DEF OneShot!Refuse, OneShot!Move, Phase
    <3>. QED
      BY <3>2 DEF OneShot!Next
  <2>. QED
    BY <1>5, <2>2, <2>3 DEF TakeAnswer
<1>6. CASE TakeTimeout(r)
  <2>1. call[r] = "waiting" /\ phases' = [phases EXCEPT ![r] = "lapsed"]
    BY <1>1, <1>2, <1>6 DEF TakeTimeout, Phase
  <2>2. OneShot!Lapse(r)
    BY <1>6, <2>1 DEF TakeTimeout, OneShot!Lapse, OneShot!Move, Phase
  <2>. QED
    BY <2>2 DEF OneShot!Next
<1>. QED
  BY <1>3, <1>4, <1>5, <1>6 DEF CallStep

(* Of the front end only a click on the dialog of a call is seen.          *)
LEMMA FrontendStepImplements ==
  ASSUME IInv, FrontendStep
  PROVE  [OneShot!Next]_OneShot!vars
<1>. USE EditorAssumption, NoneAssumption
     DEF IInv, TypeOK, OneShot!Next, OneShot!vars, Phase, gate, frontend
<1>1. CASE Mount \/ ShowDialog \/ EditorAsks \/ ResolveTakes \/ ResolveSends \/ Finish
  BY <1>1 DEF Mount, ShowDialog, EditorAsks, ResolveTakes, ResolveSends, Finish
<1>2. ASSUME NEW yes \in BOOLEAN, Click(yes)
      PROVE  [OneShot!Next]_OneShot!vars
  <2>1. CASE slot = Editor
    BY <1>2, <2>1 DEF Click
  <2>2. CASE slot \in Requests
    <3>1. said[slot] = "none" /\ call[slot] # "idle"
      BY <2>2 DEF DialogsAreSerial, HandlerCarries, NotAskedYet
    <3>. QED
      BY <1>2, <2>2, <3>1 DEF Click, OneShot!Say
  <2>. QED
    BY <1>2, <2>1, <2>2 DEF Click
<1>. QED
  BY <1>1, <1>2 DEF FrontendStep

(* The gate and the dialogs implement the abstract confirmation.           *)
THEOREM Implements == Spec => ImplementsOneShot
<1>1. IInv /\ [Next]_vars => [OneShot!Next]_OneShot!vars
  <2> SUFFICES ASSUME IInv, [Next]_vars PROVE [OneShot!Next]_OneShot!vars
    OBVIOUS
  <2>1. CASE UNCHANGED vars
    BY <2>1 DEF vars, gate, frontend, OneShot!vars, Phase
  <2>. QED
    BY <2>1, CallStepImplements, FrontendStepImplements DEF Next
<1>. QED
  BY <1>1, InitImplements, Invariance, PTL DEF Spec, ImplementsOneShot, OneShot!Spec
=============================================================================
