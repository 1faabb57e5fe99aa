--------------------------- MODULE Sftp_proofs -----------------------------
(* Proofs about Transfers, for every set of tasks and number of slots,     *)
(* about SftpPanes, for any sessions, directories, calls and texts, and    *)
(* about WorkspaceSaves, for any tabs and saves.                           *)
(*                                                                         *)
(* The queue counts what it shows as running and the calls that have not   *)
(* returned (InFlight). That this bounds what really runs needs to know    *)
(* that a call returns once and that nothing follows its result on the     *)
(* wire (WireOK), and that a task has no call before it is started         *)
(* (NotStartedYet).                                                        *)
EXTENDS Transfers, SftpPanes, WorkspaceSaves, TLAPS, FiniteSetTheorems, WellFoundedInduction

Messages == {"running", "done", "error", "ok", "failed"}
Results == {"ok", "failed"}

\* What may be on the wire of a task whose call is at c.
WireOK(w, c, isFolder) ==
  /\ w \in Seq(Messages)
  /\ \A i \in 1..Len(w) :
       /\ w[i] = "ok" => c = "ok"
       /\ w[i] \in {"error", "failed"} => c = "failed"
       /\ w[i] = "done" /\ ~isFolder => c = "ok"
       /\ w[i] \in Results => i = Len(w)
  /\ (c \in Results /\ w # <<>>) => w[Len(w)] \in Results
  /\ c = "none" => w = <<>>

WiresOK == \A t \in Tasks : WireOK(wire[t], call[t], t \in Folders)

Working(t) == call[t] \in {"sent", "bound", "lastRead"}

StartingHoldsCalls ==
  /\ \A t \in Tasks : t \in starting <=> Working(t) \/ wire[t] # <<>>
  /\ \A t \in Tasks : task[t] = "running" => t \in starting
  /\ Cardinality(starting) <= MaxConcurrent

NotStartedYet == \A t \in Tasks : task[t] \in {"none", "queued"} => call[t] = "none"

CancelFoundBound == \A t \in Tasks : ctx[t] = "cancelled" => call[t] \in {"bound", "failed"}

RefreshComes == refreshDue => "end" \in timers \/ starting # {}

XferInv ==
  /\ XferTypeOK /\ ShownAsItIs
  /\ WiresOK /\ StartingHoldsCalls /\ NotStartedYet /\ CancelFoundBound /\ RefreshComes
-----------------------------------------------------------------------------
(* The wire of a task.                                                     *)
LEMMA OneMore ==
  ASSUME NEW w \in Seq(Messages), NEW m \in Messages
  PROVE  LET v == w \o <<m>> IN
         /\ v \in Seq(Messages) /\ Len(v) = Len(w) + 1 /\ Len(w) \in Nat
         /\ \A i \in 1..Len(w) : v[i] = w[i]
         /\ v[Len(w) + 1] = m
OBVIOUS

LEMMA TwoMore ==
  ASSUME NEW w \in Seq(Messages), NEW m \in Messages, NEW n \in Messages
  PROVE  LET v == w \o <<m, n>> IN
         /\ v \in Seq(Messages) /\ Len(v) = Len(w) + 2 /\ Len(w) \in Nat
         /\ \A i \in 1..Len(w) : v[i] = w[i]
         /\ v[Len(w) + 1] = m /\ v[Len(w) + 2] = n
OBVIOUS

(* A call that goes on has no result on the wire yet, and may send one.    *)
LEMMA WireOfRunningCall ==
  ASSUME NEW w, NEW c \in {"sent", "bound", "lastRead"}, NEW isFolder \in BOOLEAN,
         WireOK(w, c, isFolder)
  PROVE  /\ \A d \in {"sent", "bound", "lastRead"} : WireOK(w \o <<>>, d, isFolder)
         /\ w \o <<>> = w
         /\ WireOK(w \o <<"running">>, c, isFolder)
         /\ isFolder => WireOK(w \o <<"done">>, c, isFolder)
         /\ WireOK(w \o <<"failed">>, "failed", isFolder)
         /\ WireOK(w \o <<"error", "failed">>, "failed", isFolder)
         /\ c = "lastRead" => WireOK(w \o <<"done", "ok">>, "ok", isFolder)
<1>1. w \in Seq(Messages) /\ w \o <<>> = w
  BY DEF WireOK
<1>2. \A i \in 1..Len(w) : w[i] \in {"running", "done"} /\ (w[i] = "done" => isFolder)
  <2>1. \A i \in 1..Len(w) : w[i] \in Messages
    BY <1>1
  <2>. QED
    BY <2>1 DEF WireOK, Messages
<1>3. /\ WireOK(w \o <<"running">>, c, isFolder)
      /\ isFolder => WireOK(w \o <<"done">>, c, isFolder)
      /\ WireOK(w \o <<"failed">>, "failed", isFolder)
  BY <1>1, <1>2, OneMore DEF WireOK, Messages, Results
<1>4. /\ WireOK(w \o <<"error", "failed">>, "failed", isFolder)
      /\ c = "lastRead" => WireOK(w \o <<"done", "ok">>, "ok", isFolder)
  BY <1>1, <1>2, TwoMore DEF WireOK, Messages, Results
<1>5. \A d \in {"sent", "bound", "lastRead"} : WireOK(w, d, isFolder)
  BY <1>1, <1>2 DEF WireOK, Results
<1>. QED
  BY <1>1, <1>3, <1>4, <1>5

(* The front end takes messages in order; the result is the last one.      *)
LEMMA WireDelivered ==
  ASSUME NEW w, NEW c, NEW isFolder \in BOOLEAN, WireOK(w, c, isFolder), w # <<>>
  PROVE  /\ WireOK(Tail(w), c, isFolder)
         /\ Len(Tail(w)) = Len(w) - 1 /\ Len(w) \in Nat
         /\ Head(w) \in Results => Tail(w) = <<>>
         /\ Head(w) \notin Results => Tail(w) # <<>> \/ c \notin Results
         /\ Head(w) \in Messages /\ c # "none"
         /\ Head(w) = "ok" => c = "ok"
         /\ Head(w) \in {"error", "failed"} => c = "failed"
         /\ Head(w) = "done" /\ ~isFolder => c = "ok"
<1>1. /\ w \in Seq(Messages) /\ Head(w) = w[1] /\ Tail(w) \in Seq(Messages)
      /\ Len(Tail(w)) = Len(w) - 1 /\ Len(w) \in Nat /\ Len(w) >= 1 /\ 1 \in 1..Len(w)
      /\ \A i \in 1..Len(Tail(w)) : Tail(w)[i] = w[i + 1] /\ i + 1 \in 1..Len(w)
  BY DEF WireOK
<1>2. Head(w) \in Results => Tail(w) = <<>>
  <2>1. Head(w) \in Results => Len(w) = 1
    BY <1>1 DEF WireOK
  <2>. QED
    BY <1>1, <2>1
<1>3. Tail(w) = <<>> => Len(w) = 1
  BY <1>1
<1>4. WireOK(Tail(w), c, isFolder)
  <2>1. \A i \in 1..Len(Tail(w)) :
          /\ Tail(w)[i] = "ok" => c = "ok"
          /\ Tail(w)[i] \in {"error", "failed"} => c = "failed"
          /\ Tail(w)[i] = "done" /\ ~isFolder => c = "ok"
          /\ Tail(w)[i] \in Results => i = Len(Tail(w))
    <3> SUFFICES ASSUME NEW i \in 1..Len(Tail(w))
                 PROVE  /\ Tail(w)[i] = "ok" => c = "ok"
                        /\ Tail(w)[i] \in {"error", "failed"} => c = "failed"
                        /\ Tail(w)[i] = "done" /\ ~isFolder => c = "ok"
                        /\ Tail(w)[i] \in Results => i = Len(Tail(w))
      OBVIOUS
    <3>1. Tail(w)[i] = w[i + 1] /\ i + 1 \in 1..Len(w) /\ i \in Int
      BY <1>1
    <3>2. /\ w[i + 1] = "ok" => c = "ok"
          /\ w[i + 1] \in {"error", "failed"} => c = "failed"
          /\ w[i + 1] = "done" /\ ~isFolder => c = "ok"
          /\ w[i + 1] \in Results => i + 1 = Len(w)
      BY <3>1 DEF WireOK
    <3>3. i + 1 = Len(w) => i = Len(Tail(w))
      <4>1. Len(w) \in Nat /\ Len(Tail(w)) = Len(w) - 1
        BY <1>1
      <4>2. \A a \in Int, b \in Nat : a + 1 = b => a = b - 1
        OBVIOUS
      <4>3. i \in Int
        OBVIOUS
      <4>. QED
        BY <4>1, <4>2, <4>3
    <3>. QED
      BY <3>1, <3>2, <3>3
  <2>2. Tail(w) # <<>> => Tail(w)[Len(Tail(w))] = w[Len(w)]
    <3> SUFFICES ASSUME Tail(w) # <<>> PROVE Tail(w)[Len(Tail(w))] = w[Len(w)]
      OBVIOUS
    <3>1. Len(Tail(w)) \in 1..Len(Tail(w)) /\ Len(Tail(w)) + 1 = Len(w)
      BY <1>1
    <3>. QED
      BY <1>1, <3>1
  <2>3. c # "none"
    BY DEF WireOK
  <2>4. c \in Results => w[Len(w)] \in Results
    BY DEF WireOK
  <2>. QED
    BY <1>1, <2>1, <2>2, <2>3, <2>4 DEF WireOK
<1>5. Head(w) \notin Results => Tail(w) # <<>> \/ c \notin Results
  BY <1>1, <1>3 DEF WireOK
<1>6. /\ Head(w) \in Messages /\ c # "none"
      /\ Head(w) = "ok" => c = "ok"
      /\ Head(w) \in {"error", "failed"} => c = "failed"
      /\ Head(w) = "done" /\ ~isFolder => c = "ok"
  <2>1. w[1] \in Messages
    BY <1>1
  <2>. QED
    BY <1>1, <2>1 DEF WireOK
<1>. QED
  BY <1>1, <1>2, <1>4, <1>5, <1>6
-----------------------------------------------------------------------------
LEMMA InitXferInv == XferInit => XferInv
<1> SUFFICES ASSUME XferInit PROVE XferInv
  OBVIOUS
<1>. USE TransfersAssumption DEF XferInit
<1>1. XferTypeOK
  <2>1. wire \in [Tasks -> Seq({"running", "done", "error", "ok", "failed"})]
    <3>1. <<>> \in Seq({"running", "done", "error", "ok", "failed"})
      OBVIOUS
    <3>. QED
      BY <3>1
  <2>2. \A t \in Tasks : Len(wire[t]) <= MaxWire
    OBVIOUS
  <2>. QED
    BY <2>1, <2>2 DEF XferTypeOK
<1>2. ShownAsItIs /\ NotStartedYet /\ CancelFoundBound /\ RefreshComes
  BY DEF ShownAsItIs, NotStartedYet, CancelFoundBound, RefreshComes
<1>3. WiresOK
  <2>1. WireOK(<<>>, "none", TRUE) /\ WireOK(<<>>, "none", FALSE)
    BY DEF WireOK, Results
  <2>2. \A t \in Tasks : (t \in Folders) \in BOOLEAN
    OBVIOUS
  <2>. QED
    BY <2>1, <2>2 DEF WiresOK
<1>4. StartingHoldsCalls
  BY FS_EmptySet DEF StartingHoldsCalls, Working
<1>. QED
  BY <1>1, <1>2, <1>3, <1>4 DEF XferInv

LEMMA CallTyped ==
  ASSUME XferTypeOK, NEW t \in Tasks
  PROVE  call[t] \in {"none", "sent", "bound", "lastRead", "ok", "failed"}
BY DEF XferTypeOK

(* What the user does, but for the timers, starts no call and ends none.   *)
LEMMA UserStepXferInv ==
  ASSUME XferInv, ClearFinished \/ \E t \in Tasks : Enqueue(t) \/ CancelTask(t)
  PROVE  XferInv'
<1>1. UNCHANGED <<starting, call, ctx, wire, refreshDue>>
  BY DEF ClearFinished, Enqueue, CancelTask, backVars
<1>2. /\ task' \in [Tasks -> {"none", "queued", "running", "done", "error", "cancelled", "cleared"}]
      /\ cancelled' \subseteq Tasks /\ timers' \subseteq {"pump", "end"}
      /\ cancelCall' \in [Tasks -> BOOLEAN]
      /\ timers \subseteq timers'
  <2>. USE DEF XferInv, XferTypeOK
  <2>1. CASE ClearFinished
    BY <2>1 DEF ClearFinished
  <2>2. ASSUME NEW t \in Tasks, Enqueue(t) \/ CancelTask(t)
        PROVE  /\ timers' = timers \cup {"pump"}
               /\ cancelled' \subseteq cancelled \cup {t}
               /\ cancelCall' \in [Tasks -> BOOLEAN]
               /\ task' \in [Tasks -> {"none", "queued", "running", "done", "error",
                                      "cancelled", "cleared"}]
    <3>1. CASE Enqueue(t)
      BY <3>1 DEF Enqueue
    <3>2. CASE CancelTask(t)
      BY <3>2, ZenonT(60) DEF CancelTask
    <3>. QED
      BY <2>2, <3>1, <3>2
  <2>. QED
    BY <2>1, <2>2
<1>3. /\ \A t \in Tasks : task'[t] \in {"running", "done", "error", "none"} => task'[t] = task[t]
      /\ \A t \in Tasks : task'[t] = "queued" => task[t] \in {"none", "queued"}
  BY DEF ClearFinished, Enqueue, CancelTask, XferInv, XferTypeOK
<1>4. XferTypeOK'
  BY <1>1, <1>2 DEF XferInv, XferTypeOK
<1>5. ShownAsItIs' /\ NotStartedYet'
  BY <1>1, <1>3 DEF XferInv, ShownAsItIs, NotStartedYet
<1>6. StartingHoldsCalls'
  BY <1>1, <1>3 DEF XferInv, StartingHoldsCalls, Working
<1>7. WiresOK' /\ CancelFoundBound' /\ RefreshComes'
  BY <1>1, <1>2 DEF XferInv, WiresOK, WireOK, CancelFoundBound, RefreshComes
<1>. QED
  BY <1>4, <1>5, <1>6, <1>7 DEF XferInv

(* A timer starts tasks while there are free slots, and every task it      *)
(* finds queued if there are enough.                                       *)
LEMMA RunTimerXferInv ==
  ASSUME XferInv, NEW k \in {"pump", "end"}, RunTimer(k)
  PROVE  XferInv'
<1>1. PICK S \in SUBSET Tasks :
        /\ Starts(S)
        /\ starting' = starting \cup S
        /\ task' = [t \in Tasks |-> IF t \in S THEN "running" ELSE task[t]]
        /\ call' = [t \in Tasks |-> IF t \in S THEN "sent" ELSE call[t]]
        /\ refreshDue' = (refreshDue /\ (k = "pump" \/ Busy \/ S # {}))
        /\ timers' = timers \ {k}
        /\ UNCHANGED <<cancelled, ctx, cancelCall, wire>>
  BY DEF RunTimer
<1>2. \A t \in S : task[t] = "queued" /\ call[t] = "none" /\ wire[t] = <<>>
  BY <1>1 DEF Starts, XferInv, NotStartedYet, WiresOK, WireOK
<1>3. InFlight = starting
  BY DEF InFlight, XferInv, XferTypeOK, StartingHoldsCalls
<1>4. IsFiniteSet(starting) /\ IsFiniteSet(S)
  BY TransfersAssumption, FS_Subset DEF XferInv, XferTypeOK
<1>5. Cardinality(starting) \in Nat /\ Cardinality(S) \in Nat
      /\ Cardinality(starting \cap S) \in Nat /\ MaxConcurrent \in Nat \ {0}
  <2>1. IsFiniteSet(starting \cap S)
    BY <1>4, FS_Subset
  <2>. QED
    BY <1>4, <2>1, FS_CardinalityType, TransfersAssumption
<1>6. Cardinality(starting') <= MaxConcurrent
  <2>1. Cardinality(starting \cup S) =
          Cardinality(starting) + Cardinality(S) - Cardinality(starting \cap S)
    BY <1>4, FS_Union
  <2>2. CASE S = {}
    BY <1>1, <2>2 DEF XferInv, StartingHoldsCalls
  <2>3. CASE S # {}
    BY <1>1, <1>3, <1>5, <2>1, <2>3 DEF Starts
  <2>. QED
    BY <2>2, <2>3
<1>7. XferTypeOK'
  BY <1>1 DEF XferInv, XferTypeOK
<1>8. ShownAsItIs' /\ NotStartedYet' /\ CancelFoundBound'
  BY <1>1, <1>2 DEF XferInv, XferTypeOK, ShownAsItIs, NotStartedYet, CancelFoundBound
<1>9. WiresOK'
  <2> SUFFICES ASSUME NEW t \in Tasks PROVE WireOK(wire'[t], call'[t], t \in Folders)
    BY DEF WiresOK
  <2>1. CASE t \in S
    <3>1. wire'[t] = <<>> /\ call'[t] = "sent"
      BY <1>1, <1>2, <2>1
    <3>2. WireOK(<<>>, "sent", t \in Folders)
      BY DEF WireOK, Results
    <3>. QED
      BY <3>1, <3>2
  <2>2. CASE t \notin S
    BY <1>1, <2>2 DEF XferInv, WiresOK
  <2>. QED
    BY <2>1, <2>2
<1>10. StartingHoldsCalls'
  BY <1>1, <1>6 DEF XferInv, XferTypeOK, StartingHoldsCalls, Working
<1>11. RefreshComes'
  <2> SUFFICES ASSUME refreshDue', "end" \notin timers' PROVE starting' # {}
    BY DEF RefreshComes
  <2>1. CASE k = "pump"
    BY <1>1, <2>1 DEF XferInv, RefreshComes
  <2>2. CASE S # {}
    BY <1>1, <2>2
  <2>3. CASE k = "end" /\ S = {} /\ starting = {}
    <3>1. \E t \in Tasks : task[t] = "queued"
      BY <1>1, <2>3 DEF Busy, XferInv, StartingHoldsCalls
    <3>2. Cardinality(S) + Cardinality(InFlight) = 0
      BY <1>3, <2>3, FS_EmptySet
    <3>. QED
      BY <1>1, <1>5, <2>3, <3>1, <3>2 DEF Starts
  <2>. QED
    BY <1>1, <2>1, <2>2, <2>3
<1>. QED
  BY <1>7, <1>8, <1>9, <1>10, <1>11 DEF XferInv

(* An event changes what is shown and nothing else; a task it is about has *)
(* been started.                                                           *)
LEMMA DeliverEventXferInv ==
  ASSUME XferInv, NEW t \in Tasks, DeliverEvent(t)
  PROVE  XferInv'
<1>1. /\ wire[t] # <<>> /\ Head(wire[t]) \in {"running", "done", "error"}
      /\ wire' = [wire EXCEPT ![t] = Tail(@)]
      /\ UNCHANGED <<starting, cancelled, timers, call, ctx, cancelCall, refreshDue>>
      /\ task' = task \/ task' = [task EXCEPT ![t] = Head(wire[t])]
  BY DEF DeliverEvent
<1>2. /\ wire'[t] = Tail(wire[t])
      /\ \A u \in Tasks \ {t} : wire'[u] = wire[u] /\ task'[u] = task[u]
      /\ task'[t] = task[t] \/ task'[t] = Head(wire[t])
  BY <1>1 DEF XferInv, XferTypeOK
<1>3. /\ WireOK(wire'[t], call[t], t \in Folders)
      /\ Len(wire'[t]) = Len(wire[t]) - 1 /\ Len(wire[t]) \in Nat
      /\ wire'[t] # <<>> \/ call[t] \notin Results
      /\ call[t] # "none"
      /\ Head(wire[t]) = "error" => call[t] = "failed"
      /\ Head(wire[t]) = "done" /\ t \notin Folders => call[t] = "ok"
  <2>. DEFINE folder == t \in Folders
  <2>1. WireOK(wire[t], call[t], folder)
    BY DEF XferInv, WiresOK
  <2>2. folder \in BOOLEAN /\ Head(wire[t]) \notin Results
    BY <1>1 DEF Results
  <2>3. ~folder <=> t \notin Folders
    OBVIOUS
  <2>. HIDE DEF folder
  <2>4. WireOK(wire'[t], call[t], folder)
    BY <1>1, <1>2, <2>1, <2>2, WireDelivered
  <2>5. /\ Len(wire'[t]) = Len(wire[t]) - 1 /\ Len(wire[t]) \in Nat
        /\ wire'[t] # <<>> \/ call[t] \notin Results
        /\ call[t] # "none"
        /\ Head(wire[t]) = "error" => call[t] = "failed"
        /\ Head(wire[t]) = "done" /\ ~folder => call[t] = "ok"
    BY <1>1, <1>2, <2>1, <2>2, WireDelivered, ZenonT(60)
  <2>. QED
    BY <2>3, <2>4, <2>5 DEF folder
<1>4. t \in starting
  BY <1>1 DEF XferInv, StartingHoldsCalls
<1>5. XferTypeOK'
  <2>1. wire' \in [Tasks -> Seq({"running", "done", "error", "ok", "failed"})]
    <3>1. wire[t] \in Seq({"running", "done", "error", "ok", "failed"})
      BY DEF XferInv, XferTypeOK
    <3>2. Tail(wire[t]) \in Seq({"running", "done", "error", "ok", "failed"})
      BY <1>1, <3>1
    <3>. QED
      BY <1>1, <3>2 DEF XferInv, XferTypeOK
  <2>2. \A u \in Tasks : Len(wire'[u]) <= MaxWire
    <3>1. \A u \in Tasks : Len(wire[u]) <= MaxWire
      BY DEF XferInv, XferTypeOK
    <3>2. Len(wire'[t]) <= MaxWire
      <4>1. \A a, b, c \in Nat : b <= c /\ a = b - 1 => a <= c
        OBVIOUS
      <4>2. Len(wire'[t]) \in Nat /\ MaxWire \in Nat
        BY <1>3, TransfersAssumption DEF WireOK
      <4>. QED
        BY <1>3, <3>1, <4>1, <4>2
    <3>. QED
      BY <1>2, <3>1, <3>2
  <2>3. task' \in [Tasks -> {"none", "queued", "running", "done", "error", "cancelled", "cleared"}]
    BY <1>1 DEF XferInv, XferTypeOK
  <2>. QED
    BY <1>1, <2>1, <2>2, <2>3 DEF XferInv, XferTypeOK
<1>6. ShownAsItIs'
  BY <1>1, <1>2, <1>3 DEF XferInv, ShownAsItIs
<1>7. WiresOK'
  BY <1>1, <1>2, <1>3 DEF XferInv, WiresOK
<1>8. StartingHoldsCalls'
  <2>1. Working(t) \/ wire'[t] # <<>>
    BY <1>3, CallTyped DEF Working, Results, XferInv
  <2>. QED
    BY <1>1, <1>2, <1>4, <2>1 DEF XferInv, StartingHoldsCalls, Working
<1>9. NotStartedYet' /\ CancelFoundBound' /\ RefreshComes'
  BY <1>1, <1>2, <1>3 DEF XferInv, NotStartedYet, CancelFoundBound, RefreshComes
<1>. QED
  BY <1>5, <1>6, <1>7, <1>8, <1>9 DEF XferInv

(* The result of a call frees the slot and sets the timer of its end.      *)
LEMMA DeliverResultXferInv ==
  ASSUME XferInv, NEW t \in Tasks, DeliverResult(t)
  PROVE  XferInv'
<1>1. /\ wire[t] # <<>> /\ Head(wire[t]) \in Results
      /\ wire' = [wire EXCEPT ![t] = Tail(@)]
      /\ starting' = starting \ {t}
      /\ timers' = timers \cup {"end"}
      /\ refreshDue' = TRUE
      /\ UNCHANGED <<cancelled, call, ctx, cancelCall>>
  BY DEF DeliverResult, Results
<1>2. /\ task' \in [Tasks -> {"none", "queued", "running", "done", "error", "cancelled", "cleared"}]
      /\ \A u \in Tasks \ {t} : task'[u] = task[u]
      /\ task'[t] \in {"cleared", "cancelled", "done", "error"}
      /\ task'[t] = "done" => Head(wire[t]) = "ok"
      /\ task'[t] = "error" => Head(wire[t]) = "failed"
  BY DEF DeliverResult, XferInv, XferTypeOK
<1>3. /\ wire'[t] = Tail(wire[t])
      /\ \A u \in Tasks \ {t} : wire'[u] = wire[u]
  BY <1>1 DEF XferInv, XferTypeOK
<1>4. /\ WireOK(wire'[t], call[t], t \in Folders)
      /\ wire'[t] = <<>> /\ Len(wire'[t]) = 0
      /\ Head(wire[t]) = "ok" => call[t] = "ok"
      /\ Head(wire[t]) = "failed" => call[t] = "failed"
  <2>. DEFINE folder == t \in Folders
  <2>1. WireOK(wire[t], call[t], folder)
    BY DEF XferInv, WiresOK
  <2>2. folder \in BOOLEAN
    OBVIOUS
  <2>. HIDE DEF folder
  <2>3. WireOK(wire'[t], call[t], folder)
    BY <1>1, <1>3, <2>1, <2>2, WireDelivered
  <2>4. /\ wire'[t] = <<>> /\ Len(wire'[t]) = 0
        /\ Head(wire[t]) = "ok" => call[t] = "ok"
        /\ Head(wire[t]) = "failed" => call[t] = "failed"
    BY <1>1, <1>3, <2>1, <2>2, WireDelivered
  <2>. QED
    BY <2>3, <2>4 DEF folder
<1>5. call[t] \in Results
  BY <1>1, <1>4 DEF Results
<1>6. XferTypeOK'
  <2>1. wire' \in [Tasks -> Seq({"running", "done", "error", "ok", "failed"})]
    <3>1. wire[t] \in Seq({"running", "done", "error", "ok", "failed"})
      BY DEF XferInv, XferTypeOK
    <3>2. Tail(wire[t]) \in Seq({"running", "done", "error", "ok", "failed"})
      BY <1>1, <3>1
    <3>. QED
      BY <1>1, <3>2 DEF XferInv, XferTypeOK
  <2>2. \A u \in Tasks : Len(wire'[u]) <= MaxWire
    <3>1. \A u \in Tasks : Len(wire[u]) <= MaxWire
      BY DEF XferInv, XferTypeOK
    <3>2. Len(wire'[t]) <= MaxWire
      BY <1>4, TransfersAssumption
    <3>. QED
      BY <1>3, <3>1, <3>2
  <2>. QED
    BY <1>1, <1>2, <2>1, <2>2 DEF XferInv, XferTypeOK
<1>7. ShownAsItIs'
  BY <1>1, <1>2, <1>4 DEF XferInv, ShownAsItIs
<1>8. WiresOK'
  BY <1>1, <1>3, <1>4 DEF XferInv, WiresOK
<1>9. StartingHoldsCalls'
  <2>1. Cardinality(starting \ {t}) <= MaxConcurrent
    <3>1. IsFiniteSet(starting)
      BY TransfersAssumption, FS_Subset DEF XferInv, XferTypeOK
    <3>2. Cardinality(starting \ {t}) <= Cardinality(starting)
      BY <3>1, FS_Subset
    <3>3. /\ Cardinality(starting) \in Nat /\ Cardinality(starting \ {t}) \in Nat
          /\ MaxConcurrent \in Nat
      BY <3>1, FS_Subset, FS_CardinalityType, TransfersAssumption
    <3>. QED
      BY <3>2, <3>3 DEF XferInv, StartingHoldsCalls
  <2>2. ~Working(t)
    BY <1>5 DEF Working, Results
  <2>3. \A u \in Tasks : u \in starting' <=> Working(u)' \/ wire'[u] # <<>>
    BY <1>1, <1>3, <1>4, <2>2 DEF XferInv, StartingHoldsCalls, Working
  <2>4. \A u \in Tasks : task'[u] = "running" => u \in starting'
    BY <1>1, <1>2 DEF XferInv, StartingHoldsCalls
  <2>. QED
    BY <1>1, <2>1, <2>3, <2>4 DEF StartingHoldsCalls
<1>10. NotStartedYet' /\ CancelFoundBound' /\ RefreshComes'
  BY <1>1, <1>2 DEF XferInv, NotStartedYet, CancelFoundBound, RefreshComes
<1>. QED
  BY <1>6, <1>7, <1>8, <1>9, <1>10 DEF XferInv
-----------------------------------------------------------------------------
(* A step of a call that goes on.                                          *)
LEMMA BackStepXferInv ==
  ASSUME XferInv, NEW t \in Tasks, NEW from \in {"sent", "bound", "lastRead"}, NEW to, NEW m,
         BackStep(t, from, to, m),
         to \in {"bound", "lastRead", "failed", "ok"},
         WireOK(wire[t] \o m, to, t \in Folders), m \in Seq(Messages),
         to \in Results => wire[t] \o m # <<>>,
         ctx[t] = "cancelled" => to \in {"bound", "failed"}
  PROVE  XferInv'
<1>1. /\ call[t] = from
      /\ call' = [call EXCEPT ![t] = to]
      /\ wire' = [wire EXCEPT ![t] = @ \o m]
      /\ UNCHANGED <<ctx, cancelCall, task, starting, cancelled, timers, refreshDue>>
  BY DEF BackStep, frontVars
<1>2. /\ call'[t] = to /\ wire'[t] = wire[t] \o m
      /\ \A u \in Tasks \ {t} : call'[u] = call[u] /\ wire'[u] = wire[u]
  BY <1>1 DEF XferInv, XferTypeOK
<1>3. XferTypeOK'
  <2>1. wire' \in [Tasks -> Seq({"running", "done", "error", "ok", "failed"})]
    <3>1. wire[t] \o m \in Seq({"running", "done", "error", "ok", "failed"})
      BY DEF WireOK, Messages
    <3>. QED
      BY <1>1, <3>1 DEF XferInv, XferTypeOK
  <2>2. Len(wire[t] \o m) <= MaxWire
    <3>1. wire[t] \in Seq(Messages)
      BY DEF XferInv, XferTypeOK, Messages
    <3>2. Len(wire[t] \o m) = Len(wire[t]) + Len(m)
      BY <3>1
    <3>. QED
      BY <3>2 DEF BackStep
  <2>3. \A u \in Tasks : Len(wire'[u]) <= MaxWire
    BY <1>2, <2>2 DEF XferInv, XferTypeOK
  <2>4. call' \in [Tasks -> {"none", "sent", "bound", "lastRead", "ok", "failed"}]
    BY <1>1 DEF XferInv, XferTypeOK
  <2>. QED
    BY <1>1, <2>1, <2>3, <2>4 DEF XferInv, XferTypeOK
<1>4. ShownAsItIs'
  BY <1>1, <1>2 DEF XferInv, ShownAsItIs
<1>5. WiresOK'
  BY <1>2 DEF XferInv, WiresOK
<1>6. StartingHoldsCalls'
  <2>1. t \in starting
    BY <1>1 DEF XferInv, StartingHoldsCalls, Working
  <2>2. to \in {"sent", "bound", "lastRead"} \/ wire'[t] # <<>>
    BY <1>2 DEF Results
  <2>. QED
    BY <1>1, <1>2, <2>1, <2>2 DEF XferInv, StartingHoldsCalls, Working
<1>7. NotStartedYet' /\ CancelFoundBound' /\ RefreshComes'
  BY <1>1, <1>2 DEF XferInv, NotStartedYet, CancelFoundBound, RefreshComes
<1>. QED
  BY <1>3, <1>4, <1>5, <1>6, <1>7 DEF XferInv

LEMMA BackEndXferInv ==
  ASSUME XferInv, NEW t \in Tasks,
         \/ BindContext(t) \/ TransferFails(t) \/ CopyChunk(t) \/ FolderFileDone(t)
         \/ CopySeesCancel(t) \/ LastRead(t) \/ TransferEnds(t)
  PROVE  XferInv'
<1>. DEFINE folder == t \in Folders
<1>1. WireOK(wire[t], call[t], folder) /\ wire[t] \in Seq(Messages)
  BY DEF XferInv, WiresOK, WireOK
<1>2. folder \in BOOLEAN
  OBVIOUS
<1>3. ctx[t] = "cancelled" => call[t] \in {"bound", "failed"}
  BY DEF XferInv, CancelFoundBound
<1>4. ASSUME call[t] \in {"sent", "bound", "lastRead"}
      PROVE  /\ \A d \in {"sent", "bound", "lastRead"} : WireOK(wire[t] \o <<>>, d, folder)
             /\ WireOK(wire[t] \o <<"running">>, call[t], folder)
             /\ folder => WireOK(wire[t] \o <<"done">>, call[t], folder)
             /\ WireOK(wire[t] \o <<"failed">>, "failed", folder)
             /\ WireOK(wire[t] \o <<"error", "failed">>, "failed", folder)
             /\ call[t] = "lastRead" => WireOK(wire[t] \o <<"done", "ok">>, "ok", folder)
  <2>. HIDE DEF folder
  <2>. QED
    BY <1>1, <1>2, <1>4, WireOfRunningCall
<1>5. /\ <<>> \in Seq(Messages) /\ <<"running">> \in Seq(Messages)
      /\ <<"done">> \in Seq(Messages) /\ <<"failed">> \in Seq(Messages)
      /\ <<"error", "failed">> \in Seq(Messages) /\ <<"done", "ok">> \in Seq(Messages)
  BY DEF Messages
<1>6. /\ wire[t] \o <<"failed">> # <<>>
      /\ wire[t] \o <<"error", "failed">> # <<>> /\ wire[t] \o <<"done", "ok">> # <<>>
  BY <1>1
<1>7. CASE BindContext(t)
  BY <1>3, <1>4, <1>5, <1>7, BackStepXferInv DEF BindContext, BackStep, Results
<1>8. CASE TransferFails(t)
  BY <1>4, <1>5, <1>6, <1>8, BackStepXferInv DEF TransferFails, BackStep, Results
<1>9. CASE CopyChunk(t)
  BY <1>4, <1>5, <1>9, BackStepXferInv DEF CopyChunk, BackStep, Results
<1>10. CASE FolderFileDone(t)
  BY <1>4, <1>5, <1>10, BackStepXferInv DEF FolderFileDone, BackStep, Results
<1>11. CASE CopySeesCancel(t)
  BY <1>4, <1>5, <1>6, <1>11, BackStepXferInv DEF CopySeesCancel, BackStep, Results
<1>12. CASE LastRead(t)
  BY <1>4, <1>5, <1>12, BackStepXferInv DEF LastRead, BackStep, Results
<1>13. CASE TransferEnds(t)
  BY <1>3, <1>4, <1>5, <1>6, <1>13, BackStepXferInv DEF TransferEnds, BackStep, Results
<1>. QED
  BY <1>7, <1>8, <1>9, <1>10, <1>11, <1>12, <1>13

LEMMA CancelArrivesXferInv ==
  ASSUME XferInv, NEW t \in Tasks, CancelArrives(t)
  PROVE  XferInv'
<1>1. /\ cancelCall' = [cancelCall EXCEPT ![t] = FALSE]
      /\ ctx' = IF call[t] = "bound" THEN [ctx EXCEPT ![t] = "cancelled"] ELSE ctx
      /\ UNCHANGED <<call, wire, task, starting, cancelled, timers, refreshDue>>
  BY DEF CancelArrives, frontVars
<1>2. XferTypeOK'
  BY <1>1 DEF XferInv, XferTypeOK
<1>3. CancelFoundBound'
  BY <1>1 DEF XferInv, XferTypeOK, CancelFoundBound
<1>4. WiresOK' /\ ShownAsItIs' /\ StartingHoldsCalls' /\ NotStartedYet' /\ RefreshComes'
  BY <1>1 DEF XferInv, WiresOK, ShownAsItIs, StartingHoldsCalls, Working, NotStartedYet, RefreshComes
<1>. QED
  BY <1>2, <1>3, <1>4 DEF XferInv

LEMMA NextXferInv == XferInv /\ [XferNext]_xferVars => XferInv'
<1> SUFFICES ASSUME XferInv, [XferNext]_xferVars PROVE XferInv'
  OBVIOUS
<1>1. CASE UNCHANGED xferVars
  BY <1>1 DEF xferVars, XferInv, XferTypeOK, ShownAsItIs, WiresOK, StartingHoldsCalls, Working,
              NotStartedYet, CancelFoundBound, RefreshComes
<1>2. CASE ClearFinished
  BY <1>2, UserStepXferInv
<1>3. ASSUME NEW k \in {"pump", "end"}, RunTimer(k)
      PROVE  XferInv'
  BY <1>3, RunTimerXferInv
<1>4. ASSUME NEW t \in Tasks,
             \/ Enqueue(t) \/ CancelTask(t) \/ DeliverEvent(t) \/ DeliverResult(t)
             \/ BindContext(t) \/ TransferFails(t) \/ CopyChunk(t) \/ FolderFileDone(t)
             \/ CopySeesCancel(t) \/ LastRead(t) \/ TransferEnds(t) \/ CancelArrives(t)
      PROVE  XferInv'
  BY <1>4, UserStepXferInv, DeliverEventXferInv, DeliverResultXferInv, BackEndXferInv, CancelArrivesXferInv
<1>. QED
  BY <1>1, <1>2, <1>3, <1>4 DEF XferNext

THEOREM XferInvariance == XferSpec => []XferInv
BY InitXferInv, NextXferInv, PTL DEF XferSpec
-----------------------------------------------------------------------------
(* Every variable keeps its type, and no wire is longer than MaxWire.      *)
THEOREM XferTypeCorrect == XferSpec => []XferTypeOK
<1>1. XferInv => XferTypeOK
  BY DEF XferInv
<1>. QED
  BY <1>1, XferInvariance, PTL

(* The queue keeps its promises: no more transfers run than there are      *)
(* slots, the cancelled ones included; a file shown as done has arrived    *)
(* and one shown as failed has not; a cancel that finds the transfer bound *)
(* stops it; and the end of a run is always followed by onIdle.            *)
THEOREM TransfersAreSafe == XferSpec => []TransfersSafe
<1>1. XferInv => TransfersSafe
  <2> SUFFICES ASSUME XferInv PROVE TransfersSafe
    OBVIOUS
  <2>1. SlotsBounded
    <3>. DEFINE R == {t \in Tasks : call[t] \in {"sent", "bound", "lastRead"}}
    <3>1. R \subseteq starting
      BY DEF XferInv, StartingHoldsCalls, Working
    <3>2. IsFiniteSet(starting)
      BY TransfersAssumption, FS_Subset DEF XferInv, XferTypeOK
    <3>3. Cardinality(R) <= Cardinality(starting)
      BY <3>1, <3>2, FS_Subset
    <3>4. Cardinality(R) \in Nat /\ Cardinality(starting) \in Nat /\ MaxConcurrent \in Nat
      BY <3>1, <3>2, FS_Subset, FS_CardinalityType, TransfersAssumption
    <3>5. Cardinality(starting) <= MaxConcurrent
      BY DEF XferInv, StartingHoldsCalls
    <3>. HIDE DEF R
    <3>6. Cardinality(R) <= MaxConcurrent
      BY <3>3, <3>4, <3>5
    <3>. QED
      BY <3>6 DEF SlotsBounded, R
  <2>2. ShownAsItIs /\ CancelWorksOnceBound
    BY DEF XferInv, CancelFoundBound, CancelWorksOnceBound
  <2>3. IdleIsReported
    BY DEF XferInv, RefreshComes, IdleIsReported, Busy
  <2>. QED
    BY <2>1, <2>2, <2>3 DEF TransfersSafe
<1>. QED
  BY <1>1, XferInvariance, PTL
-----------------------------------------------------------------------------
(* The workspace. Its four promises are inductive with the reasons for     *)
(* them: what is in flight was begun where it should be (InFlightIsHere),  *)
(* the editor has one call at a time and what it carries is what the       *)
(* editor and the file hold (OneEditorCall), sessions have numbers that    *)
(* were given out (Numbered), and a function that closes tabs has closed   *)
(* those it has dealt with (ClosersClose).                                 *)

\* What is in flight was begun at the place that is shown.
InFlightIsHere ==
  ~late => /\ prompt # Nil => prompt.at = Here
           /\ \A j \in Running({"fresh", "soft", "mutate", "after", "save"}) : job[j].at = Here

\* One call of the editor at a time: what it carries is what the editor and the
\* file hold.
OneEditorCall ==
  ~mixed =>
    /\ \A i, j \in Running({"read", "save"}) : i = j
    /\ \A j \in Running({"read"}) :
         job[j].phase = "read" => job[j].text = file[job[j].at[1]]
    /\ \A j \in Running({"save"}) :
         /\ editor # Nil => editor.text = job[j].text /\ editor.of = job[j].at[1]
         /\ job[j].phase = "written" => file[job[j].at[1]] = job[j].text

\* Sessions have numbers that were given out; the one that connects has no tab in
\* any list, and is open.
Numbered ==
  /\ connecting = 0 => opened < MaxRemotes
  /\ remotes \cup paneTabs \subseteq 1..opened
  /\ connecting \in Remotes =>
       /\ connecting \in remotes \ paneTabs
       /\ \A c \in Closers : closer[c] # Nil => connecting \notin closer[c].list

\* A function that closes tabs has closed those it has dealt with.
ClosersClose ==
  \A c \in Closers : closer[c] # Nil =>
    /\ closer[c].left \subseteq closer[c].gone /\ closer[c].gone \subseteq closer[c].list
    /\ closer[c].list \subseteq 1..opened
    /\ (closer[c].gone \ closer[c].left) \cap remotes = {}

ListInv == ListingIsHere /\ ActsWhereChosen /\ InFlightIsHere
TextInv == CleanIsSaved /\ OneEditorCall
TabInv == RemotesHaveTabs /\ Numbered /\ ClosersClose

Editors == [of : Remotes, text : Texts, dirty : BOOLEAN, mount : Mounts]
Prompts == [at : Places, of : Places, busy : BOOLEAN]
Calls == Listings \cup Mutations \cup Reads \cup Saves

TabType ==
  /\ remotes \subseteq Remotes /\ opened \in 0..MaxRemotes
  /\ paneTabs \subseteq Remotes /\ activeId \in Remotes \cup {Nil}
  /\ cwd \in [Remotes -> Dirs] /\ connecting \in 0..MaxRemotes \cup {Nil}
  /\ closer \in [Closers -> {Nil} \cup Closes] /\ lost \subseteq Remotes
ListType == listing \in Places \cup {Nil} /\ prompt \in {Nil} \cup Prompts /\ late \in BOOLEAN
JobType == job \in [Jobs -> {Nil} \cup Calls]
EditType ==
  /\ editor \in {Nil} \cup Editors /\ saving \in BOOLEAN /\ file \in [Remotes -> Texts]
  /\ typed \in Texts /\ mixed \in BOOLEAN
ClickType == clicks \in 0..MaxClicks

PanesInv ==
  /\ TabType /\ ListType /\ JobType /\ EditType /\ ClickType
  /\ ListInv /\ TextInv /\ TabInv
-----------------------------------------------------------------------------
LEMMA PanesTypes ==
  PanesTypeOK <=> TabType /\ ListType /\ JobType /\ EditType /\ ClickType
<1>1. {Nil} \cup Listings \cup Mutations \cup Reads \cup Saves = {Nil} \cup Calls
  BY DEF Calls
<1>2. (job \in [Jobs -> {Nil} \cup Listings \cup Mutations \cup Reads \cup Saves]) <=> JobType
  BY <1>1 DEF JobType
<1>. QED
  BY <1>2, Zenon DEF PanesTypeOK, TabType, ListType, EditType, ClickType, Editors, Prompts

\* What a call in flight carries.
LEMMA JobFacts ==
  ASSUME JobType, NEW j \in Jobs, job[j] # Nil
  PROVE  /\ job[j] \in Calls /\ job[j].at \in Places
         /\ job[j].kind \in {"fresh", "soft", "after", "mutate", "read", "save"}
         /\ job[j].kind \in {"fresh", "soft", "after"} => job[j] \in Listings
         /\ job[j].kind = "mutate" => job[j] \in Mutations
         /\ job[j].kind = "read" => job[j] \in Reads
         /\ job[j].kind = "save" => job[j] \in Saves
BY DEF JobType, Calls, Listings, Mutations, Reads, Saves

LEMMA HereIsPlace ==
  ASSUME TabType
  PROVE  Here \in Places \cup {Nil} /\ (Here # Nil => activeId \in paneTabs)
BY DEF TabType, Here, PlaceOf, Places
-----------------------------------------------------------------------------
(* The beginning.                                                          *)
LEMMA PanesInitInv == PanesInit => PanesInv
<1>. SUFFICES ASSUME PanesInit PROVE PanesInv
  OBVIOUS
<1>1. PICK n \in 0..MaxStored, home \in Dirs :
    /\ remotes = 1..n /\ opened = n /\ paneTabs = 1..n
    /\ activeId = (IF n = 0 THEN Nil ELSE n) /\ cwd = [s \in Remotes |-> home]
    /\ connecting = Nil /\ closer = [c \in Closers |-> Nil]
    /\ listing = Nil /\ prompt = Nil
    /\ job = [j \in Jobs |-> IF n > 0 /\ j = CHOOSE k \in Jobs : TRUE
                             THEN List("fresh", <<n, home>>) ELSE Nil]
    /\ editor = Nil /\ saving = FALSE /\ file = [s \in Remotes |-> 0] /\ typed = 0
    /\ late = FALSE /\ mixed = FALSE /\ lost = {} /\ clicks = 0
  BY DEF PanesInit
<1>2. n \in Nat /\ n <= MaxRemotes /\ 1..n \subseteq Remotes /\ MaxRemotes \in Nat /\ 0 \in Texts
  BY SftpPanesAssumption DEF Remotes, Texts
<1>3. n > 0 => <<n, home>> \in Places /\ Here = <<n, home>>
  BY <1>1, <1>2 DEF Here, PlaceOf, Places, Remotes
<1>4. \A j \in Jobs : job[j] # Nil => job[j] = [kind |-> "fresh", at |-> <<n, home>>] /\ n > 0
  BY <1>1 DEF List
<1>5. TabType
  BY <1>1, <1>2 DEF TabType, Remotes
<1>6. JobType
  <2>1. \A j \in Jobs : job[j] \in {Nil} \cup Calls
    BY <1>3, <1>4 DEF Calls, Listings
  <2>. QED
    BY <1>1, <2>1 DEF JobType
<1>7. ListType /\ EditType /\ ClickType
  <2>1. ListType
    BY <1>1 DEF ListType
  <2>2. EditType
    BY <1>1, <1>2 DEF EditType
  <2>3. ClickType
    BY <1>1, SftpPanesAssumption DEF ClickType
  <2>. QED
    BY <2>1, <2>2, <2>3
<1>8. ListInv
  BY <1>1, <1>3, <1>4 DEF ListInv, ListingIsHere, ActsWhereChosen, InFlightIsHere, Running
<1>9. TextInv
  BY <1>1, <1>4 DEF TextInv, CleanIsSaved, OneEditorCall, Running
<1>10. TabInv
  BY <1>1, <1>2, SftpPanesAssumption
    DEF TabInv, RemotesHaveTabs, Numbered, ClosersClose, Remotes
<1>. QED
  BY <1>5, <1>6, <1>7, <1>8, <1>9, <1>10 DEF PanesInv
-----------------------------------------------------------------------------
(* What an action leaves alone.                                            *)
LEMMA NewIsFree == ASSUME Free # {} PROVE NewJob \in Jobs /\ job[NewJob] = Nil
BY DEF Free, NewJob

LEMMA TabsStay ==
  ASSUME PanesInv, UNCHANGED tabVars
  PROVE  TabType' /\ TabInv' /\ Here' = Here
<1>1. TabType' /\ Here' = Here
  BY DEF PanesInv, TabType, tabVars, Here, PlaceOf
<1>2. RemotesHaveTabs'
  BY DEF PanesInv, TabInv, RemotesHaveTabs, tabVars
<1>3. Numbered' /\ ClosersClose'
  BY DEF PanesInv, TabInv, Numbered, ClosersClose, tabVars
<1>. QED
  BY <1>1, <1>2, <1>3 DEF TabInv

LEMMA ListStays ==
  ASSUME PanesInv, Here' = Here, UNCHANGED <<listing, job, prompt, late>>
  PROVE  ListType' /\ JobType' /\ ListInv'
<1>1. ListType' /\ JobType'
  BY DEF PanesInv, ListType, JobType
<1>2. ListInv'
  BY DEF PanesInv, ListInv, ListingIsHere, ActsWhereChosen, InFlightIsHere, Running
<1>. QED
  BY <1>1, <1>2

LEMMA TextStays ==
  ASSUME PanesInv, UNCHANGED <<job, editVars>>
  PROVE  EditType' /\ TextInv'
<1>1. EditType'
  BY DEF PanesInv, EditType, editVars
<1>2. TextInv'
  BY DEF PanesInv, TextInv, CleanIsSaved, OneEditorCall, Running, editVars
<1>. QED
  BY <1>1, <1>2

LEMMA ClickCounts == ASSUME PanesInv, Click \/ UNCHANGED clicks PROVE ClickType'
BY SftpPanesAssumption DEF PanesInv, ClickType, Click

\* One call takes the place of another, or of none.
LEMMA JobChanges ==
  ASSUME PanesInv, NEW j \in Jobs, NEW x \in {Nil} \cup Calls, Job(j, x)
  PROVE  JobType' /\ \A k \in Jobs : job'[k] = IF k = j THEN x ELSE job[k]
BY DEF PanesInv, JobType, Job

\* A call that is told about the place on the screen.
LEMMA ListOfJob ==
  ASSUME PanesInv, NEW j \in Jobs, NEW x \in {Nil} \cup Calls, Job(j, x),
         UNCHANGED <<tabVars, listing, prompt>>, late' \in BOOLEAN, late => late',
         x # Nil /\ ~late' =>
           /\ x.kind # "read" => x.at = Here
           /\ x.kind \in {"mutate", "read"} => x.of = x.at
  PROVE  ListType' /\ ListInv'
<1>1. Here' = Here
  BY TabsStay
<1>2. \A k \in Jobs : job'[k] = IF k = j THEN x ELSE job[k]
  BY JobChanges
<1>3. ListType'
  BY DEF PanesInv, ListType
<1>4. ~late' => ~late
  BY DEF PanesInv, ListType
<1>5. ListingIsHere' /\ (prompt' # Nil /\ ~late' => prompt'.of = prompt'.at)
  BY <1>1, <1>4 DEF PanesInv, ListInv, ListingIsHere, ActsWhereChosen
<1>6. ASSUME ~late', NEW k \in Jobs, job'[k] # Nil, job'[k].kind \in {"mutate", "read"}
      PROVE  job'[k].of = job'[k].at
  BY <1>2, <1>4, <1>6 DEF PanesInv, ListInv, ActsWhereChosen, Running
<1>7. ASSUME ~late', NEW k \in Jobs, job'[k] # Nil,
             job'[k].kind \in {"fresh", "soft", "mutate", "after", "save"}
      PROVE  job'[k].at = Here'
  BY <1>1, <1>2, <1>4, <1>7 DEF PanesInv, ListInv, InFlightIsHere, Running
<1>8. ActsWhereChosen'
  BY <1>5, <1>6 DEF ActsWhereChosen, Running
<1>9. InFlightIsHere'
  <2>1. ~late' => (prompt # Nil => prompt'.at = Here')
    BY <1>1, <1>4 DEF PanesInv, ListInv, InFlightIsHere
  <2>. QED
    BY <1>7, <2>1 DEF InFlightIsHere, Running
<1>. QED
  BY <1>3, <1>5, <1>8, <1>9 DEF ListInv

\* A call that is not the editor's.
LEMMA TextOfJob ==
  ASSUME PanesInv, NEW j \in Jobs, NEW x \in {Nil} \cup Calls, Job(j, x),
         UNCHANGED editVars, x # Nil => x.kind \notin {"read", "save"}
  PROVE  EditType' /\ TextInv'
<1>1. \A k \in Jobs : job'[k] = IF k = j THEN x ELSE job[k]
  BY JobChanges
<1>2. EditType'
  BY DEF PanesInv, EditType, editVars
<1>3. CleanIsSaved'
  BY DEF PanesInv, TextInv, CleanIsSaved, editVars
<1>4. \A K \in {{"read"}, {"save"}, {"read", "save"}} : \A k \in Running(K)' :
        k \in Running(K) /\ job'[k] = job[k]
  BY <1>1 DEF Running
<1>5. OneEditorCall'
  BY <1>4 DEF PanesInv, TextInv, OneEditorCall, editVars
<1>. QED
  BY <1>2, <1>3, <1>5 DEF TextInv
-----------------------------------------------------------------------------
(* Moving to another place.                                                *)
LEMMA MoveKeeps ==
  ASSUME PanesInv, NEW list \in SUBSET Remotes, NEW id \in Remotes \cup {Nil},
         NEW paths \in [Remotes -> Dirs], MoveTo(list, id, paths)
  PROVE  /\ ListType' /\ JobType' /\ EditType' /\ ListInv' /\ TextInv'
         /\ paneTabs' = list /\ activeId' = id /\ cwd' = paths
<1>. DEFINE new == PlaceOf(list, id, paths)
<1>1. /\ paneTabs' = list /\ activeId' = id /\ cwd' = paths /\ Here' = new
      /\ UNCHANGED <<prompt, editVars>>
  BY DEF MoveTo, Here
<1>2. new \in Places \cup {Nil}
  BY DEF PlaceOf, Places
<1>3. CASE ~Moved(Here, new)
  <2>1. Here' = Here /\ UNCHANGED <<listing, job, prompt, late>>
    BY <1>1, <1>3 DEF MoveTo, Moved
  <2>. QED
    BY <1>1, <2>1, ListStays, TextStays
<1>4. CASE Moved(Here, new)
  <2>1. listing' = Nil /\ late' = Outlived
    BY <1>4 DEF MoveTo
  <2>2. \/ UNCHANGED job
        \/ /\ new # Nil /\ NewJob \in Jobs /\ job[NewJob] = Nil
           /\ job' = [job EXCEPT ![NewJob] = List("fresh", new)]
    BY <1>4, NewIsFree DEF MoveTo
  <2>3. new # Nil => List("fresh", new) \in Listings
    BY <1>2 DEF List, Listings
  <2>4. JobType'
    BY <2>2, <2>3 DEF PanesInv, JobType, Calls
  <2>5. \A k \in Jobs : job'[k] = job[k] \/ job'[k] = [kind |-> "fresh", at |-> new]
    BY <2>2 DEF PanesInv, JobType, List
  <2>6. ListType' /\ EditType'
    BY <1>1, <2>1 DEF PanesInv, ListType, EditType, editVars, Outlived
  <2>7. ListInv'
    <3>1. ListingIsHere'
      BY <2>1 DEF ListingIsHere
    <3>2. ~late' => /\ prompt = Nil /\ Running({"fresh", "soft", "mutate", "after", "save"}) = {}
                    /\ \A j \in Running({"read"}) : job[j].of = job[j].at
      BY <2>1 DEF Outlived
    <3>3. ActsWhereChosen'
      BY <1>1, <2>5, <3>2 DEF ActsWhereChosen, Running
    <3>4. InFlightIsHere'
      BY <1>1, <2>5, <3>2 DEF InFlightIsHere, Running
    <3>. QED
      BY <3>1, <3>3, <3>4 DEF ListInv
  <2>8. TextInv'
    <3>1. CleanIsSaved'
      BY <1>1 DEF PanesInv, TextInv, CleanIsSaved, editVars
    <3>2. \A K \in {{"read"}, {"save"}, {"read", "save"}} : \A k \in Running(K)' :
            k \in Running(K) /\ job'[k] = job[k]
      BY <2>5 DEF Running
    <3>3. OneEditorCall'
      BY <1>1, <3>2 DEF PanesInv, TextInv, OneEditorCall, editVars
    <3>. QED
      BY <3>1, <3>3 DEF TextInv
  <2>. QED
    BY <1>1, <2>4, <2>6, <2>7, <2>8
<1>. QED
  BY <1>3, <1>4

LEMMA SelectKeeps == ASSUME PanesInv, NEW s \in Remotes, SelectTab(s) PROVE PanesInv'
<1>1. MoveTo(paneTabs, s, cwd) /\ UNCHANGED <<remotes, opened, connecting, closer, lost>>
  BY DEF SelectTab
<1>2. paneTabs \in SUBSET Remotes /\ cwd \in [Remotes -> Dirs]
  BY DEF PanesInv, TabType
<1>3. /\ ListType' /\ JobType' /\ EditType' /\ ListInv' /\ TextInv'
      /\ paneTabs' = paneTabs /\ activeId' = s /\ cwd' = cwd
  BY <1>1, <1>2, MoveKeeps
<1>4. TabType'
  BY <1>1, <1>3 DEF PanesInv, TabType
<1>5. TabInv'
  BY <1>1, <1>3 DEF PanesInv, TabInv, RemotesHaveTabs, Numbered, ClosersClose
<1>6. ClickType'
  BY ClickCounts DEF SelectTab
<1>. QED
  BY <1>3, <1>4, <1>5, <1>6 DEF PanesInv

LEMMA NavigateKeeps == ASSUME PanesInv, NEW d \in Dirs, Navigate(d) PROVE PanesInv'
<1>. DEFINE paths == [cwd EXCEPT ![activeId] = d]
<1>1. MoveTo(paneTabs, activeId, paths) /\ UNCHANGED <<remotes, opened, connecting, closer, lost>>
  BY DEF Navigate
<1>2. paneTabs \in SUBSET Remotes /\ activeId \in Remotes \cup {Nil} /\ paths \in [Remotes -> Dirs]
  BY DEF PanesInv, TabType
<1>3. /\ ListType' /\ JobType' /\ EditType' /\ ListInv' /\ TextInv'
      /\ paneTabs' = paneTabs /\ activeId' = activeId /\ cwd' = paths
  BY <1>1, <1>2, MoveKeeps
<1>4. TabType'
  BY <1>1, <1>2, <1>3 DEF PanesInv, TabType
<1>5. TabInv'
  BY <1>1, <1>3 DEF PanesInv, TabInv, RemotesHaveTabs, Numbered, ClosersClose
<1>6. ClickType'
  BY ClickCounts DEF Navigate
<1>. QED
  BY <1>3, <1>4, <1>5, <1>6 DEF PanesInv

LEMMA ConnectEndsKeeps == ASSUME PanesInv, NEW d \in Dirs, ConnectEnds(d) PROVE PanesInv'
<1>. DEFINE list == paneTabs \cup {connecting}
            paths == [cwd EXCEPT ![connecting] = d]
<1>1. /\ MoveTo(list, connecting, paths) /\ connecting \in Remotes /\ connecting' = Nil
      /\ UNCHANGED <<remotes, opened, closer, lost, clicks>>
  BY DEF ConnectEnds
<1>2. list \in SUBSET Remotes /\ paths \in [Remotes -> Dirs]
  BY <1>1 DEF PanesInv, TabType
<1>3. /\ ListType' /\ JobType' /\ EditType' /\ ListInv' /\ TextInv'
      /\ paneTabs' = list /\ activeId' = connecting /\ cwd' = paths
  BY <1>1, <1>2, MoveKeeps
<1>4. TabType'
  BY <1>1, <1>2, <1>3 DEF PanesInv, TabType
<1>5. TabInv'
  <2>1. connecting \in remotes \ paneTabs
    BY <1>1 DEF PanesInv, TabInv, Numbered
  <2>2. RemotesHaveTabs'
    BY <1>1, <1>3, <2>1 DEF PanesInv, TabInv, RemotesHaveTabs
  <2>3. Nil \notin Remotes /\ Nil # 0
    BY SftpPanesAssumption DEF Remotes
  <2>4. Numbered'
    BY <1>1, <1>3, <2>1, <2>3 DEF PanesInv, TabInv, Numbered
  <2>5. ClosersClose'
    BY <1>1 DEF PanesInv, TabInv, ClosersClose
  <2>. QED
    BY <2>2, <2>4, <2>5 DEF TabInv
<1>6. ClickType'
  BY <1>1, ClickCounts
<1>. QED
  BY <1>3, <1>4, <1>5, <1>6 DEF PanesInv

LEMMA CloseEndsKeeps == ASSUME PanesInv, NEW c \in Closers, CloseEnds(c) PROVE PanesInv'
<1>. DEFINE next == closer[c].list \ closer[c].gone
            id == IF closer[c].active = Unchanged THEN activeId ELSE closer[c].active
<1>1. /\ MoveTo(next, id, cwd) /\ closer[c] # Nil /\ closer[c].left = {}
      /\ lost' = (IF paneTabs = closer[c].list THEN lost
                  ELSE lost \cup (paneTabs \ next) \cup (next \ paneTabs))
      /\ closer' = [closer EXCEPT ![c] = Nil]
      /\ UNCHANGED <<remotes, opened, connecting, clicks>>
  BY DEF CloseEnds
<1>2. closer[c] \in Closes /\ closer \in [Closers -> {Nil} \cup Closes]
  BY <1>1 DEF PanesInv, TabType
<1>3. next \in SUBSET Remotes /\ id \in Remotes \cup {Nil} /\ cwd \in [Remotes -> Dirs]
  BY <1>2 DEF PanesInv, TabType, Closes, Unchanged, Remotes
<1>4. /\ ListType' /\ JobType' /\ EditType' /\ ListInv' /\ TextInv'
      /\ paneTabs' = next /\ activeId' = id /\ cwd' = cwd
  BY <1>1, <1>3, MoveKeeps
<1>5. \A k \in Closers : closer'[k] = IF k = c THEN Nil ELSE closer[k]
  BY <1>1, <1>2
<1>6. TabType'
  BY <1>1, <1>2, <1>3, <1>4 DEF PanesInv, TabType
<1>7. RemotesHaveTabs'
  <2>1. closer[c].gone \cap remotes = {}
    BY <1>1 DEF PanesInv, TabInv, ClosersClose
  <2>2. CASE paneTabs = closer[c].list
    <3>1. lost' = lost /\ paneTabs' = paneTabs \ closer[c].gone
      BY <1>1, <1>4, <2>2
    <3>2. ASSUME NEW s \in remotes'
          PROVE  \/ s \in paneTabs' \/ connecting' = s \/ s \in lost'
                 \/ \E k \in Closers : closer'[k] # Nil /\ s \in closer'[k].left
      <4>1. s \in remotes
        BY <1>1
      <4>2. CASE \E k \in Closers : closer[k] # Nil /\ s \in closer[k].left
        <5>1. PICK k \in Closers : closer[k] # Nil /\ s \in closer[k].left
          BY <4>2
        <5>. QED
          BY <1>1, <1>5, <5>1
      <4>. QED
        BY <1>1, <2>1, <3>1, <4>1, <4>2 DEF PanesInv, TabInv, RemotesHaveTabs
    <3>3. ASSUME NEW s \in paneTabs' \ (remotes' \cup lost')
          PROVE  \E k \in Closers : closer'[k] # Nil /\ s \in closer'[k].gone
      <4>1. PICK k \in Closers : closer[k] # Nil /\ s \in closer[k].gone
        BY <1>1, <3>1, <3>3 DEF PanesInv, TabInv, RemotesHaveTabs
      <4>. QED
        BY <1>5, <3>1, <4>1
    <3>. QED
      BY <3>2, <3>3 DEF RemotesHaveTabs
  <2>3. CASE paneTabs # closer[c].list
    <3>1. lost' = lost \cup (paneTabs \ paneTabs') \cup (paneTabs' \ paneTabs)
      BY <1>1, <1>4, <2>3
    <3>2. ASSUME NEW s \in remotes', s \notin paneTabs', s \notin lost', connecting' # s
          PROVE  \E k \in Closers : closer'[k] # Nil /\ s \in closer'[k].left
      <4>1. PICK k \in Closers : closer[k] # Nil /\ s \in closer[k].left
        BY <1>1, <3>1, <3>2 DEF PanesInv, TabInv, RemotesHaveTabs
      <4>. QED
        BY <1>1, <1>5, <4>1
    <3>3. ASSUME NEW s \in paneTabs' \ (remotes' \cup lost')
          PROVE  \E k \in Closers : closer'[k] # Nil /\ s \in closer'[k].gone
      <4>1. PICK k \in Closers : closer[k] # Nil /\ s \in closer[k].gone
        BY <1>1, <3>1, <3>3 DEF PanesInv, TabInv, RemotesHaveTabs
      <4>. QED
        BY <1>4, <1>5, <3>3, <4>1
    <3>. QED
      BY <3>2, <3>3 DEF RemotesHaveTabs
  <2>. QED
    BY <2>2, <2>3
<1>8. Numbered' /\ ClosersClose'
  <2>1. closer[c].list \subseteq 1..opened
    BY <1>1 DEF PanesInv, TabInv, ClosersClose
  <2>2. Numbered'
    BY <1>1, <1>4, <1>5, <2>1 DEF PanesInv, TabInv, Numbered
  <2>3. ClosersClose'
    BY <1>1, <1>5 DEF PanesInv, TabInv, ClosersClose
  <2>. QED
    BY <2>2, <2>3
<1>9. ClickType'
  BY <1>1, ClickCounts
<1>. QED
  BY <1>4, <1>6, <1>7, <1>8, <1>9 DEF PanesInv, TabInv
-----------------------------------------------------------------------------
(* Connecting and closing.                                                 *)
LEMMA NoMove ==
  ASSUME PanesInv, UNCHANGED <<paneTabs, activeId, cwd, listing, job, prompt, editVars, late>>
  PROVE  ListType' /\ JobType' /\ EditType' /\ ListInv' /\ TextInv'
<1>1. Here' = Here
  BY DEF Here, PlaceOf
<1>. QED
  BY <1>1, ListStays, TextStays

LEMMA ConnectKeeps ==
  ASSUME PanesInv, ConnectHost \/ ConnectOpens \/ ConnectFails
  PROVE  PanesInv'
<1>. USE SftpPanesAssumption
<1>1. Nil # 0 /\ Nil \notin Remotes /\ 0 \notin Remotes
  BY DEF Remotes
<1>2. CASE ConnectHost
  <2>1. ListType' /\ JobType' /\ EditType' /\ ListInv' /\ TextInv' /\ ClickType'
    BY <1>2, NoMove, ClickCounts DEF ConnectHost, OnlyTabs
  <2>2. TabType'
    BY <1>2 DEF ConnectHost, OnlyTabs, PanesInv, TabType
  <2>3. RemotesHaveTabs'
    BY <1>1, <1>2 DEF ConnectHost, OnlyTabs, PanesInv, TabInv, TabType, RemotesHaveTabs
  <2>4. Numbered' /\ ClosersClose'
    BY <1>1, <1>2 DEF ConnectHost, OnlyTabs, PanesInv, TabInv, Numbered, ClosersClose
  <2>. QED
    BY <2>1, <2>2, <2>3, <2>4 DEF PanesInv, TabInv
<1>3. CASE ConnectOpens
  <2>1. ListType' /\ JobType' /\ EditType' /\ ListInv' /\ TextInv' /\ ClickType'
    BY <1>3, NoMove, ClickCounts DEF ConnectOpens, OnlyTabs
  <2>2. /\ opened \in Nat /\ opened < MaxRemotes /\ opened' = opened + 1 /\ opened' \in Remotes
        /\ connecting' = opened' /\ remotes' = remotes \cup {opened'}
        /\ UNCHANGED <<paneTabs, activeId, cwd, closer, lost>>
    BY <1>3 DEF ConnectOpens, OnlyTabs, PanesInv, TabInv, TabType, Numbered, Remotes
  <2>3. TabType'
    BY <2>2 DEF PanesInv, TabType, Remotes
  <2>4. RemotesHaveTabs'
    BY <1>1, <1>3, <2>2 DEF ConnectOpens, PanesInv, TabInv, TabType, RemotesHaveTabs
  <2>5. 1..opened \subseteq 1..opened' /\ opened' \notin 1..opened /\ opened' \in 1..opened'
        /\ opened' # 0
    BY <2>2
  <2>6. Numbered'
    BY <2>2, <2>5 DEF PanesInv, TabInv, Numbered, ClosersClose
  <2>7. ClosersClose'
    <3>1. ASSUME NEW c \in Closers, closer[c] # Nil
          PROVE  opened' \notin closer[c].gone
      BY <2>5, <3>1 DEF PanesInv, TabInv, ClosersClose
    <3>. QED
      BY <2>2, <2>5, <3>1 DEF PanesInv, TabInv, ClosersClose
  <2>. QED
    BY <2>1, <2>3, <2>4, <2>6, <2>7 DEF PanesInv, TabInv
<1>4. CASE ConnectFails
  <2>1. ListType' /\ JobType' /\ EditType' /\ ListInv' /\ TextInv' /\ ClickType'
    BY <1>4, NoMove, ClickCounts DEF ConnectFails, OnlyTabs
  <2>2. TabType'
    <3>1. connecting # 0 => connecting \in Remotes
      BY <1>4 DEF ConnectFails, PanesInv, TabType, Remotes
    <3>. QED
      BY <1>4, <3>1 DEF ConnectFails, OnlyTabs, PanesInv, TabType
  <2>3. RemotesHaveTabs'
    BY <1>1, <1>4 DEF ConnectFails, OnlyTabs, PanesInv, TabInv, TabType, RemotesHaveTabs
  <2>4. Numbered' /\ ClosersClose'
    BY <1>1, <1>4 DEF ConnectFails, OnlyTabs, PanesInv, TabInv, Numbered, ClosersClose
  <2>. QED
    BY <2>1, <2>2, <2>3, <2>4 DEF PanesInv, TabInv
<1>. QED
  BY <1>2, <1>3, <1>4

LEMMA StartCloseKeeps ==
  ASSUME PanesInv, NEW c \in Closers, NEW gone \in SUBSET paneTabs,
         NEW active \in 0..MaxRemotes \cup {Nil}, StartClose(c, gone, active)
  PROVE  PanesInv'
<1>. DEFINE new == [gone |-> gone, left |-> gone, list |-> paneTabs, active |-> active]
<1>1. /\ closer[c] = Nil /\ closer' = [closer EXCEPT ![c] = new]
      /\ UNCHANGED <<remotes, opened, paneTabs, activeId, cwd, connecting, lost>>
  BY DEF StartClose, OnlyTabs
<1>2. ListType' /\ JobType' /\ EditType' /\ ListInv' /\ TextInv' /\ ClickType'
  BY NoMove, ClickCounts DEF StartClose, OnlyTabs
<1>3. closer \in [Closers -> {Nil} \cup Closes] /\ new \in Closes
  BY DEF PanesInv, TabType, Closes
<1>4. \A k \in Closers : closer'[k] = IF k = c THEN new ELSE closer[k]
  BY <1>1, <1>3
<1>5. TabType'
  BY <1>1, <1>3 DEF PanesInv, TabType
<1>6. RemotesHaveTabs'
  <2>1. ASSUME NEW k \in Closers, closer[k] # Nil
        PROVE  closer'[k] = closer[k]
    BY <1>1, <1>4, <2>1
  <2>. QED
    BY <1>1, <2>1 DEF PanesInv, TabInv, RemotesHaveTabs
<1>7. Numbered'
  BY <1>1, <1>4 DEF PanesInv, TabInv, Numbered
<1>8. ClosersClose'
  BY <1>1, <1>4 DEF PanesInv, TabInv, Numbered, ClosersClose
<1>. QED
  BY <1>2, <1>5, <1>6, <1>7, <1>8 DEF PanesInv, TabInv

LEMMA LastIsIn ==
  ASSUME NEW list \in SUBSET Remotes, list # {}
  PROVE  Last(list) \in list
<1>. DEFINE R == {p \in Nat \X Nat : p[1] < p[2]}
            T == {MaxRemotes - s : s \in list}
<1>1. IsWellFoundedOn(R, Nat)
  BY NatLessThanWellFounded DEF OpToRel
<1>2. \A s \in list : s \in Nat /\ s <= MaxRemotes /\ MaxRemotes - s \in Nat
  BY SftpPanesAssumption DEF Remotes
<1>3. T \subseteq Nat /\ T # {}
  BY <1>2
<1>. HIDE DEF R, T
<1>4. PICK x \in T : \A y \in T : ~(<<y, x>> \in R)
  BY <1>1, <1>3, WFMin
<1>5. \A y \in T : ~(y < x)
  BY <1>3, <1>4 DEF R
<1>6. PICK s \in list : x = MaxRemotes - s
  BY <1>4 DEF T
<1>7. \A r \in list : r <= s
  <2>1. \A r \in list : ~(MaxRemotes - r < MaxRemotes - s)
    BY <1>5, <1>6 DEF T
  <2>. QED
    BY <1>2, <2>1, SftpPanesAssumption
<1>. QED
  BY <1>7 DEF Last

LEMMA ClosesKeep ==
  ASSUME PanesInv, NEW c \in Closers, NEW s \in Remotes,
         CloseTab(c, s) \/ CloseOtherTabs(c, s) \/ CloseAllTabs(c)
  PROVE  PanesInv'
<1>1. paneTabs \subseteq Remotes /\ Remotes \subseteq 0..MaxRemotes /\ 0 \in 0..MaxRemotes
  BY SftpPanesAssumption DEF PanesInv, TabType, Remotes
<1>2. CASE CloseTab(c, s)
  <2>. DEFINE active == IF activeId = s THEN Last(paneTabs \ {s}) ELSE Unchanged
  <2>1. active \in 0..MaxRemotes \cup {Nil}
    <3>1. CASE paneTabs \ {s} = {}
      BY <1>1, <3>1 DEF Last, Unchanged
    <3>2. CASE paneTabs \ {s} # {}
      <4>1. Last(paneTabs \ {s}) \in paneTabs \ {s}
        BY <1>1, <3>2, LastIsIn
      <4>. QED
        BY <1>1, <4>1 DEF Unchanged
    <3>. QED
      BY <3>1, <3>2
  <2>2. StartClose(c, {s}, active) /\ {s} \in SUBSET paneTabs
    BY <1>2 DEF CloseTab
  <2>. QED
    BY <2>1, <2>2, StartCloseKeeps
<1>3. CASE CloseOtherTabs(c, s)
  <2>1. StartClose(c, paneTabs \ {s}, s) /\ s \in 0..MaxRemotes \cup {Nil}
    BY <1>1, <1>3 DEF CloseOtherTabs
  <2>. QED
    BY <2>1, StartCloseKeeps
<1>4. CASE CloseAllTabs(c)
  <2>1. StartClose(c, paneTabs, Nil)
    BY <1>4 DEF CloseAllTabs
  <2>. QED
    BY <2>1, StartCloseKeeps
<1>. QED
  BY <1>2, <1>3, <1>4

LEMMA CloseRemoteKeeps ==
  ASSUME PanesInv, NEW c \in Closers, NEW s \in Remotes, CloseRemote(c, s)
  PROVE  PanesInv'
<1>1. /\ closer[c] # Nil /\ s \in closer[c].left /\ remotes' = remotes \ {s}
      /\ closer' = [closer EXCEPT ![c].left = @ \ {s}]
      /\ UNCHANGED <<opened, paneTabs, activeId, cwd, connecting, lost>>
  BY DEF CloseRemote, OnlyTabs
<1>2. ListType' /\ JobType' /\ EditType' /\ ListInv' /\ TextInv' /\ ClickType'
  BY NoMove, ClickCounts DEF CloseRemote, OnlyTabs
<1>3. closer \in [Closers -> {Nil} \cup Closes] /\ closer[c] \in Closes
  BY <1>1 DEF PanesInv, TabType
<1>. DEFINE new == [closer[c] EXCEPT !.left = @ \ {s}]
<1>4. /\ new \in Closes /\ new.gone = closer[c].gone /\ new.list = closer[c].list
      /\ new.left = closer[c].left \ {s}
  BY <1>3 DEF Closes
<1>5. /\ closer' \in [Closers -> {Nil} \cup Closes]
      /\ \A k \in Closers : closer'[k] = IF k = c THEN new ELSE closer[k]
  BY <1>1, <1>3, <1>4
<1>. HIDE DEF new
<1>6. TabType'
  BY <1>1, <1>5 DEF PanesInv, TabType
<1>7. closer'[c] # Nil
  BY <1>4, <1>5, SftpPanesAssumption
<1>8. RemotesHaveTabs'
  <2>1. ASSUME NEW r \in remotes', r \notin paneTabs, connecting # r, r \notin lost
        PROVE  \E k \in Closers : closer'[k] # Nil /\ r \in closer'[k].left
    <3>1. r \in remotes /\ r # s
      BY <1>1
    <3>2. PICK k \in Closers : closer[k] # Nil /\ r \in closer[k].left
      BY <2>1, <3>1 DEF PanesInv, TabInv, RemotesHaveTabs
    <3>. QED
      BY <1>4, <1>5, <1>7, <3>1, <3>2
  <2>2. ASSUME NEW r \in paneTabs \ (remotes' \cup lost)
        PROVE  \E k \in Closers : closer'[k] # Nil /\ r \in closer'[k].gone
    <3>1. CASE r = s
      <4>1. s \in closer[c].gone
        BY <1>1 DEF PanesInv, TabInv, ClosersClose
      <4>. QED
        BY <1>4, <1>5, <1>7, <3>1, <4>1
    <3>2. CASE r # s
      <4>1. PICK k \in Closers : closer[k] # Nil /\ r \in closer[k].gone
        BY <1>1, <2>2, <3>2 DEF PanesInv, TabInv, RemotesHaveTabs
      <4>. QED
        BY <1>4, <1>5, <1>7, <4>1
    <3>. QED
      BY <3>1, <3>2
  <2>. QED
    BY <1>1, <2>1, <2>2 DEF RemotesHaveTabs
<1>9. Numbered'
  <2>1. connecting \in Remotes => connecting # s
    BY <1>1 DEF PanesInv, TabInv, Numbered, ClosersClose
  <2>. QED
    BY <1>1, <1>4, <1>5, <2>1 DEF PanesInv, TabInv, Numbered
<1>10. ClosersClose'
  <2>1. ASSUME NEW k \in Closers, closer'[k] # Nil
        PROVE  /\ closer'[k].left \subseteq closer'[k].gone
               /\ closer'[k].gone \subseteq closer'[k].list
               /\ closer'[k].list \subseteq 1..opened
               /\ (closer'[k].gone \ closer'[k].left) \cap remotes' = {}
    <3>1. CASE k = c
      BY <1>1, <1>4, <1>5, <3>1 DEF PanesInv, TabInv, ClosersClose
    <3>2. CASE k # c
      BY <1>1, <1>5, <2>1, <3>2 DEF PanesInv, TabInv, ClosersClose
    <3>. QED
      BY <3>1, <3>2
  <2>. QED
    BY <1>1, <2>1 DEF ClosersClose
<1>. QED
  BY <1>2, <1>6, <1>8, <1>9, <1>10 DEF PanesInv, TabInv
-----------------------------------------------------------------------------
(* Listings, renames and deletes.                                          *)

\* A call that is not the editor's, told about the place on the screen.
LEMMA FileJob ==
  ASSUME PanesInv, NEW j \in Jobs, NEW x \in {Nil} \cup Calls, Job(j, x),
         UNCHANGED <<tabVars, listVars, editVars>>, Click \/ UNCHANGED clicks,
         x # Nil /\ ~late => x.at = Here /\ (x.kind = "mutate" => x.of = x.at),
         x # Nil => x.kind \notin {"read", "save"}
  PROVE  PanesInv'
<1>1. TabType' /\ TabInv' /\ ClickType' /\ JobType'
  BY TabsStay, ClickCounts, JobChanges
<1>2. late' \in BOOLEAN /\ (late => late') /\ UNCHANGED <<listing, prompt>> /\ late' = late
  BY DEF PanesInv, ListType, listVars
<1>3. ListType' /\ ListInv'
  BY <1>2, ListOfJob
<1>4. EditType' /\ TextInv'
  BY TextOfJob
<1>. QED
  BY <1>1, <1>3, <1>4 DEF PanesInv

LEMMA SoftRefreshKeeps == ASSUME PanesInv, SoftRefresh PROVE PanesInv'
<1>1. Here \in Places
  BY HereIsPlace DEF SoftRefresh, PanesInv
<1>2. List("soft", Here) \in Calls
  BY <1>1 DEF List, Calls, Listings
<1>. QED
  BY <1>2, NewIsFree, FileJob DEF SoftRefresh, List

LEMMA ListReturnsKeeps == ASSUME PanesInv, NEW j \in Jobs, ListReturns(j) PROVE PanesInv'
<1>1. /\ job[j] # Nil /\ job[j].kind \in {"fresh", "soft", "after"}
      /\ listing' = job[j].at /\ Job(j, Nil)
      /\ UNCHANGED <<tabVars, prompt, late, editVars, clicks>>
  BY DEF ListReturns, Running
<1>2. TabType' /\ TabInv' /\ Here' = Here /\ ClickType'
  BY <1>1, TabsStay, ClickCounts
<1>3. JobType' /\ \A k \in Jobs : job'[k] = IF k = j THEN Nil ELSE job[k]
  BY <1>1, JobChanges
<1>4. EditType' /\ TextInv'
  BY <1>1, TextOfJob
<1>5. listing' \in Places
  BY <1>1, JobFacts DEF PanesInv
<1>6. ListType'
  BY <1>1, <1>5 DEF PanesInv, ListType
<1>7. ListingIsHere'
  BY <1>1, <1>2 DEF PanesInv, ListInv, InFlightIsHere, ListingIsHere, Running
<1>8. ActsWhereChosen' /\ InFlightIsHere'
  BY <1>1, <1>2, <1>3 DEF PanesInv, ListInv, ActsWhereChosen, InFlightIsHere, Running
<1>. QED
  BY <1>2, <1>3, <1>4, <1>6, <1>7, <1>8 DEF PanesInv, ListInv

LEMMA FileCallEnds ==
  ASSUME PanesInv, NEW j \in Jobs, ListFails(j) \/ MutateFails(j)
  PROVE  PanesInv'
BY FileJob DEF ListFails, MutateFails, Running

LEMMA MutateReturnsKeeps == ASSUME PanesInv, NEW j \in Jobs, MutateReturns(j) PROVE PanesInv'
<1>1. /\ job[j] # Nil /\ job[j].kind = "mutate" /\ Job(j, List("after", job[j].at))
      /\ UNCHANGED <<tabVars, listVars, editVars, clicks>>
  BY DEF MutateReturns, Running
<1>2. List("after", job[j].at) \in Calls
  BY <1>1, JobFacts DEF PanesInv, List, Calls, Listings
<1>3. ~late => job[j].at = Here
  BY <1>1 DEF PanesInv, ListInv, InFlightIsHere, Running
<1>. QED
  BY <1>1, <1>2, <1>3, FileJob DEF List

LEMMA PromptKeeps ==
  ASSUME PanesInv, OpenPrompt \/ CancelPrompt \/ ConfirmPrompt
  PROVE  PanesInv'
<1>1. CASE OpenPrompt
  <2>1. PICK of \in {Here, listing} \ {Nil} :
          prompt' = [at |-> Here, of |-> of, busy |-> Mutating]
    BY <1>1 DEF OpenPrompt
  <2>2. Here \in Places /\ of \in Places /\ Mutating \in BOOLEAN
    BY <1>1, HereIsPlace DEF OpenPrompt, PaneShown, PanesInv, ListType, Mutating
  <2>3. UNCHANGED <<tabVars, listing, job, late, editVars>> /\ Click
    BY <1>1 DEF OpenPrompt
  <2>4. TabType' /\ TabInv' /\ Here' = Here /\ ClickType' /\ EditType' /\ TextInv'
    BY <2>3, TabsStay, ClickCounts, TextStays
  <2>5. ListType' /\ JobType'
    BY <2>1, <2>2, <2>3 DEF PanesInv, ListType, JobType, Prompts
  <2>6. ~late => of = Here
    BY <2>1 DEF PanesInv, ListInv, ListingIsHere
  <2>7. prompt'.at = Here /\ prompt'.of = of
    BY <2>1
  <2>8. ListingIsHere'
    BY <2>3, <2>4 DEF PanesInv, ListInv, ListingIsHere
  <2>9. ActsWhereChosen' /\ InFlightIsHere'
    BY <2>3, <2>4, <2>6, <2>7 DEF PanesInv, ListInv, ActsWhereChosen, InFlightIsHere, Running
  <2>. QED
    BY <2>4, <2>5, <2>8, <2>9 DEF PanesInv, ListInv
<1>2. CASE CancelPrompt
  <2>1. UNCHANGED <<tabVars, listing, job, late, editVars, clicks>> /\ prompt' = Nil
    BY <1>2 DEF CancelPrompt
  <2>2. TabType' /\ TabInv' /\ Here' = Here /\ ClickType' /\ EditType' /\ TextInv'
    BY <2>1, TabsStay, ClickCounts, TextStays
  <2>3. ListType' /\ JobType'
    BY <2>1 DEF PanesInv, ListType, JobType
  <2>4. ListInv'
    BY <2>1, <2>2
      DEF PanesInv, ListInv, ListingIsHere, ActsWhereChosen, InFlightIsHere, Running
  <2>. QED
    BY <2>2, <2>3, <2>4 DEF PanesInv
<1>3. CASE ConfirmPrompt
  <2>1. /\ prompt # Nil /\ prompt' = Nil
        /\ UNCHANGED <<tabVars, listing, late, editVars, clicks>>
    BY <1>3 DEF ConfirmPrompt
  <2>2. TabType' /\ TabInv' /\ Here' = Here /\ ClickType'
    BY <2>1, TabsStay, ClickCounts
  <2>3. ListType'
    BY <2>1 DEF PanesInv, ListType
  <2>. DEFINE x == [kind |-> "mutate", at |-> prompt.at, of |-> prompt.of]
  <2>4. CASE UNCHANGED job
    <3>1. JobType' /\ EditType' /\ TextInv'
      BY <2>1, <2>4, TextStays DEF PanesInv, JobType
    <3>2. ListInv'
      BY <2>1, <2>2, <2>4
        DEF PanesInv, ListInv, ListingIsHere, ActsWhereChosen, InFlightIsHere, Running
    <3>. QED
      BY <2>2, <2>3, <3>1, <3>2 DEF PanesInv
  <2>5. CASE Free # {} /\ Job(NewJob, x)
    <3>1. prompt.at \in Places /\ prompt.of \in Places
      BY <2>1 DEF PanesInv, ListType, Prompts
    <3>2. x \in Calls
      BY <3>1 DEF Calls, Mutations
    <3>3. NewJob \in Jobs
      BY <2>5, NewIsFree
    <3>4. JobType' /\ \A k \in Jobs : job'[k] = IF k = NewJob THEN x ELSE job[k]
      BY <2>5, <3>2, <3>3, JobChanges
    <3>5. EditType' /\ TextInv'
      BY <2>1, <2>5, <3>2, <3>3, TextOfJob
    <3>6. ~late => x.at = Here /\ x.of = x.at
      BY <2>1 DEF PanesInv, ListInv, ActsWhereChosen, InFlightIsHere
    <3>. HIDE DEF x
    <3>7. ListingIsHere'
      BY <2>1, <2>2 DEF PanesInv, ListInv, ListingIsHere
    <3>8. ActsWhereChosen' /\ InFlightIsHere'
      BY <2>1, <2>2, <3>4, <3>6 DEF PanesInv, ListInv, ActsWhereChosen, InFlightIsHere, Running
    <3>. QED
      BY <2>2, <2>3, <3>4, <3>5, <3>7, <3>8 DEF PanesInv, ListInv
  <2>. QED
    BY <1>3, <2>4, <2>5 DEF ConfirmPrompt
<1>. QED
  BY <1>1, <1>2, <1>3
-----------------------------------------------------------------------------
(* The text editor.                                                        *)
EditorUnchanged == UNCHANGED <<editor, file>>

\* A new read or save of the editor, when none of its calls is in flight.
LEMMA TextJobStarts ==
  ASSUME PanesInv, NEW j \in Jobs, NEW x \in Calls, Job(j, x), EditorUnchanged,
         ~mixed' => ~EditorBusy /\ (editor # Nil => ~mixed),
         x.kind = "read" => x.phase = "sent",
         x.kind = "save" /\ ~mixed' =>
           x.phase = "sent" /\ (editor # Nil => editor.text = x.text /\ editor.of = x.at[1])
  PROVE  TextInv'
<1>1. \A k \in Jobs : job'[k] = IF k = j THEN x ELSE job[k]
  BY JobChanges
<1>2. CleanIsSaved'
  BY DEF PanesInv, TextInv, CleanIsSaved, EditorUnchanged
<1>3. ASSUME ~mixed', NEW k \in Jobs, job'[k] # Nil, job'[k].kind \in {"read", "save"}
      PROVE  k = j
  BY <1>1, <1>3 DEF EditorBusy, Running
<1>4. OneEditorCall'
  <2>1. ~mixed' => \A k, l \in Running({"read", "save"})' : k = l
    BY <1>3 DEF Running
  <2>2. ASSUME ~mixed', NEW k \in Running({"read"})'
        PROVE  job'[k].phase = "sent"
    BY <1>1, <1>3, <2>2 DEF Running
  <2>3. ASSUME ~mixed', NEW k \in Running({"save"})'
        PROVE  /\ job'[k].phase = "sent"
               /\ editor # Nil => editor.text = job'[k].text /\ editor.of = job'[k].at[1]
    BY <1>1, <1>3, <2>3 DEF Running
  <2>. QED
    BY <2>1, <2>2, <2>3 DEF OneEditorCall, EditorUnchanged
<1>. QED
  BY <1>2, <1>4 DEF TextInv

LEMMA ReadStarts ==
  ASSUME PanesInv, NEW of \in Places, StartRead(of), ~late => of = Here,
         mixed' \in BOOLEAN, ~mixed' => ~EditorBusy /\ (editor # Nil => ~mixed)
  PROVE  PanesInv'
<1>. DEFINE x == [kind |-> "read", at |-> Here, of |-> of, phase |-> "sent"]
<1>1. /\ Here # Nil /\ Free # {} /\ Click /\ Job(NewJob, x)
      /\ UNCHANGED <<tabVars, listVars, editor, saving, file, typed>>
  BY DEF StartRead
<1>2. NewJob \in Jobs /\ Here \in Places
  BY <1>1, NewIsFree, HereIsPlace DEF PanesInv
<1>3. x \in Calls
  BY <1>2 DEF Calls, Reads
<1>4. TabType' /\ TabInv' /\ ClickType' /\ JobType'
  BY <1>1, <1>2, <1>3, TabsStay, ClickCounts, JobChanges
<1>5. late' = late /\ late \in BOOLEAN /\ UNCHANGED <<listing, prompt>>
  BY <1>1 DEF PanesInv, ListType, listVars
<1>6. ListType' /\ ListInv'
  BY <1>1, <1>2, <1>3, <1>5, ListOfJob
<1>7. EditType'
  BY <1>1 DEF PanesInv, EditType
<1>8. TextInv'
  BY <1>1, <1>2, <1>3, TextJobStarts DEF EditorUnchanged
<1>. QED
  BY <1>4, <1>6, <1>7, <1>8 DEF PanesInv

LEMMA OpenEditorKeeps == ASSUME PanesInv, OpenTextEditor PROVE PanesInv'
<1>1. PaneShown /\ listing # Nil /\ StartRead(listing) /\ mixed' = EditorBusy
  BY DEF OpenTextEditor
<1>2. listing \in Places /\ editor = Nil
  BY <1>1 DEF PanesInv, ListType, PaneShown
<1>3. ~late => listing = Here
  BY <1>1 DEF PanesInv, ListInv, ListingIsHere
<1>4. mixed' \in BOOLEAN
  BY <1>1 DEF EditorBusy
<1>. QED
  BY <1>1, <1>2, <1>3, <1>4, ReadStarts

LEMMA ReloadKeeps == ASSUME PanesInv, ReloadTextEditor PROVE PanesInv'
<1>1. StartRead(Here) /\ mixed' = (mixed \/ EditorBusy)
  BY DEF ReloadTextEditor, Mixes
<1>2. Here \in Places
  BY <1>1, HereIsPlace DEF StartRead, PanesInv
<1>3. mixed' \in BOOLEAN
  BY <1>1 DEF EditorBusy, PanesInv, EditType
<1>. QED
  BY <1>1, <1>2, <1>3, ReadStarts

LEMMA TextReadsKeeps == ASSUME PanesInv, NEW j \in Jobs, TextReads(j) PROVE PanesInv'
<1>. DEFINE x == [kind |-> "read", at |-> job[j].at, of |-> job[j].of, phase |-> "read",
                  text |-> file[job[j].at[1]]]
<1>1. /\ job[j] # Nil /\ job[j].kind = "read" /\ job[j].at[1] \in remotes /\ Job(j, x)
      /\ UNCHANGED <<tabVars, listVars, editVars, clicks>>
  BY DEF TextReads, Running
<1>2. job[j].at \in Places /\ job[j].of \in Places /\ file[job[j].at[1]] \in Texts
  BY <1>1, JobFacts DEF PanesInv, EditType, Reads, TabType
<1>3. x \in Calls
  BY <1>2 DEF Calls, Reads
<1>4. /\ TabType' /\ TabInv' /\ ClickType' /\ JobType'
      /\ \A k \in Jobs : job'[k] = IF k = j THEN x ELSE job[k]
  BY <1>1, <1>3, TabsStay, ClickCounts, JobChanges
<1>5. late' = late /\ late \in BOOLEAN /\ UNCHANGED <<listing, prompt>>
  BY <1>1 DEF PanesInv, ListType, listVars
<1>6. ~late => x.of = x.at
  BY <1>1 DEF PanesInv, ListInv, ActsWhereChosen, Running
<1>7. ListType' /\ ListInv'
  BY <1>1, <1>3, <1>5, <1>6, ListOfJob
<1>8. EditType'
  BY <1>1 DEF PanesInv, EditType, editVars
<1>9. CleanIsSaved'
  BY <1>1 DEF PanesInv, TextInv, CleanIsSaved, editVars
<1>10. /\ Running({"read", "save"})' \subseteq Running({"read", "save"})
       /\ \A k \in Running({"save"})' : k \in Running({"save"}) /\ job'[k] = job[k]
       /\ \A k \in Running({"read"})' :
            k = j \/ (k \in Running({"read"}) /\ job'[k] = job[k])
  BY <1>1, <1>4 DEF Running
<1>11. OneEditorCall'
  BY <1>1, <1>4, <1>10 DEF PanesInv, TextInv, OneEditorCall, editVars
<1>. QED
  BY <1>4, <1>7, <1>8, <1>9, <1>11 DEF PanesInv, TextInv

\* A call of the editor ends, and nothing follows.
LEMMA EditCallEnds ==
  ASSUME PanesInv, NEW j \in Running({"read", "save"}), Job(j, Nil), late' = late,
         UNCHANGED <<tabVars, listing, prompt, file, mixed, clicks>>
  PROVE  /\ TabType' /\ TabInv' /\ ClickType' /\ JobType' /\ ListType' /\ ListInv'
         /\ ~mixed' => Running({"read", "save"})' = {}
<1>1. j \in Jobs /\ job[j] # Nil /\ job[j].kind \in {"read", "save"}
  BY DEF Running
<1>2. /\ TabType' /\ TabInv' /\ ClickType' /\ JobType'
      /\ \A k \in Jobs : job'[k] = IF k = j THEN Nil ELSE job[k]
  BY <1>1, TabsStay, ClickCounts, JobChanges
<1>3. late \in BOOLEAN
  BY DEF PanesInv, ListType
<1>4. ListType' /\ ListInv'
  BY <1>1, <1>3, ListOfJob
<1>5. ~mixed' => Running({"read", "save"})' = {}
  BY <1>2 DEF PanesInv, TextInv, OneEditorCall, Running
<1>. QED
  BY <1>2, <1>4, <1>5

LEMMA NoEditorCall ==
  ASSUME ~mixed => Running({"read", "save"}) = {}
  PROVE  OneEditorCall
BY DEF OneEditorCall, Running

LEMMA TextReturnsKeeps == ASSUME PanesInv, NEW j \in Jobs, TextReturns(j) PROVE PanesInv'
<1>. DEFINE mount == IF editor # Nil THEN editor.mount
                     ELSE [at |-> Here, text |-> job[j].text, saving |-> saving]
            ed == [of |-> job[j].at[1], text |-> job[j].text, dirty |-> FALSE, mount |-> mount]
<1>1. /\ j \in Running({"read", "save"}) /\ job[j] # Nil /\ job[j].kind = "read"
      /\ job[j].phase = "read" /\ Job(j, Nil) /\ editor' = ed
      /\ UNCHANGED <<tabVars, listVars, saving, file, typed, mixed, clicks>>
  BY DEF TextReturns, Running
<1>2. late' = late /\ UNCHANGED <<listing, prompt>>
  BY <1>1 DEF listVars
<1>3. /\ TabType' /\ TabInv' /\ ClickType' /\ JobType' /\ ListType' /\ ListInv'
      /\ ~mixed' => Running({"read", "save"})' = {}
  BY <1>1, <1>2, EditCallEnds
<1>4. job[j].text \in Texts /\ job[j].at \in Places
  BY <1>1, JobFacts DEF PanesInv, Reads
<1>5. job[j].at[1] \in Remotes
  BY <1>4 DEF Places
<1>6. Here \in Places \cup {Nil} /\ saving \in BOOLEAN
  BY HereIsPlace DEF PanesInv, EditType
<1>7. mount \in Mounts
  BY <1>4, <1>6 DEF PanesInv, EditType, Editors, Mounts
<1>8. ed \in Editors
  BY <1>4, <1>5, <1>7 DEF Editors
<1>9. EditType'
  BY <1>1, <1>8 DEF PanesInv, EditType
<1>10. CleanIsSaved'
  <2>1. ~mixed => job[j].text = file[job[j].at[1]]
    BY <1>1 DEF PanesInv, TextInv, OneEditorCall, Running
  <2>2. editor'.of = job[j].at[1] /\ editor'.text = job[j].text
    BY <1>1
  <2>. QED
    BY <1>1, <2>1, <2>2 DEF CleanIsSaved
<1>11. OneEditorCall'
  BY <1>3, NoEditorCall DEF OneEditorCall, Running
<1>. QED
  BY <1>3, <1>9, <1>10, <1>11 DEF PanesInv, TextInv

LEMMA EditFailsKeep ==
  ASSUME PanesInv, NEW j \in Jobs, TextFails(j) \/ SaveFails(j)
  PROVE  PanesInv'
<1>1. /\ j \in Running({"read", "save"}) /\ Job(j, Nil) /\ late' = late
      /\ UNCHANGED <<tabVars, listing, prompt, editor, file, typed, mixed, clicks>>
      /\ saving' \in {saving, FALSE}
  BY DEF TextFails, SaveFails, Running, listVars, editVars
<1>2. /\ TabType' /\ TabInv' /\ ClickType' /\ JobType' /\ ListType' /\ ListInv'
      /\ ~mixed' => Running({"read", "save"})' = {}
  BY <1>1, EditCallEnds
<1>3. EditType'
  BY <1>1 DEF PanesInv, EditType
<1>4. CleanIsSaved'
  BY <1>1 DEF PanesInv, TextInv, CleanIsSaved
<1>5. OneEditorCall'
  BY <1>2 DEF OneEditorCall, Running
<1>. QED
  BY <1>2, <1>3, <1>4, <1>5 DEF PanesInv, TextInv

LEMMA TypeKeeps == ASSUME PanesInv, Type PROVE PanesInv'
<1>1. /\ editor # Nil /\ typed < MaxTexts /\ typed' = typed + 1
      /\ editor' = [editor EXCEPT !.text = typed', !.dirty = TRUE]
      /\ mixed' = (mixed \/ EditorBusy)
      /\ UNCHANGED <<tabVars, listVars, job, saving, file, clicks>>
  BY DEF Type, Mixes
<1>2. TabType' /\ TabInv' /\ Here' = Here /\ ClickType'
  BY <1>1, TabsStay, ClickCounts
<1>3. ListType' /\ JobType' /\ ListInv'
  BY <1>1, <1>2, ListStays DEF listVars
<1>4. editor \in Editors /\ typed' \in Texts
  BY <1>1, SftpPanesAssumption DEF PanesInv, EditType, Texts
<1>5. editor' \in Editors /\ editor'.dirty = TRUE
  BY <1>1, <1>4 DEF Editors
<1>6. EditType'
  BY <1>1, <1>4, <1>5 DEF PanesInv, EditType, EditorBusy
<1>7. CleanIsSaved'
  BY <1>5 DEF CleanIsSaved
<1>8. OneEditorCall'
  BY <1>1 DEF OneEditorCall, EditorBusy, Running
<1>. QED
  BY <1>2, <1>3, <1>6, <1>7, <1>8 DEF PanesInv, TextInv

LEMMA CloseEditorKeeps == ASSUME PanesInv, CloseEditor PROVE PanesInv'
<1>1. /\ editor # Nil /\ editor' = Nil
      /\ UNCHANGED <<tabVars, listVars, job, saving, file, typed, mixed, clicks>>
  BY DEF CloseEditor
<1>2. TabType' /\ TabInv' /\ Here' = Here /\ ClickType'
  BY <1>1, TabsStay, ClickCounts
<1>3. ListType' /\ JobType' /\ ListInv'
  BY <1>1, <1>2, ListStays DEF listVars
<1>4. EditType' /\ CleanIsSaved'
  BY <1>1 DEF PanesInv, EditType, CleanIsSaved
<1>5. OneEditorCall'
  BY <1>1 DEF PanesInv, TextInv, OneEditorCall, Running
<1>. QED
  BY <1>2, <1>3, <1>4, <1>5 DEF PanesInv, TextInv

LEMMA StartSaveKeeps ==
  ASSUME PanesInv, NEW at \in Places \cup {Nil}, NEW text \in Texts, StartSave(at, text),
         late' \in BOOLEAN, late => late', ~late' => at = Here
  PROVE  PanesInv'
<1>. DEFINE x == [kind |-> "save", at |-> at, text |-> text, phase |-> "sent"]
<1>1. /\ at \in Places /\ Free # {} /\ Click /\ saving' = TRUE /\ Job(NewJob, x)
      /\ mixed' = (mixed \/ EditorBusy \/ text # editor.text \/ at[1] # editor.of)
      /\ UNCHANGED <<tabVars, listing, prompt, editor, file, typed>>
  BY DEF StartSave, Mixes
<1>2. NewJob \in Jobs /\ x \in Calls
  BY <1>1, NewIsFree DEF Calls, Saves
<1>3. TabType' /\ TabInv' /\ ClickType' /\ JobType'
  BY <1>1, <1>2, TabsStay, ClickCounts, JobChanges
<1>4. ListType' /\ ListInv'
  BY <1>1, <1>2, ListOfJob
<1>5. EditType'
  BY <1>1 DEF PanesInv, EditType, EditorBusy
<1>6. TextInv'
  BY <1>1, <1>2, TextJobStarts DEF EditorUnchanged
<1>. QED
  BY <1>3, <1>4, <1>5, <1>6 DEF PanesInv

LEMMA SavesKeep == ASSUME PanesInv, SaveButton \/ SaveKey PROVE PanesInv'
<1>1. editor # Nil /\ editor \in Editors /\ late \in BOOLEAN
  BY DEF SaveButton, SaveKey, PanesInv, EditType, ListType
<1>2. CASE SaveButton
  <2>1. StartSave(Here, editor.text) /\ late' = late
    BY <1>2 DEF SaveButton
  <2>2. Here \in Places \cup {Nil} /\ editor.text \in Texts
    BY <1>1, HereIsPlace DEF PanesInv, Editors
  <2>. QED
    BY <1>1, <2>1, <2>2, StartSaveKeeps
<1>3. CASE SaveKey
  <2>1. /\ StartSave(editor.mount.at, editor.mount.text)
        /\ late' = (late \/ editor.mount.at # Here)
    BY <1>3 DEF SaveKey
  <2>2. editor.mount.at \in Places \cup {Nil} /\ editor.mount.text \in Texts
    BY <1>1 DEF Editors, Mounts
  <2>. QED
    BY <1>1, <2>1, <2>2, StartSaveKeeps
<1>. QED
  BY <1>2, <1>3

LEMMA SaveWritesKeeps == ASSUME PanesInv, NEW j \in Jobs, SaveWrites(j) PROVE PanesInv'
<1>. DEFINE x == [job[j] EXCEPT !.phase = "written"]
<1>1. /\ job[j] # Nil /\ job[j].kind = "save" /\ j \in Running({"save"})
      /\ file' = [file EXCEPT ![job[j].at[1]] = job[j].text] /\ Job(j, x)
      /\ UNCHANGED <<tabVars, listVars, editor, saving, typed, mixed, clicks>>
  BY DEF SaveWrites, Running
<1>2. job[j] \in Saves
  BY <1>1, JobFacts DEF PanesInv
<1>3. /\ x \in Calls /\ x.kind = "save" /\ x.at = job[j].at /\ x.text = job[j].text
      /\ job[j].text \in Texts /\ job[j].at \in Places
  BY <1>2 DEF Calls, Saves
<1>. HIDE DEF x
<1>4. /\ TabType' /\ TabInv' /\ ClickType' /\ JobType'
      /\ \A k \in Jobs : job'[k] = IF k = j THEN x ELSE job[k]
  BY <1>1, <1>3, TabsStay, ClickCounts, JobChanges
<1>5. late' = late /\ late \in BOOLEAN /\ UNCHANGED <<listing, prompt>>
  BY <1>1 DEF PanesInv, ListType, listVars
<1>6. ~late => x.at = Here
  BY <1>1, <1>3 DEF PanesInv, ListInv, InFlightIsHere, Running
<1>7. ListType' /\ ListInv'
  BY <1>1, <1>3, <1>5, <1>6, ListOfJob
<1>8. job[j].at[1] \in Remotes
  BY <1>3 DEF Places
<1>9. EditType' /\ file'[job[j].at[1]] = job[j].text
  BY <1>1, <1>3, <1>8 DEF PanesInv, EditType
<1>10. ~mixed => /\ \A k \in Running({"read", "save"}) : k = j
                 /\ editor # Nil => editor.text = job[j].text /\ editor.of = job[j].at[1]
  <2>1. j \in Running({"read", "save"})
    BY <1>1 DEF Running
  <2>. QED
    BY <1>1, <2>1 DEF PanesInv, TextInv, OneEditorCall
<1>11. CleanIsSaved'
  BY <1>1, <1>9, <1>10 DEF CleanIsSaved
<1>12. OneEditorCall'
  <2>1. ~mixed => \A k \in Jobs : job'[k] # Nil /\ job'[k].kind \in {"read", "save"} => k = j
    BY <1>4, <1>10 DEF Running
  <2>2. job'[j] = x
    BY <1>4
  <2>. QED
    BY <1>1, <1>3, <1>9, <1>10, <2>1, <2>2 DEF OneEditorCall, Running
<1>. QED
  BY <1>4, <1>7, <1>9, <1>11, <1>12 DEF PanesInv, TextInv

LEMMA SaveReturnsKeeps == ASSUME PanesInv, NEW j \in Jobs, SaveReturns(j) PROVE PanesInv'
<1>. DEFINE x == List("soft", job[j].at)
<1>1. /\ job[j] # Nil /\ job[j].kind = "save" /\ job[j].phase = "written"
      /\ j \in Running({"save"}) /\ Job(j, x) /\ saving' = FALSE
      /\ editor' = (IF editor = Nil THEN Nil ELSE [editor EXCEPT !.dirty = FALSE])
      /\ UNCHANGED <<tabVars, listVars, file, typed, mixed, clicks>>
  BY DEF SaveReturns, Running
<1>2. job[j].at \in Places
  BY <1>1, JobFacts DEF PanesInv
<1>3. x \in Calls /\ x.kind = "soft" /\ x.at = job[j].at
  BY <1>2 DEF List, Calls, Listings
<1>. HIDE DEF x
<1>4. /\ TabType' /\ TabInv' /\ ClickType' /\ JobType'
      /\ \A k \in Jobs : job'[k] = IF k = j THEN x ELSE job[k]
  BY <1>1, <1>3, TabsStay, ClickCounts, JobChanges
<1>5. late' = late /\ late \in BOOLEAN /\ UNCHANGED <<listing, prompt>>
  BY <1>1 DEF PanesInv, ListType, listVars
<1>6. ~late => x.at = Here
  BY <1>1, <1>3 DEF PanesInv, ListInv, InFlightIsHere, Running
<1>7. ListType' /\ ListInv'
  BY <1>1, <1>3, <1>5, <1>6, ListOfJob
<1>8. editor # Nil => /\ editor \in Editors /\ editor' \in Editors
                      /\ editor'.of = editor.of /\ editor'.text = editor.text
  BY <1>1 DEF PanesInv, EditType, Editors
<1>9. EditType'
  BY <1>1, <1>8 DEF PanesInv, EditType
<1>10. ~mixed => /\ \A k \in Running({"read", "save"}) : k = j
                 /\ file[job[j].at[1]] = job[j].text
                 /\ editor # Nil => editor.text = job[j].text /\ editor.of = job[j].at[1]
  <2>1. j \in Running({"read", "save"})
    BY <1>1 DEF Running
  <2>. QED
    BY <1>1, <2>1 DEF PanesInv, TextInv, OneEditorCall
<1>11. CleanIsSaved'
  BY <1>1, <1>8, <1>10 DEF CleanIsSaved
<1>12. OneEditorCall'
  <2>1. ~mixed => \A k \in Jobs : job'[k] # Nil => job'[k].kind \notin {"read", "save"}
    BY <1>3, <1>4, <1>10 DEF Running
  <2>. QED
    BY <1>1, <2>1 DEF OneEditorCall, Running
<1>. QED
  BY <1>4, <1>7, <1>9, <1>11, <1>12 DEF PanesInv, TextInv
-----------------------------------------------------------------------------
LEMMA PanesStep == ASSUME PanesInv, PanesNext PROVE PanesInv'
<1>1. CASE ConnectHost \/ ConnectOpens \/ ConnectFails
  BY <1>1, ConnectKeeps
<1>2. CASE SoftRefresh \/ OpenPrompt \/ CancelPrompt \/ ConfirmPrompt
  BY <1>2, SoftRefreshKeeps, PromptKeeps
<1>3. CASE OpenTextEditor \/ ReloadTextEditor \/ Type \/ CloseEditor \/ SaveButton \/ SaveKey
  BY <1>3, OpenEditorKeeps, ReloadKeeps, TypeKeeps, CloseEditorKeeps, SavesKeep
<1>4. CASE \E d \in Dirs : Navigate(d) \/ ConnectEnds(d)
  BY <1>4, NavigateKeeps, ConnectEndsKeeps
<1>5. CASE \E s \in Remotes : SelectTab(s)
  BY <1>5, SelectKeeps
<1>6. CASE \E c \in Closers :
             \/ CloseAllTabs(c) \/ CloseEnds(c)
             \/ \E s \in Remotes : CloseTab(c, s) \/ CloseOtherTabs(c, s) \/ CloseRemote(c, s)
  <2>1. PICK c \in Closers :
             \/ CloseAllTabs(c) \/ CloseEnds(c)
             \/ \E s \in Remotes : CloseTab(c, s) \/ CloseOtherTabs(c, s) \/ CloseRemote(c, s)
    BY <1>6
  <2>2. CASE CloseAllTabs(c)
    <3>1. PICK s : s \in paneTabs
      BY <2>2 DEF CloseAllTabs, StartClose
    <3>2. s \in Remotes
      BY <3>1 DEF PanesInv, TabType
    <3>. QED
      BY <2>2, <3>2, ClosesKeep
  <2>. QED
    BY <2>1, <2>2, CloseEndsKeeps, ClosesKeep, CloseRemoteKeeps
<1>7. CASE \E j \in Jobs :
             \/ ListReturns(j) \/ ListFails(j) \/ MutateReturns(j) \/ MutateFails(j)
             \/ TextReads(j) \/ TextReturns(j) \/ TextFails(j)
             \/ SaveWrites(j) \/ SaveReturns(j) \/ SaveFails(j)
  BY <1>7, ListReturnsKeeps, FileCallEnds, MutateReturnsKeeps, TextReadsKeeps,
     TextReturnsKeeps, EditFailsKeep, SaveWritesKeeps, SaveReturnsKeeps
<1>. QED
  BY <1>1, <1>2, <1>3, <1>4, <1>5, <1>6, <1>7 DEF PanesNext

LEMMA PanesStutter == ASSUME PanesInv, UNCHANGED paneVars PROVE PanesInv'
<1>1. UNCHANGED <<tabVars, editVars, listing, prompt, late, job, clicks>>
  BY DEF paneVars, tabVars, editVars
<1>. QED
  BY <1>1, TabsStay, ListStays, TextStays, ClickCounts DEF PanesInv

(* The invariant holds of every behaviour of the workspace.                *)
THEOREM PanesInvariant == PanesSpec => []PanesInv
<1>1. PanesInit => PanesInv
  BY PanesInitInv
<1>2. PanesInv /\ [PanesNext]_paneVars => PanesInv'
  BY PanesStep, PanesStutter
<1>. QED
  BY <1>1, <1>2, PTL DEF PanesSpec

(* What the workspace promises, PanesSafe, holds of every behaviour: the   *)
(* list, what is chosen in it, the text shown as saved, and the sessions   *)
(* and their tabs.                                                         *)
THEOREM PanesAreSafe == PanesSpec => []PanesSafe
<1>1. PanesInv => PanesSafe
  BY DEF PanesInv, ListInv, TextInv, TabInv, PanesSafe
<1>. QED
  BY <1>1, PanesInvariant, PTL

(* Every variable of the workspace has its type: the sessions, tabs, calls *)
(* and texts of SftpWorkbench are what their functions take them for.      *)
THEOREM PanesTypeCorrect == PanesSpec => []PanesTypeOK
<1>1. PanesInv => PanesTypeOK
  BY PanesTypes DEF PanesInv
<1>. QED
  BY <1>1, PanesInvariant, PTL
-----------------------------------------------------------------------------
(* The stored workspace, for any tabs and any number of saves in flight.   *)
(* What is owed is reached (NothingForgotten) also after the program ends, *)
(* because a saving that rests has stored what is shown (QuietIsStored);   *)
(* that holds because a save that meets no other writes the latest         *)
(* snapshot to a file of its own (SavesOK, TimerIsLatest).                 *)
\* A program that is down has nothing under way.
DownIsQuiet ==
  ~alive => /\ timer = None /\ Saving = {}
            /\ open = {} /\ closing = None /\ reading = NotReading

ReadingOK ==
  /\ reading.pc # "open" => reading.left = {} /\ reading.got = {}
  /\ product = "database" =>
       /\ closing = None /\ reading.pc \in {"off", "load", "done"}
       /\ reading.pc # "done" => open = {}

TimerIsLatest == timer # None => timer = open

\* A save that has met no other writes what it has to its own file; if no timer
\* runs that is what is shown. One that has met another leaves the workspace
\* spoiled.
LoneSave(s) ==
  /\ saves[s].alone =>
       /\ Saving = {s}
       /\ timer = None => saves[s].snap = open
       /\ saves[s].pc \in {"opened", "filled"} => saves[s].fd = "tmp"
       /\ saves[s].pc = "filled" => tmp = saves[s].snap
  /\ ~saves[s].alone \/ saves[s].pc = "undo" => spoiled

SavesOK == \A s \in Saving : LoneSave(s)

\* RestIsStored, also while sessions are being restored.
QuietIsStored ==
  alive /\ timer = None /\ Saving = {} /\ ~spoiled
        /\ (product = "sftp" \/ reading.pc = "done")
    => Stored = open

WsInv ==
  /\ WsTypeOK /\ DownIsQuiet /\ ReadingOK /\ TimerIsLatest
  /\ SavesOK /\ QuietIsStored /\ FileIsWhole /\ NothingForgotten

LEMMA WsInitInv == WsInit => WsInv
<1> SUFFICES ASSUME WsInit PROVE WsInv
  OBVIOUS
<1>. USE WorkspaceSavesAssumption
<1>1. Saving = {}
  BY DEF WsInit, Saving
<1>2. Stored \subseteq Items
  BY DEF WsInit, Stored, Snapshots
<1>3. NotReading \in ReadingType /\ 0 \in 0..MaxInputs
  BY DEF NotReading, ReadingType, Snapshots
<1>a. saves \in [Slots -> {NoSave} \cup SaveType]
  BY DEF WsInit
<1>b. WsTypeOK
  BY <1>2, <1>3, <1>a DEF WsInit, WsTypeOK, Snapshots
<1>4. NothingForgotten
  BY DEF WsInit, NothingForgotten, Reached, Unread, NotReading
<1>. QED
  BY <1>1, <1>b, <1>4 DEF WsInit, WsInv, DownIsQuiet, ReadingOK, TimerIsLatest, SavesOK,
     QuietIsStored, FileIsWhole, NotReading, Snapshots

\* Steps that leave the saves, the files and the mark alone.
SavesStay == UNCHANGED <<disk, tmp, saves, spoiled>>

LEMMA ListSteps ==
  ASSUME WsInv, SavesStay, product' = product, alive' = TRUE,
         open' \subseteq Items, owed' \subseteq Items,
         inputs' \in 0..MaxInputs,
         closing' \in {None} \cup [gone : Items, list : Snapshots],
         reading' \in ReadingType,
         ReadingOK', NothingForgotten',
         \/ timer' = open'
         \/ /\ UNCHANGED <<timer, open, alive>>
            /\ product = "database" => reading' = reading
  PROVE  WsInv'
<1>. USE WorkspaceSavesAssumption
<1>1. WsTypeOK'
  BY DEF WsInv, WsTypeOK, SavesStay, Snapshots
<1>2. Saving' = Saving
  BY DEF SavesStay, Saving
<1>3. open' # None
  BY DEF Snapshots
<1>4. SavesOK'
  BY <1>2, <1>3 DEF WsInv, SavesOK, LoneSave, SavesStay
<1>5. QuietIsStored'
  <2>1. CASE timer' = open'
    BY <2>1, <1>3 DEF QuietIsStored
  <2>2. CASE UNCHANGED <<timer, open, alive>> /\ (product = "database" => reading' = reading)
    <3>1. Stored' = Stored
      BY DEF SavesStay, Stored
    <3>2. QuietIsStored /\ product \in {"database", "sftp"}
      BY DEF WsInv, WsTypeOK
    <3>. QED
      BY <2>2, <3>1, <3>2, <1>2 DEF QuietIsStored, SavesStay
  <2>. QED
    BY <2>1, <2>2
<1>6. DownIsQuiet' /\ TimerIsLatest' /\ FileIsWhole'
  BY DEF WsInv, DownIsQuiet, TimerIsLatest, FileIsWhole, SavesStay
<1>. QED
  BY <1>1, <1>4, <1>5, <1>6 DEF WsInv

\* The facts of the invariant about the tabs, in the form the steps need.
LEMMA ListTypes ==
  ASSUME WsInv
  PROVE  /\ open \subseteq Items /\ owed \subseteq Items /\ Stored \subseteq Items
         /\ reading \in ReadingType
         /\ reading.left \subseteq Items /\ reading.got \subseteq Items
         /\ reading.pc # "off" => alive = TRUE
         /\ closing # None => closing \in [gone : Items, list : Snapshots] /\ alive = TRUE
         /\ inputs \in 0..MaxInputs
         /\ owed \subseteq Reached
<1>. USE WorkspaceSavesAssumption
<1>1. reading.pc # "off" => alive = TRUE
  BY DEF WsInv, DownIsQuiet, NotReading, WsTypeOK
<1>2. closing # None => closing \in [gone : Items, list : Snapshots] /\ alive = TRUE
  BY DEF WsInv, DownIsQuiet, WsTypeOK
<1>3. Stored \subseteq Items
  BY DEF WsInv, WsTypeOK, Stored, Snapshots
<1>4. owed \subseteq Reached
  BY DEF WsInv, WsTypeOK, NothingForgotten
<1>. QED
  BY <1>1, <1>2, <1>3, <1>4 DEF WsInv, WsTypeOK, ReadingType, Snapshots

LEMMA StartKeeps == ASSUME WsInv, StartProgram PROVE WsInv'
<1>1. reading = NotReading /\ open = {} /\ timer = None /\ closing = None
  BY DEF WsInv, DownIsQuiet, StartProgram
<1>2. reading' \in ReadingType /\ reading'.pc \in {"hosts", "load"}
      /\ reading'.left = {} /\ reading'.got = {}
      /\ (product = "database" => reading'.pc = "load")
  BY DEF StartProgram, NotReading, ReadingType, Snapshots
<1>3. ReadingOK'
  BY <1>1, <1>2 DEF ReadingOK, StartProgram
<1>4. Stored' = Stored
  BY DEF StartProgram, Stored
<1>5. owed \subseteq Stored
  BY <1>1, ListTypes DEF Reached, Unread, NotReading
<1>6. NothingForgotten'
  BY <1>2, <1>4, <1>5 DEF NothingForgotten, Reached, Unread, StartProgram
<1>7. inputs' \in 0..MaxInputs
  BY ListTypes, WorkspaceSavesAssumption DEF StartProgram, UserActs
<1>8. CASE product = "sftp"
  BY <1>1, <1>2, <1>3, <1>6, <1>7, <1>8, ListTypes, ListSteps
     DEF StartProgram, SavesStay, Schedule
<1>9. CASE product # "sftp"
  <2>1. WsTypeOK'
    BY <1>2, <1>7, <1>9 DEF WsInv, WsTypeOK, StartProgram
  <2>2. Saving' = Saving /\ Saving = {}
    BY DEF StartProgram, Saving, WsInv, DownIsQuiet
  <2>3. DownIsQuiet' /\ TimerIsLatest' /\ FileIsWhole' /\ SavesOK'
    BY <2>2, <1>1, <1>9 DEF DownIsQuiet, TimerIsLatest, FileIsWhole, SavesOK, WsInv, StartProgram
  <2>4. QuietIsStored'
    BY <1>2, <1>9 DEF QuietIsStored, StartProgram
  <2>. QED
    BY <1>3, <1>6, <2>1, <2>3, <2>4 DEF WsInv
<1>. QED
  BY <1>8, <1>9

LEMMA HostsKeep == ASSUME WsInv, HostsListed \/ HostsFail PROVE WsInv'
<1>1. reading.pc = "hosts" /\ alive = TRUE /\ product # "database"
      /\ reading.left = {} /\ reading.got = {}
  BY ListTypes DEF HostsListed, HostsFail, WsInv, ReadingOK
<1>2. /\ reading' \in ReadingType /\ reading'.pc \in {"load", "done"}
      /\ reading'.left = {} /\ reading'.got = {}
  BY <1>1, ListTypes DEF HostsListed, HostsFail, ReadingType
<1>3. ReadingOK'
  BY <1>1, <1>2 DEF ReadingOK, HostsListed, HostsFail
<1>4. Stored' = Stored
  BY DEF HostsListed, HostsFail, Stored
<1>5. NothingForgotten'
  <2>1. CASE HostsListed
    <3>1. reading'.pc = "load"
      BY <2>1, ListTypes DEF HostsListed, ReadingType
    <3>. QED
      BY <2>1, <3>1, <1>1, <1>2, <1>4, ListTypes DEF NothingForgotten, Reached, Unread, HostsListed
  <2>2. CASE HostsFail
    BY <2>2 DEF NothingForgotten, Reached, HostsFail
  <2>. QED
    BY <2>1, <2>2
<1>. QED
  BY <1>1, <1>2, <1>3, <1>5, ListTypes, ListSteps DEF HostsListed, HostsFail, SavesStay, WsInv, WsTypeOK

LEMMA SnapshotKeeps ==
  ASSUME WsInv, NEW snap, snap \subseteq Items, TakeSnapshot(snap)
  PROVE  WsInv'
<1>1. reading.pc = "load" /\ alive = TRUE /\ reading.left = {} /\ reading.got = {}
  BY ListTypes DEF TakeSnapshot, WsInv, ReadingOK
<1>2. closing' \in {None} \cup [gone : Items, list : Snapshots]
  BY DEF TakeSnapshot, WsInv, WsTypeOK
<1>3. owed' \subseteq open \cup snap /\ owed' \subseteq Items
  BY ListTypes DEF TakeSnapshot
<1>4. CASE product = "database"
  <2>1. open = {} /\ closing = None
    BY <1>1, <1>4 DEF WsInv, ReadingOK
  <2>2. /\ reading' \in ReadingType /\ reading'.pc = "done"
        /\ reading'.left = {} /\ reading'.got = {}
    BY <1>1, <1>4, ListTypes DEF TakeSnapshot, ReadingType
  <2>3. ReadingOK'
    BY <2>1, <2>2, <1>4 DEF ReadingOK, TakeSnapshot
  <2>4. NothingForgotten'
    BY <2>1, <1>3, <1>4 DEF NothingForgotten, Reached, TakeSnapshot
  <2>. QED
    BY <1>1, <1>2, <1>3, <1>4, <2>2, <2>3, <2>4, ListTypes, ListSteps
       DEF TakeSnapshot, SavesStay, Schedule
<1>5. CASE product # "database"
  <2>1. /\ reading' \in ReadingType /\ reading'.left = snap /\ reading'.got = {}
        /\ reading'.pc = (IF snap = {} THEN "done" ELSE "open")
    BY <1>1, <1>5, ListTypes DEF TakeSnapshot, ReadingType, Snapshots
  <2>2. ReadingOK'
    BY <2>1, <1>5 DEF ReadingOK, TakeSnapshot
  <2>3. NothingForgotten'
    BY <2>1, <1>3, <1>5 DEF NothingForgotten, Reached, TakeSnapshot
  <2>. QED
    BY <1>1, <1>2, <1>3, <1>5, <2>1, <2>2, <2>3, ListTypes, ListSteps
       DEF TakeSnapshot, SavesStay
<1>. QED
  BY <1>4, <1>5

LEMMA RestoreKeeps ==
  ASSUME WsInv, NEW i, RestoreOpens(i) \/ RestoreSkips(i) \/ RestoreEnds
  PROVE  WsInv'
<1>1. reading.pc = "open" /\ alive = TRUE /\ product # "database"
  BY ListTypes DEF RestoreOpens, RestoreSkips, RestoreEnds, WsInv, ReadingOK
<1>2. closing' \in {None} \cup [gone : Items, list : Snapshots]
  BY DEF RestoreOpens, RestoreSkips, RestoreEnds, WsInv, WsTypeOK
<1>3. owed \subseteq open \cup reading.left \cup reading.got
  BY <1>1, ListTypes DEF Reached, Unread
<1>4. CASE RestoreOpens(i) \/ RestoreSkips(i)
  <2>1. /\ reading' \in ReadingType /\ reading'.pc = "open"
        /\ reading.left \subseteq reading'.left \cup {i}
        /\ reading.got \subseteq reading'.got
        /\ RestoreOpens(i) => i \in reading'.got
    <3>1. CASE RestoreOpens(i)
      <4>1. reading' = [reading EXCEPT !.left = @ \ {i}, !.got = @ \cup {i}]
            /\ i \in Items
        BY <3>1, ListTypes DEF RestoreOpens
      <4>. QED
        BY <4>1, <1>1, ListTypes DEF ReadingType, Snapshots
    <3>2. CASE RestoreSkips(i) /\ ~RestoreOpens(i)
      <4>1. reading' = [reading EXCEPT !.left = @ \ {i}]
        BY <3>2 DEF RestoreSkips
      <4>. QED
        BY <3>2, <4>1, <1>1, ListTypes DEF ReadingType, Snapshots
    <3>. QED
      BY <1>4, <3>1, <3>2
  <2>2. ReadingOK'
    BY <2>1, <1>1, <1>4 DEF ReadingOK, RestoreOpens, RestoreSkips
  <2>3. NothingForgotten'
    BY <2>1, <1>3, <1>4 DEF NothingForgotten, Reached, RestoreOpens, RestoreSkips
  <2>. QED
    BY <1>1, <1>2, <1>4, <2>1, <2>2, <2>3, ListTypes, ListSteps
       DEF RestoreOpens, RestoreSkips, SavesStay
<1>5. CASE RestoreEnds
  <2>1. /\ reading' \in ReadingType /\ reading'.pc = "done"
        /\ reading'.left = {} /\ reading'.got = {}
    BY <1>5 DEF RestoreEnds, ReadingType, NotReading, Snapshots
  <2>2. ReadingOK'
    BY <2>1, <1>1, <1>5 DEF ReadingOK, RestoreEnds
  <2>3. NothingForgotten'
    BY <1>3, <1>5 DEF NothingForgotten, Reached, RestoreEnds
  <2>. QED
    BY <1>1, <1>2, <1>5, <2>1, <2>2, <2>3, ListTypes, ListSteps
       DEF RestoreEnds, SavesStay, Schedule
<1>. QED
  BY <1>4, <1>5

LEMMA EditsKeep ==
  ASSUME WsInv, NEW i \in Items, AddTab(i) \/ RemoveTab(i)
  PROVE  WsInv'
<1>1. alive = TRUE /\ inputs' \in 0..MaxInputs
      /\ (product = "sftp" \/ reading.pc = "done")
  BY ListTypes, WorkspaceSavesAssumption DEF AddTab, RemoveTab, TabsShown, UserActs, WsInv, WsTypeOK
<1>2. Stored' = Stored
  BY DEF AddTab, RemoveTab, Stored
<1>3. CASE AddTab(i)
  <2>1. ReadingOK'
    BY <1>1, <1>3 DEF WsInv, ReadingOK, AddTab
  <2>2. NothingForgotten'
    BY <1>2, <1>3, ListTypes DEF NothingForgotten, Reached, Unread, AddTab
  <2>. QED
    BY <1>1, <1>3, <2>1, <2>2, ListTypes, ListSteps
       DEF AddTab, SavesStay, Schedule, WsInv, WsTypeOK
<1>4. CASE RemoveTab(i)
  <2>1. CASE product = "sftp"
    <3>1. closing' \in [gone : Items, list : Snapshots]
      BY <1>4, <2>1, ListTypes DEF RemoveTab, Snapshots
    <3>2. ReadingOK'
      BY <1>4, <2>1 DEF WsInv, ReadingOK, RemoveTab
    <3>3. NothingForgotten'
      BY <1>2, <1>4, <2>1, ListTypes DEF NothingForgotten, Reached, Unread, RemoveTab
    <3>. QED
      BY <1>1, <1>4, <2>1, <3>1, <3>2, <3>3, ListTypes, ListSteps DEF RemoveTab, SavesStay
  <2>2. CASE product # "sftp"
    <3>1. ReadingOK'
      BY <1>1, <1>4, <2>2 DEF WsInv, ReadingOK, RemoveTab
    <3>2. NothingForgotten'
      BY <1>2, <1>4, <2>2, ListTypes DEF NothingForgotten, Reached, Unread, RemoveTab
    <3>. QED
      BY <1>1, <1>4, <2>2, <3>1, <3>2, ListTypes, ListSteps
         DEF RemoveTab, SavesStay, Schedule, WsInv, WsTypeOK
  <2>. QED
    BY <2>1, <2>2
<1>. QED
  BY <1>3, <1>4

LEMMA RemoveEndsKeeps == ASSUME WsInv, RemoveEnds PROVE WsInv'
<1>1. closing \in [gone : Items, list : Snapshots] /\ alive = TRUE /\ product # "database"
  BY ListTypes DEF RemoveEnds, WsInv, ReadingOK
<1>2. open' \subseteq Items
  BY <1>1 DEF RemoveEnds, Snapshots
<1>3. Stored' = Stored
  BY DEF RemoveEnds, Stored
<1>4. ReadingOK'
  BY <1>1 DEF WsInv, ReadingOK, RemoveEnds
<1>5. NothingForgotten'
  BY <1>3 DEF NothingForgotten, Reached, Unread, RemoveEnds
<1>. QED
  BY <1>1, <1>2, <1>4, <1>5, ListTypes, ListSteps DEF RemoveEnds, SavesStay, Schedule

LEMMA EndKeeps == ASSUME WsInv, ProgramEnds PROVE WsInv'
<1>1. Saving' = {} /\ Stored' = Stored
  BY DEF ProgramEnds, Saving, Stored
<1>2. NotReading \in ReadingType /\ NotReading.pc = "off" /\ NotReading.left = {} /\ NotReading.got = {}
  BY DEF NotReading, ReadingType, Snapshots
<1>3. WsTypeOK'
  <2>1. owed' \subseteq Items
    BY ListTypes DEF ProgramEnds
  <2>2. saves' \in [Slots -> {NoSave} \cup SaveType]
    BY DEF ProgramEnds
  <2>. QED
    BY <1>2, <2>1, <2>2 DEF WsInv, WsTypeOK, ProgramEnds
<1>4. DownIsQuiet' /\ ReadingOK' /\ TimerIsLatest' /\ SavesOK' /\ QuietIsStored' /\ FileIsWhole'
  BY <1>1, <1>2 DEF WsInv, DownIsQuiet, ReadingOK, TimerIsLatest, SavesOK, QuietIsStored,
     FileIsWhole, ProgramEnds
<1>5. owed' \subseteq Stored
  <2>1. CASE Behind \/ spoiled
    BY <2>1 DEF ProgramEnds
  <2>2. CASE ~Behind /\ ~spoiled
    <3>1. timer = None /\ Saving = {} /\ reading.left = {} /\ reading.got = {} /\ alive
      BY <2>2 DEF Behind, WsInv, ReadingOK, ProgramEnds
    <3>2. CASE product = "sftp" \/ reading.pc = "done"
      <4>1. Stored = open
        BY <2>2, <3>1, <3>2 DEF WsInv, QuietIsStored
      <4>. QED
        BY <2>2, <3>1, <4>1, ListTypes DEF Reached, ProgramEnds
    <3>3. CASE ~(product = "sftp" \/ reading.pc = "done")
      <4>1. open = {}
        BY <3>3 DEF WsInv, ReadingOK, WsTypeOK
      <4>. QED
        BY <2>2, <3>1, <4>1, ListTypes DEF Reached, ProgramEnds
    <3>. QED
      BY <3>2, <3>3
  <2>. QED
    BY <2>1, <2>2
<1>6. NothingForgotten'
  BY <1>1, <1>2, <1>5 DEF NothingForgotten, Reached, Unread, ProgramEnds
<1>. QED
  BY <1>3, <1>4, <1>6 DEF WsInv
-----------------------------------------------------------------------------
\* What a step of the saving keeps, whatever it does to the files.
LEMMA SaveSteps ==
  ASSUME WsInv, UNCHANGED <<product, alive, open, closing, reading, inputs>>,
         alive = TRUE, timer' \in {timer, None},
         saves' \in [Slots -> {NoSave} \cup SaveType],
         tmp' \in {None, Torn} \cup Snapshots, disk' \in {None, Torn} \cup Snapshots,
         spoiled' \in BOOLEAN,
         (owed' = owed /\ disk' = disk) \/ OverwritesUnread,
         SavesOK', QuietIsStored', FileIsWhole'
  PROVE  WsInv'
<1>1. owed' \subseteq owed
  BY ListTypes DEF OverwritesUnread
<1>2. WsTypeOK'
  BY <1>1 DEF WsInv, WsTypeOK
<1>3. DownIsQuiet' /\ ReadingOK' /\ TimerIsLatest'
  BY DEF WsInv, DownIsQuiet, ReadingOK, TimerIsLatest
<1>4. NothingForgotten'
  <2>1. Unread' = Unread
    BY DEF Unread
  <2>2. Unread /\ OverwritesUnread => owed' \subseteq open \cup Stored'
    BY DEF OverwritesUnread, Stored
  <2>3. disk' = disk => Stored' = Stored
    BY DEF Stored
  <2>. QED
    BY <1>1, <2>1, <2>2, <2>3, ListTypes DEF NothingForgotten, Reached
<1>. QED
  BY <1>2, <1>3, <1>4 DEF WsInv

LEMMA SaveTypes ==
  ASSUME WsInv, NEW s \in Slots
  PROVE  /\ saves \in [Slots -> {NoSave} \cup SaveType]
         /\ s \in Saving => saves[s] \in SaveType /\ alive = TRUE /\ LoneSave(s)
         /\ timer # None => alive = TRUE /\ timer = open
         /\ tmp \in {None, Torn} \cup Snapshots /\ disk \in {None, Torn} \cup Snapshots
         /\ spoiled \in BOOLEAN
BY DEF WsInv, WsTypeOK, DownIsQuiet, Saving, SavesOK, TimerIsLatest

LEMMA TimerKeeps == ASSUME WsInv, NEW s \in Slots, TimerFires(s) PROVE WsInv'
<1>. USE WorkspaceSavesAssumption
<1>1. timer \in Snapshots /\ alive = TRUE /\ timer = open
  BY SaveTypes DEF TimerFires, WsInv, WsTypeOK
<1> DEFINE new == [pc |-> "sent", snap |-> timer, fd |-> "none", alone |-> Saving = {}]
<1>2. new \in SaveType /\ new # NoSave
  BY <1>1 DEF SaveType, NoSave
<1>3. /\ saves'[s] = new
      /\ \A r \in Slots \ {s} :
           saves'[r] = IF r \in Saving THEN [saves[r] EXCEPT !.alone = FALSE] ELSE NoSave
  BY DEF TimerFires
<1>4. \A r \in Saving : /\ [saves[r] EXCEPT !.alone = FALSE] \in SaveType
                        /\ ~[saves[r] EXCEPT !.alone = FALSE].alone
                        /\ [saves[r] EXCEPT !.alone = FALSE] # NoSave
  BY SaveTypes DEF Saving, SaveType, NoSave
<1>5. saves' \in [Slots -> {NoSave} \cup SaveType]
  <2>1. \A r \in Slots : saves'[r] \in {NoSave} \cup SaveType
    BY <1>2, <1>3, <1>4
  <2>. QED
    BY <2>1 DEF TimerFires
<1>6. s \notin Saving
  BY DEF TimerFires, Saving
<1>7. Saving' = Saving \cup {s}
  BY <1>2, <1>3, <1>4, <1>6 DEF Saving
<1>8. SavesOK'
  <2>1. SUFFICES ASSUME NEW r \in Saving' PROVE LoneSave(r)'
    BY DEF SavesOK
  <2>2. CASE r = s
    <3>1. saves'[r].alone = (Saving = {}) /\ saves'[r].snap = timer /\ saves'[r].pc = "sent"
      BY <1>3, <2>2
    <3>. QED
      BY <3>1, <1>1, <1>7, <2>2 DEF LoneSave, TimerFires
  <2>3. CASE r # s
    <3>1. r \in Saving /\ spoiled'
      BY <1>7, <2>1, <2>3 DEF TimerFires
    <3>2. ~saves'[r].alone
      BY <1>3, <1>4, <2>3, <3>1 DEF Saving
    <3>. QED
      BY <3>1, <3>2 DEF LoneSave
  <2>. QED
    BY <2>2, <2>3
<1>9. QuietIsStored' /\ FileIsWhole'
  BY <1>7 DEF QuietIsStored, WsInv, FileIsWhole, TimerFires
<1>. QED
  BY <1>1, <1>5, <1>8, <1>9, SaveTypes, SaveSteps DEF TimerFires

\* The step of one save, with the files and the other saves as they are.
LEMMA OneSave ==
  ASSUME WsInv, NEW s \in Saving, NEW v \in SaveType \cup {NoSave},
         saves' = [saves EXCEPT ![s] = v],
         UNCHANGED <<timer, open>>, spoiled => spoiled',
         v # NoSave => v.alone = saves[s].alone /\ v.snap = saves[s].snap /\ LoneSave(s)',
         \A r \in Saving \ {s} : spoiled'
  PROVE  SavesOK' /\ Saving' = (IF v = NoSave THEN Saving \ {s} ELSE Saving)
<1>1. s \in Slots
  BY DEF Saving
<1>2. \A r \in Slots : saves'[r] = IF r = s THEN v ELSE saves[r]
  BY <1>1 DEF WsInv, WsTypeOK
<1>3. Saving' = (IF v = NoSave THEN Saving \ {s} ELSE Saving)
  BY <1>1, <1>2 DEF Saving
<1>4. SUFFICES ASSUME NEW r \in Saving' PROVE LoneSave(r)'
  BY <1>3 DEF SavesOK
<1>5. CASE r = s
  BY <1>2, <1>3, <1>4, <1>5
<1>6. CASE r # s
  <2>1. r \in Saving /\ s \in Saving /\ spoiled' /\ saves'[r] = saves[r]
    BY <1>2, <1>3, <1>4, <1>6 DEF Saving
  <2>2. LoneSave(r)
    BY <2>1 DEF WsInv, SavesOK
  <2>. QED
    BY <1>6, <2>1, <2>2 DEF LoneSave
<1>. QED
  BY <1>5, <1>6

\* Of two saves none is alone.
LEMMA OthersSpoil ==
  ASSUME WsInv, NEW s \in Saving
  PROVE  s \in Slots /\ saves[s] \in SaveType /\ \A r \in Saving \ {s} : spoiled = TRUE
<1>1. s \in Slots
  BY DEF Saving
<1>. QED
  BY <1>1, SaveTypes DEF LoneSave

LEMMA SaveWritesKeep ==
  ASSUME WsInv, NEW s \in Slots,
         SaveOpens(s) \/ SaveFills(s) \/ RenameFails(s) \/ WriteFails(s)
  PROVE  WsInv'
<1>. USE WorkspaceSavesAssumption
<1>1. s \in Saving
  BY DEF SaveOpens, SaveFills, RenameFails, WriteFails, SaveAt, Saving
<1>2. saves[s] \in SaveType /\ alive = TRUE /\ LoneSave(s) /\ saves[s] # NoSave
  BY <1>1, SaveTypes DEF Saving
<1>3. \A r \in Saving \ {s} : spoiled = TRUE
  BY <1>1, OthersSpoil
<1>4. CASE SaveOpens(s)
  <2> DEFINE v == [saves[s] EXCEPT !.pc = "opened", !.fd = "tmp"]
  <2>1. /\ v \in SaveType /\ v # NoSave /\ v.pc = "opened" /\ v.fd = "tmp"
        /\ v.alone = saves[s].alone /\ v.snap = saves[s].snap
    BY <1>2 DEF SaveType, NoSave
  <2>2. saves' = [saves EXCEPT ![s] = v]
    BY <1>4, SaveTypes DEF SaveOpens
  <2>3. LoneSave(s)'
    <3>1. saves'[s] = v
      BY <2>2, SaveTypes
    <3>2. Saving' = Saving
      BY <2>1, <2>2, <1>1, SaveTypes DEF Saving
    <3>. QED
      BY <3>1, <3>2, <2>1, <1>2, <1>4 DEF LoneSave, SaveOpens, SaveAt
  <2>a. (spoiled => spoiled') /\ spoiled' = spoiled /\ UNCHANGED <<timer, open>>
    BY <1>4 DEF SaveOpens
  <2>b. \A r \in Saving \ {s} : spoiled'
    BY <1>3, <2>a
  <2> HIDE DEF v
  <2>4. SavesOK' /\ Saving' = Saving
    BY <1>1, <2>1, <2>2, <2>3, <2>a, <2>b, OneSave
  <2>5. QuietIsStored' /\ FileIsWhole'
    BY <1>1, <1>4, <2>4 DEF QuietIsStored, FileIsWhole, WsInv, SaveOpens
  <2>6. saves' \in [Slots -> {NoSave} \cup SaveType]
    BY <2>1, <2>2, SaveTypes
  <2>. QED
    BY <1>2, <1>4, <2>4, <2>5, <2>6, SaveTypes, SaveSteps DEF SaveOpens
<1>5. CASE SaveFills(s)
  <2> DEFINE v == [saves[s] EXCEPT !.pc = "filled"]
  <2>1. /\ v \in SaveType /\ v # NoSave /\ v.pc = "filled" /\ v.fd = saves[s].fd
        /\ v.alone = saves[s].alone /\ v.snap = saves[s].snap
    BY <1>2 DEF SaveType, NoSave
  <2>2. saves' = [saves EXCEPT ![s] = v]
    BY <1>5, SaveTypes DEF SaveFills
  <2>3. LoneSave(s)'
    <3>1. saves'[s] = v
      BY <2>2, SaveTypes
    <3>2. Saving' = Saving
      BY <2>1, <2>2, <1>1, SaveTypes DEF Saving
    <3>. QED
      BY <3>1, <3>2, <2>1, <1>2, <1>5 DEF LoneSave, SaveFills, SaveAt
  <2>a. (spoiled => spoiled') /\ spoiled' = spoiled /\ UNCHANGED <<timer, open>>
    BY <1>5 DEF SaveFills
  <2>b. \A r \in Saving \ {s} : spoiled'
    BY <1>3, <2>a
  <2> HIDE DEF v
  <2>4. SavesOK' /\ Saving' = Saving
    BY <1>1, <2>1, <2>2, <2>3, <2>a, <2>b, OneSave
  <2>5. saves[s].snap \in Snapshots /\ saves[s].snap # Torn
    BY <1>2 DEF SaveType, Snapshots
  <2>6. QuietIsStored' /\ FileIsWhole'
    BY <1>1, <1>5, <2>4, <2>5 DEF QuietIsStored, FileIsWhole, WsInv, SaveFills
  <2>7. saves' \in [Slots -> {NoSave} \cup SaveType]
    BY <2>1, <2>2, SaveTypes
  <2>8. tmp' \in {None, Torn} \cup Snapshots /\ disk' \in {None, Torn} \cup Snapshots
    BY <1>5, <2>5, SaveTypes DEF SaveFills
  <2>. QED
    BY <1>2, <1>5, <2>4, <2>6, <2>7, <2>8, SaveTypes, SaveSteps DEF SaveFills
<1>6. CASE RenameFails(s)
  <2> DEFINE v == [saves[s] EXCEPT !.pc = "undo"]
  <2>1. /\ v \in SaveType /\ v # NoSave /\ v.pc = "undo" /\ v.fd = saves[s].fd
        /\ v.alone = saves[s].alone /\ v.snap = saves[s].snap
    BY <1>2 DEF SaveType, NoSave
  <2>2. saves' = [saves EXCEPT ![s] = v]
    BY <1>6, SaveTypes DEF RenameFails
  <2>3. LoneSave(s)'
    <3>1. saves'[s] = v
      BY <2>2, SaveTypes
    <3>2. Saving' = Saving
      BY <2>1, <2>2, <1>1, SaveTypes DEF Saving
    <3>. QED
      BY <3>1, <3>2, <2>1, <1>2, <1>6 DEF LoneSave, RenameFails, SaveAt
  <2>4. SavesOK' /\ Saving' = Saving
    BY <1>1, <1>6, <2>1, <2>2, <2>3, OneSave DEF RenameFails
  <2>5. QuietIsStored' /\ FileIsWhole'
    BY <1>1, <1>6, <2>4 DEF QuietIsStored, FileIsWhole, RenameFails
  <2>6. saves' \in [Slots -> {NoSave} \cup SaveType]
    BY <2>1, <2>2, SaveTypes
  <2>. QED
    BY <1>2, <1>6, <2>4, <2>5, <2>6, SaveTypes, SaveSteps DEF RenameFails
<1>7. CASE WriteFails(s)
  <2>1. SavesOK'
    BY <1>1, <1>7, OneSave DEF WriteFails
  <2>2. QuietIsStored' /\ FileIsWhole'
    BY <1>7 DEF QuietIsStored, FileIsWhole, WriteFails
  <2>3. saves' \in [Slots -> {NoSave} \cup SaveType]
    BY <1>7, SaveTypes DEF WriteFails
  <2>. QED
    BY <1>2, <1>7, <2>1, <2>2, <2>3, SaveTypes, SaveSteps DEF WriteFails
<1>. QED
  BY <1>4, <1>5, <1>6, <1>7

\* Whoever ends a save under the names of the others leaves them not alone.
LEMMA RenamedKeeps ==
  ASSUME WsInv, NEW s \in Saving, NEW fd \in [{"none", "tmp", "file", "gone"} ->
                                              {"none", "tmp", "file", "gone"}],
         saves' = Renamed(s, fd), UNCHANGED <<timer, open>>, Saving # {s} => spoiled'
  PROVE  SavesOK' /\ Saving' = Saving \ {s} /\ saves' \in [Slots -> {NoSave} \cup SaveType]
<1>1. \A r \in Saving \ {s} :
        /\ r \in Slots /\ saves'[r] \in SaveType /\ ~saves'[r].alone /\ saves'[r] # NoSave
  <2>1. TAKE r \in Saving \ {s}
  <2>2. r \in Slots /\ saves[r] \in SaveType /\ ~saves[r].alone
    BY SaveTypes DEF Saving, LoneSave
  <2>3. saves'[r] = [saves[r] EXCEPT !.fd = fd[@]]
    BY <2>2 DEF Renamed
  <2>. QED
    BY <2>2, <2>3 DEF SaveType, NoSave
<1>2. s \in Slots /\ \A r \in Slots : r = s \/ r \notin Saving => saves'[r] = NoSave
  BY DEF Renamed, Saving
<1>3. Saving' = Saving \ {s}
  BY <1>1, <1>2 DEF Saving
<1>4. SavesOK'
  BY <1>1, <1>3 DEF SavesOK, LoneSave
<1>5. \A r \in Slots : saves'[r] \in {NoSave} \cup SaveType
  BY <1>1, <1>2
<1>6. saves' \in [Slots -> {NoSave} \cup SaveType]
  BY <1>5 DEF Renamed
<1>. QED
  BY <1>3, <1>4, <1>6

LEMMA SaveEndsKeep ==
  ASSUME WsInv, NEW s \in Slots, SaveRenames(s) \/ SaveRemoves(s)
  PROVE  WsInv'
<1>. USE WorkspaceSavesAssumption
<1>1. s \in Saving
  BY DEF SaveRenames, SaveRemoves, SaveAt, Saving
<1>2. saves[s] \in SaveType /\ alive = TRUE /\ LoneSave(s)
  BY <1>1, SaveTypes
<1>3. Saving # {s} => spoiled = TRUE /\ ~saves[s].alone
  BY <1>1, <1>2, OthersSpoil DEF LoneSave
<1>4. CASE SaveRenames(s)
  <2>1. AfterRename \in [{"none", "tmp", "file", "gone"} -> {"none", "tmp", "file", "gone"}]
    BY DEF AfterRename
  <2>2. SavesOK' /\ Saving' = Saving \ {s} /\ saves' \in [Slots -> {NoSave} \cup SaveType]
    BY <1>1, <1>3, <1>4, <2>1, RenamedKeeps DEF SaveRenames
  <2>3. CASE saves[s].alone
    <3>1. /\ tmp = saves[s].snap /\ saves[s].snap \in Snapshots
          /\ timer = None => saves[s].snap = open
      BY <1>2, <1>4, <2>3 DEF LoneSave, SaveRenames, SaveAt, SaveType
    <3>2. disk' = saves[s].snap /\ disk' # Torn /\ disk' # None
      BY <3>1, <1>4 DEF SaveRenames, Snapshots
    <3>. QED
      BY <1>2, <1>4, <2>2, <3>1, <3>2, SaveTypes, SaveSteps
         DEF SaveRenames, QuietIsStored, FileIsWhole, Stored
  <2>4. CASE ~saves[s].alone
    <3>1. spoiled = TRUE /\ spoiled' = TRUE
      BY <1>2, <1>4, <2>4, SaveTypes DEF LoneSave, SaveRenames
    <3>. QED
      BY <1>2, <1>4, <2>2, <3>1, SaveTypes, SaveSteps
         DEF SaveRenames, QuietIsStored, FileIsWhole
  <2>. QED
    BY <2>3, <2>4
<1>5. CASE SaveRemoves(s)
  <2>1. AfterRemove \in [{"none", "tmp", "file", "gone"} -> {"none", "tmp", "file", "gone"}]
    BY DEF AfterRemove
  <2>2. spoiled = TRUE /\ spoiled' = TRUE
    BY <1>2, <1>5, SaveTypes DEF LoneSave, SaveRemoves, SaveAt
  <2>3. SavesOK' /\ saves' \in [Slots -> {NoSave} \cup SaveType]
    BY <1>1, <1>5, <2>1, <2>2, RenamedKeeps DEF SaveRemoves
  <2>. QED
    BY <1>2, <1>5, <2>2, <2>3, SaveTypes, SaveSteps
       DEF SaveRemoves, QuietIsStored, FileIsWhole
<1>. QED
  BY <1>4, <1>5

LEMMA WsStutter == ASSUME WsInv, UNCHANGED wsVars PROVE WsInv'
BY DEF wsVars, WsInv, WsTypeOK, DownIsQuiet, ReadingOK, TimerIsLatest, SavesOK, LoneSave,
   Saving, QuietIsStored, FileIsWhole, NothingForgotten, Reached, Unread, Stored

LEMMA WsStep == ASSUME WsInv, WsNext PROVE WsInv'
<1>1. CASE LoadReads \/ LoadFails
  BY <1>1, SnapshotKeeps, ListTypes DEF LoadReads, LoadFails
<1>. QED
  BY <1>1, StartKeeps, EndKeeps, HostsKeep, RemoveEndsKeeps, RestoreKeeps, EditsKeep,
     TimerKeeps, SaveWritesKeep, SaveEndsKeep DEF WsNext

(* The invariant holds of every behaviour of the stored workspace.         *)
THEOREM WorkspaceInvariant == WsSpec => []WsInv
<1>1. WsInv /\ [WsNext]_wsVars => WsInv'
  BY WsStep, WsStutter
<1>. QED
  BY <1>1, WsInitInv, PTL DEF WsSpec

(* What the stored workspace promises, WorkspaceSafe, holds of every       *)
(* behaviour: tabs are not forgotten but in the named losses, what is      *)
(* shown is what is stored when the saving rests, and the file is whole.   *)
THEOREM WorkspaceIsSafe == WsSpec => []WorkspaceSafe
<1>1. WsInv => WorkspaceSafe
  BY DEF WsInv, WorkspaceSafe, QuietIsStored, RestIsStored, Behind
<1>. QED
  BY <1>1, WorkspaceInvariant, PTL
=============================================================================
