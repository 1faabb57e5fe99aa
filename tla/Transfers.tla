------------------------------ MODULE Transfers ------------------------------
(* SFTP transfers: the queue of the front end with its three slots         *)
(* (useSftpTransferQueue.ts), the calls and the progress events between it *)
(* and the transfers of the back end, and their table of cancel functions  *)
(* (src/internal/sftp).                                                    *)
(*                                                                         *)
(* Bytes are left out: a transfer copies chunks, and looks at its context  *)
(* before each one. The events of a task and the result of its call come   *)
(* to the front end in the order in which the back end sent them.          *)
EXTENDS Naturals, Sequences, FiniteSets

CONSTANTS
  Tasks,          \* rows of the queue
  Folders,        \* those that transfer a directory of several files
  MaxConcurrent,  \* MAX_CONCURRENT of the queue
  MaxWire         \* bound: undelivered messages of one task

ASSUME TransfersAssumption ==
  /\ IsFiniteSet(Tasks) /\ Folders \subseteq Tasks
  /\ MaxConcurrent \in Nat \ {0}
  /\ MaxWire \in Nat \ {0}

VARIABLES
  task,        \* task[t]: the state shown for it, "none" before, "cleared" after
  starting,    \* startingRef: tasks whose call has not returned
  cancelled,   \* cancelledRef
  timers,      \* setTimeout callbacks due: "pump", "end" (of a run)
  call,        \* call[t]: none, sent, bound (in m.cancels), lastRead, ok, failed
  ctx,         \* ctx[t]: "live", "cancelled" by a cancel that found t bound
  cancelCall,  \* cancelCall[t]: a CancelSFTPTask is on its way
  wire,        \* wire[t]: messages on their way to the front end
  refreshDue   \* a run has ended and onIdle has not run since

xferVars ==
  <<task, starting, cancelled, timers, call, ctx, cancelCall, wire, refreshDue>>

XferTypeOK ==
  /\ task \in [Tasks -> {"none", "queued", "running", "done", "error", "cancelled", "cleared"}]
  /\ starting \subseteq Tasks /\ cancelled \subseteq Tasks
  /\ timers \subseteq {"pump", "end"}
  /\ call \in [Tasks -> {"none", "sent", "bound", "lastRead", "ok", "failed"}]
  /\ ctx \in [Tasks -> {"live", "cancelled"}]
  /\ cancelCall \in [Tasks -> BOOLEAN]
  /\ wire \in [Tasks -> Seq({"running", "done", "error", "ok", "failed"})]
  /\ \A t \in Tasks : Len(wire[t]) <= MaxWire
  /\ refreshDue \in BOOLEAN

XferInit ==
  /\ task = [t \in Tasks |-> "none"]
  /\ starting = {} /\ cancelled = {} /\ timers = {}
  /\ call = [t \in Tasks |-> "none"] /\ ctx = [t \in Tasks |-> "live"]
  /\ cancelCall = [t \in Tasks |-> FALSE]
  /\ wire = [t \in Tasks |-> <<>>]
  /\ refreshDue = FALSE

backVars == <<call, ctx, wire>>
frontVars == <<task, starting, cancelled, timers, refreshDue>>

Busy == starting # {} \/ \E t \in Tasks : task[t] \in {"queued", "running"}
-----------------------------------------------------------------------------
(* The queue.                                                              *)
Enqueue(t) ==
  /\ task[t] = "none"
  /\ task' = [task EXCEPT ![t] = "queued"]
  /\ timers' = timers \cup {"pump"}
  /\ UNCHANGED <<starting, cancelled, cancelCall, refreshDue, backVars>>

\* countInFlight: a cancelled transfer keeps its slot until its call returns.
InFlight_Shown == {t \in Tasks : task[t] = "running"}
InFlight == {t \in Tasks : task[t] = "running"} \cup starting

\* pump fills the free slots with queued tasks and calls the back end for each.
Starts(S) ==
  /\ S \subseteq {t \in Tasks : task[t] = "queued"}
  /\ Cardinality(S) + Cardinality(InFlight) <= MaxConcurrent \/ S = {}
  /\ \A t \in Tasks \ S : task[t] = "queued" =>
       Cardinality(S) + Cardinality(InFlight) >= MaxConcurrent

RunTimer(k) ==
  /\ k \in timers
  /\ timers' = timers \ {k}
  /\ \E S \in SUBSET Tasks :
       /\ Starts(S)
       /\ starting' = starting \cup S
       /\ task' = [t \in Tasks |-> IF t \in S THEN "running" ELSE task[t]]
       /\ call' = [t \in Tasks |-> IF t \in S THEN "sent" ELSE call[t]]
       /\ refreshDue' = (refreshDue /\ (k = "pump" \/ Busy \/ S # {}))
  /\ UNCHANGED <<cancelled, ctx, cancelCall, wire>>

CancelTask(t) ==
  /\ task[t] \in {"queued", "running"}
  /\ task' = [task EXCEPT ![t] = "cancelled"]
  /\ timers' = timers \cup {"pump"}
  /\ IF task[t] = "queued"
       THEN UNCHANGED <<cancelled, cancelCall>>
       ELSE /\ cancelled' = cancelled \cup {t}
            /\ cancelCall' = [cancelCall EXCEPT ![t] = TRUE]
  /\ UNCHANGED <<starting, refreshDue, backVars>>

ClearFinished ==
  LET finished == {t \in Tasks : task[t] \in {"done", "error", "cancelled"}}
  IN  /\ finished # {}
      /\ task' = [t \in Tasks |-> IF t \in finished THEN "cleared" ELSE task[t]]
      /\ UNCHANGED <<starting, cancelled, timers, cancelCall, refreshDue, backVars>>

\* The listener of sftp:progress ignores cancelled and unknown tasks.
DeliverEvent(t) ==
  /\ wire[t] # <<>> /\ Head(wire[t]) \in {"running", "done", "error"}
  /\ wire' = [wire EXCEPT ![t] = Tail(@)]
  /\ task' = IF t \in cancelled \/ task[t] \in {"cancelled", "cleared"} THEN task
             ELSE [task EXCEPT ![t] = Head(wire[t])]
  /\ UNCHANGED <<starting, cancelled, timers, call, ctx, cancelCall, refreshDue>>

\* The call returns: the state is set, the slot is free, a timer pumps again.
DeliverResult(t) ==
  /\ wire[t] # <<>> /\ Head(wire[t]) \in {"ok", "failed"}
  /\ wire' = [wire EXCEPT ![t] = Tail(@)]
  /\ task' = IF task[t] = "cleared" THEN task
             ELSE [task EXCEPT ![t] = IF t \in cancelled THEN "cancelled"
                                      ELSE IF Head(wire[t]) = "ok" THEN "done" ELSE "error"]
  /\ starting' = starting \ {t}
  /\ timers' = timers \cup {"end"} /\ refreshDue' = TRUE
  /\ UNCHANGED <<cancelled, call, ctx, cancelCall>>
-----------------------------------------------------------------------------
(* The back end.                                                           *)
BackStep(t, from, to, messages) ==
  /\ call[t] = from
  /\ Len(wire[t]) + Len(messages) <= MaxWire
  /\ call' = [call EXCEPT ![t] = to]
  /\ wire' = [wire EXCEPT ![t] = @ \o messages]
  /\ UNCHANGED <<ctx, cancelCall, frontVars>>

\* bindTransferCtx comes first. A closed session or a missing path is an error
\* without an event, a file that cannot be copied one with it.
BindContext(t) == BackStep(t, "sent", "bound", <<>>)
TransferFails(t) == \E m \in {<<"failed">>, <<"error", "failed">>} : BackStep(t, "bound", "failed", m)

\* One chunk or one file: the context is looked at, then the event is sent.
CopyChunk(t) == ctx[t] = "live" /\ BackStep(t, "bound", "bound", <<"running">>)
FolderFileDone(t) == t \in Folders /\ ctx[t] = "live" /\ BackStep(t, "bound", "bound", <<"done">>)
CopySeesCancel(t) ==
  ctx[t] = "cancelled" /\ BackStep(t, "bound", "failed", <<"error", "failed">>)

\* The read that meets the end of the last file: no look at the context follows.
LastRead(t) == ctx[t] = "live" /\ BackStep(t, "bound", "lastRead", <<>>)
TransferEnds(t) == BackStep(t, "lastRead", "ok", <<"done", "ok">>)

\* CancelTransfer: it finds the cancel function, or tells nobody that it did not.
CancelArrives(t) ==
  /\ cancelCall[t]
  /\ cancelCall' = [cancelCall EXCEPT ![t] = FALSE]
  /\ ctx' = IF call[t] = "bound" THEN [ctx EXCEPT ![t] = "cancelled"] ELSE ctx
  /\ UNCHANGED <<call, wire, frontVars>>
-----------------------------------------------------------------------------
XferNext ==
  \/ ClearFinished
  \/ \E k \in {"pump", "end"} : RunTimer(k)
  \/ \E t \in Tasks :
       \/ Enqueue(t) \/ CancelTask(t) \/ DeliverEvent(t) \/ DeliverResult(t)
       \/ BindContext(t) \/ TransferFails(t) \/ CopyChunk(t) \/ FolderFileDone(t)
       \/ CopySeesCancel(t) \/ LastRead(t) \/ TransferEnds(t) \/ CancelArrives(t)

XferSpec == XferInit /\ [][XferNext]_xferVars
-----------------------------------------------------------------------------
\* No more transfers run than there are slots, those included that the user
\* cancelled and that are still copying, and those shown done too early.
SlotsBounded ==
  Cardinality({t \in Tasks : call[t] \in {"sent", "bound", "lastRead"}}) <= MaxConcurrent

\* A file that is shown as done has arrived, and one shown as failed has not
\* (of a folder the events of its files say so before it is).
ShownAsItIs ==
  \A t \in Tasks \ Folders :
    /\ task[t] = "done" => call[t] = "ok"
    /\ task[t] = "error" => call[t] = "failed"

\* A transfer that was cancelled after its context was bound, and before its
\* last look at it, does not arrive; a cancel outside that time is lost.
CancelWorksOnceBound ==
  \A t \in Tasks : ctx[t] = "cancelled" => call[t] # "ok"

\* A run that has ended is followed by onIdle, which refreshes the listing: the
\* queue never comes to rest without it.
IdleIsReported == refreshDue => Busy \/ timers # {}

\* What the queue promises to its user.
TransfersSafe == SlotsBounded /\ ShownAsItIs /\ CancelWorksOnceBound /\ IdleIsReported

\* Every task leaves the queue: it is done, failed, cancelled or cleared.
TransfersDrain ==
  \A t \in Tasks : task[t] \in {"queued", "running"} ~> task[t] \notin {"queued", "running"}
=============================================================================
