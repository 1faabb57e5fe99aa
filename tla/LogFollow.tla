------------------------------ MODULE LogFollow ------------------------------
(* Following a log: the poll loop of the back end (src/internal/app/       *)
(* log_follow.go), the diff of successive tails (src/internal/logs), and   *)
(* the view that puts the chunks together (LogCenterWorkbench.tsx).        *)
(*                                                                         *)
(* A log is a sequence of whole lines, none of them blank or a prefix of   *)
(* another one; the empty sequence stands for the empty text. A read that  *)
(* fails sends its error, which the view shows between the lines: here it  *)
(* is a chunk without a line.                                              *)
EXTENDS Naturals, Sequences, FiniteSets, SequencesExt

CONSTANTS
  Lines,       \* contents of log lines
  TailCount,   \* lines the user asked for
  Streams,     \* streams, numbered in the order of their starts
  MaxWrites,   \* bound: lines written
  MaxChunks    \* bound: chunks of a stream on their way

ASSUME LogAssumption ==
  /\ TailCount \in Nat \ {0} /\ MaxWrites \in Nat /\ MaxChunks \in Nat \ {0}
  /\ Streams \subseteq Nat

VARIABLES
  log,       \* the file
  history,   \* all that was ever written, to rotated files too
  follower,  \* follower[s]: "none", "running", "cancelled", "ended"
  prev,      \* prev[s]: the tail of the last poll
  wire,      \* wire[s]: chunks on their way to the view
  view,      \* view[s]: "none", "asked", "abandoned", "followed", "left"
  shown,     \* lines of the view
  synced     \* the last text put in place of the view's was a reset of its stream

logVars == <<log, history, follower, prev, wire, view, shown, synced>>
streamVars == <<follower, prev, wire>>
viewVars == <<view, shown, synced>>

LogTypeOK ==
  /\ Range(history) \subseteq Lines /\ Len(history) <= MaxWrites
  /\ IsSuffix(log, history)
  /\ follower \in [Streams -> {"none", "running", "cancelled", "ended"}]
  /\ view \in [Streams -> {"none", "asked", "abandoned", "followed", "left"}]
  /\ \A s \in Streams : /\ Range(prev[s]) \subseteq Lines /\ Len(prev[s]) <= TailCount
                        /\ Len(wire[s]) <= MaxChunks
  /\ Range(shown) \subseteq Lines
  /\ synced \in BOOLEAN

LogInit ==
  /\ log = <<>> /\ history = <<>>
  /\ follower = [s \in Streams |-> "none"]
  /\ prev = [s \in Streams |-> <<>>] /\ wire = [s \in Streams |-> <<>>]
  /\ view = [s \in Streams |-> "none"]
  /\ shown = <<>> /\ synced = FALSE
-----------------------------------------------------------------------------
(* The file.                                                               *)
WriteLine(x) ==
  /\ Len(history) < MaxWrites
  /\ log' = Append(log, x) /\ history' = Append(history, x)
  /\ UNCHANGED <<streamVars, viewVars>>

RotateLog ==
  /\ log # <<>> /\ log' = <<>>
  /\ UNCHANGED <<history, streamVars, viewVars>>

LastLines(text, n) == SubSeq(text, Len(text) - n + 1, Len(text))
TakeLineWindow_OneMore == LastLines(log, IF Len(log) <= TailCount THEN Len(log) ELSE TailCount + 1)
TakeLineWindow == LastLines(log, IF Len(log) < TailCount THEN Len(log) ELSE TailCount)
-----------------------------------------------------------------------------
(* The diff: what the view has to append to old to show full, or full in   *)
(* place of it.                                                            *)
Overlaps(old, full) ==
  {k \in 1..Len(full) : k <= Len(old) /\ LastLines(old, k) = SubSeq(full, 1, k)}

DiffAppend_NoReset(old, full) ==
  LET kept == Max(Overlaps(old, full) \cup {0})
  IN  [reset |-> old = <<>>, text |-> SubSeq(full, kept + 1, Len(full))]
DiffAppend(old, full) ==
  IF old = <<>> \/ Overlaps(old, full) = {}
    THEN [reset |-> TRUE, text |-> full]
    ELSE [reset |-> FALSE, text |-> SubSeq(full, Max(Overlaps(old, full)) + 1, Len(full))]

\* emit drops an empty chunk; nothing is sent for an empty log at first.
Emitted(old, chunk) ==
  IF chunk.text = <<>> /\ (~chunk.reset \/ old = <<>>) THEN <<>> ELSE <<chunk>>

Send(s, chunks) ==
  /\ Len(wire[s]) + Len(chunks) <= MaxChunks
  /\ wire' = [wire EXCEPT ![s] = @ \o chunks]
-----------------------------------------------------------------------------
(* The follower of a stream.                                               *)
Poll(s) ==
  /\ follower[s] = "running"
  /\ Send(s, Emitted(prev[s], DiffAppend(prev[s], TakeLineWindow)))
  /\ prev' = [prev EXCEPT ![s] = TakeLineWindow]
  /\ UNCHANGED <<log, history, follower, viewVars>>

ErrorChunk == [reset |-> FALSE, text |-> <<>>]

PollFails(s) ==
  /\ follower[s] = "running" /\ Send(s, <<ErrorChunk>>)
  /\ UNCHANGED <<log, history, follower, prev, viewVars>>

\* A read that Stop has cancelled sends its error before the loop ends.
FollowerEnds(s) ==
  /\ follower[s] = "cancelled"
  /\ follower' = [follower EXCEPT ![s] = "ended"]
  /\ \E chunks \in {<<>>, <<ErrorChunk>>} : Send(s, chunks)
  /\ UNCHANGED <<log, history, prev, viewVars>>
-----------------------------------------------------------------------------
(* The view.                                                               *)
Following(s) == view[s] \in {"asked", "followed"}

\* A refresh may come while the view follows: chunks are then appended to a tail
\* that is not that of the follower, until the next reset.
FetchTail ==
  /\ shown' = TakeLineWindow /\ synced' = FALSE
  /\ UNCHANGED <<log, history, streamVars, view>>

\* Start runs the follower at once; its id comes to the view with the answer.
StartFollow(s) ==
  /\ view[s] = "none" /\ \A r \in Streams : r < s => view[r] # "none"
  /\ \A r \in Streams : ~Following(r)
  /\ view' = [view EXCEPT ![s] = "asked"]
  /\ follower' = [follower EXCEPT ![s] = "running"]
  /\ synced' = FALSE
  /\ UNCHANGED <<log, history, prev, wire, shown>>

StopsBack(s) == follower' = [follower EXCEPT ![s] = "cancelled"]

StartResolves(s) ==
  /\ \/ view[s] = "asked" /\ view' = [view EXCEPT ![s] = "followed"] /\ UNCHANGED follower
     \/ view[s] = "abandoned" /\ view' = [view EXCEPT ![s] = "left"] /\ StopsBack(s)
  /\ UNCHANGED <<log, history, prev, wire, shown, synced>>

StopFollow(s) ==
  /\ \/ view[s] = "asked" /\ view' = [view EXCEPT ![s] = "abandoned"] /\ UNCHANGED follower
     \/ view[s] = "followed" /\ view' = [view EXCEPT ![s] = "left"] /\ StopsBack(s)
  /\ UNCHANGED <<log, history, prev, wire, shown, synced>>

\* A chunk of a stream that is not followed, or not yet, is dropped.
DeliverChunk(s) ==
  /\ wire[s] # <<>>
  /\ wire' = [wire EXCEPT ![s] = Tail(@)]
  /\ LET chunk == Head(wire[s]) IN
     IF view[s] # "followed" THEN UNCHANGED <<shown, synced>>
     ELSE /\ shown' = IF chunk.reset THEN chunk.text ELSE shown \o chunk.text
          /\ synced' = (synced \/ chunk.reset)
  /\ UNCHANGED <<log, history, follower, prev, view>>

LogNext ==
  \/ RotateLog \/ FetchTail
  \/ \E x \in Lines : WriteLine(x)
  \/ \E s \in Streams :
       \/ Poll(s) \/ PollFails(s) \/ FollowerEnds(s)
       \/ StartFollow(s) \/ StartResolves(s) \/ StopFollow(s) \/ DeliverChunk(s)

LogSpec == LogInit /\ [][LogNext]_logVars

\* Reads of a followed log succeed again and again, and chunks arrive.
LogFairness == \A s \in Streams : SF_logVars(Poll(s)) /\ WF_logVars(DeliverChunk(s))
-----------------------------------------------------------------------------
\* Once the view has applied a reset of its stream, and all chunks, it ends with
\* the tail of the last poll, whatever was rotated or scrolled away; unless the
\* user has refreshed it since.
ViewEndsWithTail ==
  \A s \in Streams :
    (view[s] = "followed" /\ synced /\ wire[s] = <<>>) => IsSuffix(prev[s], shown)

\* When no two lines are equal the view then has no gap and no repetition: it is
\* a contiguous part of what was written. (Equal lines can hide a gap, and a view
\* that missed the first reset of its stream has one.)
NoGap ==
  (IsInjective(history) /\ synced) =>
    \E i \in 1..(Len(history) + 1), j \in 0..Len(history) : shown = SubSeq(history, i, j)

\* A follower that the view has left, or has never taken, is stopped.
LeftIsStopped == \A s \in Streams : view[s] = "left" => follower[s] \in {"cancelled", "ended"}

\* What following a log promises.
LogFollowSafe == ViewEndsWithTail /\ NoGap /\ LeftIsStopped

\* A view that follows and has been reset has caught up with the log.
ViewCaughtUp ==
  \A s \in Streams : (view[s] = "followed" /\ synced) => IsSuffix(TakeLineWindow, shown)
=============================================================================
