----------------------------- MODULE Terminals -----------------------------
(* Terminal sessions: the pump that reads a shell, the output tail it      *)
(* fills, the tool calls that wait for output and page through it, and the *)
(* two ways a session ends (src/internal/terminal).                        *)
(*                                                                         *)
(* A line of output is its number in the stream. Escape sequences, blank   *)
(* lines at the ends and the bytes of a line are left out; the tail of a   *)
(* session is then the interval cut+1 .. lines, and its generation is the  *)
(* number of appends, which is lines as well.                              *)
EXTENDS Naturals

CONSTANTS
  Shells,      \* terminal sessions
  Readers,     \* calls of get_shell_output
  MaxLines,    \* bound: lines a shell prints
  TailLines,   \* the tail is cut when it holds more (maxTailBytes)
  PageLines,   \* lines of one page (ShellTailLines)
  Retries,     \* pumpTransientRetries
  MaxSeconds   \* bound: seconds of the clock

ASSUME TerminalsAssumption ==
  /\ Shells # {}
  /\ MaxLines \in Nat
  /\ TailLines \in Nat \ {0}
  /\ PageLines \in Nat \ {0}
  /\ Retries \in Nat
  /\ MaxSeconds \in Nat \ {0}

VARIABLES
  shell,     \* shell[s]: unopened, open (in the table), closing, closed
  closers,   \* closers[s]: who found s in the table: "user", "pump"
  pump,      \* pump[s]: transient read errors in a row, or Ended
  lines,     \* lines[s]: lines printed so far
  cut,       \* cut[s]: lines the tail has dropped
  at,        \* at[s]: second of the last append, 0 for none
  now,       \* the clock, in whole seconds as Unix() gives it
  reader     \* reader[r]: one tool call after the other

termVars == <<shell, closers, pump, lines, cut, at, now, reader>>

Ended == Retries + 1

Idle == [pc |-> "idle", of |-> CHOOSE s \in Shells : TRUE, seen |-> 0,
         seenAt |-> 0, gen |-> 0, offset |-> 0, low |-> 0, joined |-> TRUE]

TermTypeOK ==
  /\ shell \in [Shells -> {"unopened", "open", "closing", "closed"}]
  /\ closers \in [Shells -> SUBSET {"user", "pump"}]
  /\ pump \in [Shells -> 0..Ended]
  /\ lines \in [Shells -> 0..MaxLines]
  /\ cut \in [Shells -> 0..MaxLines]
  /\ at \in [Shells -> 0..MaxSeconds]
  /\ now \in 1..MaxSeconds
  /\ reader \in [Readers ->
       [pc : {"idle", "resolved", "metaRead", "waiting", "woken"}, of : Shells,
        seen : 0..MaxLines, seenAt : 0..MaxSeconds, gen : 0..MaxLines,
        offset : 0..MaxLines, low : 0..(MaxLines + 1), joined : BOOLEAN]]

TermInit ==
  /\ shell = [s \in Shells |-> "unopened"]
  /\ closers = [s \in Shells |-> {}]
  /\ pump = [s \in Shells |-> 0]
  /\ lines = [s \in Shells |-> 0]
  /\ cut = [s \in Shells |-> 0]
  /\ at = [s \in Shells |-> 0]
  /\ now = 1
  /\ reader = [r \in Readers |-> Idle]
-----------------------------------------------------------------------------
(* Sessions and their pump.                                                *)
OpenShell(s) ==
  /\ shell[s] = "unopened"
  /\ shell' = [shell EXCEPT ![s] = "open"]
  /\ UNCHANGED <<closers, pump, lines, cut, at, now, reader>>

TermTick ==
  /\ now < MaxSeconds
  /\ now' = now + 1
  /\ UNCHANGED <<shell, closers, pump, lines, cut, at, reader>>

\* A waiter whose channel is in the list gets a token and leaves the list.
Woken(s, r) == reader[r].pc = "waiting" /\ reader[r].of = s

WakeWaiters(s) ==
  [r \in Readers |-> IF Woken(s, r) THEN [reader[r] EXCEPT !.pc = "woken"]
                                    ELSE reader[r]]

\* The tail keeps the newer half when it overflows.
CutAfter(s, n) == IF n - cut[s] > TailLines THEN n - TailLines \div 2 ELSE cut[s]

PumpOutput(s) ==
  /\ shell[s] = "open" /\ pump[s] # Ended
  /\ lines[s] < MaxLines
  /\ lines' = [lines EXCEPT ![s] = @ + 1]
  /\ cut' = [cut EXCEPT ![s] = CutAfter(s, lines[s] + 1)]
  /\ at' = [at EXCEPT ![s] = now]
  /\ pump' = [pump EXCEPT ![s] = 0]
  /\ reader' = WakeWaiters(s)
  /\ UNCHANGED <<shell, closers, now>>

PumpRetries_Forever(s) ==
  /\ shell[s] = "open"
  /\ pump' = [pump EXCEPT ![s] = @ + 1]
  /\ UNCHANGED <<shell, closers, lines, cut, at, now, reader>>
PumpRetries(s) ==
  /\ shell[s] = "open" /\ pump[s] \in 0..(Retries - 1)
  /\ pump' = [pump EXCEPT ![s] = @ + 1]
  /\ UNCHANGED <<shell, closers, lines, cut, at, now, reader>>

\* finish: the peer closed the stream, or the session's own cleanup did.
FinishShell(s) ==
  /\ shell[s] # "unopened" /\ pump[s] # Ended
  /\ pump' = [pump EXCEPT ![s] = Ended]
  /\ IF shell[s] = "open"
       THEN /\ shell' = [shell EXCEPT ![s] = "closing"]
            /\ closers' = [closers EXCEPT ![s] = @ \cup {"pump"}]
       ELSE UNCHANGED <<shell, closers>>
  /\ UNCHANGED <<lines, cut, at, now, reader>>

CloseShell(s) ==
  /\ shell[s] = "open"
  /\ shell' = [shell EXCEPT ![s] = "closing"]
  /\ closers' = [closers EXCEPT ![s] = @ \cup {"user"}]
  /\ UNCHANGED <<pump, lines, cut, at, now, reader>>

CleanupShell(s) ==
  /\ shell[s] = "closing"
  /\ shell' = [shell EXCEPT ![s] = "closed"]
  /\ UNCHANGED <<closers, pump, lines, cut, at, now, reader>>
-----------------------------------------------------------------------------
(* get_shell_output: wait, then read a page.                               *)
SetReader(r, rec) ==
  /\ reader' = [reader EXCEPT ![r] = rec]
  /\ UNCHANGED <<shell, closers, pump, lines, cut, at, now>>

\* The page of s that ends offset lines before its newest line.
PageEnd(s, offset) == IF lines[s] - cut[s] > offset THEN lines[s] - offset ELSE cut[s]
PageStart(s, offset) ==
  LET end == PageEnd(s, offset)
  IN  IF end > cut[s] + PageLines THEN end - PageLines ELSE cut[s]

\* nextOffsetFromEnd of a page that ends offset lines before the newest one.
NextOffset(s, offset) ==
  IF PageStart(s, offset) > cut[s]
    THEN offset + (PageEnd(s, offset) - PageStart(s, offset))
    ELSE 0

\* The newest page, which also starts a walk towards older lines.
ReadNewest(r, s) ==
  /\ reader[r].pc \in {"idle", "woken"}
  /\ reader[r].pc = "woken" => s = reader[r].of
  /\ shell[s] = "open"
  /\ SetReader(r, [Idle EXCEPT
       !.of = s, !.seen = lines[s], !.seenAt = at[s],
       !.offset = NextOffset(s, 0), !.low = PageStart(s, 0) + 1])

ReadOlder(r) ==
  LET s == reader[r].of
      end == PageEnd(s, reader[r].offset)
  IN  /\ reader[r].pc = "idle" /\ reader[r].offset > 0
      /\ shell[s] = "open" /\ end > cut[s]
      /\ SetReader(r, [reader[r] EXCEPT
           !.joined = @ /\ end + 1 >= reader[r].low,
           !.low = PageStart(s, reader[r].offset) + 1,
           !.offset = NextOffset(s, reader[r].offset)])

\* A closed session answers with an error, on either call.
ReadFails(r) ==
  /\ reader[r].pc \in {"idle", "woken"}
  /\ reader[r].seen > 0 \/ reader[r].pc = "woken"
  /\ shell[reader[r].of] \in {"closing", "closed"}
  /\ SetReader(r, Idle)

ResolveShell(r) ==
  /\ reader[r].pc = "idle" /\ reader[r].seenAt > 0
  /\ shell[reader[r].of] = "open"
  /\ SetReader(r, [reader[r] EXCEPT !.pc = "resolved"])

\* Output of a later second than the last page's ends the wait before it starts.
ReadMeta(r) ==
  LET s == reader[r].of
  IN  /\ reader[r].pc = "resolved"
      /\ SetReader(r, [reader[r] EXCEPT
           !.pc = IF at[s] > reader[r].seenAt THEN "woken" ELSE "metaRead",
           !.gen = lines[s]])

\* waitAfter: the generation is compared and the channel listed under one lock.
Register_Unchecked(r) ==
  /\ reader[r].pc = "metaRead"
  /\ SetReader(r, [reader[r] EXCEPT !.pc = "waiting"])
RegisterWaiter(r) ==
  /\ reader[r].pc = "metaRead"
  /\ SetReader(r, [reader[r] EXCEPT
       !.pc = IF lines[reader[r].of] > reader[r].gen THEN "woken" ELSE "waiting"])

WaitTimesOut(r) ==
  /\ reader[r].pc = "waiting"
  /\ SetReader(r, [reader[r] EXCEPT !.pc = "woken"])
-----------------------------------------------------------------------------
TermNext ==
  \/ TermTick
  \/ \E s \in Shells : \/ OpenShell(s) \/ PumpOutput(s) \/ PumpRetries(s)
                       \/ FinishShell(s) \/ CloseShell(s) \/ CleanupShell(s)
  \/ \E r \in Readers : \/ ReadOlder(r) \/ ReadFails(r) \/ ResolveShell(r)
                        \/ ReadMeta(r) \/ RegisterWaiter(r) \/ WaitTimesOut(r)
                        \/ \E s \in Shells : ReadNewest(r, s)

TermSpec == TermInit /\ [][TermNext]_termVars
-----------------------------------------------------------------------------
\* No call sleeps over output that came after it looked at the generation:
\* the check and the registration share one lock with append.
NoLostWakeup ==
  \A r \in Readers : reader[r].pc = "waiting" => reader[r].gen = lines[reader[r].of]

\* A call that asked for output newer than its last page sleeps although there
\* is some only if that output came in the second of the page: updatedAt has
\* whole seconds.
SleepsOverOneSecond ==
  \A r \in Readers :
    reader[r].pc = "waiting" /\ lines[reader[r].of] > reader[r].seen
      => at[reader[r].of] = reader[r].seenAt

\* Walking to older pages by nextOffsetFromEnd leaves no gap, although output
\* arrives and the tail is cut between the pages.
PagesJoin == \A r \in Readers : reader[r].joined

\* A session is cleaned up by one of Close and finish, never by both.
CleanedOnce ==
  \A s \in Shells :
    /\ \A a, b \in closers[s] : a = b
    /\ shell[s] \in {"closing", "closed"} => closers[s] # {}

\* What the terminals promise to their callers, all four at once.
TerminalsSafe == NoLostWakeup /\ SleepsOverOneSecond /\ PagesJoin /\ CleanedOnce

\* Every call that waits for output returns.
EveryWaitEnds == \A r \in Readers : reader[r].pc = "waiting" ~> reader[r].pc # "waiting"
=============================================================================
