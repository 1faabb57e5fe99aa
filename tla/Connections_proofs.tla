-------------------------- MODULE Connections_proofs --------------------------
(* Proofs about the stores of live connections, Terminals, DbSessions and  *)
(* PortForwards, and about their composition with the parts of Sftp_proofs *)
(* (MCConnections): each for every number of callers, sessions and ports.  *)
(*                                                                         *)
(* Terminals. A call sleeps over no output because what it knows of the    *)
(* generation never runs ahead of the tail (NotAhead), and because a       *)
(* generation that is still the newest dates its updatedAt (OldNews).      *)
(* Pages join because the offset of the next one, counted from the end,    *)
(* can only reach lower lines as the tail grows (NextIsBelow).             *)
(*                                                                         *)
(* DbSessions. A connection has one owner because the ones opened are new  *)
(* and a call that owns one does not own the session's (UseOK). A          *)
(* statement goes to the right database unless it raced, because a fresh   *)
(* tab names the database the session's handle is connected to             *)
(* (SessionOK), also after the session was closed.                         *)
(*                                                                         *)
(* PortForwards. What the forwards promise is inductive as it stands: the  *)
(* table and the state of a tunnel change together.                        *)
EXTENDS MCConnections, Sftp_proofs

-----------------------------------------------------------------------------
(* Terminal sessions.                                                      *)

ReaderType ==
  [pc : {"idle", "resolved", "metaRead", "waiting", "woken"}, of : Shells,
   seen : 0..MaxLines, seenAt : 0..MaxSeconds, gen : 0..MaxLines,
   offset : 0..MaxLines, low : 0..(MaxLines + 1), joined : BOOLEAN]

\* Parts of what holds of a call c.
NotAhead(c) ==
  /\ c.pc \in {"metaRead", "waiting"} => c.gen <= lines[c.of]
  /\ c.pc = "waiting" => c.gen = lines[c.of]

SeenIsPast(c) == c.seenAt <= at[c.of]

OldNews(c) ==
  c.pc \in {"metaRead", "waiting"} /\ c.gen = lines[c.of] => at[c.of] <= c.seenAt

NextIsBelow(c) ==
  /\ c.offset > 0 => lines[c.of] + 1 >= c.low + c.offset
  /\ c.joined

ReadOK(c) == NotAhead(c) /\ SeenIsPast(c) /\ OldNews(c) /\ NextIsBelow(c)

ReadsOK == \A r \in Readers : ReadOK(reader[r])

TimesPass == \A s \in Shells : at[s] <= now /\ cut[s] <= lines[s]

OneCloser ==
  \A s \in Shells :
    /\ shell[s] \in {"unopened", "open"} => closers[s] = {}
    /\ shell[s] \in {"closing", "closed"} => \E x \in {"user", "pump"} : closers[s] = {x}

TermInv == TermTypeOK /\ ReadsOK /\ TimesPass /\ OneCloser
-----------------------------------------------------------------------------
LEMMA IdleCall ==
  /\ Idle \in ReaderType
  /\ Idle.pc = "idle" /\ Idle.seenAt = 0 /\ Idle.offset = 0 /\ Idle.joined = TRUE
<1>. DEFINE any == CHOOSE s \in Shells : TRUE
<1>1. any \in Shells
  BY TerminalsAssumption
<1>2. Idle = [pc |-> "idle", of |-> any, seen |-> 0, seenAt |-> 0, gen |-> 0,
              offset |-> 0, low |-> 0, joined |-> TRUE]
  BY DEF Idle
<1>. HIDE DEF any
<1>. QED
  BY <1>1, <1>2, TerminalsAssumption DEF ReaderType

LEMMA TermTypes ==
  ASSUME TermTypeOK
  PROVE  /\ reader \in [Readers -> ReaderType]
         /\ \A s \in Shells : /\ lines[s] \in Nat /\ lines[s] <= MaxLines /\ cut[s] \in Nat
                              /\ at[s] \in Nat
         /\ now \in Nat /\ MaxLines \in Nat /\ PageLines \in Nat \ {0} /\ TailLines \in Nat \ {0}
BY TerminalsAssumption DEF TermTypeOK, ReaderType

(* A page lies within the tail and ends at most offset lines before its    *)
(* newest; the offset of the next page reaches no higher than its start.   *)
LEMMA Pages ==
  ASSUME TermInv, NEW s \in Shells, NEW o \in Nat
  PROVE  /\ PageEnd(s, o) \in Nat /\ PageStart(s, o) \in Nat
         /\ cut[s] <= PageStart(s, o) /\ PageStart(s, o) <= PageEnd(s, o)
         /\ PageEnd(s, o) <= lines[s] /\ PageStart(s, o) <= MaxLines
         /\ PageEnd(s, o) > cut[s] => PageEnd(s, o) = lines[s] - o
<1>1. /\ lines[s] \in Nat /\ cut[s] \in Nat /\ cut[s] <= lines[s] /\ lines[s] <= MaxLines
      /\ MaxLines \in Nat /\ PageLines \in Nat \ {0}
  BY TermTypes DEF TermInv, TimesPass
<1>. QED
  BY <1>1 DEF PageEnd, PageStart

LEMMA NextPage ==
  ASSUME TermInv, NEW s \in Shells, NEW o \in Nat, o = 0 \/ PageEnd(s, o) > cut[s]
  PROVE  /\ NextOffset(s, o) \in 0..MaxLines
         /\ NextOffset(s, o) > 0 => lines[s] = PageStart(s, o) + NextOffset(s, o)
<1>1. /\ PageEnd(s, o) \in Nat /\ PageStart(s, o) \in Nat
      /\ cut[s] <= PageStart(s, o) /\ PageStart(s, o) <= PageEnd(s, o)
      /\ PageEnd(s, o) <= lines[s]
      /\ PageEnd(s, o) > cut[s] => PageEnd(s, o) = lines[s] - o
  BY Pages
<1>2. lines[s] \in Nat /\ cut[s] \in Nat /\ lines[s] <= MaxLines /\ MaxLines \in Nat
  BY TermTypes DEF TermInv
<1>3. CASE PageStart(s, o) > cut[s]
  <2>1. NextOffset(s, o) = o + (PageEnd(s, o) - PageStart(s, o))
    BY <1>3 DEF NextOffset
  <2>2. PageEnd(s, o) = lines[s] - o
    BY <1>1, <1>2, <1>3
  <2>. QED
    BY <1>1, <1>2, <2>1, <2>2
<1>4. CASE ~(PageStart(s, o) > cut[s])
  BY <1>2, <1>4 DEF NextOffset
<1>. QED
  BY <1>3, <1>4
-----------------------------------------------------------------------------
LEMMA InitTermInv == TermInit => TermInv
<1> SUFFICES ASSUME TermInit PROVE TermInv
  OBVIOUS
<1>1. \A r \in Readers : reader[r] = Idle
  BY DEF TermInit
<1>2. /\ \A s \in Shells : /\ shell[s] = "unopened" /\ closers[s] = {} /\ lines[s] = 0
                           /\ cut[s] = 0 /\ at[s] = 0
      /\ now = 1
  BY DEF TermInit
<1>4. TermTypeOK
  <2>1. reader \in [Readers -> ReaderType]
    <3>1. reader = [r \in Readers |-> Idle]
      BY DEF TermInit
    <3>. QED
      BY <3>1, IdleCall
  <2>2. /\ shell \in [Shells -> {"unopened", "open", "closing", "closed"}]
        /\ closers \in [Shells -> SUBSET {"user", "pump"}]
    <3>1. shell = [s \in Shells |-> "unopened"] /\ closers = [s \in Shells |-> {}]
      BY DEF TermInit
    <3>. QED
      BY <3>1
  <2>3. /\ lines \in [Shells -> 0..MaxLines] /\ cut \in [Shells -> 0..MaxLines]
        /\ at \in [Shells -> 0..MaxSeconds] /\ now \in 1..MaxSeconds
    BY TerminalsAssumption DEF TermInit
  <2>4. pump \in [Shells -> 0..Ended]
    <3>1. pump = [s \in Shells |-> 0] /\ 0 \in 0..Ended
      BY TerminalsAssumption DEF TermInit, Ended
    <3>. QED
      BY <3>1
  <2>. QED
    BY <2>1, <2>2, <2>3, <2>4 DEF TermTypeOK, ReaderType
<1>5. TimesPass /\ OneCloser
  BY <1>2 DEF TimesPass, OneCloser
<1>6. ReadOK(Idle)
  <2>1. Idle.of \in Shells
    BY IdleCall DEF ReaderType
  <2>2. at[Idle.of] = 0
    BY <1>2, <2>1
  <2>. QED
    BY <2>2, IdleCall DEF ReadOK, NotAhead, SeenIsPast, OldNews, NextIsBelow
<1>. QED
  BY <1>1, <1>4, <1>5, <1>6 DEF TermInv, ReadsOK

(* Opening, closing and retrying move a session and its pump; the tails    *)
(* and the readers stay.                                                   *)
LEMMA SessionStepTermInv ==
  ASSUME TermInv, NEW s \in Shells,
         OpenShell(s) \/ PumpRetries(s) \/ FinishShell(s) \/ CloseShell(s) \/ CleanupShell(s)
  PROVE  TermInv'
<1>1. UNCHANGED <<lines, cut, at, now, reader>>
  BY DEF OpenShell, PumpRetries, FinishShell, CloseShell, CleanupShell
<1>2. pump' \in [Shells -> 0..Ended]
  <2>1. Retries \in Nat /\ Ended = Retries + 1 /\ pump \in [Shells -> 0..Ended]
    BY TerminalsAssumption DEF TermInv, TermTypeOK, Ended
  <2>2. CASE PumpRetries(s)
    <3>1. pump' = [pump EXCEPT ![s] = pump[s] + 1] /\ pump[s] + 1 \in 0..Ended
      BY <2>1, <2>2 DEF PumpRetries
    <3>. QED
      BY <2>1, <3>1
  <2>3. CASE FinishShell(s)
    <3>1. pump' = [pump EXCEPT ![s] = Ended] /\ Ended \in 0..Ended
      BY <2>1, <2>3 DEF FinishShell
    <3>. QED
      BY <2>1, <3>1
  <2>4. CASE OpenShell(s) \/ CloseShell(s) \/ CleanupShell(s)
    BY <2>1, <2>4 DEF OpenShell, CloseShell, CleanupShell
  <2>. QED
    BY <2>2, <2>3, <2>4
<1>3. /\ shell' \in [Shells -> {"unopened", "open", "closing", "closed"}]
      /\ closers' \in [Shells -> SUBSET {"user", "pump"}]
      /\ OneCloser'
  <2>. USE DEF TermInv, TermTypeOK, OneCloser
  <2>1. CASE OpenShell(s)
    BY <2>1 DEF OpenShell
  <2>2. CASE PumpRetries(s)
    BY <2>2 DEF PumpRetries
  <2>3. CASE FinishShell(s)
    BY <2>3 DEF FinishShell
  <2>4. CASE CloseShell(s)
    BY <2>4 DEF CloseShell
  <2>5. CASE CleanupShell(s)
    BY <2>5 DEF CleanupShell
  <2>. QED
    BY <2>1, <2>2, <2>3, <2>4, <2>5
<1>4. TermTypeOK'
  BY <1>1, <1>2, <1>3 DEF TermInv, TermTypeOK
<1>5. TimesPass' /\ ReadsOK'
  BY <1>1 DEF TermInv, TimesPass, ReadsOK, ReadOK, NotAhead, SeenIsPast, OldNews, NextIsBelow
<1>. QED
  BY <1>3, <1>4, <1>5 DEF TermInv

LEMMA TickTermInv == ASSUME TermInv, TermTick PROVE TermInv'
<1>1. now' = now + 1 /\ now' \in 1..MaxSeconds
      /\ UNCHANGED <<shell, closers, pump, lines, cut, at, reader>>
  BY TerminalsAssumption DEF TermTick, TermInv, TermTypeOK
<1>2. TermTypeOK'
  BY <1>1 DEF TermInv, TermTypeOK
<1>3. TimesPass'
  <2>1. \A s \in Shells : at[s] \in Nat /\ now \in Nat
    BY TermTypes DEF TermInv
  <2>. QED
    BY <1>1, <2>1 DEF TermInv, TimesPass
<1>4. ReadsOK' /\ OneCloser'
  BY <1>1 DEF TermInv, ReadsOK, ReadOK, NotAhead, SeenIsPast, OldNews, NextIsBelow, OneCloser
<1>. QED
  BY <1>2, <1>3, <1>4 DEF TermInv

(* A step of one call: the tails stay, and the call is as it should be.    *)
LEMMA CallStepTermInv ==
  ASSUME TermInv, NEW r \in Readers, NEW rec \in ReaderType, SetReader(r, rec), ReadOK(rec)
  PROVE  TermInv'
<1>1. /\ reader' = [reader EXCEPT ![r] = rec]
      /\ UNCHANGED <<shell, closers, pump, lines, cut, at, now>>
  BY DEF SetReader
<1>2. reader' \in [Readers -> ReaderType]
  BY <1>1, TermTypes DEF TermInv
<1>3. TermTypeOK'
  BY <1>1, <1>2 DEF TermInv, TermTypeOK, ReaderType
<1>4. ReadsOK'
  <2> SUFFICES ASSUME NEW q \in Readers PROVE ReadOK(reader[q])'
    BY DEF ReadsOK
  <2>1. ReadOK(reader'[q])
    BY <1>1, TermTypes DEF TermInv, ReadsOK
  <2>. QED
    BY <1>1, <2>1 DEF ReadOK, NotAhead, SeenIsPast, OldNews, NextIsBelow
<1>5. TimesPass' /\ OneCloser'
  BY <1>1 DEF TermInv, TimesPass, OneCloser
<1>. QED
  BY <1>3, <1>4, <1>5 DEF TermInv

LEMMA ReadNewestTermInv ==
  ASSUME TermInv, NEW r \in Readers, NEW s \in Shells, ReadNewest(r, s)
  PROVE  TermInv'
<1>. DEFINE rec == [Idle EXCEPT !.of = s, !.seen = lines[s], !.seenAt = at[s],
                    !.offset = NextOffset(s, 0), !.low = PageStart(s, 0) + 1]
<1>1. SetReader(r, rec)
  BY DEF ReadNewest
<1>2. /\ lines[s] \in 0..MaxLines /\ at[s] \in 0..MaxSeconds
      /\ PageStart(s, 0) + 1 \in 0..(MaxLines + 1)
  <2>1. lines[s] \in 0..MaxLines /\ at[s] \in 0..MaxSeconds
    BY DEF TermInv, TermTypeOK
  <2>2. PageStart(s, 0) \in Nat /\ PageStart(s, 0) <= MaxLines /\ MaxLines \in Nat
    BY Pages, TermTypes DEF TermInv
  <2>. QED
    BY <2>1, <2>2
<1>3. /\ NextOffset(s, 0) \in 0..MaxLines
      /\ NextOffset(s, 0) > 0 => lines[s] = PageStart(s, 0) + NextOffset(s, 0)
  BY NextPage
<1>4. /\ rec \in ReaderType
      /\ rec.pc = "idle" /\ rec.of = s /\ rec.seenAt = at[s] /\ rec.joined = TRUE
      /\ rec.offset = NextOffset(s, 0) /\ rec.low = PageStart(s, 0) + 1
  BY <1>2, <1>3, IdleCall DEF ReaderType
<1>5. ReadOK(rec)
  <2>. HIDE DEF rec
  <2>1. PageStart(s, 0) \in Nat /\ at[s] \in Nat
    BY Pages, TermTypes DEF TermInv
  <2>. QED
    BY <1>3, <1>4, <2>1 DEF ReadOK, NotAhead, SeenIsPast, OldNews, NextIsBelow
<1>. QED
  BY <1>1, <1>4, <1>5, CallStepTermInv

LEMMA ReadOlderTermInv ==
  ASSUME TermInv, NEW r \in Readers, ReadOlder(r)
  PROVE  TermInv'
<1>. DEFINE c == reader[r]
            s == c.of
            rec == [c EXCEPT !.joined = @ /\ PageEnd(s, c.offset) + 1 >= c.low,
                             !.low = PageStart(s, c.offset) + 1,
                             !.offset = NextOffset(s, c.offset)]
<1>1. /\ SetReader(r, rec) /\ c.pc = "idle" /\ c.offset > 0 /\ PageEnd(s, c.offset) > cut[s]
  BY DEF ReadOlder
<1>2. c \in ReaderType /\ s \in Shells /\ c.offset \in Nat /\ c.low \in Nat
  BY TermTypes DEF TermInv, ReaderType
<1>3. ReadOK(c)
  BY DEF TermInv, ReadsOK
<1>. HIDE DEF c, s
<1>4. /\ PageStart(s, c.offset) \in Nat /\ PageStart(s, c.offset) <= MaxLines
      /\ PageEnd(s, c.offset) = lines[s] - c.offset
      /\ lines[s] \in Nat /\ MaxLines \in Nat
  BY <1>1, <1>2, Pages, TermTypes DEF TermInv
<1>5. /\ NextOffset(s, c.offset) \in 0..MaxLines
      /\ NextOffset(s, c.offset) > 0
           => lines[s] = PageStart(s, c.offset) + NextOffset(s, c.offset)
  BY <1>1, <1>2, NextPage
<1>6. PageEnd(s, c.offset) + 1 >= c.low /\ c.joined = TRUE
  <2>1. c.joined /\ c.joined \in BOOLEAN /\ lines[s] + 1 >= c.low + c.offset
    BY <1>1, <1>2, <1>3 DEF ReadOK, NextIsBelow, ReaderType, s
  <2>. QED
    BY <1>2, <1>4, <2>1
<1>7. /\ rec \in ReaderType
      /\ rec.pc = "idle" /\ rec.of = s /\ rec.seenAt = c.seenAt /\ rec.joined = TRUE
      /\ rec.offset = NextOffset(s, c.offset) /\ rec.low = PageStart(s, c.offset) + 1
  <2>1. (c.joined /\ PageEnd(s, c.offset) + 1 >= c.low) = TRUE
    BY <1>6
  <2>2. rec = [c EXCEPT !.joined = TRUE, !.low = PageStart(s, c.offset) + 1,
                        !.offset = NextOffset(s, c.offset)]
    BY <1>2, <2>1 DEF ReaderType
  <2>3. PageStart(s, c.offset) + 1 \in 0..(MaxLines + 1)
    BY <1>4
  <2>. HIDE DEF rec
  <2>. QED
    BY <1>1, <1>2, <1>5, <2>2, <2>3 DEF ReaderType, s
<1>8. ReadOK(rec)
  <2>. HIDE DEF rec
  <2>1. c.seenAt <= at[s]
    BY <1>3 DEF ReadOK, SeenIsPast, s
  <2>. QED
    BY <1>4, <1>5, <1>7, <2>1 DEF ReadOK, NotAhead, SeenIsPast, OldNews, NextIsBelow
<1>. QED
  BY <1>1, <1>7, <1>8, CallStepTermInv

LEMMA ReadFailsTermInv ==
  ASSUME TermInv, NEW r \in Readers, ReadFails(r)
  PROVE  TermInv'
<1>1. SetReader(r, Idle)
  BY DEF ReadFails
<1>2. Idle \in ReaderType /\ Idle.of \in Shells
  BY IdleCall DEF ReaderType
<1>3. ReadOK(Idle)
  <2>1. at[Idle.of] \in Nat
    BY <1>2, TermTypes DEF TermInv
  <2>. QED
    BY <2>1, IdleCall DEF ReadOK, NotAhead, SeenIsPast, OldNews, NextIsBelow
<1>. QED
  BY <1>1, <1>2, <1>3, CallStepTermInv

(* The steps of a wait change where the call is and what it knows.         *)
LEMMA WaitStepTermInv ==
  ASSUME TermInv, NEW r \in Readers,
         ResolveShell(r) \/ ReadMeta(r) \/ RegisterWaiter(r) \/ WaitTimesOut(r)
  PROVE  TermInv'
<1>. DEFINE c == reader[r]
            s == c.of
<1>1. c \in ReaderType /\ s \in Shells /\ c.gen \in Nat /\ c.seenAt \in Nat
  BY TermTypes DEF TermInv, ReaderType
<1>2. ReadOK(c)
  BY DEF TermInv, ReadsOK
<1>3. lines[s] \in 0..MaxLines /\ lines[s] \in Nat /\ at[s] \in Nat
  BY <1>1 DEF TermInv, TermTypeOK
<1>4. ASSUME NEW pc \in {"resolved", "metaRead", "waiting", "woken"}, NEW gen \in 0..MaxLines,
             SetReader(r, [c EXCEPT !.pc = pc, !.gen = gen]),
             pc = "waiting" => gen = lines[s],
             pc \in {"metaRead", "waiting"} => gen <= lines[s],
             pc \in {"metaRead", "waiting"} /\ gen = lines[s] => at[s] <= c.seenAt
      PROVE  TermInv'
  <2>. DEFINE rec == [c EXCEPT !.pc = pc, !.gen = gen]
  <2>. HIDE DEF c
  <2>1. /\ rec \in ReaderType /\ rec.pc = pc /\ rec.gen = gen
        /\ rec.of = c.of /\ rec.seenAt = c.seenAt /\ rec.offset = c.offset
        /\ rec.low = c.low /\ rec.joined = c.joined
    BY <1>1 DEF ReaderType
  <2>2. ReadOK(rec)
    <3>. HIDE DEF rec
    <3>. QED
      BY <1>2, <1>4, <2>1 DEF ReadOK, NotAhead, SeenIsPast, OldNews, NextIsBelow
  <2>. QED
    BY <1>4, <2>1, <2>2, CallStepTermInv
<1>5. c.gen \in 0..MaxLines /\ \A pc : [c EXCEPT !.pc = pc] = [c EXCEPT !.pc = pc, !.gen = c.gen]
  BY <1>1 DEF ReaderType
<1>6. CASE ResolveShell(r)
  <2>1. SetReader(r, [c EXCEPT !.pc = "resolved", !.gen = c.gen])
    BY <1>5, <1>6 DEF ResolveShell
  <2>. QED
    BY <1>4, <1>5, <2>1
<1>7. CASE ReadMeta(r)
  <2>1. SetReader(r, [c EXCEPT !.pc = IF at[s] > c.seenAt THEN "woken" ELSE "metaRead",
                               !.gen = lines[s]])
    BY <1>7 DEF ReadMeta
  <2>2. CASE at[s] > c.seenAt
    BY <1>3, <1>4, <2>1, <2>2
  <2>3. CASE ~(at[s] > c.seenAt)
    <3>1. at[s] <= c.seenAt
      BY <1>1, <1>3, <2>3
    <3>2. SetReader(r, [c EXCEPT !.pc = "metaRead", !.gen = lines[s]])
      BY <2>1, <2>3
    <3>3. lines[s] <= lines[s]
      BY <1>3
    <3>. QED
      BY <1>3, <1>4, <3>1, <3>2, <3>3
  <2>. QED
    BY <2>2, <2>3
<1>8. CASE RegisterWaiter(r)
  <2>1. c.pc = "metaRead"
        /\ SetReader(r, [c EXCEPT !.pc = IF lines[s] > c.gen THEN "woken" ELSE "waiting",
                                  !.gen = c.gen])
    BY <1>5, <1>8 DEF RegisterWaiter
  <2>2. c.gen <= lines[s] /\ (c.gen = lines[s] => at[s] <= c.seenAt)
    BY <1>2, <2>1 DEF ReadOK, NotAhead, OldNews
  <2>3. CASE lines[s] > c.gen
    BY <1>4, <1>5, <2>1, <2>3
  <2>4. CASE ~(lines[s] > c.gen)
    <3>1. c.gen = lines[s]
      BY <1>1, <1>3, <2>2, <2>4
    <3>. QED
      BY <1>4, <1>5, <2>1, <2>2, <2>4, <3>1
  <2>. QED
    BY <2>3, <2>4
<1>9. CASE WaitTimesOut(r)
  <2>1. SetReader(r, [c EXCEPT !.pc = "woken", !.gen = c.gen])
    BY <1>5, <1>9 DEF WaitTimesOut
  <2>. QED
    BY <1>4, <1>5, <2>1
<1>. QED
  BY <1>6, <1>7, <1>8, <1>9

(* Output makes the tail longer, dates it now and wakes who waits for it.  *)
LEMMA OutputTermInv ==
  ASSUME TermInv, NEW s \in Shells, PumpOutput(s)
  PROVE  TermInv'
<1>1. /\ lines' = [lines EXCEPT ![s] = lines[s] + 1]
      /\ cut' = [cut EXCEPT ![s] = CutAfter(s, lines[s] + 1)]
      /\ at' = [at EXCEPT ![s] = now]
      /\ pump' = [pump EXCEPT ![s] = 0]
      /\ reader' = WakeWaiters(s)
      /\ shell' = shell /\ closers' = closers /\ now' = now /\ lines[s] < MaxLines
  BY DEF PumpOutput
<1>2. /\ lines \in [Shells -> 0..MaxLines] /\ cut \in [Shells -> 0..MaxLines]
      /\ at \in [Shells -> 0..MaxSeconds] /\ now \in 1..MaxSeconds
      /\ pump \in [Shells -> 0..Ended] /\ 0 \in 0..Ended
      /\ MaxLines \in Nat /\ MaxSeconds \in Nat /\ TailLines \in Nat \ {0}
  BY TerminalsAssumption DEF TermInv, TermTypeOK, Ended
<1>3. CutAfter(s, lines[s] + 1) \in 0..MaxLines /\ CutAfter(s, lines[s] + 1) <= lines[s] + 1
  <2>1. /\ lines[s] \in Nat /\ cut[s] \in Nat /\ cut[s] <= lines[s] /\ lines[s] + 1 <= MaxLines
    BY <1>1, <1>2 DEF TermInv, TimesPass
  <2>2. TailLines \div 2 \in Nat /\ TailLines \div 2 <= TailLines
    BY <1>2
  <2>3. CASE lines[s] + 1 - cut[s] > TailLines
    BY <1>2, <2>1, <2>2, <2>3 DEF CutAfter
  <2>4. CASE ~(lines[s] + 1 - cut[s] > TailLines)
    BY <1>2, <2>1, <2>4 DEF CutAfter
  <2>. QED
    BY <2>3, <2>4
<1>4. \A r \in Readers :
        /\ reader'[r] = IF Woken(s, r) THEN [reader[r] EXCEPT !.pc = "woken"] ELSE reader[r]
        /\ reader[r] \in ReaderType
  BY <1>1, TermTypes DEF WakeWaiters, TermInv
<1>5. reader' \in [Readers -> ReaderType]
  <2>1. \A c \in ReaderType : [c EXCEPT !.pc = "woken"] \in ReaderType
    BY DEF ReaderType
  <2>. QED
    BY <1>1, <1>4, <2>1 DEF WakeWaiters
<1>6. TermTypeOK'
  <2>1. /\ lines' \in [Shells -> 0..MaxLines] /\ cut' \in [Shells -> 0..MaxLines]
        /\ at' \in [Shells -> 0..MaxSeconds] /\ pump' \in [Shells -> 0..Ended]
    BY <1>1, <1>2, <1>3
  <2>. QED
    BY <1>1, <1>5, <2>1 DEF TermInv, TermTypeOK, ReaderType
<1>7. TimesPass' /\ OneCloser'
  BY <1>1, <1>2, <1>3 DEF TermInv, TimesPass, OneCloser
<1>8. ReadsOK'
  <2> SUFFICES ASSUME NEW r \in Readers PROVE ReadOK(reader[r])'
    BY DEF ReadsOK
  <2>. DEFINE c == reader[r]
  <2>1. ReadOK(c) /\ c \in ReaderType
    BY <1>4 DEF TermInv, ReadsOK
  <2>2. /\ c.of \in Shells /\ c.gen \in Nat /\ c.seenAt \in Nat /\ c.low \in Nat
        /\ c.offset \in Nat /\ lines[c.of] \in Nat /\ at[c.of] \in Nat /\ at[c.of] <= now
        /\ now \in Nat
    BY <1>2, <2>1 DEF ReaderType, TermInv, TimesPass
  <2>3. CASE Woken(s, r)
    <3>1. /\ reader'[r].pc = "woken" /\ reader'[r].of = c.of /\ reader'[r].seenAt = c.seenAt
          /\ reader'[r].offset = c.offset /\ reader'[r].low = c.low
          /\ reader'[r].joined = c.joined /\ c.of = s
      BY <1>4, <2>3 DEF ReaderType, Woken
    <3>2. lines'[s] = lines[s] + 1 /\ at'[s] = now
      BY <1>1, <1>2
    <3>. QED
      BY <2>1, <2>2, <3>1, <3>2 DEF ReadOK, NotAhead, SeenIsPast, OldNews, NextIsBelow
  <2>4. CASE ~Woken(s, r)
    <3>1. reader'[r] = c
      BY <1>4, <2>4
    <3>2. CASE c.of = s
      <4>1. lines'[s] = lines[s] + 1 /\ at'[s] = now /\ c.pc # "waiting"
        BY <1>1, <1>2, <2>4, <3>2 DEF Woken
      <4>. QED
        BY <2>1, <2>2, <3>1, <3>2, <4>1 DEF ReadOK, NotAhead, SeenIsPast, OldNews, NextIsBelow
    <3>3. CASE c.of # s
      <4>1. lines'[c.of] = lines[c.of] /\ at'[c.of] = at[c.of]
        BY <1>1, <1>2, <2>2, <3>3
      <4>. QED
        BY <2>1, <3>1, <4>1 DEF ReadOK, NotAhead, SeenIsPast, OldNews, NextIsBelow
    <3>. QED
      BY <3>2, <3>3
  <2>. QED
    BY <2>3, <2>4
<1>. QED
  BY <1>6, <1>7, <1>8 DEF TermInv
-----------------------------------------------------------------------------
LEMMA NextTermInv == TermInv /\ [TermNext]_termVars => TermInv'
<1> SUFFICES ASSUME TermInv, [TermNext]_termVars PROVE TermInv'
  OBVIOUS
<1>1. CASE TermTick
  BY <1>1, TickTermInv
<1>2. ASSUME NEW s \in Shells,
             OpenShell(s) \/ PumpRetries(s) \/ FinishShell(s) \/ CloseShell(s) \/ CleanupShell(s)
      PROVE  TermInv'
  BY <1>2, SessionStepTermInv
<1>3. ASSUME NEW s \in Shells, PumpOutput(s) PROVE TermInv'
  BY <1>3, OutputTermInv
<1>4. ASSUME NEW r \in Readers, ReadOlder(r) PROVE TermInv'
  BY <1>4, ReadOlderTermInv
<1>5. ASSUME NEW r \in Readers, ReadFails(r) PROVE TermInv'
  BY <1>5, ReadFailsTermInv
<1>6. ASSUME NEW r \in Readers,
             ResolveShell(r) \/ ReadMeta(r) \/ RegisterWaiter(r) \/ WaitTimesOut(r)
      PROVE  TermInv'
  BY <1>6, WaitStepTermInv
<1>7. ASSUME NEW r \in Readers, NEW s \in Shells, ReadNewest(r, s) PROVE TermInv'
  BY <1>7, ReadNewestTermInv
<1>8. CASE UNCHANGED termVars
  BY <1>8 DEF termVars, TermInv, TermTypeOK, ReadsOK, ReadOK, NotAhead, SeenIsPast, OldNews,
              NextIsBelow, TimesPass, OneCloser
<1>. QED
  BY <1>1, <1>2, <1>3, <1>4, <1>5, <1>6, <1>7, <1>8 DEF TermNext

\* The strengthening is an invariant of the specification.
THEOREM TermInvariance == TermSpec => []TermInv
<1>1. TermInit => TermInv
  BY InitTermInv
<1>2. TermInv /\ [TermNext]_termVars => TermInv'
  BY NextTermInv
<1>. QED
  BY <1>1, <1>2, PTL DEF TermSpec

\* Sessions, tails and calls keep their types: a tail never counts past what
\* was printed and a page never starts outside the stream (terminal/tail.go).
THEOREM TermTypeCorrect == TermSpec => []TermTypeOK
<1>1. TermInv => TermTypeOK
  BY DEF TermInv
<1>. QED
  BY <1>1, TermInvariance, PTL

\* No wake-up is lost, a call sleeps over output only within the second of its
\* page, pages join and a session is cleaned up once, for any number of
\* sessions, calls, lines, retries and seconds.
THEOREM TerminalsAreSafe == TermSpec => []TerminalsSafe
<1>1. TermInv => TerminalsSafe
  <2> SUFFICES ASSUME TermInv PROVE TerminalsSafe
    OBVIOUS
  <2>1. NoLostWakeup
    BY DEF TermInv, ReadsOK, ReadOK, NotAhead, NoLostWakeup
  <2>2. SleepsOverOneSecond
    <3> SUFFICES ASSUME NEW r \in Readers, reader[r].pc = "waiting"
                 PROVE  at[reader[r].of] = reader[r].seenAt
      BY DEF SleepsOverOneSecond
    <3>1. ReadOK(reader[r])
      BY DEF TermInv, ReadsOK
    <3>2. at[reader[r].of] \in Nat /\ reader[r].seenAt \in Nat
      BY TermTypes DEF TermInv, ReaderType
    <3>. QED
      BY <3>1, <3>2 DEF ReadOK, NotAhead, SeenIsPast, OldNews
  <2>3. PagesJoin
    BY DEF TermInv, ReadsOK, ReadOK, NextIsBelow, PagesJoin
  <2>4. CleanedOnce
    BY DEF TermInv, OneCloser, CleanedOnce, TermTypeOK
  <2>. QED
    BY <2>1, <2>2, <2>3, <2>4 DEF TerminalsSafe
<1>. QED
  BY <1>1, TermInvariance, PTL

-----------------------------------------------------------------------------
(* Database sessions.                                                      *)

UseType ==
  [pc : {"idle", "switching", "tunnelRead", "opened", "got", "mayUse",
         "mustOpen", "has", "ran", "failed"},
   want : Databases, h : 0..MaxHandles, own : BOOLEAN, raced : BOOLEAN]

\* A call and the connection it holds.
HoldsOwn(c) ==
  /\ c.own => c.h \in openOnes /\ c.h # handle /\ c.pc \in {"opened", "has"}
  /\ c.pc = "opened" => c.own /\ handles[c.h] = c.want
  /\ c.h # 0 => handles[c.h] # NoName

\* Where the statement of a call runs, or will run.
RunsWhereMeant(c) ==
  /\ c.pc \in {"has", "ran"} /\ Postgres /\ c.h # 0 /\ handles[c.h] # c.want => c.raced
  /\ c.pc = "got" => tab[c.want] # "none"
  /\ c.pc = "mayUse" /\ Postgres /\ ~c.raced => database = c.want
  /\ c.pc # "idle" => session # "none"

UseOK(c) == HoldsOwn(c) /\ RunsWhereMeant(c)

UsesOK == \A c \in Callers : UseOK(caller[c])

SessionOK ==
  /\ session = "none" => /\ openOnes = {}
                         /\ \A h \in 1..MaxHandles : handles[h] = NoName
                         /\ \A d \in Databases : tab[d] # "fresh"
  /\ session # "none" => handle \in 1..MaxHandles /\ handles[handle] # NoName
  /\ Postgres /\ session # "none" =>
       /\ handles[handle] = Connected(database)
       /\ \A d \in Databases : tab[d] = "fresh" => database = d
  /\ \A h \in openOnes : handles[h] # NoName

DbInv == DbTypeOK /\ UsesOK /\ SessionOK /\ HandlesOwned
-----------------------------------------------------------------------------
LEMMA Named == \A d \in Databases : Connected(d) = d
BY DbSessionsAssumption DEF Connected

LEMMA NoUseType ==
  /\ NoCall \in UseType
  /\ NoCall.pc = "idle" /\ NoCall.h = 0 /\ NoCall.own = FALSE /\ NoCall.raced = FALSE
BY DbSessionsAssumption DEF NoCall, UseType

LEMMA Fresh ==
  ASSUME Unused # {}
  PROVE  NewHandle \in 1..MaxHandles /\ handles[NewHandle] = NoName
<1>1. NewHandle \in Unused
  BY DEF NewHandle
<1>. QED
  BY <1>1 DEF Unused

LEMMA DbTypes ==
  ASSUME DbInv
  PROVE  /\ caller \in [Callers -> UseType]
         /\ \A c \in Callers : caller[c] \in UseType
         /\ handles \in [1..MaxHandles -> Databases \cup {NoName}]
         /\ tab \in [Databases -> {"none", "fresh", "away"}]
         /\ openOnes \subseteq 1..MaxHandles
         /\ handle \in 0..MaxHandles /\ 0 \notin 1..MaxHandles
BY DEF DbInv, DbTypeOK, UseType

(* A call that does not move keeps its facts if handles are only opened,   *)
(* tabs do not vanish and its own connection stays its own.                *)
LEMMA RestingCall ==
  ASSUME DbInv, NEW d \in Callers, caller'[d] = caller[d], dbType' = dbType,
         \A h \in 1..MaxHandles : handles[h] # NoName => handles'[h] = handles[h],
         caller[d].own => caller[d].h \in openOnes' /\ caller[d].h # handle',
         \A e \in Databases : tab[e] # "none" => tab'[e] # "none",
         caller[d].pc = "mayUse" /\ Postgres /\ ~caller[d].raced => database' = database,
         session # "none" => session' # "none"
  PROVE  UseOK(caller[d])'
<1>. DEFINE c == caller[d]
<1>1. UseOK(c) /\ c \in UseType
  BY DbTypes DEF DbInv, UsesOK
<1>2. c.h # 0 => c.h \in 1..MaxHandles /\ handles'[c.h] = handles[c.h]
  <2>1. c.h \in 0..MaxHandles
    BY <1>1 DEF UseType
  <2>2. c.h # 0 => c.h \in 1..MaxHandles
    BY <2>1, DbSessionsAssumption
  <2>. QED
    BY <1>1, <2>2 DEF UseOK, HoldsOwn
<1>3. c.own => c.h # 0
  BY <1>1, DbTypes DEF UseOK, HoldsOwn
<1>4. c.want \in Databases
  BY <1>1 DEF UseType
<1>5. HoldsOwn(caller[d])'
  BY <1>1, <1>2, <1>3 DEF UseOK, HoldsOwn
<1>6. RunsWhereMeant(caller[d])'
  BY <1>1, <1>2, <1>4 DEF UseOK, RunsWhereMeant, Postgres
<1>. QED
  BY <1>5, <1>6 DEF UseOK
-----------------------------------------------------------------------------
LEMMA InitDbInv == DbInit => DbInv
<1> SUFFICES ASSUME DbInit PROVE DbInv
  OBVIOUS
<1>1. /\ session = "none" /\ database = NoName /\ handle = 0 /\ openOnes = {} /\ calls = 0
      /\ handles = [h \in 1..MaxHandles |-> NoName]
      /\ tab \in [Databases -> {"none", "away"}]
      /\ caller = [c \in Callers |-> NoCall]
      /\ dbType \in {"postgresql", "mysql"}
  BY DEF DbInit
<1>2. DbTypeOK
  <2>1. caller \in [Callers -> UseType]
    BY <1>1, NoUseType
  <2>2. 0 \in 0..MaxHandles /\ 0 \in 0..MaxCalls
    BY DbSessionsAssumption
  <2>. QED
    BY <1>1, <2>1, <2>2 DEF DbTypeOK, UseType
<1>3. UsesOK
  <2>1. \A c \in Callers : caller[c] = NoCall
    BY <1>1
  <2>. QED
    BY <2>1, NoUseType DEF UsesOK, UseOK, HoldsOwn, RunsWhereMeant
<1>4. SessionOK /\ HandlesOwned
  <2>1. \A c \in Callers : caller[c].own = FALSE
    BY <1>1, NoUseType
  <2>. QED
    BY <1>1, <2>1 DEF SessionOK, HandlesOwned
<1>. QED
  BY <1>2, <1>3, <1>4 DEF DbInv
-----------------------------------------------------------------------------
LEMMA OpenSessionDbInv ==
  ASSUME DbInv, NEW d \in Databases \cup {NoName}, OpenSession(d)
  PROVE  DbInv'
<1>1. /\ session = "none" /\ session' = "open" /\ database' = d
      /\ handle' = NewHandle /\ openOnes' = {NewHandle}
      /\ handles' = [handles EXCEPT ![NewHandle] = Connected(d)]
      /\ tab' = [e \in Databases |-> IF e = d THEN "fresh" ELSE tab[e]]
      /\ UNCHANGED <<dbType, caller, calls>>
  BY DEF OpenSession
<1>8. Connected(d) \in Databases
  BY DbSessionsAssumption DEF Connected
<1>2. NewHandle \in 1..MaxHandles /\ handles[NewHandle] = NoName
  <2>1. 1 \in 1..MaxHandles
    BY DbSessionsAssumption
  <2>2. Unused # {}
    BY <1>1, <2>1 DEF DbInv, SessionOK, Unused
  <2>. QED
    BY <2>2, Fresh
<1>3. DbTypeOK'
  <2>1. handle' \in 0..MaxHandles
    BY <1>1, <1>2, DbSessionsAssumption
  <2>2. tab' \in [Databases -> {"none", "fresh", "away"}]
    BY <1>1, DbTypes
  <2>. QED
    BY <1>1, <1>2, <1>8, <2>1, <2>2 DEF DbInv, DbTypeOK
<1>4. \A c \in Callers : caller[c].own = FALSE /\ caller[c].pc = "idle"
  BY <1>1, DbTypes DEF DbInv, UsesOK, UseOK, HoldsOwn, RunsWhereMeant, UseType
<1>5. UsesOK'
  <2> SUFFICES ASSUME NEW c \in Callers PROVE UseOK(caller[c])'
    BY DEF UsesOK
  <2>1. \A h \in 1..MaxHandles : handles[h] # NoName => handles'[h] = handles[h]
    BY <1>1, <1>2, DbTypes
  <2>2. \A e \in Databases : tab[e] # "none" => tab'[e] # "none"
    BY <1>1, DbTypes
  <2>. QED
    BY <1>1, <1>4, <2>1, <2>2, RestingCall
<1>6. SessionOK'
  <2>1. handles'[NewHandle] = Connected(d) /\ Connected(d) # NoName
    BY <1>1, <1>2, <1>8, DbTypes, DbSessionsAssumption
  <2>2. \A e \in Databases : tab'[e] = "fresh" => e = d
    BY <1>1, DbTypes DEF DbInv, SessionOK
  <2>. QED
    BY <1>1, <1>2, <2>1, <2>2 DEF SessionOK
<1>7. HandlesOwned'
  BY <1>1, <1>4 DEF HandlesOwned
<1>. QED
  BY <1>3, <1>5, <1>6, <1>7 DEF DbInv

LEMMA CloseOrClearDbInv ==
  ASSUME DbInv, CloseSession \/ ClearDatabase
  PROVE  DbInv'
<1>1. /\ UNCHANGED <<dbType, handle, handles, tab, caller, calls>>
      /\ session = "open" /\ session' \in {"open", "closed"}
      /\ \/ session' = "closed" /\ openOnes' = openOnes \ {handle} /\ database' = database
         \/ session' = "open" /\ openOnes' = openOnes /\ ~Postgres /\ database' = NoName
  BY DEF CloseSession, ClearDatabase
<1>2. DbTypeOK'
  BY <1>1 DEF DbInv, DbTypeOK
<1>3. \A c \in Callers : caller[c].own => caller[c].h \in openOnes /\ caller[c].h # handle
  BY DEF DbInv, UsesOK, UseOK, HoldsOwn
<1>4. UsesOK'
  <2> SUFFICES ASSUME NEW c \in Callers PROVE UseOK(caller[c])'
    BY DEF UsesOK
  <2>. QED
    BY <1>1, <1>3, RestingCall
<1>5. SessionOK'
  BY <1>1 DEF DbInv, SessionOK, Postgres
<1>6. HandlesOwned'
  BY <1>1 DEF DbInv, HandlesOwned
<1>. QED
  BY <1>2, <1>4, <1>5, <1>6 DEF DbInv
-----------------------------------------------------------------------------
\* What a switch to d leaves of the tabs: they do not vanish, and d's is fresh.
LEMMA DbTabsStay ==
  ASSUME DbInv, NEW d \in Databases
  PROVE  /\ TabsAfter(d) \in [Databases -> {"none", "fresh", "away"}]
         /\ \A e \in Databases : tab[e] # "none" => TabsAfter(d)[e] # "none"
         /\ \A e \in Databases : TabsAfter(d)[e] = "fresh" => e = d
BY DEF TabsAfter

(* The step of a call that holds no connection of its own, the session     *)
(* staying as it is.                                                       *)
LEMMA CallStepDbInv ==
  ASSUME DbInv, NEW c \in Callers, NEW d \in Databases, NEW rec \in UseType,
         caller' = [caller EXCEPT ![c] = rec],
         UNCHANGED <<dbType, session, database, handle, handles, openOnes>>,
         caller[c].own = FALSE, rec.own = FALSE,
         tab' = tab \/ (session = "open" /\ database = d /\ tab' = TabsAfter(d)),
         calls' \in 0..MaxCalls,
         UseOK(caller[c])'
  PROVE  DbInv'
<1>1. caller' \in [Callers -> UseType]
  BY DbTypes
<1>2. tab' \in [Databases -> {"none", "fresh", "away"}]
      /\ \A e \in Databases : tab[e] # "none" => tab'[e] # "none"
  BY DbTypes, DbTabsStay
<1>3. DbTypeOK'
  BY <1>1, <1>2 DEF DbInv, DbTypeOK, UseType
<1>4. UsesOK'
  <2> SUFFICES ASSUME NEW e \in Callers PROVE UseOK(caller[e])'
    BY DEF UsesOK
  <2>1. CASE e = c
    BY <2>1
  <2>2. CASE e # c
    <3>1. caller'[e] = caller[e]
      BY <2>2, DbTypes
    <3>2. caller[e].own => caller[e].h \in openOnes /\ caller[e].h # handle
      BY DEF DbInv, UsesOK, UseOK, HoldsOwn
    <3>. QED
      BY <1>2, <3>1, <3>2, RestingCall
  <2>. QED
    BY <2>1, <2>2
<1>5. SessionOK'
  <2>1. session = "none" => tab' = tab
    OBVIOUS
  <2>2. Postgres /\ session # "none" => \A e \in Databases : tab'[e] = "fresh" => database = e
    BY DbTabsStay DEF DbInv, SessionOK
  <2>. QED
    BY <2>1, <2>2 DEF DbInv, SessionOK, Postgres
<1>6. HandlesOwned'
  <2>1. \A e \in Callers : caller'[e].own = caller[e].own
                           /\ (caller[e].own => caller'[e].h = caller[e].h)
    BY DbTypes
  <2>. QED
    BY <2>1 DEF DbInv, HandlesOwned
<1>. QED
  BY <1>3, <1>4, <1>5, <1>6 DEF DbInv

LEMMA StartsDbInv ==
  ASSUME DbInv, NEW c \in Callers, NEW d \in Databases,
         SwitchBegins(c, d) \/ TabCall(c, d) \/ MetaCall(c, d)
  PROVE  DbInv'
<1>1. ASSUME NEW pc \in {"switching", "got", "mayUse", "mustOpen", "ran", "failed"},
             StartCall(c, d, pc),
             UNCHANGED <<dbType, session, database, handle, handles, openOnes>>,
             tab' = tab \/ (session = "open" /\ database = d /\ tab' = TabsAfter(d)),
             pc = "got" => tab[d] # "none",
             pc = "mayUse" /\ Postgres => database = d
      PROVE  DbInv'
  <2>. DEFINE rec == [NoCall EXCEPT !.want = d, !.pc = pc]
  <2>1. /\ caller' = [caller EXCEPT ![c] = rec] /\ calls' = calls + 1 /\ calls < MaxCalls
        /\ session # "none" /\ caller[c].pc \in {"idle", "ran", "failed"}
    BY <1>1 DEF StartCall, SetCall
  <2>2. /\ rec \in UseType /\ rec.pc = pc /\ rec.want = d /\ rec.h = 0
        /\ rec.own = FALSE /\ rec.raced = FALSE
    BY NoUseType DEF UseType
  <2>. HIDE DEF rec
  <2>3. caller[c].own = FALSE
    BY <2>1, DbTypes DEF DbInv, UsesOK, UseOK, HoldsOwn, UseType
  <2>4. calls' \in 0..MaxCalls
    BY <2>1, DbSessionsAssumption DEF DbInv, DbTypeOK
  <2>5. UseOK(caller[c])'
    <3>1. caller'[c] = rec
      BY <2>1, DbTypes
    <3>2. pc = "got" => tab'[d] # "none"
      BY <1>1, DbTabsStay
    <3>. QED
      BY <1>1, <2>1, <2>2, <3>1, <3>2 DEF UseOK, HoldsOwn, RunsWhereMeant, Postgres
  <2>. QED
    BY <1>1, <2>1, <2>2, <2>3, <2>4, <2>5, CallStepDbInv
<1>2. CASE SwitchBegins(c, d)
  <2>. DEFINE pc == IF session = "closed" THEN "failed"
                    ELSE IF database = d THEN "ran" ELSE "switching"
  <2>1. /\ StartCall(c, d, pc) /\ pc \in {"failed", "ran", "switching"}
        /\ UNCHANGED <<dbType, session, database, handle, handles, openOnes>>
        /\ tab' = tab \/ (session = "open" /\ database = d /\ tab' = TabsAfter(d))
    BY <1>2 DEF SwitchBegins
  <2>. HIDE DEF pc
  <2>. QED
    BY <1>1, <2>1
<1>3. CASE TabCall(c, d)
  <2>. DEFINE pc == IF session = "open" THEN "got" ELSE "failed"
  <2>1. /\ StartCall(c, d, pc) /\ pc \in {"got", "failed"} /\ tab[d] # "none" /\ tab' = tab
        /\ UNCHANGED <<dbType, session, database, handle, handles, openOnes>>
    BY <1>3 DEF TabCall
  <2>. HIDE DEF pc
  <2>. QED
    BY <1>1, <2>1
<1>4. CASE MetaCall(c, d)
  <2>. DEFINE pc == IF session # "open" THEN "failed"
                    ELSE IF UsesOwnHandle(d) THEN "mustOpen" ELSE "mayUse"
  <2>1. /\ StartCall(c, d, pc) /\ pc \in {"mayUse", "mustOpen", "failed"} /\ tab' = tab
        /\ UNCHANGED <<dbType, session, database, handle, handles, openOnes>>
        /\ pc = "mayUse" /\ Postgres => database = d
    BY <1>4 DEF MetaCall, UsesOwnHandle
  <2>. HIDE DEF pc
  <2>. QED
    BY <1>1, <2>1
<1>. QED
  BY <1>2, <1>3, <1>4

LEMMA ReadsTunnelDbInv ==
  ASSUME DbInv, NEW c \in Callers, SwitchReadsTunnel(c)
  PROVE  DbInv'
<1>. DEFINE pc == IF session = "open" THEN "tunnelRead" ELSE "failed"
            rec == [caller[c] EXCEPT !.pc = pc]
<1>1. /\ caller' = [caller EXCEPT ![c] = rec] /\ caller[c].pc = "switching"
      /\ pc \in {"tunnelRead", "failed"}
      /\ UNCHANGED <<dbType, session, database, handle, handles, openOnes, tab, calls>>
  BY DEF SwitchReadsTunnel, SetCall, At
<1>. HIDE DEF pc
<1>2. /\ rec \in UseType /\ rec.pc = pc /\ rec.want = caller[c].want /\ rec.h = caller[c].h
      /\ rec.own = caller[c].own /\ rec.raced = caller[c].raced /\ rec.want \in Databases
  BY <1>1, DbTypes DEF UseType
<1>3. UseOK(caller[c]) /\ caller[c].own = FALSE
  BY <1>1, DbTypes DEF DbInv, UsesOK, UseOK, HoldsOwn, UseType
<1>. HIDE DEF rec
<1>4. UseOK(caller[c])'
  <2>1. caller'[c] = rec
    BY <1>1, DbTypes
  <2>. QED
    BY <1>1, <1>2, <1>3, <2>1 DEF UseOK, HoldsOwn, RunsWhereMeant, Postgres
<1>5. calls' \in 0..MaxCalls
  BY <1>1 DEF DbInv, DbTypeOK
<1>. QED
  BY <1>1, <1>2, <1>3, <1>4, <1>5, CallStepDbInv

LEMMA TakesHandleDbInv ==
  ASSUME DbInv, NEW c \in Callers, TakesHandle(c)
  PROVE  DbInv'
<1>. DEFINE raced == caller[c].raced \/ (At(c, "got") /\ tab[caller[c].want] = "away")
            rec == [caller[c] EXCEPT !.h = handle, !.pc = "has", !.raced = raced]
<1>1. /\ caller' = [caller EXCEPT ![c] = rec] /\ caller[c].pc \in {"got", "mayUse"}
      /\ UNCHANGED <<dbType, session, database, handle, handles, openOnes, tab, calls>>
  BY DEF TakesHandle, SetCall, At
<1>2. raced \in BOOLEAN
  BY DbTypes DEF UseType
<1>3. UseOK(caller[c]) /\ caller[c].own = FALSE /\ caller[c].want \in Databases
  BY <1>1, DbTypes DEF DbInv, UsesOK, UseOK, HoldsOwn, UseType
<1>4. session # "none" /\ handle \in 1..MaxHandles /\ handles[handle] # NoName
  BY <1>1, <1>3 DEF DbInv, SessionOK, UseOK, RunsWhereMeant
<1>5. Postgres /\ handles[handle] # caller[c].want => raced
  <2>1. CASE caller[c].pc = "got"
    <3>1. tab[caller[c].want] \in {"fresh", "away"}
      BY <1>3, <2>1, DbTypes DEF UseOK, RunsWhereMeant
    <3>. QED
      BY <1>3, <1>4, <2>1, <3>1, Named DEF DbInv, SessionOK, At
  <2>2. CASE caller[c].pc = "mayUse"
    BY <1>3, <1>4, <2>2, Named DEF DbInv, SessionOK, UseOK, RunsWhereMeant
  <2>. QED
    BY <1>1, <2>1, <2>2
<1>. HIDE DEF raced
<1>6. /\ rec \in UseType /\ rec.pc = "has" /\ rec.want = caller[c].want /\ rec.h = handle
      /\ rec.own = FALSE /\ rec.raced = raced
  BY <1>2, <1>3, DbTypes DEF UseType
<1>. HIDE DEF rec
<1>7. UseOK(caller[c])'
  <2>1. caller'[c] = rec
    BY <1>1, DbTypes
  <2>. QED
    BY <1>1, <1>4, <1>5, <1>6, <2>1 DEF UseOK, HoldsOwn, RunsWhereMeant, Postgres
<1>8. calls' \in 0..MaxCalls
  BY <1>1 DEF DbInv, DbTypeOK
<1>. QED
  BY <1>1, <1>3, <1>6, <1>7, <1>8, CallStepDbInv

LEMMA RenamesDbInv ==
  ASSUME DbInv, NEW c \in Callers, SwitchRenames(c)
  PROVE  DbInv'
<1>. DEFINE rec == [caller[c] EXCEPT !.pc = "ran"]
<1>1. /\ ~Postgres /\ caller[c].pc = "switching"
      /\ caller' = [caller EXCEPT ![c] = rec] /\ tab' = TabsAfter(caller[c].want)
      /\ database' \in {database, caller[c].want}
      /\ UNCHANGED <<dbType, session, handle, handles, openOnes, calls>>
  BY DEF SwitchRenames, SetCall, At
<1>2. /\ rec \in UseType /\ rec.pc = "ran" /\ rec.want = caller[c].want
      /\ rec.h = caller[c].h /\ rec.own = caller[c].own /\ caller[c].want \in Databases
  BY DbTypes DEF UseType
<1>3. UseOK(caller[c]) /\ caller[c].own = FALSE /\ session # "none"
  BY <1>1, DbTypes DEF DbInv, UsesOK, UseOK, HoldsOwn, RunsWhereMeant, UseType
<1>. HIDE DEF rec
<1>4. /\ \A e \in Callers : caller'[e] = IF e = c THEN rec ELSE caller[e]
      /\ tab' \in [Databases -> {"none", "fresh", "away"}]
      /\ \A e \in Databases : tab[e] # "none" => tab'[e] # "none"
  BY <1>1, <1>2, DbTypes, DbTabsStay
<1>5. DbTypeOK'
  <2>1. caller' \in [Callers -> UseType]
    BY <1>1, <1>2, DbTypes
  <2>. QED
    BY <1>1, <1>2, <1>4, <2>1 DEF DbInv, DbTypeOK, UseType
<1>6. UsesOK'
  <2> SUFFICES ASSUME NEW e \in Callers PROVE UseOK(caller[e])'
    BY DEF UsesOK
  <2>1. CASE e = c
    BY <1>1, <1>2, <1>3, <1>4, <2>1 DEF UseOK, HoldsOwn, RunsWhereMeant, Postgres
  <2>2. CASE e # c
    <3>1. caller[e].own => caller[e].h \in openOnes /\ caller[e].h # handle
      BY DEF DbInv, UsesOK, UseOK, HoldsOwn
    <3>. QED
      BY <1>1, <1>4, <2>2, <3>1, RestingCall
  <2>. QED
    BY <2>1, <2>2
<1>7. SessionOK'
  BY <1>1, <1>3 DEF DbInv, SessionOK, Postgres
<1>8. HandlesOwned'
  BY <1>1, <1>2, <1>3, <1>4 DEF DbInv, HandlesOwned
<1>. QED
  BY <1>5, <1>6, <1>7, <1>8 DEF DbInv

(* Opening a connection for a switch or for a statement.                   *)
LEMMA OpensDbInv ==
  ASSUME DbInv, NEW c \in Callers, SwitchOpens(c) \/ MetaOpens(c)
  PROVE  DbInv'
<1>1. PICK from \in {"tunnelRead", "mustOpen"}, to \in {"opened", "has"} : OpenOwn(c, from, to)
  BY DEF SwitchOpens, MetaOpens
<1>2. /\ caller[c].pc = from
      /\ UNCHANGED <<dbType, session, database, handle, tab, calls>>
  BY <1>1 DEF OpenOwn, At
<1>3. /\ UseOK(caller[c]) /\ caller[c].own = FALSE /\ caller[c].want \in Databases
      /\ session # "none"
  BY <1>2, DbTypes DEF DbInv, UsesOK, UseOK, HoldsOwn, RunsWhereMeant, UseType
<1>4. CASE /\ caller' = [caller EXCEPT ![c] = [caller[c] EXCEPT !.pc = "failed"]]
           /\ UNCHANGED <<handles, openOnes>>
  <2>. DEFINE rec == [caller[c] EXCEPT !.pc = "failed"]
  <2>1. /\ rec \in UseType /\ rec.pc = "failed" /\ rec.h = caller[c].h
        /\ rec.own = FALSE
    BY <1>3, DbTypes DEF UseType
  <2>. HIDE DEF rec
  <2>2. caller' = [caller EXCEPT ![c] = rec]
    BY <1>4 DEF rec
  <2>3. UseOK(caller[c])'
    <3>1. caller'[c] = rec
      BY <2>2, DbTypes
    <3>. QED
      BY <1>2, <1>3, <1>4, <2>1, <3>1 DEF UseOK, HoldsOwn, RunsWhereMeant, Postgres
  <2>4. calls' \in 0..MaxCalls
    BY <1>2 DEF DbInv, DbTypeOK
  <2>. QED
    BY <1>2, <1>3, <1>4, <2>1, <2>2, <2>3, <2>4, CallStepDbInv
<1>5. CASE /\ Unused # {} /\ session = "open"
           /\ handles' = [handles EXCEPT ![NewHandle] = caller[c].want]
           /\ openOnes' = openOnes \cup {NewHandle}
           /\ caller' = [caller EXCEPT ![c] =
                [caller[c] EXCEPT !.pc = to, !.h = NewHandle, !.own = TRUE]]
  <2>. DEFINE rec == [caller[c] EXCEPT !.pc = to, !.h = NewHandle, !.own = TRUE]
  <2>1. NewHandle \in 1..MaxHandles /\ handles[NewHandle] = NoName /\ NewHandle # 0
    BY <1>5, Fresh, DbTypes
  <2>2. /\ rec \in UseType /\ rec.pc = to /\ rec.h = NewHandle
        /\ rec.own = TRUE /\ rec.want = caller[c].want
    <3>1. NewHandle \in 0..MaxHandles
      BY <2>1, DbSessionsAssumption
    <3>. QED
      BY <3>1, DbTypes DEF UseType
  <2>. HIDE DEF rec
  <2>3. /\ caller' = [caller EXCEPT ![c] = rec]
        /\ \A e \in Callers : caller'[e] = IF e = c THEN rec ELSE caller[e]
    BY <1>5, DbTypes DEF rec
  <2>4. /\ handles' \in [1..MaxHandles -> Databases \cup {NoName}]
        /\ handles'[NewHandle] = caller[c].want /\ caller[c].want # NoName
        /\ \A h \in 1..MaxHandles : handles[h] # NoName => handles'[h] = handles[h]
    BY <1>3, <1>5, <2>1, DbTypes, DbSessionsAssumption
  <2>5. \A h \in openOnes : h # NewHandle /\ h \in 1..MaxHandles /\ handles[h] # NoName
    BY <2>1, DbTypes DEF DbInv, SessionOK
  <2>6. handle # NewHandle /\ handle \in 1..MaxHandles /\ handles[handle] # NoName
    BY <1>3, <2>1 DEF DbInv, SessionOK
  <2>7. \A e \in Callers : caller[e].own => caller[e].h \in openOnes /\ caller[e].h # handle
    BY DEF DbInv, UsesOK, UseOK, HoldsOwn
  <2>8. DbTypeOK'
    <3>1. caller' \in [Callers -> UseType]
      BY <2>2, <2>3, DbTypes
    <3>. QED
      BY <1>2, <1>5, <2>1, <2>4, <3>1 DEF DbInv, DbTypeOK, UseType
  <2>9. UsesOK'
    <3> SUFFICES ASSUME NEW e \in Callers PROVE UseOK(caller[e])'
      BY DEF UsesOK
    <3>1. CASE e = c
      BY <1>2, <1>3, <1>5, <2>1, <2>2, <2>3, <2>4, <2>6, <3>1
         DEF UseOK, HoldsOwn, RunsWhereMeant, Postgres
    <3>2. CASE e # c
      BY <1>2, <1>5, <2>3, <2>4, <2>7, <3>2, RestingCall
    <3>. QED
      BY <3>1, <3>2
  <2>10. SessionOK'
    BY <1>2, <1>3, <1>5, <2>4, <2>5, <2>6 DEF DbInv, SessionOK, Postgres
  <2>11. HandlesOwned'
    <3>1. \A e, f \in Callers :
            caller'[e].own /\ caller'[f].own /\ caller'[e].h = caller'[f].h => e = f
      BY <2>2, <2>3, <2>5, <2>7 DEF DbInv, HandlesOwned
    <3>2. \A h \in openOnes' :
            \/ session = "open" /\ h = handle
            \/ \E e \in Callers : caller'[e].own /\ caller'[e].h = h
      <4> SUFFICES ASSUME NEW h \in openOnes', ~(session = "open" /\ h = handle)
                   PROVE  \E e \in Callers : caller'[e].own /\ caller'[e].h = h
        OBVIOUS
      <4>1. CASE h = NewHandle
        BY <2>2, <2>3, <4>1
      <4>2. CASE h \in openOnes
        <5>1. PICK e \in Callers : caller[e].own /\ caller[e].h = h
          BY <4>2 DEF DbInv, HandlesOwned
        <5>. QED
          BY <1>3, <2>3, <5>1
      <4>. QED
        BY <1>5, <4>1, <4>2
    <3>. QED
      BY <1>2, <1>5, <3>1, <3>2 DEF DbInv, HandlesOwned
  <2>. QED
    BY <2>8, <2>9, <2>10, <2>11 DEF DbInv
<1>. QED
  BY <1>1, <1>4, <1>5 DEF OpenOwn, SetCall

(* The new connection takes the place of the old one, which is closed.     *)
LEMMA SwapsDbInv ==
  ASSUME DbInv, NEW c \in Callers, SwitchSwaps(c)
  PROVE  DbInv'
<1>. DEFINE d == caller[c].want
            rec == [caller[c] EXCEPT !.pc = "ran", !.own = FALSE]
<1>1. /\ caller[c].pc = "opened" /\ session = "open"
      /\ handle' = caller[c].h /\ database' = d /\ openOnes' = openOnes \ {handle}
      /\ tab' = TabsAfter(d) /\ caller' = Raced(c)
      /\ UNCHANGED <<dbType, session, handles, calls>>
  BY DEF SwitchSwaps, At
<1>2. /\ caller[c].own /\ caller[c].h \in openOnes /\ caller[c].h # handle
      /\ handles[caller[c].h] = d /\ caller[c].h \in 1..MaxHandles /\ d \in Databases
      /\ handles[caller[c].h] # NoName
  BY <1>1, DbTypes, DbSessionsAssumption DEF DbInv, UsesOK, UseOK, HoldsOwn, UseType
<1>3. /\ rec \in UseType /\ rec.pc = "ran" /\ rec.own = FALSE
      /\ rec.h = caller[c].h /\ rec.want = d
  BY DbTypes DEF UseType
<1>. HIDE DEF rec
<1>4. \A e \in Callers :
        caller'[e] = IF e = c THEN rec
                     ELSE IF caller[e].pc = "mayUse" THEN [caller[e] EXCEPT !.raced = TRUE]
                     ELSE caller[e]
  BY <1>1 DEF Raced, At, rec
<1>5. \A e \in Callers :
        /\ e # c => /\ caller'[e].own = caller[e].own /\ caller'[e].h = caller[e].h
                    /\ caller'[e].pc = caller[e].pc /\ caller'[e].want = caller[e].want
        /\ caller'[e] \in UseType
        /\ e # c /\ caller[e].pc = "mayUse" => caller'[e].raced = TRUE
  <2> SUFFICES ASSUME NEW e \in Callers, e # c
               PROVE  /\ caller'[e].own = caller[e].own /\ caller'[e].h = caller[e].h
                      /\ caller'[e].pc = caller[e].pc /\ caller'[e].want = caller[e].want
                      /\ caller'[e] \in UseType
                      /\ caller[e].pc = "mayUse" => caller'[e].raced = TRUE
    BY <1>3, <1>4
  <2>1. CASE caller[e].pc = "mayUse"
    <3>1. caller'[e] = [caller[e] EXCEPT !.raced = TRUE] /\ caller[e] \in UseType
      BY <1>4, <2>1, DbTypes
    <3>. QED
      BY <3>1 DEF UseType
  <2>2. CASE caller[e].pc # "mayUse"
    BY <1>4, <2>2, DbTypes
  <2>. QED
    BY <2>1, <2>2
<1>6. \A e \in Callers :
        e # c /\ caller[e].own => /\ caller[e].h \in openOnes /\ caller[e].h # handle
                                  /\ caller[e].h # caller[c].h
  BY <1>2 DEF DbInv, UsesOK, UseOK, HoldsOwn, HandlesOwned
<1>7. /\ tab' \in [Databases -> {"none", "fresh", "away"}]
      /\ \A e \in Databases : tab[e] # "none" => tab'[e] # "none"
      /\ \A e \in Databases : tab'[e] = "fresh" => e = d
  BY <1>1, <1>2, DbTabsStay
<1>8. DbTypeOK'
  <2>1. caller' \in [Callers -> UseType]
    BY <1>1, <1>5 DEF Raced
  <2>2. handle' \in 0..MaxHandles
    BY <1>1, <1>2, DbSessionsAssumption
  <2>. QED
    BY <1>1, <1>2, <1>7, <2>1, <2>2 DEF DbInv, DbTypeOK, UseType
<1>9. UsesOK'
  <2> SUFFICES ASSUME NEW e \in Callers PROVE UseOK(caller[e])'
    BY DEF UsesOK
  <2>1. CASE e = c
    <3>1. caller'[e] = rec
      BY <1>4, <2>1
    <3>. QED
      BY <1>1, <1>2, <1>3, <3>1 DEF UseOK, HoldsOwn, RunsWhereMeant, Postgres
  <2>2. CASE e # c /\ caller[e].pc = "mayUse"
    <3>1. UseOK(caller[e])
      BY DEF DbInv, UsesOK
    <3>. QED
      BY <1>1, <1>5, <1>6, <2>2, <3>1 DEF UseOK, HoldsOwn, RunsWhereMeant, Postgres
  <2>3. CASE e # c /\ caller[e].pc # "mayUse"
    <3>1. caller'[e] = caller[e]
      BY <1>4, <2>3
    <3>. QED
      BY <1>1, <1>6, <1>7, <2>3, <3>1, RestingCall
  <2>. QED
    BY <2>1, <2>2, <2>3
<1>10. SessionOK'
  BY <1>1, <1>2, <1>7, Named DEF DbInv, SessionOK, Postgres
<1>11. HandlesOwned'
  <2>1. \A h \in openOnes' :
          h = caller[c].h \/ \E e \in Callers : caller'[e].own /\ caller'[e].h = h
    <3> SUFFICES ASSUME NEW h \in openOnes', h # caller[c].h
                 PROVE  \E e \in Callers : caller'[e].own /\ caller'[e].h = h
      OBVIOUS
    <3>1. PICK e \in Callers : caller[e].own /\ caller[e].h = h
      BY <1>1 DEF DbInv, HandlesOwned
    <3>. QED
      BY <1>5, <3>1
  <2>2. \A e, f \in Callers :
          caller'[e].own /\ caller'[f].own /\ caller'[e].h = caller'[f].h => e = f
    <3>1. caller'[c].own = FALSE
      BY <1>3, <1>4
    <3>. QED
      BY <1>5, <3>1 DEF DbInv, HandlesOwned
  <2>. QED
    BY <1>1, <1>2, <2>1, <2>2 DEF HandlesOwned
<1>. QED
  BY <1>8, <1>9, <1>10, <1>11 DEF DbInv

(* A call that is over closes the connection it opened, if any.            *)
LEMMA EndsDbInv ==
  ASSUME DbInv, NEW c \in Callers, SwitchTooLate(c) \/ Runs(c)
  PROVE  DbInv'
<1>1. PICK pc \in {"ran", "failed"} :
        /\ caller' = [caller EXCEPT ![c] = [caller[c] EXCEPT !.pc = pc, !.own = FALSE]]
        /\ pc = "ran" => caller[c].pc = "has"
        /\ caller[c].pc \in {"opened", "has"}
        /\ openOnes' = IF caller[c].own THEN openOnes \ {caller[c].h} ELSE openOnes
        /\ UNCHANGED <<dbType, session, database, handle, handles, tab, calls>>
  <2>1. CASE SwitchTooLate(c)
    <3>1. caller[c].pc = "opened" /\ openOnes' = openOnes \ {caller[c].h}
          /\ caller' = [caller EXCEPT ![c] = [caller[c] EXCEPT !.pc = "failed", !.own = FALSE]]
          /\ UNCHANGED <<dbType, session, database, handle, handles, tab, calls>>
      BY <2>1 DEF SwitchTooLate, SetCall, At
    <3>2. caller[c].own
      BY <3>1 DEF DbInv, UsesOK, UseOK, HoldsOwn
    <3>. QED
      BY <3>1, <3>2
  <2>2. CASE Runs(c)
    <3>. DEFINE pc == IF caller[c].h \in openOnes THEN "ran" ELSE "failed"
    <3>1. /\ caller[c].pc = "has" /\ pc \in {"ran", "failed"}
          /\ caller' = [caller EXCEPT ![c] = [caller[c] EXCEPT !.own = FALSE, !.pc = pc]]
          /\ openOnes' = IF caller[c].own THEN openOnes \ {caller[c].h} ELSE openOnes
          /\ UNCHANGED <<dbType, session, database, handle, handles, tab, calls>>
      BY <2>2 DEF Runs, SetCall, At
    <3>. HIDE DEF pc
    <3>2. [caller[c] EXCEPT !.own = FALSE, !.pc = pc] = [caller[c] EXCEPT !.pc = pc, !.own = FALSE]
      BY DbTypes DEF UseType
    <3>. QED
      BY <3>1, <3>2
  <2>. QED
    BY <2>1, <2>2
<1>. DEFINE rec == [caller[c] EXCEPT !.pc = pc, !.own = FALSE]
<1>2. /\ rec \in UseType /\ rec.pc = pc /\ rec.own = FALSE /\ rec.h = caller[c].h
      /\ rec.want = caller[c].want /\ rec.raced = caller[c].raced
  BY DbTypes DEF UseType
<1>3. UseOK(caller[c])
  BY DEF DbInv, UsesOK
<1>. HIDE DEF rec
<1>4. /\ caller' = [caller EXCEPT ![c] = rec]
      /\ \A e \in Callers : caller'[e] = IF e = c THEN rec ELSE caller[e]
  BY <1>1, DbTypes DEF rec
<1>5. \A e \in Callers :
        e # c /\ caller[e].own => caller[e].h \in openOnes' /\ caller[e].h # handle
  BY <1>1 DEF DbInv, UsesOK, UseOK, HoldsOwn, HandlesOwned
<1>6. DbTypeOK'
  <2>1. caller' \in [Callers -> UseType] /\ openOnes' \subseteq openOnes
    BY <1>1, <1>2, <1>4, DbTypes
  <2>. QED
    BY <1>1, <2>1 DEF DbInv, DbTypeOK, UseType
<1>7. UsesOK'
  <2> SUFFICES ASSUME NEW e \in Callers PROVE UseOK(caller[e])'
    BY DEF UsesOK
  <2>1. CASE e = c
    <3>1. caller'[e] = rec
      BY <1>4, <2>1
    <3>. QED
      BY <1>1, <1>2, <1>3, <3>1 DEF UseOK, HoldsOwn, RunsWhereMeant, Postgres
  <2>2. CASE e # c
    <3>1. caller'[e] = caller[e]
      BY <1>4, <2>2
    <3>. QED
      BY <1>1, <1>5, <2>2, <3>1, RestingCall
  <2>. QED
    BY <2>1, <2>2
<1>8. SessionOK'
  BY <1>1 DEF DbInv, SessionOK, Postgres
<1>9. HandlesOwned'
  <2>1. session = "open" => handle \in openOnes'
    BY <1>1, <1>3 DEF DbInv, HandlesOwned, UseOK, HoldsOwn
  <2>2. \A h \in openOnes' :
          \/ session = "open" /\ h = handle
          \/ \E e \in Callers : caller'[e].own /\ caller'[e].h = h
    <3> SUFFICES ASSUME NEW h \in openOnes', ~(session = "open" /\ h = handle)
                 PROVE  \E e \in Callers : caller'[e].own /\ caller'[e].h = h
      OBVIOUS
    <3>1. h \in openOnes /\ ~(caller[c].own /\ caller[c].h = h)
      BY <1>1
    <3>2. PICK e \in Callers : caller[e].own /\ caller[e].h = h
      BY <3>1 DEF DbInv, HandlesOwned
    <3>. QED
      BY <1>4, <3>1, <3>2
  <2>3. \A e, f \in Callers :
          caller'[e].own /\ caller'[f].own /\ caller'[e].h = caller'[f].h => e = f
    BY <1>2, <1>4 DEF DbInv, HandlesOwned
  <2>. QED
    BY <1>1, <2>1, <2>2, <2>3 DEF HandlesOwned
<1>. QED
  BY <1>6, <1>7, <1>8, <1>9 DEF DbInv
-----------------------------------------------------------------------------
LEMMA NextDbInv == DbInv /\ [DbNext]_dbVars => DbInv'
<1> SUFFICES ASSUME DbInv, [DbNext]_dbVars PROVE DbInv'
  OBVIOUS
<1>1. CASE CloseSession \/ ClearDatabase
  BY <1>1, CloseOrClearDbInv
<1>2. ASSUME NEW d \in Databases \cup {NoName}, OpenSession(d) PROVE DbInv'
  BY <1>2, OpenSessionDbInv
<1>3. ASSUME NEW c \in Callers, SwitchRenames(c) PROVE DbInv'
  BY <1>3, RenamesDbInv
<1>4. ASSUME NEW c \in Callers, SwitchReadsTunnel(c) PROVE DbInv'
  BY <1>4, ReadsTunnelDbInv
<1>5. ASSUME NEW c \in Callers, SwitchOpens(c) \/ MetaOpens(c) PROVE DbInv'
  BY <1>5, OpensDbInv
<1>6. ASSUME NEW c \in Callers, SwitchSwaps(c) PROVE DbInv'
  BY <1>6, SwapsDbInv
<1>7. ASSUME NEW c \in Callers, SwitchTooLate(c) \/ Runs(c) PROVE DbInv'
  BY <1>7, EndsDbInv
<1>8. ASSUME NEW c \in Callers, TakesHandle(c) PROVE DbInv'
  BY <1>8, TakesHandleDbInv
<1>9. ASSUME NEW c \in Callers, NEW d \in Databases,
             SwitchBegins(c, d) \/ TabCall(c, d) \/ MetaCall(c, d)
      PROVE  DbInv'
  BY <1>9, StartsDbInv
<1>10. CASE UNCHANGED dbVars
  BY <1>10 DEF dbVars, DbInv, DbTypeOK, UsesOK, UseOK, HoldsOwn, RunsWhereMeant, SessionOK,
               HandlesOwned, Postgres
<1>. QED
  BY <1>1, <1>2, <1>3, <1>4, <1>5, <1>6, <1>7, <1>8, <1>9, <1>10 DEF DbNext

\* The strengthening is an invariant of the specification.
THEOREM DbInvariance == DbSpec => []DbInv
<1>1. DbInit => DbInv
  BY InitDbInv
<1>2. DbInv /\ [DbNext]_dbVars => DbInv'
  BY NextDbInv
<1>. QED
  BY <1>1, <1>2, PTL DEF DbSpec

\* The session, its connections and the calls over it keep their types.
THEOREM DbTypeCorrect == DbSpec => []DbTypeOK
<1>1. DbInv => DbTypeOK
  BY DEF DbInv
<1>. QED
  BY <1>1, DbInvariance, PTL

\* No interleaving of switches, statements and Close (session.go) leaks a
\* connection, hands the session a closed one or lets its name and its
\* connection differ, and a statement that ran in another database raced a
\* switch, for any number of calls.
THEOREM SessionsAreSafe == DbSpec => []DbSessionsSafe
<1>1. DbInv => DbSessionsSafe
  <2> SUFFICES ASSUME DbInv PROVE DbSessionsSafe
    OBVIOUS
  <2>1. NameMatchesHandle
    BY DEF DbInv, SessionOK, NameMatchesHandle
  <2>2. AstrayHasCause
    BY DEF DbInv, UsesOK, UseOK, RunsWhereMeant, AstrayHasCause, RanAstray, At
  <2>. QED
    BY <2>1, <2>2 DEF DbInv, DbSessionsSafe
<1>. QED
  BY <1>1, DbInvariance, PTL

-----------------------------------------------------------------------------
(* Port forwards.                                                          *)

FwdInv == FwdTypeOK /\ ForwardsSafe

LEMMA InitFwdInv == FwdInit => FwdInv
<1>1. (CHOOSE f \in Forwards : TRUE) \in Forwards
  BY ForwardsAssumption
<1>2. FwdInit => FwdTypeOK
  <2> SUFFICES ASSUME FwdInit PROVE FwdTypeOK
    OBVIOUS
  <2>1. \E f \in Forwards : via = [c \in Conns |-> f]
    BY <1>1, Zenon DEF FwdInit
  <2>2. via \in [Conns -> Forwards]
    BY <2>1
  <2>3. /\ fwd = [f \in Forwards |-> "none"] /\ port \in [Forwards -> Ports]
        /\ active = {} /\ closes = [f \in Forwards |-> 0] /\ allClosed = FALSE
        /\ conn = [c \in Conns |-> "none"]
    BY DEF FwdInit
  <2>4. fwd \in [Forwards -> {"none", "checked", "listening", "started", "removed",
                              "closing", "closed", "failed"}]
    BY <2>3
  <2>5. closes \in [Forwards -> 0..2]
    BY <2>3
  <2>6. conn \in [Conns -> {"none", "dialing", "piping", "ended"}]
    BY <2>3
  <2>. QED
    BY <2>2, <2>3, <2>4, <2>5, <2>6 DEF FwdTypeOK
<1>3. FwdInit => ListenersOwned
  BY DEF FwdInit, ListenersOwned, Listening
<1>4. FwdInit => ClosedOnce
  BY DEF FwdInit, ClosedOnce, Closing
<1>. QED
  BY <1>2, <1>3, <1>4 DEF FwdInv, ForwardsSafe

(* The calls of Start and Stop, and CloseAll.                              *)
LEMMA ForwardStepFwdInv ==
  ASSUME FwdInv, NEW f \in Forwards,
         \/ StartChecks(f) \/ StartDials(f) \/ StartRegisters(f)
         \/ StopRemoves(f) \/ StopCloses(f) \/ TunnelCloses(f)
  PROVE  FwdInv'
<1>. USE DEF FwdInv, FwdTypeOK, ForwardsSafe, ListenersOwned, ClosedOnce, Listening, Closing,
             SetForward
<1>1. CASE StartChecks(f)
  BY <1>1 DEF StartChecks
<1>2. CASE StartDials(f)
  BY <1>2 DEF StartDials
<1>3. CASE StartRegisters(f)
  BY <1>3 DEF StartRegisters
<1>4. CASE StopRemoves(f)
  BY <1>4 DEF StopRemoves
<1>5. CASE StopCloses(f)
  BY <1>5 DEF StopCloses
<1>6. CASE TunnelCloses(f)
  BY <1>6 DEF TunnelCloses
<1>. QED
  BY <1>1, <1>2, <1>3, <1>4, <1>5, <1>6

LEMMA CloseAllFwdInv ==
  ASSUME FwdInv, CloseAll
  PROVE  FwdInv'
BY DEF CloseAll, FwdInv, FwdTypeOK, ForwardsSafe, ListenersOwned, ClosedOnce, Listening, Closing

(* A connection leaves the tunnels alone.                                  *)
LEMMA ConnStepFwdInv ==
  ASSUME FwdInv, NEW c \in Conns,
         (\E f \in Forwards : Accept(f, c)) \/ Dialed(c) \/ CopyEnds(c) \/ PipeSeesClosed(c)
  PROVE  FwdInv'
<1>1. UNCHANGED <<fwd, port, active, closes, allClosed>>
  BY DEF Accept, Dialed, CopyEnds, PipeSeesClosed, SetConn
<1>2. conn' \in [Conns -> {"none", "dialing", "piping", "ended"}] /\ via' \in [Conns -> Forwards]
  BY DEF Accept, Dialed, CopyEnds, PipeSeesClosed, SetConn, FwdInv, FwdTypeOK
<1>. QED
  BY <1>1, <1>2
     DEF FwdInv, FwdTypeOK, ForwardsSafe, ListenersOwned, ClosedOnce, Listening, Closing

LEMMA NextFwdInv == FwdInv /\ [FwdNext]_fwdVars => FwdInv'
<1> SUFFICES ASSUME FwdInv, [FwdNext]_fwdVars PROVE FwdInv'
  OBVIOUS
<1>1. CASE UNCHANGED fwdVars
  BY <1>1 DEF fwdVars, FwdInv, FwdTypeOK, ForwardsSafe, ListenersOwned, ClosedOnce, Listening, Closing
<1>. QED
  BY <1>1, ForwardStepFwdInv, CloseAllFwdInv, ConnStepFwdInv DEF FwdNext

THEOREM FwdInvariance == FwdSpec => []FwdInv
BY InitFwdInv, NextFwdInv, PTL DEF FwdSpec

(* Every variable of the forwards has its type.                            *)
THEOREM FwdTypeCorrect == FwdSpec => []FwdTypeOK
BY FwdInvariance, PTL DEF FwdInv

(* No listener is left without someone who closes it, and no tunnel is     *)
(* closed twice, whatever Start, Stop and CloseAll do at the same time.    *)
THEOREM ForwardsAreSafe == FwdSpec => []ForwardsSafe
BY FwdInvariance, PTL DEF FwdInv

-----------------------------------------------------------------------------
(* The composition. A step of one part leaves the variables of the others  *)
(* alone, so that a behaviour of all is one of each.                       *)
LEMMA TerminalStepIs ==
  ASSUME TerminalStep
  PROVE  TermNext /\ UNCHANGED <<dbVars, fwdVars, xferVars, paneVars, wsVars>>
BY DEF TerminalStep, Term, TermNext

LEMMA DatabaseStepIs ==
  ASSUME DatabaseStep
  PROVE  DbNext /\ UNCHANGED <<termVars, fwdVars, xferVars, paneVars, wsVars>>
BY DEF DatabaseStep, Db, DbNext

LEMMA ForwardStepIs ==
  ASSUME ForwardStep
  PROVE  FwdNext /\ UNCHANGED <<termVars, dbVars, xferVars, paneVars, wsVars>>
BY DEF ForwardStep, Fwd, FwdNext

LEMMA TransferStepIs ==
  ASSUME TransferStep
  PROVE  XferNext /\ UNCHANGED <<termVars, dbVars, fwdVars, paneVars, wsVars>>
BY DEF TransferStep, Xfer, XferNext

LEMMA FileStepIs ==
  ASSUME FileStep, Dirs # {}
  PROVE  PanesNext /\ UNCHANGED <<termVars, dbVars, fwdVars, xferVars, wsVars>>
BY DEF FileStep, Files, PanesNext, Home

LEMMA WorkspaceStepIs ==
  ASSUME WorkspaceStep
  PROVE  WsNext /\ UNCHANGED <<termVars, dbVars, fwdVars, xferVars, paneVars>>
BY DEF WorkspaceStep, Ws, WsNext

LEMMA PartSteps ==
  ASSUME [Next]_vars, Dirs # {}
  PROVE  /\ [TermNext]_termVars
         /\ [DbNext]_dbVars
         /\ [FwdNext]_fwdVars
         /\ [XferNext]_xferVars
         /\ [PanesNext]_paneVars
         /\ [WsNext]_wsVars
<1>1. ASSUME TerminalStep PROVE [TermNext]_termVars /\ [DbNext]_dbVars /\ [FwdNext]_fwdVars /\ [XferNext]_xferVars /\ [PanesNext]_paneVars /\ [WsNext]_wsVars
  BY <1>1, TerminalStepIs
<1>2. ASSUME DatabaseStep PROVE [TermNext]_termVars /\ [DbNext]_dbVars /\ [FwdNext]_fwdVars /\ [XferNext]_xferVars /\ [PanesNext]_paneVars /\ [WsNext]_wsVars
  BY <1>2, DatabaseStepIs
<1>3. ASSUME ForwardStep PROVE [TermNext]_termVars /\ [DbNext]_dbVars /\ [FwdNext]_fwdVars /\ [XferNext]_xferVars /\ [PanesNext]_paneVars /\ [WsNext]_wsVars
  BY <1>3, ForwardStepIs
<1>4. ASSUME TransferStep PROVE [TermNext]_termVars /\ [DbNext]_dbVars /\ [FwdNext]_fwdVars /\ [XferNext]_xferVars /\ [PanesNext]_paneVars /\ [WsNext]_wsVars
  BY <1>4, TransferStepIs
<1>5. ASSUME FileStep PROVE [TermNext]_termVars /\ [DbNext]_dbVars /\ [FwdNext]_fwdVars /\ [XferNext]_xferVars /\ [PanesNext]_paneVars /\ [WsNext]_wsVars
  BY <1>5, FileStepIs
<1>6. ASSUME WorkspaceStep PROVE [TermNext]_termVars /\ [DbNext]_dbVars /\ [FwdNext]_fwdVars /\ [XferNext]_xferVars /\ [PanesNext]_paneVars /\ [WsNext]_wsVars
  BY <1>6, WorkspaceStepIs
<1>7. CASE UNCHANGED vars
  BY <1>7 DEF vars
<1>. QED BY <1>1, <1>2, <1>3, <1>4, <1>5, <1>6, <1>7 DEF Next

(* What the stores do side by side is what each of them may do: their      *)
(* composition, which a run checks, implements all six specifications.     *)
THEOREM PartsAreKept ==
  FairSpec => TermSpec /\ DbSpec /\ FwdSpec /\ XferSpec /\ PanesSpec /\ WsSpec
<1>1. Init => TermInit /\ DbInit /\ FwdInit /\ XferInit /\ PanesInit /\ WsInit /\ Dirs # {}
  BY DEF Init, PanesInit
<1>2. CASE Dirs = {}
  <2>1. Init => FALSE
    BY <1>1, <1>2
  <2>. QED BY <2>1, PTL DEF FairSpec
<1>3. CASE Dirs # {}
  <2>1. [Next]_vars => /\ [TermNext]_termVars /\ [DbNext]_dbVars /\ [FwdNext]_fwdVars
                       /\ [XferNext]_xferVars /\ [PanesNext]_paneVars /\ [WsNext]_wsVars
    BY <1>3, PartSteps
  <2>. QED BY <1>1, <2>1, PTL
       DEF FairSpec, TermSpec, DbSpec, FwdSpec, XferSpec, PanesSpec, WsSpec
<1>. QED BY <1>2, <1>3

(* In the composition, too, every variable of the six keeps its type.      *)
THEOREM ConnTypeCorrect == FairSpec => []ConnTypeOK
<1>1. WsInv => WsTypeOK
  BY DEF WsInv
<1>. QED BY <1>1, PartsAreKept, TermTypeCorrect, DbTypeCorrect, FwdTypeCorrect, XferTypeCorrect,
            PanesTypeCorrect, WorkspaceInvariant, PTL DEF ConnTypeOK
=============================================================================
