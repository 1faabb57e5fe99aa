-------------------------- MODULE AgentChoices_proofs --------------------------
(* Proofs about AgentChoices, for every number of calls, turns and submits. *)
(*                                                                         *)
(* The choices of a turn pass from the guest to an offer among the events, *)
(* to the card, to the answers of a submit, to the batch that Choose       *)
(* writes. The invariant says that these never share a call (Apart) and    *)
(* are of turns that have returned; that an offer and a card are all the   *)
(* rows of their turn, whose other calls have results (Offerable), and     *)
(* that the batch of a submit is what the rows of its task were when it    *)
(* read them (SubmitOK). So a result is only ever appended to a call that  *)
(* has none, and a task that is resumed has them all.                      *)
EXTENDS AgentChoices, TLAPS, FiniteSetTheorems, SequenceTheorems

CallsOK ==
  /\ \E k \in 0..NumCalls : {c \in Calls : asked[c] # None} = 1..k
  /\ \A c \in Calls :
       /\ asked[c] # None => st[asked[c]] \notin {"unborn", "spawned"}
       /\ results[c] # 0 => asked[c] # None
       /\ row[c] # None => row[c] = asked[c] /\ results[c] = 0
       /\ results[c] <= 1

TodoOK(u) ==
  /\ st[u] \notin {"calling", "intool"} => todo[u] = <<>>
  /\ st[u] = "intool" => todo[u] # <<>>
  /\ \A i \in 1..Len(todo[u]) :
       /\ asked[todo[u][i]] = u
       /\ results[todo[u][i]] = 0 /\ row[todo[u][i]] = None
       /\ \A j \in 1..Len(todo[u]) : todo[u][i] = todo[u][j] => i = j

AwaitOK(u) ==
  /\ st[u] \notin {"calling", "intool"} => awaiting[u] = {}
  /\ st[u] # "gone" => awaiting[u] = SameTask(u)

InTodo(c, u) == \E i \in 1..Len(todo[u]) : todo[u][i] = c

AnsweredOrKept(u) ==
  st[u] # "gone" => \A c \in Calls : asked[c] = u => results[c] = 1 \/ row[c] = u \/ InTodo(c, u)

GuestOK == \A u \in Turns : TodoOK(u) /\ AwaitOK(u) /\ AnsweredOrKept(u)

Offer(i) == i \in 1..Len(events) /\ events[i].tag = "offer_choices"
Taken(s) == submit[s].answers \cup submit[s].batch

Apart ==
  /\ \A i \in 1..Len(events) : Offer(i) =>
       /\ \A j \in 1..Len(events) : Offer(j) /\ i # j => events[i].calls \cap events[j].calls = {}
       /\ events[i].calls \cap card = {}
       /\ \A s \in Submits : events[i].calls \cap Taken(s) = {}
  /\ \A s \in Submits : card \cap Taken(s) = {}
  /\ \A r, s \in Submits : r # s => Taken(r) \cap Taken(s) = {}

OfGone(set) == \A c \in set : asked[c] # None /\ st[asked[c]] = "gone"

Complete(t) == \A c \in Calls : asked[c] = t => results[c] = 1 \/ row[c] = t

Offerable(set) ==
  \A c \in set : row[c] # None /\ SameTask(row[c]) = set /\ Complete(row[c])

Left(s) == IF submit[s].pc = "deleted" THEN submit[s].batch \ {c \in submit[s].batch : NextOf(s, c)}
                                     ELSE submit[s].batch

SubmitOK(s) ==
  /\ submit[s].pc = "free" => submit[s] = Free
  /\ submit[s].pc = "called" =>
       /\ submit[s].batch = {}
       /\ \A c \in submit[s].answers : row[c] # None /\ Complete(row[c])
  /\ submit[s].pc \in {"writing", "deleted"} =>
       /\ submit[s].answers = {}
       /\ submit[s].task \in Turns /\ st[submit[s].task] = "gone"
       /\ SameTask(submit[s].task) = Left(s)
       /\ \A c \in submit[s].batch : asked[c] = submit[s].task /\ results[c] = 0
       /\ \A c \in Calls : asked[c] = submit[s].task => results[c] = 1 \/ c \in submit[s].batch
  /\ submit[s].pc = "deleted" => submit[s].batch # {}

HeldOK ==
  /\ Apart
  /\ \A i \in 1..Len(events) : Offer(i) => OfGone(events[i].calls) /\ Offerable(events[i].calls)
  /\ OfGone(card) /\ Offerable(card)
  /\ \A s \in Submits : OfGone(Taken(s)) /\ SubmitOK(s)

ResumeOK ==
  \A u \in Turns : resumes[u] # None =>
     st[resumes[u]] = "gone" /\ \A c \in Calls : asked[c] = resumes[u] => results[c] = 1

IInv == TypeOK /\ CallsOK /\ GuestOK /\ HeldOK /\ ResumeOK

-----------------------------------------------------------------------------
(* The state has its types, taken apart.                                   *)
LEMMA Types ==
  ASSUME TypeOK
  PROVE  /\ asked \in [Calls -> Turns \cup {None}] /\ results \in [Calls -> Nat]
         /\ row \in [Calls -> Turns \cup {None}] /\ st \in [Turns -> TurnStates]
         /\ \A u \in Turns : /\ todo[u] \in Seq(Calls) /\ awaiting[u] \subseteq Calls
                           /\ polls[u] \in 0..(PollLimit - 1)
         /\ todo \in [Turns -> Seq(Calls)] /\ awaiting \in [Turns -> SUBSET Calls]
         /\ polls \in [Turns -> 0..(PollLimit - 1)]
         /\ resumes \in [Turns -> Turns \cup {None}] /\ runs \in Turns \cup {None}
         /\ submit \in [Submits -> SubmitRecords]
         /\ \A s \in Submits : /\ submit[s] \in SubmitRecords
                             /\ submit[s].answers \subseteq Calls /\ submit[s].batch \subseteq Calls
         /\ events \in Seq(Events) /\ card \subseteq Calls /\ open \subseteq Calls
         /\ None \notin Turns
BY NoneAssumption DEF TypeOK, SubmitRecords

(* Events that are put behind the others, and the one that is taken.       *)
LEMMA QuietEvents ==
  ASSUME TypeOK, NEW es \in Seq(Events), events' = events \o es,
         \A i \in 1..Len(es) : es[i].tag # "offer_choices"
  PROVE  \A i : /\ Offer(i)' <=> Offer(i)
                /\ Offer(i) => events'[i] = events[i]
<1>1. events \in Seq(Events)
  BY DEF TypeOK
<1>2. /\ Len(events') = Len(events) + Len(es) /\ Len(events) \in Nat /\ Len(es) \in Nat
      /\ \A i \in 1..(Len(events) + Len(es)) :
           events'[i] = IF i <= Len(events) THEN events[i] ELSE es[i - Len(events)]
  BY <1>1, ConcatProperties
<1>3. \A i \in 1..Len(events) : i \in 1..Len(events') /\ events'[i] = events[i]
  BY <1>2
<1>4. ASSUME NEW i \in 1..Len(events'), i \notin 1..Len(events)
      PROVE  events'[i].tag # "offer_choices"
  <2>1. i - Len(events) \in 1..Len(es) /\ events'[i] = es[i - Len(events)]
    BY <1>2, <1>4
  <2>. QED
    BY <2>1
<1>. QED
  BY <1>3, <1>4 DEF Offer

LEMMA Offered ==
  ASSUME TypeOK, NEW e \in Events, NEW f \in Events, e.tag = "offer_choices",
         f.tag # "offer_choices", events' = events \o <<e, f>>,
         NEW new, new = Len(events) + 1
  PROVE  /\ Offer(new)' /\ events'[new] = e /\ ~Offer(new)
         /\ \A i : /\ Offer(i)' <=> Offer(i) \/ i = new
                   /\ Offer(i) => events'[i] = events[i]
<1>. DEFINE es == <<e, f>>
<1>1. events \in Seq(Events) /\ es \in Seq(Events) /\ Len(es) = 2 /\ es[1] = e /\ es[2] = f
  BY DEF TypeOK
<1>. HIDE DEF es
<1>2. events' = events \o es
  BY DEF es
<1>3. /\ Len(events') = Len(events) + 2 /\ Len(events) \in Nat
      /\ \A i \in 1..(Len(events) + 2) :
           events'[i] = IF i <= Len(events) THEN events[i] ELSE es[i - Len(events)]
  BY <1>1, <1>2, ConcatProperties
<1>4. \A i \in 1..Len(events) : i \in 1..Len(events') /\ events'[i] = events[i]
  BY <1>3
<1>5. events'[new] = e /\ events'[new + 1] = f /\ new \in 1..Len(events') /\ new \notin 1..Len(events)
  BY <1>1, <1>3
<1>6. \A i \in 1..Len(events') : i \in 1..Len(events) \/ i = new \/ i = new + 1
  BY <1>3
<1>7. Offer(new)' /\ ~Offer(new)
  BY <1>5 DEF Offer
<1>8. ASSUME NEW i PROVE (Offer(i)' <=> Offer(i) \/ i = new) /\ (Offer(i) => events'[i] = events[i])
  BY <1>4, <1>5, <1>6 DEF Offer
<1>. QED
  BY <1>5, <1>7, <1>8

LEMMA Delivered ==
  ASSUME TypeOK, events # <<>>, events' = Tail(events)
  PROVE  /\ Head(events) = events[1] /\ 1 \in 1..Len(events) /\ Head(events) \in Events
         /\ \A i \in 1..Len(events') :
              i + 1 \in 1..Len(events) /\ i + 1 # 1 /\ events'[i] = events[i + 1]
<1>1. events \in Seq(Events)
  BY DEF TypeOK
<1>2. /\ Head(events) \in Events /\ Len(events') = Len(events) - 1 /\ Len(events) \in Nat
      /\ \A i \in 1..Len(events') : events'[i] = events[i + 1]
      /\ Len(events) # 0
  BY <1>1, HeadTailProperties, EmptySeq
<1>. QED
  BY <1>1, <1>2
-----------------------------------------------------------------------------
(* What a step leaves alone.                                               *)
CallsRest(u) ==
  \A c \in Calls :
    /\ asked'[c] = u <=> asked[c] = u
    /\ row'[c] = u <=> row[c] = u
    /\ asked[c] = u => results'[c] = results[c] /\ row'[c] = row[c]

Untouched(u) == st[u] = "gone" => st'[u] = "gone" /\ CallsRest(u)
GoneRest == \A u \in Turns : Untouched(u)

OffersRest ==
  \A i : /\ Offer(i)' <=> Offer(i)
         /\ Offer(i) => events'[i] = events[i]

LEMMA TurnRests ==
  ASSUME IInv, NEW u \in Turns, CallsRest(u),
         st'[u] = st[u], todo'[u] = todo[u], awaiting'[u] = awaiting[u]
  PROVE  (TodoOK(u) /\ AwaitOK(u) /\ AnsweredOrKept(u))'
<1>1. TodoOK(u) /\ AwaitOK(u) /\ AnsweredOrKept(u)
  BY DEF IInv, GuestOK
<1>2. \A i \in 1..Len(todo[u]) : todo[u][i] \in Calls
  BY Types, ElementOfSeq DEF IInv
<1>3. SameTask(u)' = SameTask(u)
  BY DEF SameTask, CallsRest
<1>4. TodoOK(u)'
  BY <1>1, <1>2 DEF TodoOK, CallsRest
<1>5. AwaitOK(u)'
  BY <1>1, <1>3 DEF AwaitOK
<1>6. AnsweredOrKept(u)'
  BY <1>1 DEF AnsweredOrKept, InTodo, CallsRest
<1>. QED
  BY <1>4, <1>5, <1>6

LEMMA TurnReturns ==
  ASSUME NEW u \in Turns, st'[u] = "gone", todo'[u] = <<>>, awaiting'[u] = {}
  PROVE  (TodoOK(u) /\ AwaitOK(u) /\ AnsweredOrKept(u))'
BY DEF TodoOK, AwaitOK, AnsweredOrKept

(* The facts about one set that is held.                                   *)
LEMMA SetRests ==
  ASSUME IInv, NEW set \in SUBSET Calls, OfGone(set), \A c \in set : Untouched(asked[c])
  PROVE  /\ OfGone(set)'
         /\ \A c \in set : row'[c] = row[c]
         /\ \A c \in set : row[c] # None => SameTask(row[c])' = SameTask(row[c])
         /\ \A c \in set : row[c] # None /\ Complete(row[c]) => Complete(row[c])'
         /\ Offerable(set) => Offerable(set)'
<1>1. \A c \in set : asked[c] \in Turns /\ st[asked[c]] = "gone" /\ asked'[c] = asked[c] /\ row'[c] = row[c]
  BY Types DEF IInv, OfGone, Untouched, CallsRest
<1>2. \A c \in set : row[c] # None => row[c] = asked[c]
  BY DEF IInv, CallsOK
<1>3. \A c \in set : row[c] # None => CallsRest(row[c])
  BY <1>1, <1>2 DEF Untouched
<1>4. OfGone(set)'
  BY <1>1 DEF OfGone, Untouched
<1>5. ASSUME NEW c \in set, row[c] # None
      PROVE  SameTask(row[c])' = SameTask(row[c]) /\ (Complete(row[c]) => Complete(row[c])')
  <2>1. CallsRest(row[c]) /\ row'[c] = row[c]
    BY <1>1, <1>3, <1>5
  <2>2. SameTask(row[c])' = SameTask(row[c])
    BY <2>1 DEF SameTask, CallsRest
  <2>3. Complete(row[c]) => Complete(row[c])'
    BY <2>1 DEF Complete, CallsRest
  <2>. QED
    BY <2>2, <2>3
<1>6. Offerable(set) => Offerable(set)'
  BY <1>1, <1>5 DEF Offerable
<1>. QED
  BY <1>1, <1>4, <1>5, <1>6

LEMMA SubmitRests ==
  ASSUME IInv, NEW s \in Submits, submit'[s] = submit[s],
         \A c \in Taken(s) : Untouched(asked[c]),
         submit[s].pc \in {"writing", "deleted"} => Untouched(submit[s].task)
  PROVE  (OfGone(Taken(s)) /\ SubmitOK(s))'
<1>1. OfGone(Taken(s)) /\ SubmitOK(s) /\ Taken(s)' = Taken(s)
  BY DEF IInv, HeldOK, Taken
<1>2. submit[s].answers \subseteq Calls /\ submit[s].batch \subseteq Calls /\ Taken(s) \subseteq Calls
  BY Types DEF IInv, Taken
<1>3. /\ \A c \in Taken(s) : asked'[c] # None /\ st'[asked'[c]] = "gone"
      /\ \A c \in Taken(s) : row'[c] = row[c]
      /\ \A c \in Taken(s) : row[c] # None /\ Complete(row[c]) => Complete(row[c])'
  <2>. SUFFICES ASSUME NEW set, set = Taken(s)
               PROVE  /\ \A c \in set : asked'[c] # None /\ st'[asked'[c]] = "gone"
                      /\ \A c \in set : row'[c] = row[c]
                      /\ \A c \in set : row[c] # None /\ Complete(row[c]) => Complete(row[c])'
    OBVIOUS
  <2>1. set \in SUBSET Calls /\ OfGone(set) /\ \A c \in set : Untouched(asked[c])
    BY <1>1, <1>2
  <2>2. OfGone(set)'
    BY <2>1, SetRests
  <2>. QED
    BY <2>1, <2>2, SetRests DEF OfGone
<1>3a. OfGone(Taken(s))'
  BY <1>1, <1>3 DEF OfGone
<1>4. submit[s].pc = "called" =>
        \A c \in submit[s].answers : row'[c] # None /\ Complete(row[c])'
  BY <1>1, <1>3 DEF SubmitOK, Taken
<1>5. CASE submit[s].pc \in {"writing", "deleted"}
  <2>. DEFINE t == submit[s].task
  <2>1. t \in Turns /\ st[t] = "gone" /\ st'[t] = "gone" /\ CallsRest(t) /\ submit'[s].task = t
    BY <1>1, <1>5 DEF SubmitOK, Untouched
  <2>2. SameTask(t)' = SameTask(t)
    BY <2>1 DEF SameTask, CallsRest
  <2>3. Left(s)' = Left(s)
    BY DEF Left, NextOf
  <2>4. \A c \in submit[s].batch : asked'[c] = t /\ results'[c] = 0
    BY <1>1, <1>2, <1>5, <2>1 DEF SubmitOK, CallsRest
  <2>5. \A c \in Calls : asked'[c] = t => results'[c] = 1 \/ c \in submit[s].batch
    BY <1>1, <1>5, <2>1 DEF SubmitOK, CallsRest
  <2>6. SubmitOK(s)'
    BY <1>1, <1>5, <2>1, <2>2, <2>3, <2>4, <2>5 DEF SubmitOK
  <2>. QED
    BY <1>3a, <2>6
<1>6. CASE submit[s].pc \notin {"writing", "deleted"}
  <2>1. submit[s].pc = "free" => submit[s] = Free
    BY <1>1 DEF SubmitOK
  <2>2. submit[s].pc = "called" => submit[s].batch = {}
    BY <1>1 DEF SubmitOK
  <2>3. \A c \in submit[s].answers : row'[c] = row[c]
    BY <1>3 DEF Taken
  <2>4. SubmitOK(s)'
    BY <1>4, <1>6, <2>1, <2>2, <2>3 DEF SubmitOK
  <2>. QED
    BY <1>3a, <2>4
<1>. QED
  BY <1>5, <1>6

(* Nothing that is held is touched when the turns that are gone are not.   *)
LEMMA GoneUntouched ==
  ASSUME IInv, GoneRest
  PROVE  /\ \A set \in SUBSET Calls : OfGone(set) => \A c \in set : Untouched(asked[c])
         /\ \A s \in Submits :
              /\ \A c \in Taken(s) : Untouched(asked[c])
              /\ submit[s].pc \in {"writing", "deleted"} => Untouched(submit[s].task)
         /\ \A c \in card : Untouched(asked[c])
         /\ \A i : Offer(i) => \A c \in events[i].calls : Untouched(asked[c])
<1>1. \A c \in Calls : asked[c] # None => asked[c] \in Turns
  BY Types DEF IInv
<1>2. \A set \in SUBSET Calls : OfGone(set) => \A c \in set : Untouched(asked[c])
  BY <1>1 DEF OfGone, GoneRest
<1>3. ASSUME NEW s \in Submits
      PROVE  /\ \A c \in Taken(s) : Untouched(asked[c])
             /\ submit[s].pc \in {"writing", "deleted"} => Untouched(submit[s].task)
  <2>1. OfGone(Taken(s)) /\ SubmitOK(s) /\ Taken(s) \in SUBSET Calls
    BY Types DEF IInv, HeldOK, Taken
  <2>. QED
    BY <1>2, <2>1 DEF SubmitOK, GoneRest
<1>4. \A c \in card : Untouched(asked[c])
  BY <1>2, Types DEF IInv, HeldOK
<1>5. ASSUME NEW i, Offer(i) PROVE \A c \in events[i].calls : Untouched(asked[c])
  <2>1. events[i] \in Events /\ OfGone(events[i].calls)
    BY <1>5, Types, ElementOfSeq DEF IInv, HeldOK, Offer
  <2>2. events[i].calls \in SUBSET Calls
    BY <2>1 DEF Events
  <2>. QED
    BY <1>2, <2>1, <2>2
<1>. QED
  BY <1>2, <1>3, <1>4, <1>5

(* Offers keep their order, the card is kept, dropped or the first offer,  *)
(* and one submit takes of the card or drops what it has.                  *)
LEMMA HeldMoves ==
  ASSUME IInv, NEW k \in {0, 1}, NEW s \in Submits,
         \A i \in 1..Len(events') : Offer(i)' => Offer(i + k) /\ events'[i] = events[i + k],
         \A i : Offer(i) => \A c \in events[i].calls : Untouched(asked[c]),
         \A c \in card : Untouched(asked[c]),
         \/ card' = card \/ card' = {}
         \/ k = 1 /\ Offer(1) /\ card' = events[1].calls,
         \A r \in Submits \ {s} :
           /\ submit'[r] = submit[r] /\ \A c \in Taken(r) : Untouched(asked[c])
           /\ submit[r].pc \in {"writing", "deleted"} => Untouched(submit[r].task),
         Taken(s)' \subseteq Taken(s) \/ (card' = {} /\ Taken(s)' \subseteq card),
         (OfGone(Taken(s)) /\ SubmitOK(s))'
  PROVE  HeldOK'
<1>1. HeldOK
  BY DEF IInv
<1>2. \A r \in Submits : (OfGone(Taken(r)) /\ SubmitOK(r))'
  BY SubmitRests
<1>3. ASSUME NEW i, Offer(i), NEW set, set = events[i].calls
      PROVE  OfGone(set)' /\ Offerable(set)'
  <2>1. events[i] \in Events
    BY <1>3, Types, ElementOfSeq DEF IInv, Offer
  <2>2. set \in SUBSET Calls
    BY <1>3, <2>1 DEF Events
  <2>3. OfGone(set) /\ Offerable(set)
    BY <1>1, <1>3 DEF HeldOK, Offer
  <2>. QED
    BY <1>3, <2>2, <2>3, SetRests
<1>4. ASSUME NEW i \in 1..Len(events'), Offer(i)'
      PROVE  (OfGone(events[i].calls) /\ Offerable(events[i].calls))'
  <2>1. Offer(i + k) /\ events'[i] = events[i + k]
    BY <1>4
  <2>2. PICK set : set = events[i + k].calls
    OBVIOUS
  <2>3. OfGone(set)' /\ Offerable(set)'
    BY <1>3, <2>1, <2>2
  <2>. QED
    BY <2>1, <2>2, <2>3
<1>5. OfGone(card)' /\ Offerable(card)'
  <2>1. ASSUME NEW set, set = card PROVE OfGone(set)' /\ Offerable(set)'
    BY <1>1, <2>1, Types, SetRests DEF HeldOK, IInv
  <2>2. CASE card' = card
    BY <2>1, <2>2
  <2>3. CASE card' = {}
    BY <2>3 DEF OfGone, Offerable
  <2>4. CASE Offer(1) /\ card' = events[1].calls
    <3>1. PICK set : set = events[1].calls
      OBVIOUS
    <3>2. OfGone(set)' /\ Offerable(set)'
      BY <1>3, <2>4, <3>1
    <3>. QED
      BY <2>4, <3>1, <3>2
  <2>. QED
    BY <2>2, <2>3, <2>4
<1>6. Apart'
  <2>1. Apart
    BY <1>1 DEF HeldOK
  <2>2. \A r \in Submits \ {s} : Taken(r)' = Taken(r)
    BY DEF Taken
  <2>3. \A i, j \in 1..Len(events') :
          Offer(i)' /\ Offer(j)' /\ i # j => events'[i].calls \cap events'[j].calls = {}
    <3>1. SUFFICES ASSUME NEW i \in 1..Len(events'), NEW j \in 1..Len(events'),
                          Offer(i)', Offer(j)', i # j
                   PROVE  events'[i].calls \cap events'[j].calls = {}
      OBVIOUS
    <3>2. Offer(i + k) /\ Offer(j + k) /\ i + k # j + k
      BY <3>1
    <3>. QED
      BY <2>1, <3>1, <3>2 DEF Apart, Offer
  <2>4. ASSUME NEW i \in 1..Len(events'), Offer(i)'
        PROVE  /\ events'[i].calls \cap card = {}
               /\ \A r \in Submits : events'[i].calls \cap Taken(r) = {}
               /\ k = 1 /\ Offer(1) => events'[i].calls \cap events[1].calls = {}
    <3>1. Offer(i + k) /\ events'[i] = events[i + k] /\ (k = 1 => i + k # 1)
      BY <2>4
    <3>. QED
      BY <2>1, <3>1 DEF Apart, Offer
  <2>5. ASSUME NEW i \in 1..Len(events'), Offer(i)'
        PROVE  /\ events'[i].calls \cap card' = {}
               /\ \A r \in Submits : events'[i].calls \cap Taken(r)' = {}
    BY <2>2, <2>4, <2>5
  <2>6. \A r \in Submits : card' \cap Taken(r)' = {}
    <3>1. \A r \in Submits : card \cap Taken(r) = {}
      BY <2>1 DEF Apart
    <3>2. Offer(1) => \A r \in Submits : events[1].calls \cap Taken(r) = {}
      BY <2>1 DEF Apart, Offer
    <3>. QED
      BY <2>2, <3>1, <3>2
  <2>7. \A q, r \in Submits : q # r => Taken(q)' \cap Taken(r)' = {}
    <3>1. /\ \A r \in Submits : card \cap Taken(r) = {}
          /\ \A q, r \in Submits : q # r => Taken(q) \cap Taken(r) = {}
      BY <2>1 DEF Apart
    <3>. QED
      BY <2>2, <3>1
  <2>. QED
    BY <2>3, <2>5, <2>6, <2>7 DEF Apart
<1>. QED
  BY <1>2, <1>4, <1>5, <1>6 DEF HeldOK

LEMMA SomeSubmit == \E s : s \in Submits
<1>1. 1 \in Submits
  BY BoundsAssumption DEF Submits
<1>. QED
  BY <1>1

LEMMA HeldRests ==
  ASSUME IInv, GoneRest, OffersRest, card' = card \/ card' = {}, submit' = submit
  PROVE  HeldOK'
<1>1. PICK s : s \in Submits
  BY SomeSubmit
<1>2. (OfGone(Taken(s)) /\ SubmitOK(s))' /\ Taken(s)' = Taken(s)
  BY <1>1, GoneUntouched, SubmitRests DEF Taken
<1>3. \A i \in 1..Len(events') : Offer(i)' => Offer(i + 0) /\ events'[i] = events[i + 0]
  BY DEF OffersRest, Offer
<1>4. \A r \in Submits \ {s} :
        /\ submit'[r] = submit[r] /\ \A c \in Taken(r) : Untouched(asked[c])
        /\ submit[r].pc \in {"writing", "deleted"} => Untouched(submit[r].task)
  BY GoneUntouched
<1>5. /\ \A i : Offer(i) => \A c \in events[i].calls : Untouched(asked[c])
      /\ \A c \in card : Untouched(asked[c])
  BY GoneUntouched
<1>. QED
  BY <1>1, <1>2, <1>3, <1>4, <1>5, HeldMoves

LEMMA ResumesRest ==
  ASSUME IInv, GoneRest, resumes' = resumes
  PROVE  ResumeOK'
BY Types DEF IInv, ResumeOK, GoneRest, Untouched, CallsRest
-----------------------------------------------------------------------------
(* disturbed and crashed, and the rest of the state.                       *)
Bits == disturbed \in BOOLEAN /\ crashed \in BOOLEAN

Data ==
  /\ asked \in [Calls -> Turns \cup {None}] /\ results \in [Calls -> Nat]
  /\ row \in [Calls -> Turns \cup {None}] /\ st \in [Turns -> TurnStates]
  /\ todo \in [Turns -> Seq(Calls)] /\ awaiting \in [Turns -> SUBSET Calls]
  /\ polls \in [Turns -> 0..(PollLimit - 1)] /\ cancelled \in SUBSET Turns
  /\ runs \in Turns \cup {None} /\ resumes \in [Turns -> Turns \cup {None}]
  /\ submit \in [Submits -> SubmitRecords] /\ events \in Seq(Events)
  /\ phase \in Phases /\ card \in SUBSET Calls /\ open \in SUBSET Calls

LEMMA TypeParts == TypeOK <=> Data /\ Bits
BY DEF TypeOK, Data, Bits

LEMMA InitIInv == Init => IInv
<1> SUFFICES ASSUME Init PROVE IInv
  OBVIOUS
<1>. USE NoneAssumption, BoundsAssumption
<1>0. <<>> \in Seq(Calls) /\ <<>> \in Seq(Events) /\ Len(<<>>) = 0
  BY EmptySeq
<1>1. TypeOK
  <2>1. Free \in SubmitRecords
    BY DEF Free, SubmitRecords, SubmitStates
  <2>2. PollLimit \in Nat \ {0} /\ 0 \in 0..(PollLimit - 1)
    OBVIOUS
  <2>3. Data
    BY <1>0, <2>1, <2>2 DEF Init, Data, TurnStates, Phases
  <2>4. Bits
    BY DEF Init, Bits
  <2>. QED
    BY <2>3, <2>4, TypeParts
<1>2. CallsOK
  <2>1. {c \in Calls : asked[c] # None} = 1..0 /\ 0 \in 0..NumCalls
    BY DEF Init
  <2>. QED
    BY <2>1 DEF Init, CallsOK
<1>3. GuestOK
  BY <1>0 DEF Init, GuestOK, TodoOK, AwaitOK, AnsweredOrKept, SameTask
<1>4. HeldOK
  BY <1>0 DEF Init, HeldOK, Apart, Offer, OfGone, Offerable, SubmitOK, Taken, Free
<1>5. ResumeOK
  BY DEF Init, ResumeOK
<1>. QED
  BY <1>1, <1>2, <1>3, <1>4, <1>5 DEF IInv

LEMMA BitsStay == Bits /\ [Next]_vars => Bits'
<1> SUFFICES ASSUME Bits, [Next]_vars PROVE Bits'
  OBVIOUS
<1>1. ASSUME NEW u \in Turns, GuestStep(u) PROVE Bits'
  BY <1>1 DEF GuestStep, Register, SeesContext, ModelFails, ModelAnswers, ModelAsks,
       CallStarts, CallWaits, CallEnds, BatchEnds, Disturb, Bits
<1>2. ASSUME NEW s \in Submits, ChooseStep(s) PROVE Bits'
  BY <1>2 DEF ChooseStep, ChooseRejects, ChooseReads, ChooseDeletes, ChooseAppends,
       ChooseResumes, Disturb, Bits
<1>3. CASE PanelStep
  BY <1>3 DEF PanelStep, Send, ClickStop, Reopen, SubmitChoice, Deliver, Disturb, Bits
<1>4. CASE Crash
  BY <1>4 DEF Crash, Disturb, Bits
<1>5. CASE UNCHANGED vars
  BY <1>5 DEF vars, Bits
<1>. QED
  BY <1>1, <1>2, <1>3, <1>4, <1>5 DEF Next
-----------------------------------------------------------------------------
(* A step of the guest leaves the other turns and what is held alone.      *)
LEMMA GuestMoves ==
  ASSUME IInv, NEW u \in Turns, st[u] # "gone",
         \A v \in Turns \ {u} : /\ CallsRest(v) /\ st'[v] = st[v]
                               /\ todo'[v] = todo[v] /\ awaiting'[v] = awaiting[v],
         (TodoOK(u) /\ AwaitOK(u) /\ AnsweredOrKept(u))',
         OffersRest, card' = card, submit' = submit, resumes' = resumes
  PROVE  GuestOK' /\ HeldOK' /\ ResumeOK'
<1>1. GoneRest
  BY DEF GoneRest, Untouched
<1>2. GuestOK'
  BY TurnRests DEF GuestOK
<1>. QED
  BY <1>1, <1>2, HeldRests, ResumesRest

(* What most steps keep of the calls.                                      *)
LEMMA CallsStay ==
  ASSUME IInv, asked' = asked, row' = row, results' = results,
         \A u \in Turns : st[u] \notin {"unborn", "spawned"} => st'[u] \notin {"unborn", "spawned"}
  PROVE  CallsOK'
BY Types DEF IInv, CallsOK

LEMMA QuietEmit ==
  ASSUME TypeOK, NEW es \in Seq(Events), Emit(es),
         \A i \in 1..Len(es) : es[i].tag # "offer_choices"
  PROVE  OffersRest /\ events' \in Seq(Events)
<1>1. events' = events \o es /\ events \in Seq(Events)
  BY DEF Emit, TypeOK
<1>. QED
  BY <1>1, QuietEvents, ConcatProperties DEF OffersRest

LEMMA OneEvent ==
  ASSUME NEW e \in Events, e.tag # "offer_choices"
  PROVE  <<e>> \in Seq(Events) /\ \A i \in 1..Len(<<e>>) : <<e>>[i].tag # "offer_choices"
OBVIOUS

LEMMA TwoEvents ==
  ASSUME NEW e \in Events, NEW f \in Events, e.tag # "offer_choices", f.tag # "offer_choices"
  PROVE  <<e, f>> \in Seq(Events) /\ \A i \in 1..Len(<<e, f>>) : <<e, f>>[i].tag # "offer_choices"
OBVIOUS

LEMMA EventTypes ==
  ASSUME NEW tag \in EventTags, NEW calls \in SUBSET Calls
  PROVE  /\ Event(tag, calls) \in Events /\ Event(tag, calls).tag = tag
         /\ Event(tag, calls).calls = calls
         /\ Done(tag) \in Events /\ Done(tag).tag = tag
BY DEF Event, Done, Events

(* A turn that returns with no more than done events.                      *)
LEMMA TurnEnds ==
  ASSUME IInv, NEW u \in Turns, st[u] # "gone", Returned(u),
         \A v \in Turns : CallsRest(v), asked' = asked, row' = row,
         OffersRest, card' = card, submit' = submit, resumes' = resumes
  PROVE  GuestOK' /\ HeldOK' /\ ResumeOK'
<1>1. /\ st'[u] = "gone" /\ todo'[u] = <<>> /\ awaiting'[u] = {}
      /\ \A v \in Turns \ {u} : st'[v] = st[v] /\ todo'[v] = todo[v] /\ awaiting'[v] = awaiting[v]
  BY Types DEF IInv, Returned
<1>2. (TodoOK(u) /\ AwaitOK(u) /\ AnsweredOrKept(u))'
  BY <1>1, TurnReturns
<1>. QED
  BY <1>1, <1>2, GuestMoves
-----------------------------------------------------------------------------
(* The guest.                                                              *)
LEMMA RegisterKeeps ==
  ASSUME IInv, NEW u \in Turns, Register(u)
  PROVE  Data' /\ CallsOK' /\ GuestOK' /\ HeldOK' /\ ResumeOK'
<1>. USE DEF Register
<1>0. Data /\ Bits
  BY TypeParts DEF IInv
<1>1. Data'
  BY <1>0 DEF Data, TurnStates, guestVars, panelVars
<1>2. CallsOK'
  BY CallsStay, Types DEF IInv
<1>3. \A v \in Turns \ {u} : /\ CallsRest(v) /\ st'[v] = st[v]
                            /\ todo'[v] = todo[v] /\ awaiting'[v] = awaiting[v]
  BY Types DEF IInv, CallsRest, guestVars
<1>4. TodoOK(u) /\ AwaitOK(u) /\ AnsweredOrKept(u)
  BY DEF IInv, GuestOK
<1>5. st'[u] = "thinking" /\ todo' = todo /\ awaiting' = awaiting
  BY Types DEF IInv, guestVars
<1>6. TodoOK(u)' /\ AwaitOK(u)'
  BY <1>4, <1>5 DEF TodoOK, AwaitOK, SameTask
<1>7. AnsweredOrKept(u)'
  BY <1>4, <1>5 DEF AnsweredOrKept, InTodo
<1>8. OffersRest
  BY DEF OffersRest, Offer
<1>. QED
  BY <1>1, <1>2, <1>3, <1>6, <1>7, <1>8, GuestMoves DEF panelVars

LEMMA FinishKeeps ==
  ASSUME IInv, NEW u \in Turns, SeesContext(u) \/ ModelFails(u) \/ ModelAnswers(u)
  PROVE  Data' /\ CallsOK' /\ GuestOK' /\ HeldOK' /\ ResumeOK'
<1>1. PICK es \in Seq(Events) :
        Finish(u, es) /\ \A i \in 1..Len(es) : es[i].tag # "offer_choices"
  <2>. USE DEF EventTags
  <2>1. CASE SeesContext(u)
    <3>1. Done("stopped") \in Events /\ Done("stopped").tag = "stopped"
      BY EventTypes
    <3>2. Finish(u, <<Done("stopped"), Done("stopped")>>)
      BY <2>1 DEF SeesContext
    <3>. QED
      BY <3>1, <3>2, TwoEvents
  <2>2. CASE ModelFails(u)
    <3>1. \A tag \in {"stopped", "error"} : Done(tag) \in Events /\ Done(tag).tag = tag
      BY EventTypes
    <3>. QED
      BY <2>2, <3>1, OneEvent DEF ModelFails
  <2>3. CASE ModelAnswers(u)
    BY <2>3, EventTypes, OneEvent DEF ModelAnswers
  <2>. QED
    BY <2>1, <2>2, <2>3
<1>2. /\ st[u] = "thinking" /\ asked' = asked /\ results' = results /\ row' = row
      /\ resumes' = resumes /\ submit' = submit /\ UNCHANGED panelVars
  BY DEF SeesContext, ModelFails, ModelAnswers
<1>3. Returned(u) /\ runs' = None /\ OffersRest /\ events' \in Seq(Events)
  BY <1>1, QuietEmit DEF Finish, IInv
<1>4. Data'
  <2>1. Data
    BY TypeParts DEF IInv
  <2>2. PollLimit \in Nat \ {0} /\ 0 \in 0..(PollLimit - 1) /\ <<>> \in Seq(Calls)
    BY BoundsAssumption
  <2>. QED
    BY <1>2, <1>3, <2>1, <2>2 DEF Data, Returned, TurnStates, panelVars
<1>5. CallsOK'
  BY <1>2, <1>3, CallsStay, Types DEF IInv, Returned
<1>6. \A v \in Turns : CallsRest(v)
  BY <1>2 DEF CallsRest
<1>. QED
  BY <1>2, <1>3, <1>4, <1>5, <1>6, TurnEnds DEF panelVars

LEMMA AsksKeeps ==
  ASSUME IInv, NEW u \in Turns, ModelAsks(u)
  PROVE  Data' /\ CallsOK' /\ GuestOK' /\ HeldOK' /\ ResumeOK'
<1>. USE BoundsAssumption
<1>1. PICK n \in 1..MaxBatch :
        LET first == Cardinality({c \in Calls : asked[c] # None}) + 1
            batch == first..(first + n - 1)
        IN  /\ batch \subseteq Calls
            /\ asked' = [c \in Calls |-> IF c \in batch THEN u ELSE asked[c]]
            /\ todo' = [todo EXCEPT ![u] = [i \in 1..n |-> first + i - 1]]
  BY DEF ModelAsks
<1>2. PICK k \in 0..NumCalls : {c \in Calls : asked[c] # None} = 1..k
  BY DEF IInv, CallsOK
<1>3. Cardinality({c \in Calls : asked[c] # None}) = k /\ k \in Nat
  <2>1. k \in Nat /\ k \in Int /\ 1 \in Int
    OBVIOUS
  <2>2. Cardinality(1..k) = IF 1 > k THEN 0 ELSE k - 1 + 1
    BY <2>1, FS_Interval
  <2>3. Cardinality(1..k) = k
    BY <2>1, <2>2
  <2>. QED
    BY <1>2, <2>1, <2>3
<1>. DEFINE first == k + 1
            batch == first..(first + n - 1)
            new == [i \in 1..n |-> first + i - 1]
<1>4. /\ n \in Nat \ {0} /\ k \in Nat /\ batch \subseteq Calls
      /\ asked' = [c \in Calls |-> IF c \in batch THEN u ELSE asked[c]]
      /\ todo' = [todo EXCEPT ![u] = new]
  <2>1. n \in Nat \ {0}
    OBVIOUS
  <2>. QED
    BY <1>1, <1>3, <2>1
<1>5. /\ st[u] = "thinking" /\ st' = [st EXCEPT ![u] = "calling"]
      /\ awaiting' = [awaiting EXCEPT ![u] = {}]
      /\ results' = results /\ row' = row /\ submit' = submit /\ card' = card
      /\ events' = events /\ resumes' = resumes
  BY DEF ModelAsks, panelVars
<1>6. new \in Seq(Calls) /\ Len(new) = n
  <2>1. new \in [1..n -> Calls]
    BY <1>4
  <2>. QED
    BY <2>1, <1>4, SeqDef
<1>7. \A c \in batch : asked[c] = None /\ row[c] = None /\ results[c] = 0
  <2>1. \A c \in batch : c \in Calls /\ c \notin 1..k
    BY <1>4
  <2>. QED
    BY <2>1, <1>2 DEF IInv, CallsOK
<1>8. \A d \in Calls : d \in batch <=> \E i \in 1..n : new[i] = d
  <2>1. \A d \in batch : d - k \in 1..n /\ new[d - k] = d
    BY <1>4
  <2>2. \A i \in 1..n : new[i] \in batch
    BY <1>4
  <2>. QED
    BY <2>1, <2>2
<1>9. \A i, j \in 1..n : new[i] = new[j] => i = j
  BY <1>4
<1>10. Data'
  <2>1. Data
    BY TypeParts DEF IInv
  <2>. HIDE DEF new, batch
  <2>2. asked' \in [Calls -> Turns \cup {None}] /\ todo' \in [Turns -> Seq(Calls)]
    BY <1>4, <1>6, <2>1 DEF Data
  <2>3. st' \in [Turns -> TurnStates] /\ awaiting' \in [Turns -> SUBSET Calls]
    BY <1>5, <2>1 DEF Data, TurnStates
  <2>. QED
    BY <1>5, <2>1, <2>2, <2>3 DEF Data, ModelAsks, panelVars
<1>11. CallsOK'
  <2>1. {c \in Calls : asked'[c] # None} = 1..(k + n) /\ k + n \in 0..NumCalls
    <3>1. \A c \in Calls : asked'[c] # None <=> c \in 1..k \/ c \in batch
      BY <1>2, <1>4, Types DEF IInv
    <3>2. \A c : c \in 1..k \/ c \in batch <=> c \in 1..(k + n)
      BY <1>4
    <3>3. k + n \in batch /\ k + n \in Calls
      BY <1>4
    <3>4. 1..(k + n) \subseteq Calls
      BY <1>4, <3>3 DEF Calls
    <3>. QED
      BY <1>4, <3>1, <3>2, <3>3, <3>4 DEF Calls
  <2>. HIDE DEF batch
  <2>2. ASSUME NEW c \in Calls
        PROVE  /\ asked'[c] # None => st'[asked'[c]] \notin {"unborn", "spawned"}
               /\ results'[c] # 0 => asked'[c] # None
               /\ row'[c] # None => row'[c] = asked'[c] /\ results'[c] = 0
               /\ results'[c] <= 1
    BY <1>4, <1>5, <1>7, Types DEF IInv, CallsOK
  <2>. QED
    BY <2>1, <2>2 DEF CallsOK
<1>. HIDE DEF batch, new
<1>12. ASSUME NEW v \in Turns \ {u}
       PROVE  /\ CallsRest(v) /\ st'[v] = st[v]
              /\ todo'[v] = todo[v] /\ awaiting'[v] = awaiting[v]
  BY <1>4, <1>5, <1>7, Types DEF IInv, CallsRest
<1>13. TodoOK(u) /\ AwaitOK(u) /\ AnsweredOrKept(u)
  BY DEF IInv, GuestOK
<1>14. todo'[u] = new /\ awaiting'[u] = {} /\ st'[u] = "calling"
  BY <1>4, <1>5, Types DEF IInv
<1>15. TodoOK(u)'
  <2>1. \A i \in 1..n : new[i] \in batch /\ new[i] \in Calls
    BY <1>6, <1>8, ElementOfSeq
  <2>2. \A i \in 1..n : asked'[new[i]] = u /\ results'[new[i]] = 0 /\ row'[new[i]] = None
    BY <1>4, <1>5, <1>7, <2>1
  <2>. QED
    BY <1>6, <1>9, <1>14, <2>2 DEF TodoOK
<1>16. AwaitOK(u)'
  BY <1>5, <1>13, <1>14 DEF AwaitOK, SameTask
<1>17. AnsweredOrKept(u)'
  <2>1. todo[u] = <<>> /\ Len(todo[u]) = 0
    BY <1>5, <1>13, EmptySeq DEF TodoOK
  <2>2. \A c \in Calls : c \in batch => InTodo(c, u)'
    BY <1>6, <1>8, <1>14 DEF InTodo
  <2>3. \A c \in Calls : ~InTodo(c, u)
    BY <2>1 DEF InTodo
  <2>4. \A c \in Calls : asked'[c] = u => c \in batch \/ asked[c] = u
    BY <1>4
  <2>. QED
    BY <1>5, <1>13, <2>2, <2>3, <2>4 DEF AnsweredOrKept
<1>18. OffersRest
  BY <1>5 DEF OffersRest, Offer
<1>. QED
  BY <1>5, <1>10, <1>11, <1>12, <1>15, <1>16, <1>17, <1>18, GuestMoves

(* The call at the head of a turn's list has no result and no row.         *)
LEMMA HeadOfTodo ==
  ASSUME IInv, NEW u \in Turns, todo[u] # <<>>
  PROVE  /\ Head(todo[u]) \in Calls /\ asked[Head(todo[u])] = u
         /\ results[Head(todo[u])] = 0 /\ row[Head(todo[u])] = None
         /\ st[u] \in {"calling", "intool"}
         /\ Tail(todo[u]) \in Seq(Calls)
         /\ \A i \in 1..Len(Tail(todo[u])) :
              /\ Tail(todo[u])[i] \in Calls /\ Tail(todo[u])[i] # Head(todo[u])
              /\ i + 1 \in 1..Len(todo[u]) /\ Tail(todo[u])[i] = todo[u][i + 1]
         /\ \A d : InTodo(d, u) => \/ d = Head(todo[u])
                                   \/ \E i \in 1..Len(Tail(todo[u])) : Tail(todo[u])[i] = d
<1>1. todo[u] \in Seq(Calls) /\ TodoOK(u)
  BY Types DEF IInv, GuestOK
<1>2. /\ Head(todo[u]) \in Calls /\ Tail(todo[u]) \in Seq(Calls)
      /\ Len(Tail(todo[u])) = Len(todo[u]) - 1
      /\ \A i \in 1..Len(Tail(todo[u])) : Tail(todo[u])[i] = todo[u][i + 1]
  BY <1>1, HeadTailProperties
<1>3. Head(todo[u]) = todo[u][1] /\ Len(todo[u]) \in Nat \ {0}
  BY <1>1, EmptySeq
<1>4. /\ asked[Head(todo[u])] = u /\ results[Head(todo[u])] = 0 /\ row[Head(todo[u])] = None
      /\ st[u] \in {"calling", "intool"}
  BY <1>1, <1>3 DEF TodoOK
<1>5. ASSUME NEW i \in 1..Len(Tail(todo[u]))
      PROVE  /\ Tail(todo[u])[i] \in Calls /\ Tail(todo[u])[i] # Head(todo[u])
             /\ i + 1 \in 1..Len(todo[u]) /\ Tail(todo[u])[i] = todo[u][i + 1]
  <2>1. i + 1 \in 1..Len(todo[u]) /\ i + 1 # 1 /\ 1 \in 1..Len(todo[u])
    BY <1>2, <1>3
  <2>2. todo[u][i + 1] # todo[u][1]
    BY <1>1, <2>1 DEF TodoOK
  <2>3. Tail(todo[u])[i] \in Calls
    BY <1>2, ElementOfSeq
  <2>. QED
    BY <1>2, <1>3, <2>1, <2>2, <2>3
<1>6. ASSUME NEW d, InTodo(d, u)
      PROVE  d = Head(todo[u]) \/ \E i \in 1..Len(Tail(todo[u])) : Tail(todo[u])[i] = d
  <2>1. PICK j \in 1..Len(todo[u]) : todo[u][j] = d
    BY <1>6 DEF InTodo
  <2>2. j = 1 \/ (j - 1 \in 1..Len(Tail(todo[u])) /\ Tail(todo[u])[j - 1] = todo[u][j])
    BY <1>2, <1>3, <2>1
  <2>. QED
    BY <1>3, <2>1, <2>2
<1>. QED
  BY <1>2, <1>4, <1>5, <1>6

(* The head is taken off with a result, or with a row.                     *)
LEMMA HeadIsDone ==
  ASSUME IInv, NEW u \in Turns, todo[u] # <<>>, NEW c, c = Head(todo[u]),
         asked' = asked, st' = [st EXCEPT ![u] = "calling"],
         todo' = [todo EXCEPT ![u] = Tail(@)],
         \/ /\ results' = [results EXCEPT ![c] = @ + 1] /\ row' = row /\ awaiting' = awaiting
         \/ /\ row' = [row EXCEPT ![c] = u] /\ results' = results
            /\ awaiting' = [awaiting EXCEPT ![u] = @ \cup {c}],
         OffersRest, card' = card, submit' = submit, resumes' = resumes
  PROVE  CallsOK' /\ GuestOK' /\ HeldOK' /\ ResumeOK'
<1>1. /\ c \in Calls /\ asked[c] = u /\ results[c] = 0 /\ row[c] = None
      /\ st[u] \in {"calling", "intool"}
  BY HeadOfTodo
<1>2. /\ st'[u] = "calling" /\ todo'[u] = Tail(todo[u])
      /\ \A v \in Turns \ {u} : st'[v] = st[v] /\ todo'[v] = todo[v] /\ awaiting'[v] = awaiting[v]
      /\ \A d \in Calls \ {c} : results'[d] = results[d] /\ row'[d] = row[d]
      /\ (results'[c] = 1 /\ row'[c] = None /\ awaiting'[u] = awaiting[u])
           \/ (results'[c] = 0 /\ row'[c] = u /\ awaiting'[u] = awaiting[u] \cup {c})
  BY <1>1, Types DEF IInv
<1>3. CallsOK'
  <2>1. \E k \in 0..NumCalls : {d \in Calls : asked'[d] # None} = 1..k
    BY DEF IInv, CallsOK
  <2>2. ASSUME NEW d \in Calls
        PROVE  /\ asked'[d] # None => st'[asked'[d]] \notin {"unborn", "spawned"}
               /\ results'[d] # 0 => asked'[d] # None
               /\ row'[d] # None => row'[d] = asked'[d] /\ results'[d] = 0
               /\ results'[d] <= 1
    <3>1. asked[d] # None => asked[d] \in Turns
      BY Types DEF IInv
    <3>2. /\ asked[d] # None => st[asked[d]] \notin {"unborn", "spawned"}
          /\ results[d] # 0 => asked[d] # None
          /\ row[d] # None => row[d] = asked[d] /\ results[d] = 0
          /\ results[d] <= 1
      BY DEF IInv, CallsOK
    <3>3. CASE d = c
      BY <1>1, <1>2, <3>3, Types DEF IInv
    <3>4. CASE d # c
      BY <1>2, <3>1, <3>2, <3>4
    <3>. QED
      BY <3>3, <3>4
  <2>. QED
    BY <2>1, <2>2 DEF CallsOK
<1>4. ASSUME NEW v \in Turns \ {u} PROVE CallsRest(v)
  BY <1>1, <1>2, Types DEF IInv, CallsRest
<1>5. TodoOK(u) /\ AwaitOK(u) /\ AnsweredOrKept(u)
  BY DEF IInv, GuestOK
<1>6. TodoOK(u)'
  <2>0. ASSUME NEW i \in 1..Len(Tail(todo[u]))
        PROVE  /\ Tail(todo[u])[i] \in Calls \ {c} /\ i + 1 \in 1..Len(todo[u])
               /\ Tail(todo[u])[i] = todo[u][i + 1]
    BY HeadOfTodo
  <2>. DEFINE t == Tail(todo[u])
  <2>1. \A i \in 1..Len(t) : /\ t[i] \in Calls \ {c} /\ i + 1 \in 1..Len(todo[u])
                            /\ t[i] = todo[u][i + 1]
    BY <2>0
  <2>2. \A i \in 1..Len(t) : asked[t[i]] = u /\ results'[t[i]] = 0 /\ row'[t[i]] = None
    BY <1>2, <1>5, <2>1 DEF TodoOK
  <2>3. \A i, j \in 1..Len(t) : t[i] = t[j] => i = j
    <3>1. \A i, j \in 1..Len(t) : t[i] = t[j] => i + 1 = j + 1
      BY <1>5, <2>1 DEF TodoOK
    <3>2. Tail(todo[u]) \in Seq(Calls)
      BY HeadOfTodo
    <3>3. Len(t) \in Nat
      BY <3>2, SMTT(40)
    <3>. HIDE DEF t
    <3>. QED
      BY <3>1, <3>3, SMTT(40)
  <2>4. todo'[u] = t
    BY <1>2
  <2>. HIDE DEF t
  <2>5. st'[u] = "calling" /\ asked' = asked
    BY <1>2
  <2>. QED
    BY ONLY <2>2, <2>3, <2>4, <2>5 DEF TodoOK
<1>7. AwaitOK(u)'
  BY <1>1, <1>2, <1>5, Types DEF IInv, AwaitOK, SameTask
<1>8. AnsweredOrKept(u)'
  <2>1. ASSUME NEW d \in Calls \ {c}, InTodo(d, u) PROVE InTodo(d, u)'
    <3>1. \E i \in 1..Len(Tail(todo[u])) : Tail(todo[u])[i] = d
      BY <2>1, HeadOfTodo
    <3>. QED
      BY <1>2, <3>1 DEF InTodo
  <2>. QED
    BY <1>1, <1>2, <1>5, <2>1 DEF AnsweredOrKept
<1>. QED
  BY <1>1, <1>2, <1>3, <1>4, <1>6, <1>7, <1>8, GuestMoves

LEMMA StartsKeeps ==
  ASSUME IInv, NEW u \in Turns, CallStarts(u)
  PROVE  Data' /\ CallsOK' /\ GuestOK' /\ HeldOK' /\ ResumeOK'
<1>. DEFINE c == Head(todo[u])
<1>1. /\ st[u] = "calling" /\ todo[u] # <<>> /\ Emit(<<Event("tool_start", {c})>>)
      /\ asked' = asked /\ row' = row /\ awaiting' = awaiting /\ polls' = polls
      /\ cancelled' = cancelled /\ runs' = runs /\ resumes' = resumes /\ submit' = submit
      /\ UNCHANGED panelVars
  BY DEF CallStarts
<1>2. \/ /\ results' = [results EXCEPT ![c] = @ + 1]
         /\ todo' = [todo EXCEPT ![u] = Tail(@)] /\ st' = st
      \/ st' = [st EXCEPT ![u] = "intool"] /\ results' = results /\ todo' = todo
  BY DEF CallStarts
<1>3. c \in Calls /\ Tail(todo[u]) \in Seq(Calls)
  BY <1>1, HeadOfTodo
<1>4. OffersRest /\ events' \in Seq(Events)
  <2>1. Event("tool_start", {c}) \in Events /\ Event("tool_start", {c}).tag # "offer_choices"
    BY <1>3, EventTypes DEF EventTags
  <2>. QED
    BY <1>1, <2>1, OneEvent, QuietEmit DEF IInv
<1>. HIDE DEF c
<1>5. Data'
  <2>1. Data
    BY TypeParts DEF IInv
  <2>2. results' \in [Calls -> Nat] /\ todo' \in [Turns -> Seq(Calls)] /\ st' \in [Turns -> TurnStates]
    <3>1. /\ results \in [Calls -> Nat] /\ todo \in [Turns -> Seq(Calls)]
          /\ st \in [Turns -> TurnStates] /\ results[c] + 1 \in Nat
      BY <1>3, <2>1 DEF Data
    <3>. QED
      BY <1>2, <1>3, <3>1 DEF TurnStates
  <2>. QED
    BY <1>1, <1>4, <2>1, <2>2 DEF Data, panelVars
<1>6. CASE st' = st /\ results' # results
  <2>1. st' = [st EXCEPT ![u] = "calling"]
    BY <1>1, <1>6, Types DEF IInv
  <2>. QED
    BY <1>1, <1>2, <1>4, <1>5, <1>6, <2>1, HeadIsDone DEF c, panelVars
<1>7. CASE results' = results /\ todo' = todo /\ st' = [st EXCEPT ![u] = "intool"]
  <2>1. CallsOK'
    BY <1>1, <1>7, CallsStay, Types DEF IInv
  <2>2. TodoOK(u) /\ AwaitOK(u) /\ AnsweredOrKept(u)
    BY DEF IInv, GuestOK
  <2>3. st'[u] = "intool"
    BY <1>7, Types DEF IInv
  <2>4. (TodoOK(u) /\ AwaitOK(u) /\ AnsweredOrKept(u))'
    BY <1>1, <1>7, <2>2, <2>3 DEF TodoOK, AwaitOK, AnsweredOrKept, InTodo, SameTask
  <2>5. \A v \in Turns \ {u} : CallsRest(v) /\ st'[v] = st[v]
    BY <1>1, <1>7, Types DEF IInv, CallsRest
  <2>. QED
    BY <1>1, <1>4, <1>5, <1>7, <2>1, <2>4, <2>5, GuestMoves DEF panelVars
<1>8. results' = [results EXCEPT ![c] = @ + 1] => results' # results
  BY <1>3, Types DEF IInv
<1>. QED
  BY <1>2, <1>6, <1>7, <1>8

LEMMA WaitsKeeps ==
  ASSUME IInv, NEW u \in Turns, CallWaits(u)
  PROVE  Data' /\ CallsOK' /\ GuestOK' /\ HeldOK' /\ ResumeOK'
<1>1. PICK c : c = Head(todo[u])
  OBVIOUS
<1>2. /\ st[u] = "intool" /\ Emit(<<Event("tool_end", {c})>>)
      /\ row' = [row EXCEPT ![c] = u] /\ awaiting' = [awaiting EXCEPT ![u] = @ \cup {c}]
      /\ todo' = [todo EXCEPT ![u] = Tail(@)] /\ st' = [st EXCEPT ![u] = "calling"]
      /\ asked' = asked /\ results' = results /\ polls' = polls /\ cancelled' = cancelled
      /\ runs' = runs /\ resumes' = resumes /\ submit' = submit /\ UNCHANGED panelVars
  BY <1>1 DEF CallWaits
<1>3. todo[u] # <<>>
  BY <1>2 DEF IInv, GuestOK, TodoOK
<1>4. c \in Calls /\ Tail(todo[u]) \in Seq(Calls)
  BY <1>1, <1>3, HeadOfTodo
<1>5. OffersRest /\ events' \in Seq(Events)
  <2>1. Event("tool_end", {c}) \in Events /\ Event("tool_end", {c}).tag # "offer_choices"
    BY <1>4, EventTypes DEF EventTags
  <2>. QED
    BY <1>2, <2>1, OneEvent, QuietEmit DEF IInv
<1>6. Data'
  <2>1. Data
    BY TypeParts DEF IInv
  <2>. QED
    BY <1>2, <1>4, <1>5, <2>1 DEF Data, TurnStates, panelVars
<1>. QED
  BY <1>1, <1>2, <1>3, <1>5, <1>6, HeadIsDone DEF panelVars

LEMMA EndsKeeps ==
  ASSUME IInv, NEW u \in Turns, CallEnds(u)
  PROVE  Data' /\ CallsOK' /\ GuestOK' /\ HeldOK' /\ ResumeOK'
<1>1. PICK c : c = Head(todo[u])
  OBVIOUS
<1>. DEFINE ended == Event("tool_end", {c})
<1>2. /\ st[u] = "intool" /\ results' = [results EXCEPT ![c] = @ + 1]
      /\ asked' = asked /\ row' = row /\ resumes' = resumes /\ submit' = submit
      /\ UNCHANGED panelVars
  BY <1>1 DEF CallEnds
<1>3. PICK count \in {0, polls[u] + 1} :
        IF count >= PollLimit
        THEN Finish(u, <<ended, Done("plain")>>)
        ELSE /\ st' = [st EXCEPT ![u] = "calling"] /\ polls' = [polls EXCEPT ![u] = count]
             /\ todo' = [todo EXCEPT ![u] = Tail(@)] /\ Emit(<<ended>>)
             /\ UNCHANGED <<awaiting, cancelled, runs>>
  BY <1>1 DEF CallEnds
<1>4. todo[u] # <<>>
  BY <1>2 DEF IInv, GuestOK, TodoOK
<1>5. /\ c \in Calls /\ Tail(todo[u]) \in Seq(Calls)
      /\ asked[c] = u /\ results[c] = 0 /\ row[c] = None
  BY <1>1, <1>4, HeadOfTodo
<1>6. /\ ended \in Events /\ ended.tag # "offer_choices"
      /\ Done("plain") \in Events /\ Done("plain").tag # "offer_choices"
  BY <1>5, EventTypes DEF EventTags
<1>. HIDE DEF ended
<1>7. Data
  BY TypeParts DEF IInv
<1>8. results' \in [Calls -> Nat]
  <2>1. results \in [Calls -> Nat] /\ results[c] + 1 \in Nat
    BY <1>5, <1>7 DEF Data
  <2>. QED
    BY <1>2, <2>1
<1>9. CASE ~(count >= PollLimit)
  <2>1. OffersRest /\ events' \in Seq(Events)
    BY <1>3, <1>6, <1>9, OneEvent, QuietEmit DEF IInv
  <2>2. count \in 0..(PollLimit - 1)
    BY <1>3, <1>7, <1>9, BoundsAssumption DEF Data
  <2>3. st' \in [Turns -> TurnStates] /\ polls' \in [Turns -> 0..(PollLimit - 1)]
    BY <1>3, <1>7, <1>9, <2>2 DEF Data, TurnStates
  <2>3a. todo' \in [Turns -> Seq(Calls)]
    BY <1>3, <1>5, <1>7, <1>9 DEF Data
  <2>3b. Data'
    BY <1>2, <1>3, <1>7, <1>8, <1>9, <2>1, <2>3, <2>3a DEF Data, panelVars
  <2>. QED
    BY <1>1, <1>2, <1>3, <1>4, <1>9, <2>1, <2>3b, HeadIsDone DEF panelVars
<1>10. CASE count >= PollLimit
  <2>1. Returned(u) /\ runs' = None /\ OffersRest /\ events' \in Seq(Events)
    BY <1>3, <1>6, <1>10, TwoEvents, QuietEmit DEF Finish, IInv
  <2>2. Data'
    <3>1. PollLimit \in Nat \ {0} /\ 0 \in 0..(PollLimit - 1) /\ <<>> \in Seq(Calls)
      BY BoundsAssumption
    <3>. QED
      BY <1>2, <1>7, <1>8, <2>1, <3>1 DEF Data, Returned, TurnStates, panelVars
  <2>3. /\ st'[u] = "gone" /\ todo'[u] = <<>> /\ awaiting'[u] = {}
        /\ \A v \in Turns \ {u} : st'[v] = st[v] /\ todo'[v] = todo[v] /\ awaiting'[v] = awaiting[v]
    BY <2>1, Types DEF IInv, Returned
  <2>4. (TodoOK(u) /\ AwaitOK(u) /\ AnsweredOrKept(u))'
    BY <2>3, TurnReturns
  <2>5. \A v \in Turns \ {u} : CallsRest(v)
    BY <1>2, <1>5, Types DEF IInv, CallsRest
  <2>6. CallsOK'
    <3>1. \E k \in 0..NumCalls : {d \in Calls : asked'[d] # None} = 1..k
      BY <1>2 DEF IInv, CallsOK
    <3>2. ASSUME NEW d \in Calls
          PROVE  /\ asked'[d] # None => st'[asked'[d]] \notin {"unborn", "spawned"}
                 /\ results'[d] # 0 => asked'[d] # None
                 /\ row'[d] # None => row'[d] = asked'[d] /\ results'[d] = 0
                 /\ results'[d] <= 1
      <4>1. asked[d] # None => asked[d] \in Turns
        BY Types DEF IInv
      <4>2. CASE d = c
        BY <1>2, <1>5, <2>3, <4>2, Types DEF IInv
      <4>3. CASE d # c
        BY <1>2, <1>5, <2>3, <4>1, <4>3, Types DEF IInv, CallsOK
      <4>. QED
        BY <4>2, <4>3
    <3>. QED
      BY <3>1, <3>2 DEF CallsOK
  <2>. QED
    BY <1>2, <2>1, <2>2, <2>3, <2>4, <2>5, <2>6, GuestMoves DEF panelVars
<1>. QED
  BY <1>9, <1>10

LEMMA BatchEndsKeeps ==
  ASSUME IInv, NEW u \in Turns, BatchEnds(u)
  PROVE  Data' /\ CallsOK' /\ GuestOK' /\ HeldOK' /\ ResumeOK'
<1>1. /\ st[u] = "calling" /\ todo[u] = <<>>
      /\ asked' = asked /\ results' = results /\ row' = row /\ resumes' = resumes
      /\ submit' = submit /\ UNCHANGED panelVars
  BY DEF BatchEnds
<1>2. Data /\ TodoOK(u) /\ AwaitOK(u) /\ AnsweredOrKept(u)
  BY TypeParts DEF IInv, GuestOK
<1>3. \A v \in Turns : CallsRest(v)
  BY <1>1 DEF CallsRest
<1>4. CASE awaiting[u] = {}
  <2>1. st' = [st EXCEPT ![u] = "thinking"] /\ UNCHANGED <<guestVars, cancelled, runs, events>>
    BY <1>4 DEF BatchEnds
  <2>2. st'[u] = "thinking" /\ \A v \in Turns \ {u} : st'[v] = st[v]
    BY <2>1, Types DEF IInv
  <2>3. Data'
    BY <1>1, <1>2, <2>1 DEF Data, TurnStates, panelVars, guestVars
  <2>4. CallsOK'
    BY <1>1, <2>2, CallsStay
  <2>5. OffersRest
    BY <2>1 DEF OffersRest, Offer
  <2>6. (TodoOK(u) /\ AwaitOK(u) /\ AnsweredOrKept(u))'
    BY <1>1, <1>2, <1>4, <2>1, <2>2 DEF TodoOK, AwaitOK, AnsweredOrKept, InTodo, SameTask, guestVars
  <2>. QED
    BY <1>1, <1>3, <2>1, <2>2, <2>3, <2>4, <2>5, <2>6, GuestMoves DEF panelVars, guestVars
<1>5. CASE awaiting[u] # {}
  <2>1. PICK set : set = awaiting[u]
    OBVIOUS
  <2>. DEFINE e == Event("offer_choices", set)
              f == Done("waitingChoice")
  <2>2. Returned(u) /\ runs' = None /\ events' = events \o <<e, f>>
    BY <1>5, <2>1 DEF BatchEnds, Finish, Emit
  <2>3. /\ e \in Events /\ e.tag = "offer_choices" /\ e.calls = set
        /\ f \in Events /\ f.tag # "offer_choices"
    <3>1. set \in SUBSET Calls
      BY <2>1, Types DEF IInv
    <3>. QED
      BY <3>1, EventTypes DEF EventTags
  <2>. HIDE DEF e, f
  <2>4. /\ st'[u] = "gone" /\ todo'[u] = <<>> /\ awaiting'[u] = {}
        /\ \A v \in Turns \ {u} : st'[v] = st[v] /\ todo'[v] = todo[v] /\ awaiting'[v] = awaiting[v]
    BY <2>2, Types DEF IInv, Returned
  <2>5. Data'
    <3>1. PollLimit \in Nat \ {0} /\ 0 \in 0..(PollLimit - 1) /\ <<>> \in Seq(Calls)
      BY BoundsAssumption
    <3>2. events' \in Seq(Events)
      BY <1>2, <2>2, <2>3, ConcatProperties DEF Data
    <3>. QED
      BY <1>1, <1>2, <2>2, <3>1, <3>2 DEF Data, Returned, TurnStates, panelVars
  <2>6. CallsOK'
    BY <1>1, <2>4, CallsStay
  <2>7. GuestOK'
    <3>1. (TodoOK(u) /\ AwaitOK(u) /\ AnsweredOrKept(u))'
      BY <2>4, TurnReturns
    <3>. QED
      BY <1>3, <2>4, <3>1, TurnRests DEF GuestOK
  <2>8. GoneRest
    BY <1>1, <1>3, <2>4 DEF GoneRest, Untouched
  <2>9. ResumeOK'
    BY <1>1, <2>8, ResumesRest
  <2>10. \A c \in set : c \in Calls /\ row[c] = u /\ asked[c] = u
    BY <1>1, <1>2, <2>1, Types DEF IInv, AwaitOK, SameTask, CallsOK
  <2>11. OfGone(set)' /\ Offerable(set)'
    <3>1. \A c \in Calls : asked[c] = u => results[c] = 1 \/ row[c] = u
      <4>1. Len(todo[u]) = 0
        BY <1>1, EmptySeq
      <4>. QED
        BY <1>1, <1>2, <4>1 DEF AnsweredOrKept, InTodo
    <3>2. SameTask(u) = set
      BY <1>1, <1>2, <2>1 DEF AwaitOK
    <3>. QED
      BY <1>1, <2>4, <2>10, <3>1, <3>2, NoneAssumption DEF OfGone, Offerable, Complete, SameTask
  <2>12. \A other : OfGone(other) => set \cap other = {}
    BY <1>1, <2>10 DEF OfGone
  <2>13. PICK new : new = Len(events) + 1
    OBVIOUS
  <2>14. /\ Offer(new)' /\ events'[new] = e /\ ~Offer(new)
         /\ \A i : (Offer(i)' <=> Offer(i) \/ i = new) /\ (Offer(i) => events'[i] = events[i])
    BY <2>2, <2>3, <2>13, Offered DEF IInv
  <2>15. HeldOK
    BY DEF IInv
  <2>16. \A s \in Submits : (OfGone(Taken(s)) /\ SubmitOK(s))'
    BY <1>1, <2>8, GoneUntouched, SubmitRests
  <2>17. OfGone(card)' /\ Offerable(card)'
    <3>1. ASSUME NEW held, held = card PROVE OfGone(held)' /\ Offerable(held)'
      BY <2>8, <2>15, <3>1, Types, GoneUntouched, SetRests DEF HeldOK, IInv
    <3>. QED
      BY <1>1, <3>1 DEF panelVars
  <2>18. ASSUME NEW i \in 1..Len(events'), Offer(i)'
         PROVE  (OfGone(events[i].calls) /\ Offerable(events[i].calls))'
    <3>1. CASE i = new
      BY <2>3, <2>11, <2>14, <3>1
    <3>2. CASE i # new
      <4>1. Offer(i) /\ events'[i] = events[i] /\ i \in 1..Len(events)
        BY <2>14, <2>18, <3>2 DEF Offer
      <4>2. events[i].calls \subseteq Calls
        <5>1. events[i] \in Events
          BY <4>1, Types, ElementOfSeq DEF IInv
        <5>. QED
          BY <5>1 DEF Events
      <4>3. ASSUME NEW held, held = events[i].calls PROVE OfGone(held)' /\ Offerable(held)'
        BY <2>8, <2>15, <4>1, <4>2, <4>3, GoneUntouched, SetRests DEF HeldOK
      <4>. QED
        BY <4>1, <4>3
    <3>. QED
      BY <3>1, <3>2
  <2>19. Apart'
    <3>1. Apart
      BY <2>15 DEF HeldOK
    <3>2. \A i : Offer(i) => set \cap events[i].calls = {}
      BY <2>12, <2>15 DEF HeldOK, Offer
    <3>3. set \cap card = {} /\ \A s \in Submits : set \cap Taken(s) = {}
      BY <2>12, <2>15 DEF HeldOK
    <3>4. events'[new].calls = set
      BY <2>3, <2>14
    <3>5. card' = card /\ \A s \in Submits : Taken(s)' = Taken(s)
      BY <1>1 DEF Taken, panelVars
    <3>6. \A i : Offer(i)' => i = new \/ (Offer(i) /\ events'[i] = events[i] /\ i \in 1..Len(events))
      BY <2>14 DEF Offer
    <3>. QED
      BY <3>1, <3>2, <3>3, <3>4, <3>5, <3>6 DEF Apart
  <2>20. HeldOK'
    BY <2>16, <2>17, <2>18, <2>19 DEF HeldOK
  <2>. QED
    BY <2>5, <2>6, <2>7, <2>9, <2>20
<1>. QED
  BY <1>4, <1>5

(* Every step of the guest keeps the invariant.                            *)
LEMMA GuestKeeps ==
  ASSUME IInv, NEW u \in Turns, GuestStep(u)
  PROVE  Data' /\ CallsOK' /\ GuestOK' /\ HeldOK' /\ ResumeOK'
BY RegisterKeeps, FinishKeeps, AsksKeeps, StartsKeeps, WaitsKeeps, EndsKeeps, BatchEndsKeeps
   DEF GuestStep
-----------------------------------------------------------------------------
(* The panel and Choose leave the turns that run alone, or end them all.   *)
LEMMA GuestsRest ==
  ASSUME IInv, todo' = todo, awaiting' = awaiting,
         \A v \in Turns : /\ st'[v] = st[v] \/ (st[v] = "unborn" /\ st'[v] = "spawned")
                          /\ st[v] # "gone" => CallsRest(v)
  PROVE  GuestOK'
<1> SUFFICES ASSUME NEW v \in Turns PROVE (TodoOK(v) /\ AwaitOK(v) /\ AnsweredOrKept(v))'
  BY DEF GuestOK
<1>1. TodoOK(v) /\ AwaitOK(v) /\ AnsweredOrKept(v)
  BY DEF IInv, GuestOK
<1>2. CASE st[v] = "gone"
  BY <1>1, <1>2, TurnReturns DEF TodoOK, AwaitOK
<1>3. CASE st[v] # "gone" /\ st'[v] = st[v]
  BY <1>3, TurnRests
<1>4. CASE st[v] = "unborn" /\ st'[v] = "spawned"
  <2>1. CallsRest(v)
    BY <1>4
  <2>2. SameTask(v)' = SameTask(v)
    BY <2>1 DEF SameTask, CallsRest
  <2>3. todo[v] = <<>> /\ awaiting[v] = {} /\ Len(todo[v]) = 0
    BY <1>1, <1>4, EmptySeq DEF TodoOK, AwaitOK
  <2>4. TodoOK(v)'
    BY <1>4, <2>3 DEF TodoOK
  <2>5. AwaitOK(v)'
    BY <1>1, <1>4, <2>2, <2>3 DEF AwaitOK
  <2>6. AnsweredOrKept(v)'
    BY <1>1, <1>4, <2>1 DEF AnsweredOrKept, InTodo, CallsRest
  <2>. QED
    BY <2>4, <2>5, <2>6
<1>. QED
  BY <1>2, <1>3, <1>4

(* A turn that is started: the others stay where they are.                 *)
LEMMA TurnStarts ==
  ASSUME IInv, NEW u \in Turns, st[u] = "unborn", st' = [st EXCEPT ![u] = "spawned"],
         todo' = todo, awaiting' = awaiting,
         asked' = asked, row' = row, results' = results
  PROVE  /\ st' \in [Turns -> TurnStates] /\ GuestOK' /\ CallsOK' /\ GoneRest
         /\ \A v \in Turns : st[v] = "gone" => st'[v] = "gone"
<1>1. st \in [Turns -> TurnStates]
  BY Types DEF IInv
<1>2. \A v \in Turns : st'[v] = st[v] \/ (st[v] = "unborn" /\ st'[v] = "spawned")
  BY <1>1
<1>3. \A v \in Turns : CallsRest(v)
  BY DEF CallsRest
<1>4. st[u] # "gone" /\ \A v \in Turns : st[v] = "gone" => st'[v] = "gone"
  BY <1>2
<1>5. \A v \in Turns : st[v] \notin {"unborn", "spawned"} => st'[v] \notin {"unborn", "spawned"}
  BY <1>2
<1>6. CallsOK'
  BY <1>5, CallsStay
<1>7. GuestOK'
  BY <1>2, <1>3, GuestsRest
<1>8. GoneRest
  BY <1>3, <1>4 DEF GoneRest, Untouched
<1>. QED
  BY <1>1, <1>4, <1>6, <1>7, <1>8 DEF TurnStates

(* What a step does to the guest that leaves all its state alone.          *)
LEMMA TurnsRest ==
  ASSUME IInv, st' = st, todo' = todo, awaiting' = awaiting,
         asked' = asked, row' = row, results' = results
  PROVE  GuestOK' /\ CallsOK' /\ GoneRest
<1>1. \A v \in Turns : CallsRest(v)
  BY DEF CallsRest
<1>2. GuestOK'
  BY <1>1, GuestsRest
<1>3. CallsOK'
  BY CallsStay
<1>. QED
  BY <1>1, <1>2, <1>3 DEF GoneRest, Untouched

(* No event moves.                                                         *)
LEMMA EventsRest ==
  ASSUME events' = events
  PROVE  OffersRest /\ \A i \in 1..Len(events') : Offer(i)' => Offer(i + 0) /\ events'[i] = events[i + 0]
BY DEF OffersRest, Offer

(* A submit moves, and no call is touched.                                 *)
LEMMA SubmitMoves ==
  ASSUME IInv, GoneRest, events' = events, NEW s \in Submits,
         \A r \in Submits \ {s} : submit'[r] = submit[r],
         \/ card' = card /\ Taken(s)' \subseteq Taken(s)
         \/ card' = {} /\ Taken(s)' \subseteq card,
         (OfGone(Taken(s)) /\ SubmitOK(s))'
  PROVE  HeldOK'
<1>1. \A i \in 1..Len(events') : Offer(i)' => Offer(i + 0) /\ events'[i] = events[i + 0]
  BY EventsRest
<1>2. \A r \in Submits \ {s} :
        /\ submit'[r] = submit[r] /\ \A c \in Taken(r) : Untouched(asked[c])
        /\ submit[r].pc \in {"writing", "deleted"} => Untouched(submit[r].task)
  BY GoneUntouched
<1>3. /\ \A i : Offer(i) => \A c \in events[i].calls : Untouched(asked[c])
      /\ \A c \in card : Untouched(asked[c])
  BY GoneUntouched
<1>. QED
  BY <1>1, <1>2, <1>3, HeldMoves

LEMMA RejectsKeeps ==
  ASSUME IInv, NEW s \in Submits, ChooseRejects(s)
  PROVE  Data' /\ CallsOK' /\ GuestOK' /\ HeldOK' /\ ResumeOK'
<1>1. /\ submit' = [submit EXCEPT ![s] = Free] /\ phase' = "error"
      /\ asked' = asked /\ results' = results /\ row' = row /\ st' = st /\ UNCHANGED guestVars
      /\ cancelled' = cancelled /\ runs' = runs /\ resumes' = resumes /\ events' = events
      /\ card' = card /\ open' = open
  BY DEF ChooseRejects
<1>2. Free \in SubmitRecords
  BY DEF Free, SubmitRecords, SubmitStates
<1>3. Data'
  <2>1. Data
    BY TypeParts DEF IInv
  <2>. QED
    BY <1>1, <1>2, <2>1 DEF Data, guestVars, Phases
<1>4. GuestOK' /\ CallsOK' /\ GoneRest
  BY <1>1, TurnsRest DEF guestVars
<1>5. submit'[s] = Free /\ \A r \in Submits \ {s} : submit'[r] = submit[r]
  BY <1>1, Types DEF IInv
<1>6. Taken(s)' = {} /\ SubmitOK(s)'
  BY <1>5 DEF Taken, Free, SubmitOK
<1>7. OfGone(Taken(s))'
  BY <1>6 DEF OfGone
<1>8. HeldOK'
  BY <1>1, <1>4, <1>5, <1>6, <1>7, SubmitMoves
<1>9. ResumeOK'
  BY <1>1, <1>4, ResumesRest
<1>. QED
  BY <1>3, <1>4, <1>8, <1>9

LEMMA ReadsKeeps ==
  ASSUME IInv, NEW s \in Submits, ChooseReads(s)
  PROVE  Data' /\ CallsOK' /\ GuestOK' /\ HeldOK' /\ ResumeOK'
<1>1. PICK seed \in submit[s].answers :
        /\ row[seed] # None /\ SameTask(row[seed]) \subseteq submit[s].answers
        /\ submit' = [submit EXCEPT ![s].pc = "writing", ![s].answers = {},
                        ![s].batch = SameTask(row[seed]), ![s].task = row[seed]]
  BY DEF ChooseReads
<1>2. /\ submit[s].pc = "called"
      /\ asked' = asked /\ results' = results /\ row' = row /\ st' = st /\ UNCHANGED guestVars
      /\ cancelled' = cancelled /\ runs' = runs /\ resumes' = resumes /\ events' = events
      /\ UNCHANGED panelVars
  BY DEF ChooseReads, Choosing
<1>3. PICK t : t = row[seed]
  OBVIOUS
<1>4. PICK batch : batch = SameTask(t)
  OBVIOUS
<1>5. /\ submit[s] \in SubmitRecords /\ submit[s].answers \subseteq Calls /\ seed \in Calls
      /\ submit \in [Submits -> SubmitRecords] /\ t \in Turns
  BY <1>1, <1>3, Types DEF IInv
<1>6. batch \subseteq submit[s].answers /\ batch \subseteq Calls
  BY <1>1, <1>3, <1>4, <1>5
<1>7. /\ submit'[s] = [pc |-> "writing", answers |-> {}, batch |-> batch, task |-> t]
      /\ submit'[s] \in SubmitRecords
      /\ \A r \in Submits \ {s} : submit'[r] = submit[r]
      /\ submit' \in [Submits -> SubmitRecords]
  BY <1>1, <1>3, <1>4, <1>5, <1>6 DEF SubmitRecords, SubmitStates
<1>8. Data'
  <2>1. Data
    BY TypeParts DEF IInv
  <2>. QED
    BY <1>2, <1>7, <2>1 DEF Data, guestVars, panelVars
<1>9. GuestOK' /\ CallsOK' /\ GoneRest
  BY <1>2, TurnsRest DEF guestVars
<1>10. Complete(t) /\ OfGone(Taken(s)) /\ asked[seed] = t /\ st[t] = "gone"
  <2>1. SubmitOK(s) /\ OfGone(Taken(s))
    BY DEF IInv, HeldOK
  <2>2. row[seed] = asked[seed]
    BY <1>1, <1>5 DEF IInv, CallsOK
  <2>. QED
    BY <1>1, <1>2, <1>3, <2>1, <2>2 DEF SubmitOK, OfGone, Taken
<1>11. \A c \in batch : asked[c] = t /\ results[c] = 0
  BY <1>4, <1>5, NoneAssumption DEF SameTask, IInv, CallsOK
<1>12. Taken(s)' = batch /\ batch \subseteq Taken(s)
  BY <1>6, <1>7 DEF Taken
<1>13. OfGone(Taken(s))'
  BY <1>2, <1>10, <1>11, <1>12 DEF OfGone
<1>14. SubmitOK(s)'
  <2>1. SameTask(t)' = batch /\ Left(s)' = batch
    BY <1>2, <1>4, <1>7 DEF SameTask, Left
  <2>2. \A c \in Calls : asked[c] = t => results[c] = 1 \/ c \in batch
    BY <1>4, <1>10 DEF Complete, SameTask
  <2>. QED
    BY <1>2, <1>5, <1>7, <1>10, <1>11, <2>1, <2>2 DEF SubmitOK
<1>15. HeldOK'
  BY <1>2, <1>7, <1>9, <1>12, <1>13, <1>14, SubmitMoves DEF panelVars
<1>16. ResumeOK'
  BY <1>2, <1>9, ResumesRest
<1>. QED
  BY <1>8, <1>9, <1>15, <1>16

LEMMA ResumesKeeps ==
  ASSUME IInv, NEW s \in Submits, ChooseResumes(s)
  PROVE  Data' /\ CallsOK' /\ GuestOK' /\ HeldOK' /\ ResumeOK'
<1>1. PICK u \in Turns :
        /\ st[u] = "unborn" /\ st' = [st EXCEPT ![u] = "spawned"]
        /\ resumes' = [resumes EXCEPT ![u] = submit[s].task]
  BY DEF ChooseResumes, NextTurn, Unborn
<1>2. /\ submit[s].pc = "writing" /\ submit[s].batch = {}
      /\ submit' = [submit EXCEPT ![s] = Free]
      /\ asked' = asked /\ results' = results /\ row' = row /\ UNCHANGED guestVars
      /\ cancelled' = cancelled /\ runs' = runs /\ events' = events /\ UNCHANGED panelVars
  BY DEF ChooseResumes, Choosing
<1>3. PICK t : t = submit[s].task
  OBVIOUS
<1>4. t \in Turns /\ st[t] = "gone" /\ \A c \in Calls : asked[c] = t => results[c] = 1
  BY <1>2, <1>3 DEF IInv, HeldOK, SubmitOK
<1>5. /\ st' \in [Turns -> TurnStates] /\ GuestOK' /\ CallsOK' /\ GoneRest
      /\ \A v \in Turns : st[v] = "gone" => st'[v] = "gone"
  BY <1>1, <1>2, TurnStarts DEF guestVars
<1>6. Free \in SubmitRecords
  BY DEF Free, SubmitRecords, SubmitStates
<1>7. Data'
  <2>1. Data
    BY TypeParts DEF IInv
  <2>. QED
    BY <1>1, <1>2, <1>3, <1>4, <1>5, <1>6, <2>1 DEF Data, guestVars, panelVars
<1>8. submit'[s] = Free /\ \A r \in Submits \ {s} : submit'[r] = submit[r]
  BY <1>2, Types DEF IInv
<1>9. Taken(s)' = {} /\ SubmitOK(s)'
  BY <1>8 DEF Taken, Free, SubmitOK
<1>10. OfGone(Taken(s))'
  BY <1>9 DEF OfGone
<1>11. HeldOK'
  BY <1>2, <1>5, <1>8, <1>9, <1>10, SubmitMoves DEF panelVars
<1>12. ResumeOK'
  BY <1>1, <1>2, <1>3, <1>4, <1>5, Types DEF IInv, ResumeOK
<1>. QED
  BY <1>5, <1>7, <1>11, <1>12

(* While Choose writes a batch, nobody else holds a call of its task.      *)
LEMMA OthersApart ==
  ASSUME IInv, NEW s \in Submits, submit[s].pc \in {"writing", "deleted"},
         submit[s].batch # {}, NEW t, t = submit[s].task
  PROVE  /\ \A c \in card : asked[c] # t
         /\ \A i : Offer(i) => \A c \in events[i].calls : asked[c] # t
         /\ \A r \in Submits \ {s} :
              /\ \A c \in Taken(r) : asked[c] # t
              /\ submit[r].pc \in {"writing", "deleted"} => submit[r].task # t
<1>1. /\ SubmitOK(s) /\ Apart /\ OfGone(card) /\ Offerable(card)
      /\ \A i \in 1..Len(events) : Offer(i) => OfGone(events[i].calls) /\ Offerable(events[i].calls)
      /\ \A r \in Submits : SubmitOK(r)
  BY DEF IInv, HeldOK
<1>2. SameTask(t) \subseteq Taken(s)
  BY <1>1 DEF SubmitOK, Left, Taken
<1>3. ASSUME NEW c \in Calls, row[c] # None, asked[c] = t PROVE c \in Taken(s)
  <2>1. row[c] = t
    BY <1>3 DEF IInv, CallsOK
  <2>. QED
    BY <1>2, <2>1 DEF SameTask
<1>4. ASSUME NEW c \in card, asked[c] = t PROVE FALSE
  <2>1. c \in Calls /\ row[c] # None /\ c \notin Taken(s)
    BY <1>1, <1>4, Types DEF IInv, Offerable, Apart
  <2>. QED
    BY <1>3, <1>4, <2>1
<1>5. ASSUME NEW i, Offer(i), NEW c \in events[i].calls, asked[c] = t PROVE FALSE
  <2>1. i \in 1..Len(events) /\ events[i] \in Events
    BY <1>5, Types, ElementOfSeq DEF IInv, Offer
  <2>2. c \in Calls /\ row[c] # None /\ c \notin Taken(s)
    BY <1>1, <1>5, <2>1 DEF Events, Offerable, Apart
  <2>. QED
    BY <1>3, <1>5, <2>2
<1>6. ASSUME NEW r \in Submits \ {s}, submit[r].pc \in {"writing", "deleted"}
      PROVE  submit[r].task # t
  <2>1. PICK b : b \in submit[s].batch
    OBVIOUS
  <2>2. b \in Calls /\ asked[b] = t /\ results[b] = 0 /\ b \in Taken(s)
    BY <1>1, <2>1, Types DEF IInv, SubmitOK, Taken
  <2>3. b \notin Taken(r)
    BY <1>1, <2>2 DEF Apart
  <2>. QED
    BY <1>1, <1>6, <2>2, <2>3 DEF SubmitOK, Taken
<1>7. ASSUME NEW r \in Submits \ {s}, NEW c \in Taken(r), asked[c] = t PROVE FALSE
  <2>1. c \in Calls /\ c \notin Taken(s)
    BY <1>1, <1>7, Types DEF IInv, Taken, Apart
  <2>2. SubmitOK(r) /\ submit[r] \in SubmitRecords
    BY <1>1, Types DEF IInv
  <2>3. CASE submit[r].pc \in {"writing", "deleted"}
    BY <1>6, <1>7, <2>2, <2>3 DEF SubmitOK, Taken
  <2>4. CASE submit[r].pc = "called"
    <3>1. row[c] # None
      BY <1>7, <2>2, <2>4 DEF SubmitOK, Taken
    <3>. QED
      BY <1>3, <1>7, <2>1, <3>1
  <2>5. CASE submit[r].pc = "free"
    BY <1>7, <2>2, <2>5 DEF SubmitOK, Taken, Free
  <2>. QED
    BY <2>2, <2>3, <2>4, <2>5 DEF SubmitRecords, SubmitStates
<1>. QED
  BY <1>4, <1>5, <1>6, <1>7

(* The next call of a batch is one, and has no other row or result.        *)
LEMMA OneNext ==
  ASSUME IInv, NEW s \in Submits, submit[s].pc \in {"writing", "deleted"},
         NEW c \in submit[s].batch, NextOf(s, c), NEW t, t = submit[s].task
  PROVE  /\ c \in Calls /\ t \in Turns /\ st[t] = "gone" /\ asked[c] = t /\ results[c] = 0
         /\ {d \in submit[s].batch : NextOf(s, d)} = {c}
         /\ submit[s].answers = {} /\ SameTask(t) = Left(s)
         /\ submit[s].pc = "deleted" => row[c] = None
<1>1. SubmitOK(s) /\ submit[s].batch \subseteq Calls
  BY Types DEF IInv, HeldOK
<1>2. c \in Calls /\ t \in Turns /\ st[t] = "gone" /\ asked[c] = t /\ results[c] = 0
  BY <1>1 DEF SubmitOK
<1>3. {d \in submit[s].batch : NextOf(s, d)} = {c}
  <2>1. \A d \in submit[s].batch : NextOf(s, d) => d <= c /\ c <= d /\ d \in Int /\ c \in Int
    BY <1>1 DEF NextOf, Calls
  <2>2. \A d \in submit[s].batch : NextOf(s, d) => d = c
    BY <2>1
  <2>. QED
    BY <2>2
<1>4. submit[s].answers = {} /\ SameTask(t) = Left(s)
  BY <1>1 DEF SubmitOK
<1>5. submit[s].pc = "deleted" => row[c] = None
  BY <1>2, <1>3, <1>4 DEF Left, SameTask, IInv, CallsOK
<1>. QED
  BY <1>2, <1>3, <1>4, <1>5

(* A step of Choose that touches calls of the task it writes, and no other.*)
LEMMA WritesMove ==
  ASSUME IInv, NEW s \in Submits, submit[s].pc \in {"writing", "deleted"},
         submit[s].batch # {}, NEW t, t = submit[s].task,
         \A v \in Turns \ {t} : CallsRest(v),
         st' = st, todo' = todo, awaiting' = awaiting, OffersRest, card' = card,
         \A r \in Submits \ {s} : submit'[r] = submit[r],
         Taken(s)' \subseteq Taken(s), (OfGone(Taken(s)) /\ SubmitOK(s))'
  PROVE  GuestOK' /\ HeldOK'
<1>1. t \in Turns /\ st[t] = "gone" /\ HeldOK
  BY DEF IInv, HeldOK, SubmitOK
<1>2. GuestOK'
  BY <1>1, GuestsRest
<1>3. \A v \in Turns \ {t} : Untouched(v)
  BY DEF Untouched
<1>4. \A c \in Calls : asked[c] # None /\ asked[c] # t => Untouched(asked[c])
  BY <1>3, Types DEF IInv
<1>5. \A c \in card : Untouched(asked[c])
  BY <1>1, <1>4, OthersApart, Types DEF IInv, HeldOK, OfGone
<1>6. ASSUME NEW i, Offer(i) PROVE \A c \in events[i].calls : Untouched(asked[c])
  <2>1. i \in 1..Len(events) /\ events[i] \in Events
    BY <1>6, Types, ElementOfSeq DEF IInv, Offer
  <2>2. \A c \in events[i].calls : c \in Calls /\ asked[c] # None /\ asked[c] # t
    BY <1>1, <1>6, <2>1, OthersApart DEF HeldOK, OfGone, Events
  <2>. QED
    BY <1>4, <2>2
<1>7. ASSUME NEW r \in Submits \ {s}
      PROVE  /\ submit'[r] = submit[r] /\ \A c \in Taken(r) : Untouched(asked[c])
             /\ submit[r].pc \in {"writing", "deleted"} => Untouched(submit[r].task)
  <2>1. \A c \in Taken(r) : c \in Calls /\ asked[c] # None /\ asked[c] # t
    <3>1. Taken(r) \subseteq Calls
      BY Types DEF IInv, Taken
    <3>2. OfGone(Taken(r))
      BY <1>1 DEF HeldOK
    <3>3. \A c \in Taken(r) : asked[c] # t
      BY OthersApart
    <3>. QED
      BY <3>1, <3>2, <3>3 DEF OfGone
  <2>2. submit[r].pc \in {"writing", "deleted"} => submit[r].task \in Turns \ {t}
    BY <1>1, OthersApart DEF HeldOK, SubmitOK
  <2>. QED
    BY <1>3, <1>4, <2>1, <2>2
<1>8. \A i \in 1..Len(events') : Offer(i)' => Offer(i + 0) /\ events'[i] = events[i + 0]
  BY DEF OffersRest, Offer
<1>9. HeldOK'
  BY <1>5, <1>6, <1>7, <1>8, HeldMoves
<1>. QED
  BY <1>2, <1>9

LEMMA DeletesKeeps ==
  ASSUME IInv, NEW s \in Submits, ChooseDeletes(s)
  PROVE  Data' /\ CallsOK' /\ GuestOK' /\ HeldOK' /\ ResumeOK'
<1>1. PICK c \in submit[s].batch : NextOf(s, c) /\ row' = [row EXCEPT ![c] = None]
  BY DEF ChooseDeletes
<1>2. /\ submit[s].pc = "writing" /\ submit' = [submit EXCEPT ![s].pc = "deleted"]
      /\ asked' = asked /\ results' = results /\ st' = st /\ UNCHANGED guestVars
      /\ cancelled' = cancelled /\ runs' = runs /\ resumes' = resumes /\ events' = events
      /\ UNCHANGED panelVars
  BY DEF ChooseDeletes, Choosing
<1>3. PICK t : t = submit[s].task
  OBVIOUS
<1>4. PICK batch : batch = submit[s].batch
  OBVIOUS
<1>5. /\ c \in Calls /\ t \in Turns /\ st[t] = "gone" /\ asked[c] = t /\ results[c] = 0
      /\ {d \in batch : NextOf(s, d)} = {c}
      /\ submit[s].answers = {} /\ SameTask(t) = Left(s)
  BY <1>1, <1>2, <1>3, <1>4, OneNext
<1>6. SameTask(t) = batch
  BY <1>2, <1>4, <1>5 DEF Left
<1>7. submit[s] \in SubmitRecords /\ submit \in [Submits -> SubmitRecords]
  BY Types DEF IInv
<1>8. /\ submit'[s] = [submit[s] EXCEPT !.pc = "deleted"] /\ submit'[s] \in SubmitRecords
      /\ submit'[s].pc = "deleted" /\ submit'[s].answers = {} /\ submit'[s].batch = batch
      /\ submit'[s].task = t
      /\ \A r \in Submits \ {s} : submit'[r] = submit[r]
      /\ submit' \in [Submits -> SubmitRecords]
  BY <1>2, <1>3, <1>4, <1>5, <1>7 DEF SubmitRecords, SubmitStates
<1>9. Data'
  <2>1. Data
    BY TypeParts DEF IInv
  <2>. QED
    BY <1>1, <1>2, <1>8, <2>1 DEF Data, guestVars, panelVars
<1>10. CallsOK'
  <2>1. \A d \in Calls : row'[d] # None => row'[d] = row[d]
    BY <1>1, <1>5, Types DEF IInv
  <2>. QED
    BY <1>2, <2>1 DEF IInv, CallsOK
<1>11. \A v \in Turns \ {t} : CallsRest(v)
  <2>1. row[c] = t /\ t # None
    BY <1>1, <1>4, <1>5, <1>6, NoneAssumption DEF SameTask
  <2>. QED
    BY <1>1, <1>2, <1>5, <2>1, Types, NoneAssumption DEF IInv, CallsRest
<1>12. Taken(s)' = Taken(s) /\ OfGone(Taken(s))'
  <2>1. Taken(s)' = Taken(s)
    BY <1>4, <1>5, <1>8 DEF Taken
  <2>2. OfGone(Taken(s))
    BY DEF IInv, HeldOK
  <2>. QED
    BY <1>2, <2>1, <2>2 DEF OfGone
<1>13. SubmitOK(s)'
  <2>1. Left(s)' = batch \ {c}
    <3>1. \A d : NextOf(s, d)' <=> NextOf(s, d)
      BY <1>4, <1>8 DEF NextOf
    <3>. QED
      BY <1>5, <1>8, <3>1 DEF Left
  <2>2. SameTask(t)' = batch \ {c}
    BY <1>1, <1>5, <1>6, Types, NoneAssumption DEF IInv, SameTask
  <2>3. SubmitOK(s)
    BY DEF IInv, HeldOK
  <2>4. /\ \A d \in batch : asked[d] = t /\ results[d] = 0
        /\ \A d \in Calls : asked[d] = t => results[d] = 1 \/ d \in batch
    BY <1>2, <1>3, <1>4, <2>3 DEF SubmitOK
  <2>5. batch # {}
    BY <1>1, <1>4
  <2>. QED
    BY <1>2, <1>5, <1>8, <2>1, <2>2, <2>4, <2>5 DEF SubmitOK
<1>14. GuestOK' /\ HeldOK'
  <2>1. OffersRest
    BY <1>2, EventsRest
  <2>. QED
    BY <1>1, <1>2, <1>3, <1>8, <1>11, <1>12, <1>13, <2>1, WritesMove DEF guestVars, panelVars
<1>15. ResumeOK'
  BY <1>2 DEF IInv, ResumeOK
<1>. QED
  BY <1>9, <1>10, <1>14, <1>15

LEMMA AppendsKeeps ==
  ASSUME IInv, NEW s \in Submits, ChooseAppends(s)
  PROVE  Data' /\ CallsOK' /\ GuestOK' /\ HeldOK' /\ ResumeOK'
<1>1. PICK c \in submit[s].batch :
        /\ NextOf(s, c) /\ results' = [results EXCEPT ![c] = @ + 1]
        /\ submit' = [submit EXCEPT ![s].pc = "writing", ![s].batch = @ \ {c}]
        /\ Emit(<<Event("tool_end", {c})>>)
  BY DEF ChooseAppends
<1>2. /\ submit[s].pc = "deleted"
      /\ asked' = asked /\ row' = row /\ st' = st /\ UNCHANGED guestVars
      /\ cancelled' = cancelled /\ runs' = runs /\ resumes' = resumes /\ UNCHANGED panelVars
  BY DEF ChooseAppends, Choosing
<1>3. PICK t : t = submit[s].task
  OBVIOUS
<1>4. PICK batch : batch = submit[s].batch
  OBVIOUS
<1>5. /\ c \in Calls /\ t \in Turns /\ st[t] = "gone" /\ asked[c] = t /\ results[c] = 0
      /\ {d \in batch : NextOf(s, d)} = {c}
      /\ submit[s].answers = {} /\ SameTask(t) = Left(s) /\ row[c] = None
  BY <1>1, <1>2, <1>3, <1>4, OneNext
<1>6. SameTask(t) = batch \ {c}
  BY <1>2, <1>4, <1>5 DEF Left
<1>7. /\ submit[s] \in SubmitRecords /\ submit \in [Submits -> SubmitRecords]
      /\ batch \subseteq Calls
  BY <1>4, Types DEF IInv
<1>8. /\ submit'[s] \in SubmitRecords
      /\ submit'[s].pc = "writing" /\ submit'[s].answers = {} /\ submit'[s].batch = batch \ {c}
      /\ submit'[s].task = t
      /\ \A r \in Submits \ {s} : submit'[r] = submit[r]
      /\ submit' \in [Submits -> SubmitRecords]
  BY <1>1, <1>3, <1>4, <1>5, <1>7 DEF SubmitRecords, SubmitStates
<1>9. OffersRest /\ events' \in Seq(Events)
  <2>1. Event("tool_end", {c}) \in Events /\ Event("tool_end", {c}).tag # "offer_choices"
    BY <1>5, EventTypes DEF EventTags
  <2>. QED
    BY <1>1, <2>1, OneEvent, QuietEmit DEF IInv
<1>10. /\ results \in [Calls -> Nat] /\ results'[c] = 1
       /\ \A d \in Calls \ {c} : results'[d] = results[d]
       /\ results' \in [Calls -> Nat]
  BY <1>1, <1>5, Types DEF IInv
<1>11. Data'
  <2>1. Data
    BY TypeParts DEF IInv
  <2>. QED
    BY <1>2, <1>8, <1>9, <1>10, <2>1 DEF Data, guestVars, panelVars
<1>12. CallsOK'
  <2>1. \E k \in 0..NumCalls : {d \in Calls : asked'[d] # None} = 1..k
    BY <1>2 DEF IInv, CallsOK
  <2>2. ASSUME NEW d \in Calls
        PROVE  /\ asked'[d] # None => st'[asked'[d]] \notin {"unborn", "spawned"}
               /\ results'[d] # 0 => asked'[d] # None
               /\ row'[d] # None => row'[d] = asked'[d] /\ results'[d] = 0
               /\ results'[d] <= 1
    <3>1. CASE d = c
      BY <1>2, <1>5, <1>10, <3>1, NoneAssumption
    <3>2. CASE d # c
      BY <1>2, <1>10, <3>2 DEF IInv, CallsOK
    <3>. QED
      BY <3>1, <3>2
  <2>. QED
    BY <2>1, <2>2 DEF CallsOK
<1>13. \A v \in Turns \ {t} : CallsRest(v)
  BY <1>2, <1>5, <1>10 DEF CallsRest
<1>14. Taken(s)' \subseteq Taken(s) /\ OfGone(Taken(s))'
  <2>1. Taken(s)' \subseteq Taken(s)
    BY <1>4, <1>5, <1>8 DEF Taken
  <2>2. OfGone(Taken(s))
    BY DEF IInv, HeldOK
  <2>. QED
    BY <1>2, <2>1, <2>2 DEF OfGone
<1>15. SubmitOK(s)'
  <2>1. Left(s)' = batch \ {c} /\ SameTask(t)' = batch \ {c}
    BY <1>2, <1>6, <1>8 DEF Left, SameTask
  <2>2. SubmitOK(s)
    BY DEF IInv, HeldOK
  <2>3. /\ \A d \in batch : asked[d] = t /\ results[d] = 0
        /\ \A d \in Calls : asked[d] = t => results[d] = 1 \/ d \in batch
    BY <1>2, <1>3, <1>4, <2>2 DEF SubmitOK
  <2>4. /\ \A d \in batch \ {c} : asked'[d] = t /\ results'[d] = 0
        /\ \A d \in Calls : asked'[d] = t => results'[d] = 1 \/ d \in batch \ {c}
    BY <1>2, <1>7, <1>10, <2>3
  <2>. QED
    BY <1>2, <1>5, <1>8, <2>1, <2>4 DEF SubmitOK
<1>16. GuestOK' /\ HeldOK'
  BY <1>1, <1>2, <1>3, <1>8, <1>9, <1>13, <1>14, <1>15, WritesMove DEF guestVars, panelVars
<1>17. ResumeOK'
  <2>1. \A u \in Turns : resumes[u] # None => resumes[u] # t
    BY <1>5 DEF IInv, ResumeOK
  <2>. QED
    BY <1>2, <1>5, <1>10, <2>1 DEF IInv, ResumeOK
<1>. QED
  BY <1>11, <1>12, <1>16, <1>17

(* Every step of Choose keeps the invariant.                               *)
LEMMA ChooseKeeps ==
  ASSUME IInv, NEW s \in Submits, ChooseStep(s)
  PROVE  Data' /\ CallsOK' /\ GuestOK' /\ HeldOK' /\ ResumeOK'
BY RejectsKeeps, ReadsKeeps, DeletesKeeps, AppendsKeeps, ResumesKeeps DEF ChooseStep
-----------------------------------------------------------------------------
(* The panel and the restart.                                              *)
LEMMA SendKeeps ==
  ASSUME IInv, Send
  PROVE  Data' /\ CallsOK' /\ GuestOK' /\ HeldOK' /\ ResumeOK'
<1>1. /\ card' = {} /\ asked' = asked /\ results' = results /\ row' = row /\ UNCHANGED guestVars
      /\ cancelled' = cancelled /\ runs' = runs /\ resumes' = resumes /\ submit' = submit
      /\ events' = events /\ open' = open /\ phase' \in Phases
      /\ \/ st' = st
         \/ \E u \in Turns : st[u] = "unborn" /\ st' = [st EXCEPT ![u] = "spawned"]
  BY DEF Send, NextTurn, Unborn, Phases
<1>2. st' \in [Turns -> TurnStates] /\ GuestOK' /\ CallsOK' /\ GoneRest
  <2>1. CASE st' = st
    BY <1>1, <2>1, TurnsRest, Types DEF guestVars, IInv
  <2>2. ASSUME NEW u \in Turns, st[u] = "unborn", st' = [st EXCEPT ![u] = "spawned"]
        PROVE  st' \in [Turns -> TurnStates] /\ GuestOK' /\ CallsOK' /\ GoneRest
    BY <1>1, <2>2, TurnStarts DEF guestVars
  <2>. QED
    BY <1>1, <2>1, <2>2
<1>3. Data'
  <2>1. Data
    BY TypeParts DEF IInv
  <2>. QED
    BY <1>1, <1>2, <2>1 DEF Data, guestVars
<1>4. HeldOK'
  BY <1>1, <1>2, EventsRest, HeldRests
<1>5. ResumeOK'
  BY <1>1, <1>2, ResumesRest
<1>. QED
  BY <1>2, <1>3, <1>4, <1>5

(* Stop and the reopening of the thread drop the card.                     *)
LEMMA DropsKeeps ==
  ASSUME IInv, ClickStop \/ Reopen
  PROVE  Data' /\ CallsOK' /\ GuestOK' /\ HeldOK' /\ ResumeOK'
<1>1. /\ card' = {} /\ asked' = asked /\ results' = results /\ row' = row /\ st' = st
      /\ UNCHANGED guestVars /\ runs' = runs /\ resumes' = resumes /\ submit' = submit
      /\ events' = events /\ phase' = "idle"
  BY DEF ClickStop, Reopen
<1>2. Data'
  <2>1. Data
    BY TypeParts DEF IInv
  <2>2. cancelled' \in SUBSET Turns /\ open' \in SUBSET Calls
    BY <2>1 DEF ClickStop, Reopen, Data
  <2>. QED
    BY <1>1, <2>1, <2>2 DEF Data, guestVars, Phases
<1>3. GuestOK' /\ CallsOK' /\ GoneRest
  BY <1>1, TurnsRest DEF guestVars
<1>4. HeldOK'
  BY <1>1, <1>3, EventsRest, HeldRests
<1>5. ResumeOK'
  BY <1>1, <1>3, ResumesRest
<1>. QED
  BY <1>2, <1>3, <1>4, <1>5

LEMMA SubmitsKeeps ==
  ASSUME IInv, NEW s \in Submits, SubmitChoice(s)
  PROVE  Data' /\ CallsOK' /\ GuestOK' /\ HeldOK' /\ ResumeOK'
<1>1. PICK answers \in SUBSET card :
        submit' = [submit EXCEPT ![s].pc = "called", ![s].answers = answers]
  BY DEF SubmitChoice
<1>2. /\ submit[s].pc = "free" /\ card' = {} /\ phase' = "streaming"
      /\ asked' = asked /\ results' = results /\ row' = row /\ st' = st /\ UNCHANGED guestVars
      /\ cancelled' = cancelled /\ runs' = runs /\ resumes' = resumes /\ events' = events
      /\ open' = open
  BY DEF SubmitChoice, NextSlot
<1>3. submit[s] = Free /\ submit \in [Submits -> SubmitRecords] /\ answers \subseteq Calls
  BY <1>2, Types DEF IInv, HeldOK, SubmitOK
<1>4. /\ submit'[s] = [pc |-> "called", answers |-> answers, batch |-> {}, task |-> None]
      /\ submit'[s] \in SubmitRecords
      /\ \A r \in Submits \ {s} : submit'[r] = submit[r]
      /\ submit' \in [Submits -> SubmitRecords]
  <2>1. submit'[s] = [submit[s] EXCEPT !.pc = "called", !.answers = answers]
    BY <1>1, <1>3
  <2>2. submit'[s] = [pc |-> "called", answers |-> answers, batch |-> {}, task |-> None]
    <3>1. submit[s].batch = {} /\ submit[s].task = None /\ submit[s] \in SubmitRecords
      BY <1>3 DEF Free
    <3>. QED
      BY <2>1, <3>1 DEF SubmitRecords
  <2>3. submit'[s] \in SubmitRecords
    BY <1>3, <2>2 DEF SubmitRecords, SubmitStates
  <2>4. submit' = [submit EXCEPT ![s] = submit'[s]]
    BY <1>1, <1>3
  <2>. QED
    BY <1>3, <2>2, <2>3, <2>4
<1>5. Data'
  <2>1. Data
    BY TypeParts DEF IInv
  <2>. QED
    BY <1>2, <1>4, <2>1 DEF Data, guestVars, Phases
<1>6. GuestOK' /\ CallsOK' /\ GoneRest
  BY <1>2, TurnsRest DEF guestVars
<1>7. Taken(s)' = answers
  BY <1>4 DEF Taken
<1>8. OfGone(card) /\ Offerable(card)
  BY DEF IInv, HeldOK
<1>9. OfGone(Taken(s))'
  BY <1>2, <1>7, <1>8 DEF OfGone
<1>10. SubmitOK(s)'
  <2>1. \A c \in answers : row[c] # None /\ Complete(row[c])
    BY <1>8 DEF Offerable
  <2>2. \A c \in answers : row'[c] # None /\ Complete(row[c])'
    BY <1>2, <2>1 DEF Complete
  <2>. QED
    BY <1>4, <2>2 DEF SubmitOK
<1>11. HeldOK'
  BY <1>2, <1>4, <1>6, <1>7, <1>9, <1>10, SubmitMoves
<1>12. ResumeOK'
  BY <1>2, <1>6, ResumesRest
<1>. QED
  BY <1>5, <1>6, <1>11, <1>12

LEMMA DeliverKeeps ==
  ASSUME IInv, Deliver
  PROVE  Data' /\ CallsOK' /\ GuestOK' /\ HeldOK' /\ ResumeOK'
<1>1. PICK e : e = Head(events)
  OBVIOUS
<1>2. /\ events # <<>> /\ events' = Tail(events)
      /\ OnTool(e) \/ OnOfferChoices(e) \/ OnDone(e)
      /\ asked' = asked /\ results' = results /\ row' = row /\ st' = st /\ UNCHANGED guestVars
      /\ cancelled' = cancelled /\ runs' = runs /\ resumes' = resumes /\ submit' = submit
  BY <1>1 DEF Deliver
<1>3. /\ e = events[1] /\ 1 \in 1..Len(events) /\ e \in Events
      /\ \A i \in 1..Len(events') :
           i + 1 \in 1..Len(events) /\ i + 1 # 1 /\ events'[i] = events[i + 1]
  BY <1>1, <1>2, Delivered DEF IInv
<1>4. e.calls \subseteq Calls
  BY <1>3 DEF Events
<1>5. Data
  BY TypeParts DEF IInv
<1>6. phase' \in Phases /\ card' \subseteq Calls /\ open' \subseteq Calls
  <2>1. \A running : PhaseAfterTool(running) \in Phases
    BY DEF PhaseAfterTool, Phases
  <2>2. CASE OnTool(e)
    BY <1>4, <1>5, <2>1, <2>2 DEF OnTool, Data, Phases
  <2>3. CASE OnOfferChoices(e)
    BY <1>4, <1>5, <2>3 DEF OnOfferChoices, Data, Phases
  <2>4. CASE OnDone(e)
    BY <1>5, <2>1, <2>4 DEF OnDone, Data, Phases
  <2>. QED
    BY <1>2, <2>2, <2>3, <2>4
<1>7. Data'
  <2>1. events' \in Seq(Events)
    BY <1>2, <1>5, HeadTailProperties DEF Data
  <2>. QED
    BY <1>2, <1>5, <1>6, <2>1 DEF Data, guestVars
<1>8. GuestOK' /\ CallsOK' /\ GoneRest
  BY <1>2, TurnsRest DEF guestVars
<1>9. card' = card \/ card' = {} \/ (Offer(1) /\ card' = events[1].calls)
  BY <1>2, <1>3 DEF OnTool, OnOfferChoices, OnDone, Offer
<1>10. \A i \in 1..Len(events') : Offer(i)' => Offer(i + 1) /\ events'[i] = events[i + 1]
  BY <1>3 DEF Offer
<1>11. HeldOK'
  <2>1. PICK s : s \in Submits
    BY SomeSubmit
  <2>2. (OfGone(Taken(s)) /\ SubmitOK(s))' /\ Taken(s)' = Taken(s)
    BY <1>2, <1>8, <2>1, GoneUntouched, SubmitRests DEF Taken
  <2>3. \A r \in Submits \ {s} :
          /\ submit'[r] = submit[r] /\ \A c \in Taken(r) : Untouched(asked[c])
          /\ submit[r].pc \in {"writing", "deleted"} => Untouched(submit[r].task)
    BY <1>2, <1>8, GoneUntouched
  <2>4. /\ \A i : Offer(i) => \A c \in events[i].calls : Untouched(asked[c])
        /\ \A c \in card : Untouched(asked[c])
    BY <1>8, GoneUntouched
  <2>. QED
    BY <1>9, <1>10, <2>1, <2>2, <2>3, <2>4, HeldMoves
<1>12. ResumeOK'
  BY <1>2, <1>8, ResumesRest
<1>. QED
  BY <1>7, <1>8, <1>11, <1>12

LEMMA CrashKeeps ==
  ASSUME IInv, Crash
  PROVE  Data' /\ CallsOK' /\ GuestOK' /\ HeldOK' /\ ResumeOK'
<1>1. /\ st' = [u \in Turns |-> IF st[u] = "unborn" THEN "unborn" ELSE "gone"]
      /\ submit' = [s \in Submits |-> Free] /\ todo' = [u \in Turns |-> <<>>]
      /\ awaiting' = [u \in Turns |-> {}] /\ polls' = [u \in Turns |-> 0]
      /\ cancelled' = {} /\ runs' = None /\ events' = <<>> /\ phase' = "idle"
      /\ card' = {} /\ open' = {}
      /\ asked' = asked /\ results' = results /\ row' = row /\ resumes' = resumes
  BY DEF Crash
<1>2. <<>> \in Seq(Calls) /\ <<>> \in Seq(Events) /\ Len(<<>>) = 0 /\ 0 \in 0..(PollLimit - 1)
  BY BoundsAssumption, EmptySeq
<1>3. \A u \in Turns : st[u] = "gone" => st'[u] = "gone"
  BY <1>1
<1>4. Data'
  <2>1. Data
    BY TypeParts DEF IInv
  <2>2. Free \in SubmitRecords
    BY DEF Free, SubmitRecords, SubmitStates
  <2>. QED
    BY <1>1, <1>2, <2>1, <2>2 DEF Data, TurnStates, Phases
<1>5. CallsOK'
  BY <1>1, CallsStay
<1>6. GuestOK'
  <2>1. ASSUME NEW v \in Turns, st[v] # "unborn"
        PROVE  (TodoOK(v) /\ AwaitOK(v) /\ AnsweredOrKept(v))'
    BY <1>1, <2>1, TurnReturns
  <2>2. ASSUME NEW v \in Turns, st[v] = "unborn"
        PROVE  (TodoOK(v) /\ AwaitOK(v) /\ AnsweredOrKept(v))'
    <3>1. todo[v] = <<>> /\ awaiting[v] = {} /\ st'[v] = "unborn"
      BY <1>1, <2>2 DEF IInv, GuestOK, TodoOK, AwaitOK
    <3>2. todo'[v] = todo[v] /\ awaiting'[v] = awaiting[v] /\ st'[v] = st[v] /\ CallsRest(v)
      BY <1>1, <2>2, <3>1 DEF CallsRest
    <3>. QED
      BY <3>2, TurnRests
  <2>. QED
    BY <2>1, <2>2 DEF GuestOK
<1>7. HeldOK'
  BY <1>1, <1>2 DEF HeldOK, Apart, Offer, OfGone, Offerable, SubmitOK, Taken, Free
<1>8. ResumeOK'
  BY <1>1, <1>3, Types DEF IInv, ResumeOK
<1>. QED
  BY <1>4, <1>5, <1>6, <1>7, <1>8

LEMMA StutterKeeps ==
  ASSUME IInv, UNCHANGED vars
  PROVE  Data' /\ CallsOK' /\ GuestOK' /\ HeldOK' /\ ResumeOK'
<1>. USE DEF vars, guestVars, panelVars
<1>1. Data'
  <2>1. Data
    BY TypeParts DEF IInv
  <2>. QED
    BY <2>1 DEF Data
<1>2. GuestOK' /\ CallsOK' /\ GoneRest
  BY TurnsRest
<1>3. HeldOK'
  BY <1>2, EventsRest, HeldRests
<1>4. ResumeOK'
  BY <1>2, ResumesRest
<1>. QED
  BY <1>1, <1>2, <1>3, <1>4
-----------------------------------------------------------------------------
LEMMA NextIInv == IInv /\ [Next]_vars => IInv'
<1> SUFFICES ASSUME IInv, [Next]_vars PROVE IInv'
  OBVIOUS
<1>1. Data' /\ CallsOK' /\ GuestOK' /\ HeldOK' /\ ResumeOK'
  <2>1. ASSUME NEW u \in Turns, GuestStep(u)
        PROVE  Data' /\ CallsOK' /\ GuestOK' /\ HeldOK' /\ ResumeOK'
    BY <2>1, GuestKeeps
  <2>2. ASSUME NEW s \in Submits, ChooseStep(s)
        PROVE  Data' /\ CallsOK' /\ GuestOK' /\ HeldOK' /\ ResumeOK'
    BY <2>2, ChooseKeeps
  <2>3. CASE PanelStep
    BY <2>3, SendKeeps, DropsKeeps, SubmitsKeeps, DeliverKeeps DEF PanelStep
  <2>4. CASE Crash
    BY <2>4, CrashKeeps
  <2>5. CASE UNCHANGED vars
    BY <2>5, StutterKeeps
  <2>. QED
    BY <2>1, <2>2, <2>3, <2>4, <2>5 DEF Next
<1>2. Bits'
  BY BitsStay, TypeParts DEF IInv
<1>3. TypeOK'
  BY <1>1, <1>2 DEF TypeOK, Data, Bits
<1>. QED
  BY <1>1, <1>3 DEF IInv

THEOREM Invariance == Spec => []IInv
BY InitIInv, NextIInv, PTL DEF Spec

(* Every variable has its type.                                            *)
THEOREM TypeCorrect == Spec => []TypeOK
<1>1. IInv => TypeOK
  BY DEF IInv
<1>. QED
  BY <1>1, Invariance, PTL

(* No tool call gets two results (guest.go, runner.go Choose).             *)
THEOREM ResultsOnce == Spec => []OneResultPerCall
<1>1. IInv => OneResultPerCall
  BY DEF IInv, CallsOK, OneResultPerCall
<1>. QED
  BY <1>1, Invariance, PTL

(* The complete answer of a card is one that Choose accepts.               *)
THEOREM CardAcceptable == Spec => []CardIsAcceptable
<1>1. IInv => CardIsAcceptable
  BY DEF IInv, HeldOK, Offerable, CardIsAcceptable
<1>. QED
  BY <1>1, Invariance, PTL

(* A task that is resumed after a choice has a result for every call.      *)
THEOREM Resumed == Spec => []ResumesAnswered
<1>1. IInv => ResumesAnswered
  BY DEF IInv, ResumeOK, ResumesAnswered
<1>. QED
  BY <1>1, Invariance, PTL
-----------------------------------------------------------------------------
(* OfferReachesUser.  As long as nobody disturbs it the conversation is in *)
(* one stage at a time (a turn, its end or its offer on the way, the card, *)
(* a submit), and every row is held by the stage it is in.                 *)
LiveTurns == {u \in Turns : st[u] \notin {"unborn", "gone"}}
Offers == {i \in 1..Len(events) : Offer(i)}
Drops == {i \in 1..Len(events) : events[i].tag \in {"plain", "stopped", "error"}}

OneStage ==
  /\ \A u, v \in LiveTurns : u = v
  /\ \A r, s \in LiveSubmits : r = s
  /\ \A i, j \in Offers : i = j
  /\ LiveTurns # {} => LiveSubmits = {} /\ Drops = {} /\ Offers = {} /\ card = {}
  /\ LiveSubmits # {} => Drops = {} /\ Offers = {} /\ card = {}
  /\ Drops # {} => Offers = {} /\ card = {}
  /\ Offers # {} => card = {}
  /\ card # {} => phase = "needs_choice"

RowHeld(c) ==
  \/ \E u \in LiveTurns : c \in awaiting[u]
  \/ \E i \in Offers : c \in events[i].calls
  \/ c \in card
  \/ \E s \in LiveSubmits :
       \/ submit[s].pc = "called" /\ \A d \in submit[s].answers : row[d] = row[c]
       \/ c \in submit[s].batch

Reaches == OneStage /\ \A c \in Rows : RowHeld(c)

LEMMA InitReaches == Init => Reaches
BY EmptySeq, NoneAssumption DEF Init, Reaches, OneStage, LiveTurns, LiveSubmits, Offers, Drops, Rows, Free

(* Events that are no ends and no offers move no stage.                    *)
LEMMA QuietStages ==
  ASSUME TypeOK, NEW es \in Seq(Events), events' = events \o es,
         \A i \in 1..Len(es) : es[i].tag # "offer_choices"
  PROVE  /\ Offers' = Offers /\ \A i \in Offers : events'[i] = events[i]
         /\ (\A i \in 1..Len(es) : es[i].tag \notin {"plain", "stopped", "error"}) => Drops' = Drops
<1>1. events \in Seq(Events)
  BY DEF TypeOK
<1>2. /\ Len(events') = Len(events) + Len(es) /\ Len(events) \in Nat /\ Len(es) \in Nat
      /\ \A i \in 1..(Len(events) + Len(es)) :
           events'[i] = IF i <= Len(events) THEN events[i] ELSE es[i - Len(events)]
  BY <1>1, ConcatProperties
<1>3. \A i \in 1..Len(events) : i \in 1..Len(events') /\ events'[i] = events[i]
  BY <1>2
<1>4. \A i \in 1..Len(events') :
        i \in 1..Len(events) \/ (i - Len(events) \in 1..Len(es) /\ events'[i] = es[i - Len(events)])
  BY <1>2
<1>. QED
  BY <1>3, <1>4 DEF Offers, Drops, Offer

LEMMA OneQuiet ==
  ASSUME TypeOK, NEW e \in Events, e.tag \in {"tool_start", "tool_end"}, events' = events \o <<e>>
  PROVE  Offers' = Offers /\ Drops' = Drops /\ \A i \in Offers : events'[i] = events[i]
<1>1. PICK es \in Seq(Events) :
        events' = events \o es /\ \A i \in 1..Len(es) : es[i].tag \in {"tool_start", "tool_end"}
  <2>1. <<e>> \in Seq(Events) /\ \A i \in 1..Len(<<e>>) : <<e>>[i] = e
    OBVIOUS
  <2>. QED
    BY <2>1
<1>2. \A i \in 1..Len(es) : es[i].tag # "offer_choices" /\ es[i].tag \notin {"plain", "stopped", "error"}
  BY <1>1
<1>. QED
  BY <1>1, <1>2, QuietStages

(* The stage of a running turn, and its end.                               *)
LEMMA TurnStage ==
  ASSUME Reaches, NEW u \in Turns, st[u] \notin {"unborn", "gone"}
  PROVE  /\ LiveTurns = {u} /\ LiveSubmits = {} /\ Drops = {} /\ Offers = {} /\ card = {}
         /\ Rows \subseteq awaiting[u]
<1>1. u \in LiveTurns
  BY DEF LiveTurns
<1>2. LiveTurns = {u} /\ LiveSubmits = {} /\ Drops = {} /\ Offers = {} /\ card = {}
  BY <1>1 DEF Reaches, OneStage
<1>3. Rows \subseteq awaiting[u]
  BY <1>2 DEF Reaches, RowHeld
<1>. QED
  BY <1>2, <1>3

LEMMA TurnGoesOn ==
  ASSUME IInv, Reaches, NEW u \in Turns, st[u] \notin {"unborn", "gone"},
         st'[u] \notin {"unborn", "gone"}, \A v \in Turns \ {u} : st'[v] = st[v],
         Offers' = Offers, Drops' = Drops, card' = card, submit' = submit,
         Rows' \subseteq awaiting'[u]
  PROVE  Reaches'
<1>1. /\ LiveTurns = {u} /\ LiveSubmits = {} /\ Drops = {} /\ Offers = {} /\ card = {}
  BY TurnStage
<1>2. LiveTurns' = {u} /\ LiveSubmits' = {}
  BY <1>1 DEF LiveTurns, LiveSubmits
<1>3. OneStage'
  BY <1>1, <1>2 DEF OneStage
<1>. QED
  BY <1>2, <1>3 DEF Reaches, RowHeld

LEMMA TurnIsOver ==
  ASSUME IInv, Reaches, NEW u \in Turns, st[u] \notin {"unborn", "gone"}, awaiting[u] = {},
         st' = [st EXCEPT ![u] = "gone"], Offers' = Offers,
         card' = card, submit' = submit, row' = row
  PROVE  Reaches'
<1>1. /\ LiveTurns = {u} /\ LiveSubmits = {} /\ Offers = {} /\ card = {} /\ Rows = {}
  BY TurnStage
<1>2. LiveTurns' = {} /\ LiveSubmits' = {} /\ Rows' = {}
  BY <1>1, Types DEF IInv, LiveTurns, LiveSubmits, Rows
<1>3. OneStage'
  BY <1>1, <1>2 DEF OneStage
<1>. QED
  BY <1>2, <1>3 DEF Reaches

LEMMA GuestReaches ==
  ASSUME IInv, Reaches, NEW u \in Turns, GuestStep(u), ~disturbed'
  PROVE  Reaches'
<1>1. st \in [Turns -> TurnStates] /\ awaiting \in [Turns -> SUBSET Calls] /\ TypeOK
  BY Types DEF IInv
<1>2. st[u] \notin {"calling", "intool"} => awaiting[u] = {}
  BY DEF IInv, GuestOK, AwaitOK
<1>3. CASE Register(u)
  <2>1. /\ st[u] = "spawned" /\ st' = [st EXCEPT ![u] = "thinking"]
        /\ row' = row /\ awaiting' = awaiting /\ submit' = submit /\ events' = events /\ card' = card
    BY <1>3 DEF Register, guestVars, panelVars
  <2>2. Offers' = Offers /\ Drops' = Drops /\ Rows' = Rows
    BY <2>1 DEF Offers, Offer, Drops, Rows
  <2>3. Rows \subseteq awaiting[u]
    BY <2>1, TurnStage
  <2>. QED
    BY <1>1, <2>1, <2>2, <2>3, TurnGoesOn
<1>4. CASE SeesContext(u) \/ ModelFails(u) \/ ModelAnswers(u)
  <2>1. PICK es \in Seq(Events) :
          Finish(u, es) /\ \A i \in 1..Len(es) : es[i].tag # "offer_choices"
    <3>1. \A tag \in {"stopped", "error", "plain"} : Done(tag) \in Events /\ Done(tag).tag = tag
      BY EventTypes DEF EventTags
    <3>. QED
      BY <1>4, <3>1, OneEvent, TwoEvents DEF SeesContext, ModelFails, ModelAnswers
  <2>2. st[u] = "thinking" /\ row' = row /\ submit' = submit /\ card' = card
    BY <1>4 DEF SeesContext, ModelFails, ModelAnswers, panelVars
  <2>3. Offers' = Offers
    BY <1>1, <2>1, QuietStages DEF Finish, Emit
  <2>. QED
    BY <1>2, <2>1, <2>2, <2>3, TurnIsOver DEF Finish, Returned
<1>5. CASE ModelAsks(u)
  <2>1. /\ st[u] = "thinking" /\ st' = [st EXCEPT ![u] = "calling"] /\ row' = row
        /\ submit' = submit /\ events' = events /\ card' = card
    BY <1>5 DEF ModelAsks, panelVars
  <2>2. Offers' = Offers /\ Drops' = Drops /\ Rows' = Rows
    BY <2>1 DEF Offers, Offer, Drops, Rows
  <2>3. Rows = {}
    BY <1>2, <2>1, TurnStage
  <2>. QED
    BY <1>1, <2>1, <2>2, <2>3, TurnGoesOn
<1>6. CASE CallStarts(u)
  <2>1. PICK c : c = Head(todo[u])
    OBVIOUS
  <2>2. /\ st[u] = "calling" /\ todo[u] # <<>> /\ Emit(<<Event("tool_start", {c})>>)
        /\ row' = row /\ awaiting' = awaiting /\ submit' = submit /\ card' = card
        /\ st' = st \/ st' = [st EXCEPT ![u] = "intool"]
    BY <1>6, <2>1 DEF CallStarts, panelVars
  <2>3. Event("tool_start", {c}) \in Events /\ Event("tool_start", {c}).tag = "tool_start"
    BY <2>1, <2>2, HeadOfTodo, EventTypes DEF EventTags
  <2>4. Offers' = Offers /\ Drops' = Drops
    BY <1>1, <2>2, <2>3, OneQuiet DEF Emit
  <2>5. Rows' \subseteq awaiting'[u]
    BY <2>2, TurnStage DEF Rows
  <2>. QED
    BY <1>1, <2>2, <2>4, <2>5, TurnGoesOn
<1>7. CASE CallWaits(u)
  <2>1. PICK c : c = Head(todo[u])
    OBVIOUS
  <2>2. /\ st[u] = "intool" /\ Emit(<<Event("tool_end", {c})>>)
        /\ row' = [row EXCEPT ![c] = u] /\ awaiting' = [awaiting EXCEPT ![u] = @ \cup {c}]
        /\ st' = [st EXCEPT ![u] = "calling"] /\ submit' = submit /\ card' = card
    BY <1>7, <2>1 DEF CallWaits, panelVars
  <2>3. todo[u] # <<>>
    BY <2>2 DEF IInv, GuestOK, TodoOK
  <2>4. Event("tool_end", {c}) \in Events /\ Event("tool_end", {c}).tag = "tool_end" /\ c \in Calls
    BY <2>1, <2>3, HeadOfTodo, EventTypes DEF EventTags
  <2>5. Offers' = Offers /\ Drops' = Drops
    BY <1>1, <2>2, <2>4, OneQuiet DEF Emit
  <2>6. Rows' \subseteq Rows \cup {c} /\ Rows \subseteq awaiting[u]
    BY <2>2, TurnStage, Types DEF IInv, Rows
  <2>. QED
    BY <1>1, <2>2, <2>5, <2>6, TurnGoesOn
<1>8. CASE CallEnds(u)
  <2>1. PICK c : c = Head(todo[u])
    OBVIOUS
  <2>. DEFINE ended == Event("tool_end", {c})
  <2>2. st[u] = "intool" /\ row' = row /\ submit' = submit /\ card' = card
    BY <1>8 DEF CallEnds, panelVars
  <2>3. todo[u] # <<>>
    BY <2>2 DEF IInv, GuestOK, TodoOK
  <2>4. /\ ended \in Events /\ ended.tag = "tool_end"
        /\ Done("plain") \in Events /\ Done("plain").tag = "plain"
    BY <2>1, <2>3, HeadOfTodo, EventTypes DEF EventTags
  <2>5. \/ Finish(u, <<ended, Done("plain")>>) /\ Disturb(awaiting[u] # {})
        \/ st' = [st EXCEPT ![u] = "calling"] /\ Emit(<<ended>>) /\ awaiting' = awaiting
    BY <1>8, <2>1 DEF CallEnds
  <2>. HIDE DEF ended
  <2>6. CASE Finish(u, <<ended, Done("plain")>>) /\ Disturb(awaiting[u] # {})
    <3>1. Offers' = Offers
      BY <1>1, <2>4, <2>6, TwoEvents, QuietStages DEF Finish, Emit
    <3>2. awaiting[u] = {}
      BY <2>6 DEF Disturb
    <3>. QED
      BY <2>2, <2>6, <3>1, <3>2, TurnIsOver DEF Finish, Returned
  <2>7. CASE st' = [st EXCEPT ![u] = "calling"] /\ Emit(<<ended>>) /\ awaiting' = awaiting
    <3>1. Offers' = Offers /\ Drops' = Drops
      BY <1>1, <2>4, <2>7, OneQuiet DEF Emit
    <3>2. Rows' \subseteq awaiting'[u]
      BY <2>2, <2>7, TurnStage DEF Rows
    <3>. QED
      BY <1>1, <2>2, <2>7, <3>1, <3>2, TurnGoesOn
  <2>. QED
    BY <2>5, <2>6, <2>7
<1>9. CASE BatchEnds(u)
  <2>1. st[u] = "calling" /\ row' = row /\ submit' = submit /\ card' = card
    BY <1>9 DEF BatchEnds, panelVars
  <2>2. /\ LiveTurns = {u} /\ LiveSubmits = {} /\ Drops = {} /\ Offers = {} /\ card = {}
        /\ Rows \subseteq awaiting[u]
    BY <2>1, TurnStage
  <2>3. CASE awaiting[u] = {}
    <3>1. st' = [st EXCEPT ![u] = "thinking"] /\ awaiting' = awaiting /\ events' = events
      BY <1>9, <2>3 DEF BatchEnds, guestVars
    <3>2. Offers' = Offers /\ Drops' = Drops /\ Rows' = Rows
      BY <2>1, <3>1 DEF Offers, Offer, Drops, Rows
    <3>. QED
      BY <1>1, <2>1, <2>2, <3>1, <3>2, TurnGoesOn
  <2>4. CASE awaiting[u] # {}
    <3>. DEFINE e == Event("offer_choices", awaiting[u])
                f == Done("waitingChoice")
    <3>1. st' = [st EXCEPT ![u] = "gone"] /\ events' = events \o <<e, f>>
      BY <1>9, <2>4 DEF BatchEnds, Finish, Returned, Emit
    <3>2. /\ e \in Events /\ e.tag = "offer_choices" /\ e.calls = awaiting[u]
          /\ f \in Events /\ f.tag = "waitingChoice"
      BY <1>1, EventTypes, ZenonT(60) DEF EventTags
    <3>. HIDE DEF e, f
    <3>3. PICK new : new = Len(events) + 1
      OBVIOUS
    <3>4. /\ Offer(new)' /\ events'[new] = e
          /\ \A i : (Offer(i)' <=> Offer(i) \/ i = new) /\ (Offer(i) => events'[i] = events[i])
      BY <1>1, <3>1, <3>2, <3>3, Offered, ZenonT(60)
    <3>5. Offers' = {new}
      BY <2>2, <3>4 DEF Offers, Offer
    <3>6. Drops' = {}
      <4>1. events \in Seq(Events) /\ <<e, f>> \in Seq(Events) /\ Len(<<e, f>>) = 2
        BY <3>2 DEF IInv, TypeOK
      <4>2. /\ Len(events') = Len(events) + 2 /\ Len(events) \in Nat
            /\ \A i \in 1..(Len(events) + 2) :
                 events'[i] = IF i <= Len(events) THEN events[i] ELSE <<e, f>>[i - Len(events)]
        BY <3>1, <4>1, ConcatProperties
      <4>3. \A i \in 1..Len(events') :
              \/ i \in 1..Len(events) /\ events'[i] = events[i]
              \/ events'[i] = e \/ events'[i] = f
        BY <4>2
      <4>. QED
        BY <2>2, <3>2, <4>3 DEF Drops
    <3>7. LiveTurns' = {} /\ LiveSubmits' = {} /\ card' = {} /\ Rows' \subseteq awaiting[u]
      BY <1>1, <2>1, <2>2, <3>1 DEF LiveTurns, LiveSubmits, Rows
    <3>8. OneStage'
      BY <3>5, <3>6, <3>7 DEF OneStage
    <3>9. \A c \in Rows' : \E i \in Offers' : c \in events'[i].calls
      BY <3>2, <3>4, <3>5, <3>7
    <3>. QED
      BY <3>8, <3>9 DEF Reaches, RowHeld
  <2>. QED
    BY <2>3, <2>4
<1>. QED
  BY <1>3, <1>4, <1>5, <1>6, <1>7, <1>8, <1>9 DEF GuestStep

(* The stage of a submit under way.                                        *)
LEMMA SubmitStage ==
  ASSUME Reaches, NEW s \in Submits, submit[s].pc # "free"
  PROVE  /\ LiveTurns = {} /\ LiveSubmits = {s} /\ Drops = {} /\ Offers = {} /\ card = {}
         /\ \A c \in Rows : \/ submit[s].pc = "called" /\ \A d \in submit[s].answers : row[d] = row[c]
                            \/ c \in submit[s].batch
<1>1. s \in LiveSubmits
  BY DEF LiveSubmits
<1>2. LiveTurns = {} /\ LiveSubmits = {s} /\ Drops = {} /\ Offers = {} /\ card = {}
  BY <1>1 DEF Reaches, OneStage
<1>. QED
  BY <1>2 DEF Reaches, RowHeld

LEMMA WritesOn ==
  ASSUME IInv, Reaches, NEW s \in Submits, submit[s].pc # "free", submit'[s].pc # "free",
         \A r \in Submits \ {s} : submit'[r] = submit[r],
         st' = st, Offers' = Offers, Drops' = Drops, card' = card,
         Rows' \subseteq submit'[s].batch
  PROVE  Reaches'
<1>1. LiveTurns = {} /\ LiveSubmits = {s} /\ Drops = {} /\ Offers = {} /\ card = {}
  BY SubmitStage
<1>2. LiveTurns' = {} /\ LiveSubmits' = {s}
  BY <1>1 DEF LiveTurns, LiveSubmits
<1>3. OneStage'
  BY <1>1, <1>2 DEF OneStage
<1>. QED
  BY <1>2, <1>3 DEF Reaches, RowHeld

LEMMA ChooseReaches ==
  ASSUME IInv, Reaches, NEW s \in Submits, ChooseStep(s), ~disturbed'
  PROVE  Reaches'
<1>1. submit \in [Submits -> SubmitRecords] /\ row \in [Calls -> Turns \cup {None}] /\ SubmitOK(s)
  BY Types DEF IInv, HeldOK
<1>2. CASE ChooseReads(s)
  <2>1. PICK seed \in submit[s].answers :
          /\ row[seed] # None
          /\ submit' = [submit EXCEPT ![s].pc = "writing", ![s].answers = {},
                          ![s].batch = SameTask(row[seed]), ![s].task = row[seed]]
    BY <1>2 DEF ChooseReads
  <2>2. /\ submit[s].pc = "called" /\ row' = row /\ st' = st /\ events' = events /\ card' = card
    BY <1>2 DEF ChooseReads, Choosing, panelVars
  <2>3. Offers' = Offers /\ Drops' = Drops /\ Rows' = Rows
    BY <2>2 DEF Offers, Offer, Drops, Rows
  <2>4. /\ submit'[s].pc = "writing" /\ submit'[s].batch = SameTask(row[seed])
        /\ \A r \in Submits \ {s} : submit'[r] = submit[r]
    BY <1>1, <2>1 DEF SubmitRecords
  <2>5. submit[s].batch = {}
    BY <1>1, <2>2 DEF SubmitOK
  <2>6. \A c \in Rows : row[seed] = row[c]
    BY <2>1, <2>2, <2>5, SubmitStage
  <2>7. Rows \subseteq SameTask(row[seed])
    BY <2>6 DEF SameTask, Rows
  <2>. QED
    BY <2>2, <2>3, <2>4, <2>7, WritesOn
<1>3. CASE ChooseDeletes(s)
  <2>1. PICK c \in submit[s].batch : row' = [row EXCEPT ![c] = None]
    BY <1>3 DEF ChooseDeletes
  <2>2. /\ submit[s].pc = "writing" /\ submit' = [submit EXCEPT ![s].pc = "deleted"]
        /\ st' = st /\ events' = events /\ card' = card
    BY <1>3 DEF ChooseDeletes, Choosing, panelVars
  <2>3. Offers' = Offers /\ Drops' = Drops
    BY <2>2 DEF Offers, Offer, Drops
  <2>4. /\ submit'[s].pc = "deleted" /\ submit'[s].batch = submit[s].batch
        /\ \A r \in Submits \ {s} : submit'[r] = submit[r]
    BY <1>1, <2>2 DEF SubmitRecords
  <2>5. Rows' \subseteq Rows
    BY <1>1, <2>1 DEF Rows
  <2>6. Rows \subseteq submit[s].batch
    BY <2>2, SubmitStage
  <2>. QED
    BY <2>2, <2>3, <2>4, <2>5, <2>6, WritesOn
<1>4. CASE ChooseAppends(s)
  <2>1. PICK c \in submit[s].batch :
          /\ NextOf(s, c) /\ Emit(<<Event("tool_end", {c})>>)
          /\ submit' = [submit EXCEPT ![s].pc = "writing", ![s].batch = @ \ {c}]
    BY <1>4 DEF ChooseAppends
  <2>2. submit[s].pc = "deleted" /\ row' = row /\ st' = st /\ card' = card
    BY <1>4 DEF ChooseAppends, Choosing, panelVars
  <2>3. c \in Calls /\ row[c] = None
    BY <2>1, <2>2, OneNext
  <2>4. Offers' = Offers /\ Drops' = Drops
    <3>1. Event("tool_end", {c}) \in Events /\ Event("tool_end", {c}).tag = "tool_end"
      BY <2>3, EventTypes DEF EventTags
    <3>. QED
      BY <2>1, <3>1, OneQuiet DEF Emit, IInv
  <2>5. /\ submit'[s].pc = "writing" /\ submit'[s].batch = submit[s].batch \ {c}
        /\ \A r \in Submits \ {s} : submit'[r] = submit[r]
    BY <1>1, <2>1 DEF SubmitRecords
  <2>6. Rows \subseteq submit[s].batch
    BY <2>2, SubmitStage
  <2>7. Rows' \subseteq submit'[s].batch
    BY <2>2, <2>3, <2>5, <2>6 DEF Rows
  <2>. QED
    BY <2>2, <2>4, <2>5, <2>7, WritesOn
<1>5. CASE ChooseResumes(s)
  <2>1. PICK u \in Turns : st[u] = "unborn" /\ st' = [st EXCEPT ![u] = "spawned"]
    BY <1>5 DEF ChooseResumes, NextTurn, Unborn
  <2>2. /\ submit[s].pc = "writing" /\ submit[s].batch = {} /\ submit' = [submit EXCEPT ![s] = Free]
        /\ row' = row /\ events' = events /\ card' = card
    BY <1>5 DEF ChooseResumes, Choosing, panelVars
  <2>3. LiveTurns = {} /\ LiveSubmits = {s} /\ Drops = {} /\ Offers = {} /\ card = {} /\ Rows = {}
    BY <2>2, SubmitStage
  <2>4. /\ LiveTurns' = {u} /\ LiveSubmits' = {} /\ Drops' = {} /\ Offers' = {} /\ card' = {}
        /\ Rows' = {}
    BY <1>1, <2>1, <2>2, <2>3, Types
       DEF IInv, LiveTurns, LiveSubmits, Drops, Offers, Offer, Rows, Free
  <2>. QED
    BY <2>4 DEF Reaches, OneStage
<1>6. ~ChooseRejects(s)
  BY DEF ChooseRejects, Disturb
<1>. QED
  BY <1>2, <1>3, <1>4, <1>5, <1>6 DEF ChooseStep

LEMMA DeliverReaches ==
  ASSUME IInv, Reaches, Deliver
  PROVE  Reaches'
<1>1. PICK e : e = Head(events)
  OBVIOUS
<1>2. /\ events # <<>> /\ events' = Tail(events)
      /\ OnTool(e) \/ OnOfferChoices(e) \/ OnDone(e)
      /\ row' = row /\ st' = st /\ awaiting' = awaiting /\ submit' = submit
  BY <1>1 DEF Deliver, guestVars
<1>3. /\ e = events[1] /\ 1 \in 1..Len(events)
      /\ \A i \in 1..Len(events') :
           i + 1 \in 1..Len(events) /\ i + 1 # 1 /\ events'[i] = events[i + 1]
  BY <1>1, <1>2, Delivered DEF IInv
<1>4. /\ LiveTurns' = LiveTurns /\ LiveSubmits' = LiveSubmits /\ Rows' = Rows
      /\ \A i \in Offers' : i \in Int /\ i + 1 \in Offers /\ i + 1 # 1
      /\ \A i \in Drops' : i + 1 \in Drops /\ i + 1 # 1
  BY <1>2, <1>3 DEF LiveTurns, LiveSubmits, Rows, Offers, Offer, Drops
<1>5. OneStage
  BY DEF Reaches
<1>6. CASE e.tag = "offer_choices"
  <2>1. 1 \in Offers
    BY <1>3, <1>6 DEF Offers, Offer
  <2>2. Offers = {1} /\ LiveTurns = {} /\ LiveSubmits = {} /\ Drops = {} /\ card = {}
    BY <1>5, <2>1 DEF OneStage
  <2>3. Offers' = {} /\ Drops' = {} /\ card' = e.calls /\ phase' = "needs_choice"
    BY <1>2, <1>4, <1>6, <2>2 DEF OnTool, OnOfferChoices, OnDone
  <2>4. Rows \subseteq e.calls
    BY <1>3, <2>2 DEF Reaches, RowHeld
  <2>. QED
    BY <1>4, <2>2, <2>3, <2>4 DEF Reaches, OneStage, RowHeld
<1>7. CASE e.tag \in {"plain", "stopped", "error"}
  <2>1. 1 \in Drops
    BY <1>3, <1>7 DEF Drops
  <2>2. Offers = {} /\ LiveTurns = {} /\ LiveSubmits = {} /\ card = {}
    BY <1>5, <2>1 DEF OneStage
  <2>3. Offers' = {} /\ card' = {}
    BY <1>2, <1>4, <1>7, <2>2 DEF OnTool, OnOfferChoices, OnDone
  <2>4. Rows = {}
    BY <2>2 DEF Reaches, RowHeld
  <2>. QED
    BY <1>4, <2>2, <2>3, <2>4 DEF Reaches, OneStage
<1>8. CASE e.tag \in {"tool_start", "tool_end", "waitingChoice"}
  <2>1. card' = card /\ (card # {} => phase' = "needs_choice")
    <3>1. card # {} => \A running : PhaseAfterTool(running) = "needs_choice"
      BY DEF PhaseAfterTool
    <3>2. card # {} => phase = "needs_choice"
      BY <1>5 DEF OneStage
    <3>3. OnTool(e) \/ OnDone(e)
      BY <1>2, <1>8 DEF OnOfferChoices
    <3>4. CASE OnTool(e)
      BY <3>1, <3>4 DEF OnTool
    <3>5. CASE OnDone(e)
      BY <1>8, <3>1, <3>2, <3>5 DEF OnDone
    <3>. QED
      BY <3>3, <3>4, <3>5
  <2>2. \A i, j \in Offers' : i = j
    <3>1. \A i, j \in Offers' : i + 1 = j + 1
      BY <1>4, <1>5 DEF OneStage
    <3>. QED
      BY <1>4, <3>1
  <2>3. (Offers' # {} => Offers # {}) /\ (Drops' # {} => Drops # {})
    BY <1>4
  <2>4. OneStage'
    BY <1>4, <1>5, <2>1, <2>2, <2>3 DEF OneStage
  <2>5. ASSUME NEW c \in Rows PROVE RowHeld(c)'
    <3>1. RowHeld(c)
      BY DEF Reaches
    <3>2. ASSUME NEW i \in Offers, c \in events[i].calls PROVE \E j \in Offers' : c \in events'[j].calls
      <4>1. i \in 1..Len(events) /\ i # 1 /\ events[i].tag = "offer_choices"
        BY <1>3, <1>8 DEF Offers, Offer
      <4>2. i - 1 \in 1..Len(events') /\ events'[i - 1] = events[i]
        <5>1. events \in Seq(Events)
          BY DEF IInv, TypeOK
        <5>2. Len(events') = Len(events) - 1 /\ Len(events) \in Nat
          BY <1>2, <5>1, EmptySeq, HeadTailProperties
        <5>3. i - 1 \in 1..Len(events') /\ (i - 1) + 1 = i
          BY <4>1, <5>2
        <5>. QED
          BY <1>3, <5>3
      <4>3. i - 1 \in Offers' /\ c \in events'[i - 1].calls
        BY <3>2, <4>1, <4>2 DEF Offers, Offer
      <4>. QED
        BY <4>3
    <3>. QED
      BY <1>2, <1>4, <2>1, <3>1, <3>2 DEF RowHeld
  <2>. QED
    BY <1>4, <2>4, <2>5 DEF Reaches
<1>9. e.tag \in EventTags
  BY <1>1, <1>2, Delivered DEF IInv, Events
<1>. QED
  BY <1>6, <1>7, <1>8, <1>9 DEF EventTags

LEMMA PanelReaches ==
  ASSUME IInv, Reaches, PanelStep, ~disturbed'
  PROVE  Reaches'
<1>1. st \in [Turns -> TurnStates] /\ submit \in [Submits -> SubmitRecords]
  BY Types DEF IInv
<1>2. CASE Send
  <2>1. /\ phase \notin Busy /\ card' = {} /\ submit' = submit /\ events' = events /\ row' = row
        /\ st' = st \/ \E u \in Turns : st[u] = "unborn" /\ st' = [st EXCEPT ![u] = "spawned"]
        /\ ~UnseenTurn
    BY <1>2 DEF Send, NextTurn, Unborn, Disturb
  <2>2. LiveTurns = {} /\ LiveSubmits = {} /\ Offers = {} /\ Drops = {}
    BY <2>1, EmptySeq DEF UnseenTurn, LiveTurns, Offers, Drops
  <2>3. card = {} /\ Rows = {}
    BY <2>1, <2>2 DEF Reaches, OneStage, RowHeld, Busy
  <2>4. LiveSubmits' = {} /\ Offers' = {} /\ Drops' = {} /\ Rows' = {}
    BY <2>1, <2>2, <2>3 DEF LiveSubmits, Offers, Offer, Drops, Rows
  <2>5. \A u, v \in LiveTurns' : u = v
    BY <1>1, <2>1, <2>2 DEF LiveTurns
  <2>. QED
    BY <2>1, <2>4, <2>5 DEF Reaches, OneStage
<1>3. CASE ClickStop \/ Reopen
  <2>1. /\ card = {} /\ card' = {} /\ st' = st /\ submit' = submit /\ events' = events /\ row' = row
        /\ awaiting' = awaiting
    BY <1>3 DEF ClickStop, Reopen, Disturb, guestVars
  <2>2. /\ LiveTurns' = LiveTurns /\ LiveSubmits' = LiveSubmits /\ Offers' = Offers
        /\ Drops' = Drops /\ Rows' = Rows
    BY <2>1 DEF LiveTurns, LiveSubmits, Offers, Offer, Drops, Rows
  <2>. QED
    BY <2>1, <2>2 DEF Reaches, OneStage, RowHeld
<1>4. ASSUME NEW s \in Submits, SubmitChoice(s) PROVE Reaches'
  <2>1. PICK answers \in SUBSET card :
          /\ answers # {}
          /\ submit' = [submit EXCEPT ![s].pc = "called", ![s].answers = answers]
    BY <1>4 DEF SubmitChoice
  <2>2. /\ submit[s].pc = "free" /\ card' = {} /\ st' = st /\ row' = row /\ events' = events
    BY <1>4 DEF SubmitChoice, NextSlot
  <2>3. LiveTurns = {} /\ LiveSubmits = {} /\ Offers = {} /\ Drops = {} /\ Rows \subseteq card
    BY <2>1 DEF Reaches, OneStage, RowHeld
  <2>4. submit'[s].pc = "called" /\ submit'[s].answers = answers
    BY <1>1, <2>1 DEF SubmitRecords
  <2>5. LiveTurns' = {} /\ LiveSubmits' = {s} /\ Offers' = {} /\ Drops' = {} /\ Rows' = Rows
    <3>1. \A r \in Submits \ {s} : submit'[r] = submit[r]
      BY <1>1, <2>1
    <3>2. s \in LiveSubmits' /\ \A r \in Submits \ {s} : r \notin LiveSubmits'
      BY <2>3, <2>4, <3>1 DEF LiveSubmits
    <3>. QED
      BY <2>2, <2>3, <3>2 DEF LiveTurns, LiveSubmits, Offers, Offer, Drops, Rows
  <2>6. \A c \in Rows : \A d \in answers : row[d] = row[c]
    <3>1. Offerable(card)
      BY DEF IInv, HeldOK
    <3>2. \A c, d \in card : row[d] = row[c]
      BY <3>1 DEF Offerable, SameTask
    <3>. QED
      BY <2>3, <3>2
  <2>. QED
    BY <2>2, <2>4, <2>5, <2>6 DEF Reaches, OneStage, RowHeld
<1>. QED
  BY <1>2, <1>3, <1>4, DeliverReaches DEF PanelStep

LEMMA NextReaches ==
  ASSUME IInv, ~disturbed => Reaches, [Next]_vars
  PROVE  (~disturbed => Reaches)'
<1> SUFFICES ASSUME ~disturbed' PROVE Reaches'
  OBVIOUS
<1>1. Bits
  BY TypeParts DEF IInv
<1>2. ~disturbed
  <2>1. ASSUME NEW u \in Turns, GuestStep(u) PROVE ~disturbed
    BY <2>1 DEF GuestStep, Register, SeesContext, ModelFails, ModelAnswers, ModelAsks,
         CallStarts, CallWaits, CallEnds, BatchEnds, Disturb
  <2>2. ASSUME NEW s \in Submits, ChooseStep(s) PROVE ~disturbed
    BY <2>2 DEF ChooseStep, ChooseRejects, ChooseReads, ChooseDeletes, ChooseAppends,
         ChooseResumes, Disturb
  <2>3. ASSUME PanelStep \/ Crash PROVE ~disturbed
    BY <2>3 DEF PanelStep, Send, ClickStop, Reopen, SubmitChoice, Deliver, Crash, Disturb
  <2>4. ASSUME UNCHANGED vars PROVE ~disturbed
    BY <2>4 DEF vars
  <2>. QED
    BY <2>1, <2>2, <2>3, <2>4 DEF Next
<1>3. ~Crash
  BY DEF Crash, Disturb
<1>4. CASE UNCHANGED vars
  BY <1>2, <1>4 DEF vars, guestVars, panelVars, Reaches, OneStage, RowHeld, LiveTurns, LiveSubmits,
       Offers, Offer, Drops, Rows
<1>. QED
  BY <1>2, <1>3, <1>4, GuestReaches, ChooseReaches, PanelReaches DEF Next

(* When all is quiet and nobody disturbed it, the card is all the rows.    *)
THEOREM OffersReach == Spec => []OfferReachesUser
<1>1. Init => (~disturbed => Reaches)
  BY InitReaches
<1>2. IInv /\ (~disturbed => Reaches) /\ [Next]_vars => (~disturbed => Reaches)'
  BY NextReaches
<1>3. ASSUME IInv, ~disturbed => Reaches PROVE OfferReachesUser
  <2>1. SUFFICES ASSUME ~UnseenTurn, ~disturbed PROVE card = Rows
    BY DEF OfferReachesUser
  <2>2. LiveTurns = {} /\ LiveSubmits = {} /\ Offers = {}
    BY <2>1, EmptySeq DEF UnseenTurn, LiveTurns, Offers
  <2>3. Rows \subseteq card
    BY <1>3, <2>1, <2>2 DEF Reaches, RowHeld
  <2>4. card \subseteq Rows
    BY <1>3, Types DEF IInv, HeldOK, Offerable, Rows
  <2>. QED
    BY <2>3, <2>4
<1>. QED
  BY <1>1, <1>2, <1>3, Invariance, PTL DEF Spec
=============================================================================
