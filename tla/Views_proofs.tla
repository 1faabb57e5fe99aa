----------------------------- MODULE Views_proofs -----------------------------
(* Proofs about three features of the workbench in which a view is written *)
(* from what was read before: a followed log (LogFollow), the tabs of the  *)
(* terminals (TerminalTabs) and the tree of saved requests (HttpTree).     *)
(*                                                                         *)
(* LogFollow. The chunks under way to a view, whatever the reader missed,  *)
(* lead through parts of the log to a text that ends with the tail sent    *)
(* last (Chain). That needs what DiffAppend does to two tails: the second  *)
(* is what it keeps of the first and the chunk (Link, Joins).              *)
(*                                                                         *)
(* TerminalTabs. Every pane of a tab, also one that a handler has read and *)
(* may write again, belongs to that tab (Owns), so that a handler closes   *)
(* no other tab's session; and a closed session is shown only by a tab     *)
(* that a handler will write (Replaces).                                   *)
(*                                                                         *)
(* HttpTree. The rows are acyclic because a drop checks the list it read   *)
(* and a layout moves nothing else (Acyclic, DropOK); a delete works from  *)
(* the leaves up on what it read (DeleteOK). Each holds for a command      *)
(* under which nobody else has written.                                    *)
EXTENDS LogFollow, TerminalTabs, HttpTree, TLAPS, SequenceTheorems, FiniteSetTheorems,
        WellFoundedInduction

-----------------------------------------------------------------------------
(* The followed log.                                                       *)

(* Stretches of a log, and the chunks that followers send.                 *)
Spans == Seq(Lines)
Chunks == [reset : BOOLEAN, text : Spans]

(* x ends with a; x is a contiguous part of h.                             *)
Ends(a, x) == Len(a) <= Len(x) /\ \A i \in 1..Len(a) : a[i] = x[Len(x) - Len(a) + i]
Part(x, h) == \E d \in Nat : d + Len(x) <= Len(h) /\ \A i \in 1..Len(x) : x[i] = h[d + i]

(* The last k lines of a are the first k of b, and t is the rest of b.     *)
Joins(a, b, k, t) ==
  /\ k \in 1..Len(b) /\ k <= Len(a)
  /\ LastLines(a, k) = SubSeq(b, 1, k) /\ t = SubSeq(b, k + 1, Len(b))

LEMMA SuffixIsEnd ==
  ASSUME NEW a \in Spans, NEW x \in Spans
  PROVE  IsSuffix(a, x) <=> Ends(a, x)
<1>1. /\ Len(a) \in Nat /\ Len(x) \in Nat
      /\ a \in [1..Len(a) -> Lines] /\ x \in [1..Len(x) -> Lines]
  BY LenProperties DEF Spans
<1> DEFINE ra == Reverse(a)
           rx == Reverse(x)
<1>2. /\ ra \in Spans /\ Len(ra) = Len(a)
           /\ \A i \in 1..Len(a) : ra[i] = a[(Len(a) - i) + 1]
      /\ rx \in Spans /\ Len(rx) = Len(x)
           /\ \A i \in 1..Len(x) : rx[i] = x[(Len(x) - i) + 1]
  BY <1>1 DEF Reverse, Spans
<1>. HIDE DEF ra, rx
<1>3. CASE Len(a) <= Len(x)
  <2> DEFINE sa == SubSeq(ra, 1, Len(ra))
             sx == SubSeq(rx, 1, Len(ra))
  <2>1. /\ sa \in Spans /\ Len(sa) = Len(a) /\ \A i \in 1..Len(a) : sa[i] = ra[i]
        /\ sx \in Spans /\ Len(sx) = Len(a) /\ \A i \in 1..Len(a) : sx[i] = rx[i]
    <3>1. ASSUME NEW i \in 1..Len(a) PROVE ra[i] \in Lines /\ rx[i] \in Lines
      <4>1. i \in 1..Len(ra) /\ i \in 1..Len(rx)
        BY <1>1, <1>2, <1>3
      <4>. QED BY <1>2, <4>1, ElementOfSeq DEF Spans
    <3>. QED BY <1>1, <1>2, <3>1, SubSeqProperties DEF Spans
  <2>. HIDE DEF sa, sx
  <2>2. sa = sx <=> \A i \in 1..Len(a) : sa[i] = sx[i]
    BY <2>1, SeqEqual DEF Spans
  <2>3. sa = sx <=> \A i \in 1..Len(a) : a[(Len(a) - i) + 1] = x[(Len(x) - i) + 1]
    BY <1>1, <1>2, <1>3, <2>1, <2>2
  <2>4. (\A i \in 1..Len(a) : a[(Len(a) - i) + 1] = x[(Len(x) - i) + 1])
          <=> \A i \in 1..Len(a) : a[i] = x[Len(x) - Len(a) + i]
    <3>1. ASSUME \A i \in 1..Len(a) : a[(Len(a) - i) + 1] = x[(Len(x) - i) + 1],
                 NEW i \in 1..Len(a)
          PROVE  a[i] = x[Len(x) - Len(a) + i]
      <4>1. (Len(a) - i) + 1 \in 1..Len(a)
        BY <1>1
      <4>2. a[(Len(a) - ((Len(a) - i) + 1)) + 1] = x[(Len(x) - ((Len(a) - i) + 1)) + 1]
        BY <3>1, <4>1
      <4>3. (Len(a) - ((Len(a) - i) + 1)) + 1 = i
            /\ (Len(x) - ((Len(a) - i) + 1)) + 1 = Len(x) - Len(a) + i
        BY <1>1
      <4>. QED BY <4>2, <4>3
    <3>2. ASSUME \A i \in 1..Len(a) : a[i] = x[Len(x) - Len(a) + i],
                 NEW i \in 1..Len(a)
          PROVE  a[(Len(a) - i) + 1] = x[(Len(x) - i) + 1]
      <4>1. (Len(a) - i) + 1 \in 1..Len(a)
        BY <1>1
      <4>2. a[(Len(a) - i) + 1] = x[Len(x) - Len(a) + ((Len(a) - i) + 1)]
        BY <3>2, <4>1
      <4>3. Len(x) - Len(a) + ((Len(a) - i) + 1) = (Len(x) - i) + 1
        BY <1>1
      <4>. QED BY <4>2, <4>3
    <3>. QED BY <3>1, <3>2
  <2>. QED BY <1>2, <1>3, <2>3, <2>4 DEF IsSuffix, IsPrefix, Ends, ra, rx, sa, sx
<1>4. CASE ~(Len(a) <= Len(x))
  BY <1>2, <1>4 DEF IsSuffix, IsPrefix, Ends, ra, rx
<1>. QED BY <1>3, <1>4

LEMMA EndsTransitive ==
  ASSUME NEW a \in Spans, NEW b \in Spans, NEW c \in Spans, Ends(a, b), Ends(b, c)
  PROVE  Ends(a, c)
<1>1. Len(a) \in Nat /\ Len(b) \in Nat /\ Len(c) \in Nat
  BY LenProperties DEF Spans
<1>2. Len(a) <= Len(b) /\ Len(b) <= Len(c)
  BY DEF Ends
<1>3. ASSUME NEW i \in 1..Len(a) PROVE a[i] = c[Len(c) - Len(a) + i]
  <2>1. Len(b) - Len(a) + i \in 1..Len(b)
    BY <1>1, <1>2
  <2>2. a[i] = b[Len(b) - Len(a) + i]
    BY DEF Ends
  <2>3. b[Len(b) - Len(a) + i] = c[Len(c) - Len(b) + (Len(b) - Len(a) + i)]
    BY <2>1 DEF Ends
  <2>4. Len(c) - Len(b) + (Len(b) - Len(a) + i) = Len(c) - Len(a) + i
    BY <1>1
  <2>. QED BY <2>2, <2>3, <2>4
<1>. QED BY <1>1, <1>2, <1>3 DEF Ends

LEMMA LastLinesOf ==
  ASSUME NEW a \in Spans, NEW k \in 0..Len(a)
  PROVE  /\ LastLines(a, k) \in Spans /\ Len(LastLines(a, k)) = k
         /\ \A i \in 1..k : LastLines(a, k)[i] = a[Len(a) - k + i]
<1>1. Len(a) \in Nat /\ a \in [1..Len(a) -> Lines]
  BY LenProperties DEF Spans
<1> DEFINE m == Len(a) - k + 1
<1>2. m \in Int /\ Len(a) - m + 1 = k /\ m >= 1
  BY <1>1
<1>3. \A i \in m..Len(a) : a[i] \in Lines
  BY <1>1, <1>2
<1>4. /\ SubSeq(a, m, Len(a)) \in Spans
      /\ Len(SubSeq(a, m, Len(a))) = IF m <= Len(a) THEN Len(a) - m + 1 ELSE 0
      /\ \A i \in 1..(Len(a) - m + 1) : SubSeq(a, m, Len(a))[i] = a[m + i - 1]
  BY <1>1, <1>2, <1>3, SubSeqProperties DEF Spans
<1>5. \A i \in 1..k : m + i - 1 = Len(a) - k + i
  BY <1>1
<1>. QED BY <1>1, <1>2, <1>4, <1>5 DEF LastLines

LEMMA FirstLinesOf ==
  ASSUME NEW b \in Spans, NEW k \in 0..Len(b)
  PROVE  /\ SubSeq(b, 1, k) \in Spans /\ Len(SubSeq(b, 1, k)) = k
         /\ \A i \in 1..k : SubSeq(b, 1, k)[i] = b[i]
         /\ SubSeq(b, k + 1, Len(b)) \in Spans /\ Len(SubSeq(b, k + 1, Len(b))) = Len(b) - k
         /\ \A i \in 1..(Len(b) - k) : SubSeq(b, k + 1, Len(b))[i] = b[k + i]
<1>1. Len(b) \in Nat /\ b \in [1..Len(b) -> Lines]
  BY LenProperties DEF Spans
<1>2. (\A i \in 1..k : b[i] \in Lines) /\ (\A i \in (k + 1)..Len(b) : b[i] \in Lines)
  BY <1>1
<1>3. /\ SubSeq(b, 1, k) \in Spans
      /\ Len(SubSeq(b, 1, k)) = IF 1 <= k THEN k - 1 + 1 ELSE 0
      /\ \A i \in 1..(k - 1 + 1) : SubSeq(b, 1, k)[i] = b[1 + i - 1]
  BY <1>1, <1>2, SubSeqProperties DEF Spans
<1>4. /\ SubSeq(b, k + 1, Len(b)) \in Spans
      /\ Len(SubSeq(b, k + 1, Len(b))) = IF k + 1 <= Len(b) THEN Len(b) - (k + 1) + 1 ELSE 0
      /\ \A i \in 1..(Len(b) - (k + 1) + 1) :
            SubSeq(b, k + 1, Len(b))[i] = b[(k + 1) + i - 1]
  BY <1>1, <1>2, SubSeqProperties DEF Spans
<1>5. k - 1 + 1 = k /\ Len(b) - (k + 1) + 1 = Len(b) - k
      /\ \A i \in Int : 1 + i - 1 = i /\ (k + 1) + i - 1 = k + i
  BY <1>1
<1>6. \A i \in 1..k : SubSeq(b, 1, k)[i] = b[i]
  BY <1>3, <1>5
<1>7. \A i \in 1..(Len(b) - k) : SubSeq(b, k + 1, Len(b))[i] = b[k + i]
  BY <1>1, <1>4, <1>5
<1>8. Len(SubSeq(b, 1, k)) = k
  <2>1. Len(SubSeq(b, 1, k)) = IF 1 <= k THEN k - 1 + 1 ELSE 0
    BY <1>3
  <2>. QED BY <1>1, <2>1
<1>9. Len(SubSeq(b, k + 1, Len(b))) = Len(b) - k
  <2>1. Len(SubSeq(b, k + 1, Len(b))) = IF k + 1 <= Len(b) THEN Len(b) - (k + 1) + 1 ELSE 0
    BY <1>4
  <2>2. CASE k = Len(b)
    BY <1>1, <2>1, <2>2
  <2>3. CASE k # Len(b)
    <3>1. Len(b) \in Int /\ k \in Int /\ k <= Len(b)
      BY <1>1
    <3>2. k + 1 <= Len(b) /\ Len(b) - (k + 1) + 1 = Len(b) - k
      BY <2>3, <3>1
    <3>. QED BY <2>1, <3>2
  <2>. QED BY <2>2, <2>3
<1>. QED BY <1>3, <1>4, <1>6, <1>7, <1>8, <1>9

(* The lines of a join, one by one.                                        *)
LEMMA JoinLines ==
  ASSUME NEW a \in Spans, NEW b \in Spans, NEW k, NEW t, Joins(a, b, k, t)
  PROVE  /\ k \in 1..Len(b) /\ k <= Len(a) /\ t \in Spans /\ Len(t) = Len(b) - k
         /\ \A i \in 1..k : b[i] = a[Len(a) - k + i]
         /\ \A i \in 1..(Len(b) - k) : t[i] = b[k + i]
<1>1. Len(a) \in Nat /\ Len(b) \in Nat
  BY LenProperties DEF Spans
<1>2. k \in 1..Len(b) /\ k <= Len(a) /\ k \in 0..Len(b) /\ k \in 0..Len(a)
  BY <1>1 DEF Joins
<1>3. \A i \in 1..k : LastLines(a, k)[i] = a[Len(a) - k + i]
  BY <1>2, LastLinesOf
<1>4. /\ \A i \in 1..k : SubSeq(b, 1, k)[i] = b[i]
      /\ SubSeq(b, k + 1, Len(b)) \in Spans /\ Len(SubSeq(b, k + 1, Len(b))) = Len(b) - k
      /\ \A i \in 1..(Len(b) - k) : SubSeq(b, k + 1, Len(b))[i] = b[k + i]
  BY <1>2, FirstLinesOf
<1>5. LastLines(a, k) = SubSeq(b, 1, k) /\ t = SubSeq(b, k + 1, Len(b))
  BY DEF Joins
<1>. QED BY <1>2, <1>3, <1>4, <1>5

LEMMA ConcatLines ==
  ASSUME NEW x \in Spans, NEW t \in Spans
  PROVE  /\ x \o t \in Spans /\ Len(x \o t) = Len(x) + Len(t)
         /\ \A i \in 1..(Len(x) + Len(t)) :
              (x \o t)[i] = IF i <= Len(x) THEN x[i] ELSE t[i - Len(x)]
BY ConcatProperties DEF Spans

LEMMA JoinedEnds ==
  ASSUME NEW a \in Spans, NEW b \in Spans, NEW x \in Spans, NEW k, NEW t,
         Joins(a, b, k, t), Ends(a, x)
  PROVE  Ends(b, x \o t)
<1>1. Len(a) \in Nat /\ Len(b) \in Nat /\ Len(x) \in Nat
  BY LenProperties DEF Spans
<1>2. /\ k \in 1..Len(b) /\ k <= Len(a) /\ t \in Spans /\ Len(t) = Len(b) - k
      /\ \A i \in 1..k : b[i] = a[Len(a) - k + i]
      /\ \A i \in 1..(Len(b) - k) : t[i] = b[k + i]
  BY JoinLines
<1>3. /\ Len(x \o t) = Len(x) + Len(t) /\ Len(x \o t) = Len(x) + Len(b) - k
      /\ \A i \in 1..(Len(x) + Len(t)) :
           (x \o t)[i] = IF i <= Len(x) THEN x[i] ELSE t[i - Len(x)]
  <2>1. /\ Len(x \o t) = Len(x) + Len(t)
        /\ \A i \in 1..(Len(x) + Len(t)) :
             (x \o t)[i] = IF i <= Len(x) THEN x[i] ELSE t[i - Len(x)]
    BY <1>2, ConcatLines
  <2>. QED BY <1>1, <1>2, <2>1
<1>4. Len(a) <= Len(x) /\ \A i \in 1..Len(a) : a[i] = x[Len(x) - Len(a) + i]
  BY DEF Ends
<1>5. ASSUME NEW i \in 1..Len(b) PROVE b[i] = (x \o t)[Len(x \o t) - Len(b) + i]
  <2>1. Len(x \o t) - Len(b) + i = Len(x) - k + i
        /\ Len(x) - k + i \in 1..(Len(x) + Len(t))
    BY <1>1, <1>2, <1>3, <1>4
  <2>2. CASE i <= k
    <3>1. Len(a) - k + i \in 1..Len(a) /\ Len(x) - k + i <= Len(x) /\ i \in 1..k
      BY <1>1, <1>2, <2>2
    <3>2. a[Len(a) - k + i] = x[Len(x) - Len(a) + (Len(a) - k + i)]
      BY <1>4, <3>1
    <3>3. Len(x) - Len(a) + (Len(a) - k + i) = Len(x) - k + i
      BY <1>1, <1>2
    <3>4. (x \o t)[Len(x) - k + i] = x[Len(x) - k + i]
      BY <1>3, <2>1, <3>1
    <3>5. b[i] = a[Len(a) - k + i]
      BY <1>2, <3>1
    <3>. QED BY <2>1, <3>2, <3>3, <3>4, <3>5
  <2>3. CASE i > k
    <3>1. Len(x) - k + i > Len(x) /\ (Len(x) - k + i) - Len(x) = i - k
          /\ i - k \in 1..(Len(b) - k) /\ k + (i - k) = i
      BY <1>1, <1>2, <2>3
    <3>2. (x \o t)[Len(x) - k + i] = t[i - k]
      BY <1>1, <1>2, <1>3, <2>1, <3>1
    <3>3. t[i - k] = b[i]
      BY <1>2, <3>1
    <3>. QED BY <2>1, <3>2, <3>3
  <2>4. i <= k \/ i > k
    BY <1>1, <1>2
  <2>. QED BY <2>2, <2>3, <2>4
<1>6. Len(b) <= Len(x \o t)
  BY <1>1, <1>2, <1>3, <1>4
<1>. QED BY <1>5, <1>6 DEF Ends

(* In a log without equal lines what joins a part of it continues it.      *)
LEMMA JoinedParts ==
  ASSUME NEW h \in Spans, IsInjective(h),
         NEW a \in Spans, NEW b \in Spans, NEW x \in Spans, NEW k, NEW t,
         Joins(a, b, k, t), Ends(a, x), Part(x, h), Part(b, h)
  PROVE  Part(x \o t, h)
<1>1. Len(a) \in Nat /\ Len(b) \in Nat /\ Len(x) \in Nat /\ Len(h) \in Nat
        /\ DOMAIN h = 1..Len(h)
  BY LenProperties DEF Spans
<1>2. /\ k \in 1..Len(b) /\ k <= Len(a) /\ t \in Spans /\ Len(t) = Len(b) - k
      /\ \A i \in 1..k : b[i] = a[Len(a) - k + i]
      /\ \A i \in 1..(Len(b) - k) : t[i] = b[k + i]
  BY JoinLines
<1>3. /\ Len(x \o t) = Len(x) + Len(t)
      /\ \A i \in 1..(Len(x) + Len(t)) :
           (x \o t)[i] = IF i <= Len(x) THEN x[i] ELSE t[i - Len(x)]
  BY <1>2, ConcatLines
<1>4. Len(a) <= Len(x) /\ \A i \in 1..Len(a) : a[i] = x[Len(x) - Len(a) + i]
  BY DEF Ends
<1>5. PICK d \in Nat : d + Len(x) <= Len(h) /\ \A i \in 1..Len(x) : x[i] = h[d + i]
  BY DEF Part
<1>6. PICK e \in Nat : e + Len(b) <= Len(h) /\ \A i \in 1..Len(b) : b[i] = h[e + i]
  BY DEF Part
<1>7. e = d + Len(x) - k
  <2>1. 1 \in 1..k /\ 1 \in 1..Len(b) /\ Len(a) - k + 1 \in 1..Len(a)
        /\ Len(x) - k + 1 \in 1..Len(x)
             /\ Len(x) - Len(a) + (Len(a) - k + 1) = Len(x) - k + 1
    BY <1>1, <1>2, <1>4
  <2>2. b[1] = a[Len(a) - k + 1] /\ a[Len(a) - k + 1] = x[Len(x) - k + 1]
    BY <1>2, <1>4, <2>1
  <2>3. h[e + 1] = h[d + (Len(x) - k + 1)]
    BY <1>5, <1>6, <2>1, <2>2
  <2>4. e + 1 \in 1..Len(h) /\ d + (Len(x) - k + 1) \in 1..Len(h)
    BY <1>1, <1>2, <1>4, <1>5, <1>6
  <2>5. \A i, j \in 1..Len(h) : h[i] = h[j] => i = j
    BY <1>1 DEF IsInjective
  <2>6. e + 1 = d + (Len(x) - k + 1)
    BY <2>3, <2>4, <2>5
  <2>7. e \in Int /\ d \in Int /\ k \in Int /\ Len(x) \in Int
    BY <1>1, <1>2
  <2>. QED BY <2>6, <2>7
<1>8. d + Len(x \o t) <= Len(h)
  BY <1>1, <1>2, <1>3, <1>5, <1>6, <1>7
<1>9. ASSUME NEW i \in 1..Len(x \o t) PROVE (x \o t)[i] = h[d + i]
  <2>1. CASE i <= Len(x)
    BY <1>1, <1>2, <1>3, <1>5, <2>1
  <2>2. CASE i > Len(x)
    <3>1. i - Len(x) \in 1..(Len(b) - k) /\ k + (i - Len(x)) \in 1..Len(b)
          /\ e + (k + (i - Len(x))) = d + i
      BY <1>1, <1>2, <1>3, <1>5, <1>7, <2>2
    <3>2. (x \o t)[i] = t[i - Len(x)]
      BY <1>1, <1>2, <1>3, <2>2
    <3>3. t[i - Len(x)] = b[k + (i - Len(x))]
      BY <1>2, <3>1
    <3>. QED BY <1>6, <3>1, <3>2, <3>3
  <2>. QED BY <1>1, <1>2, <1>3, <2>1, <2>2
<1>. QED BY <1>8, <1>9 DEF Part

(* The diff of two tails: nothing to send, or a chunk that takes a text ending   *)
(* with the old tail to one ending with the new.                           *)
LEMMA LargestOverlap ==
  ASSUME NEW a \in Spans, NEW b \in Spans, Overlaps(a, b) # {}
  PROVE  Max(Overlaps(a, b)) \in Overlaps(a, b)
<1>. DEFINE R == {p \in Nat \X Nat : p[1] < p[2]}
            S == Overlaps(a, b)
            T == {Len(b) - s : s \in S}
<1>1. IsWellFoundedOn(R, Nat)
  BY NatLessThanWellFounded DEF OpToRel
<1>2. Len(b) \in Nat
  BY LenProperties DEF Spans
<1>3. \A s \in S : s \in Nat /\ s <= Len(b) /\ Len(b) - s \in Nat
  BY <1>2 DEF Overlaps
<1>4. T \subseteq Nat /\ T # {}
  BY <1>3
<1>. HIDE DEF R, T, S
<1>5. PICK x \in T : \A y \in T : ~(<<y, x>> \in R)
  BY <1>1, <1>4, WFMin
<1>6. \A y \in T : ~(y < x)
  BY <1>4, <1>5 DEF R
<1>7. PICK s \in S : x = Len(b) - s
  BY <1>5 DEF T
<1>8. \A r \in S : s >= r
  <2>1. \A r \in S : ~(Len(b) - r < Len(b) - s)
    BY <1>6, <1>7 DEF T
  <2>. QED
    BY <1>2, <1>3, <2>1
<1>9. \E m \in S : \A r \in S : m >= r
  BY <1>8
<1>10. Max(S) \in S
  BY <1>9 DEF Max
<1>. QED BY <1>10 DEF S

(* A chunk takes a view that ends with a to one that ends with b.          *)
Link(c, a, b) ==
  \/ c.reset /\ c.text = b
  \/ ~c.reset /\ c.text = <<>> /\ a = b
  \/ ~c.reset /\ \E k : Joins(a, b, k, c.text)

LEMMA DiffLinks ==
  ASSUME NEW a \in Spans, NEW b \in Spans
  PROVE  /\ DiffAppend(a, b) \in Chunks
         /\ DiffAppend(a, b).reset => DiffAppend(a, b).text = b
         /\ ~DiffAppend(a, b).reset => a # <<>>
              /\ \E k : Joins(a, b, k, DiffAppend(a, b).text)
<1>1. CASE a = <<>> \/ Overlaps(a, b) = {}
  BY <1>1 DEF DiffAppend, Chunks
<1>2. CASE ~(a = <<>> \/ Overlaps(a, b) = {})
  <2> DEFINE m == Max(Overlaps(a, b))
  <2>1. m \in Overlaps(a, b)
    BY <1>2, LargestOverlap
  <2>. HIDE DEF m
  <2>2. m \in 1..Len(b) /\ m <= Len(a) /\ LastLines(a, m) = SubSeq(b, 1, m)
    BY <2>1 DEF Overlaps
  <2>3. m \in 0..Len(b)
    BY <2>2
  <2>4. SubSeq(b, m + 1, Len(b)) \in Spans
    BY <2>3, FirstLinesOf
  <2>5. DiffAppend(a, b) = [reset |-> FALSE, text |-> SubSeq(b, m + 1, Len(b))]
    BY <1>2 DEF DiffAppend, m
  <2>6. Joins(a, b, m, SubSeq(b, m + 1, Len(b)))
    BY <2>2 DEF Joins
  <2>. QED BY <1>2, <2>4, <2>5, <2>6 DEF Chunks
<1>. QED BY <1>1, <1>2

(* A poll that sends nothing has found an empty log after an empty log, or no    *)
(* new line: what ends with the old tail ends with the new one.            *)
LEMMA NothingSent ==
  ASSUME NEW a \in Spans, NEW b \in Spans, NEW x \in Spans,
         Emitted(a, DiffAppend(a, b)) = <<>>, Ends(a, x)
  PROVE  Ends(b, x)
<1> DEFINE c == DiffAppend(a, b)
<1>1. c \in Chunks /\ (c.reset => c.text = b)
      /\ (~c.reset => a # <<>> /\ \E k : Joins(a, b, k, c.text))
  BY DiffLinks
<1>2. c.text = <<>> /\ (~c.reset \/ a = <<>>)
  BY DEF Emitted
<1>. HIDE DEF c
<1>3. CASE c.reset
  <2>1. b = <<>> /\ Len(b) = 0
    BY <1>1, <1>2, <1>3
  <2>2. Len(x) \in Nat
    BY LenProperties DEF Spans
  <2>. QED BY <2>1, <2>2 DEF Ends
<1>4. CASE ~c.reset
  <2>1. PICK k : Joins(a, b, k, <<>>)
    BY <1>1, <1>2, <1>4
  <2>2. Ends(b, x \o <<>>)
    BY <2>1, JoinedEnds
  <2>3. x \o <<>> = x
    BY ConcatEmptySeq DEF Spans
  <2>. QED BY <2>2, <2>3
<1>. QED BY <1>3, <1>4

LEMMA SomethingSent ==
  ASSUME NEW a \in Spans, NEW b \in Spans, Emitted(a, DiffAppend(a, b)) # <<>>
  PROVE  \E c \in Chunks : /\ Emitted(a, DiffAppend(a, b)) = <<c>>
                           /\ c.reset => c.text = b
                           /\ ~c.reset => \E k : Joins(a, b, k, c.text)
<1> DEFINE c == DiffAppend(a, b)
<1>1. c \in Chunks /\ (c.reset => c.text = b)
      /\ (~c.reset => a # <<>> /\ \E k : Joins(a, b, k, c.text))
  BY DiffLinks
<1>2. Emitted(a, c) = <<c>>
  BY DEF Emitted
<1>. HIDE DEF c
<1>. QED BY <1>1, <1>2 DEF c

LEMMA JoinsLonger ==
  ASSUME NEW a \in Spans, NEW b \in Spans, NEW x \in Spans, NEW k, NEW t,
         Joins(a, b, k, t), Ends(a, x)
  PROVE  Joins(x, b, k, t)
<1>1. Len(a) \in Nat /\ Len(b) \in Nat /\ Len(x) \in Nat
  BY LenProperties DEF Spans
<1>2. k \in 1..Len(b) /\ k <= Len(a) /\ LastLines(a, k) = SubSeq(b, 1, k)
      /\ t = SubSeq(b, k + 1, Len(b))
  BY DEF Joins
<1>3. Len(a) <= Len(x) /\ \A i \in 1..Len(a) : a[i] = x[Len(x) - Len(a) + i]
  BY DEF Ends
<1>4. k \in 0..Len(a) /\ k \in 0..Len(x)
  BY <1>1, <1>2, <1>3
<1>5. /\ LastLines(a, k) \in Spans /\ Len(LastLines(a, k)) = k
      /\ \A i \in 1..k : LastLines(a, k)[i] = a[Len(a) - k + i]
      /\ LastLines(x, k) \in Spans /\ Len(LastLines(x, k)) = k
      /\ \A i \in 1..k : LastLines(x, k)[i] = x[Len(x) - k + i]
  BY <1>4, LastLinesOf
<1>6. ASSUME NEW i \in 1..k PROVE LastLines(a, k)[i] = LastLines(x, k)[i]
  <2>1. Len(a) - k + i \in 1..Len(a)
        /\ Len(x) - Len(a) + (Len(a) - k + i) = Len(x) - k + i
    BY <1>1, <1>4
  <2>. QED BY <1>3, <1>5, <2>1
<1>7. LastLines(a, k) = LastLines(x, k)
  BY <1>5, <1>6, SeqEqual DEF Spans
<1>. QED BY <1>1, <1>2, <1>3, <1>7 DEF Joins

LEMMA PartOfMore ==
  ASSUME NEW h \in Spans, NEW l \in Lines, NEW x \in Spans, Part(x, h)
  PROVE  Part(x, Append(h, l))
<1>1. /\ Len(h) \in Nat /\ Len(x) \in Nat /\ Len(Append(h, l)) = Len(h) + 1
      /\ \A i \in 1..Len(h) : Append(h, l)[i] = h[i]
  BY LenProperties DEF Spans
<1>2. PICK d \in Nat : d + Len(x) <= Len(h) /\ \A i \in 1..Len(x) : x[i] = h[d + i]
  BY DEF Part
<1>3. \A i \in 1..Len(x) : d + i \in 1..Len(h)
  BY <1>1, <1>2
<1>4. \A i \in 1..Len(x) : x[i] = Append(h, l)[d + i]
  BY <1>1, <1>2, <1>3
<1>5. d + Len(x) <= Len(Append(h, l))
  BY <1>1, <1>2
<1>. QED BY <1>4, <1>5 DEF Part

LEMMA EndIsPart ==
  ASSUME NEW a \in Spans, NEW h \in Spans, Ends(a, h)
  PROVE  Part(a, h)
<1>1. Len(a) \in Nat /\ Len(h) \in Nat
  BY LenProperties DEF Spans
<1>2. Len(h) - Len(a) \in Nat /\ (Len(h) - Len(a)) + Len(a) <= Len(h)
  BY <1>1 DEF Ends
<1>. QED BY <1>2 DEF Ends, Part

LEMMA EmptyEnds ==
  ASSUME NEW x \in Spans PROVE Ends(<<>>, x) /\ Ends(x, x) /\ <<>> \in Spans
<1>1. Len(x) \in Nat /\ Len(<<>>) = 0 /\ <<>> \in Spans
  BY LenProperties, EmptySeq DEF Spans
<1>2. \A i \in 1..Len(x) : Len(x) - Len(x) + i = i
  BY <1>1
<1>. QED BY <1>1, <1>2 DEF Ends

LEMMA AppendEnds ==
  ASSUME NEW a \in Spans, NEW h \in Spans, NEW l \in Lines, Ends(a, h)
  PROVE  Ends(Append(a, l), Append(h, l)) /\ Append(a, l) \in Spans
    /\ Append(h, l) \in Spans
<1>1. /\ Len(a) \in Nat /\ Len(h) \in Nat
      /\ Len(Append(h, l)) = Len(h) + 1 /\ Len(Append(a, l)) = Len(a) + 1
      /\ \A i \in 1..Len(h) : Append(h, l)[i] = h[i]
      /\ \A i \in 1..Len(a) : Append(a, l)[i] = a[i]
      /\ Append(h, l)[Len(h) + 1] = l /\ Append(a, l)[Len(a) + 1] = l
      /\ Append(a, l) \in Spans /\ Append(h, l) \in Spans
  BY LenProperties DEF Spans
<1>2. Len(a) <= Len(h) /\ \A i \in 1..Len(a) : a[i] = h[Len(h) - Len(a) + i]
  BY DEF Ends
<1>3. ASSUME NEW i \in 1..Len(Append(a, l))
      PROVE  Append(a, l)[i] = Append(h, l)[Len(Append(h, l)) - Len(Append(a, l)) + i]
  <2>1. Len(Append(h, l)) - Len(Append(a, l)) + i = Len(h) - Len(a) + i
    BY <1>1
  <2>2. CASE i = Len(a) + 1
    <3>1. Len(h) - Len(a) + i = Len(h) + 1
      BY <1>1, <2>2
    <3>. QED BY <1>1, <2>1, <2>2, <3>1
  <2>3. CASE i # Len(a) + 1
    <3>1. i \in 1..Len(a) /\ Len(h) - Len(a) + i \in 1..Len(h)
      BY <1>1, <1>2, <2>3
    <3>. QED BY <1>1, <1>2, <2>1, <3>1
  <2>. QED BY <2>2, <2>3
<1>4. Len(Append(a, l)) <= Len(Append(h, l))
  BY <1>1, <1>2
<1>. QED BY <1>1, <1>3, <1>4 DEF Ends

LEMMA InjectiveBefore ==
  ASSUME NEW h \in Spans, NEW l \in Lines, IsInjective(Append(h, l))
  PROVE  IsInjective(h)
<1>1. /\ Len(h) \in Nat /\ Len(Append(h, l)) = Len(h) + 1
      /\ \A i \in 1..Len(h) : Append(h, l)[i] = h[i]
      /\ DOMAIN h = 1..Len(h) /\ DOMAIN Append(h, l) = 1..Len(Append(h, l))
  BY LenProperties DEF Spans
<1>2. \A i, j \in 1..Len(Append(h, l)) : Append(h, l)[i] = Append(h, l)[j] => i = j
  BY <1>1 DEF IsInjective
<1>3. ASSUME NEW i \in 1..Len(h), NEW j \in 1..Len(h), h[i] = h[j] PROVE i = j
  <2>1. i \in 1..Len(Append(h, l)) /\ j \in 1..Len(Append(h, l))
    BY <1>1
  <2>2. Append(h, l)[i] = Append(h, l)[j]
    BY <1>1, <1>3
  <2>. QED BY <1>2, <2>1, <2>2
<1>. QED BY <1>1, <1>3 DEF IsInjective

(* The chunks w on their way to the view lead from a text the view has to one    *)
(* that ends with the last tail t, through parts of what was written; f says     *)
(* that the view x is to end with the first of them.                       *)
Chain(w, t, h, f, x) ==
  \E p \in [0..Len(w) -> Spans] :
    /\ \A j \in 0..Len(w) : Part(p[j], h)
    /\ Ends(t, p[Len(w)])
    /\ \A j \in 1..Len(w) : Link(w[j], p[j - 1], p[j])
    /\ f => Ends(p[0], x)

LEMMA ChainGrows ==
  ASSUME NEW w \in Seq(Chunks), NEW t, NEW h \in Spans, NEW f, NEW x, NEW l \in Lines,
         Chain(w, t, h, f, x)
  PROVE  Chain(w, t, Append(h, l), f, x)
<1>1. PICK p \in [0..Len(w) -> Spans] :
        /\ \A j \in 0..Len(w) : Part(p[j], h)
        /\ Ends(t, p[Len(w)])
        /\ \A j \in 1..Len(w) : Link(w[j], p[j - 1], p[j])
        /\ f => Ends(p[0], x)
  BY DEF Chain
<1>2. \A j \in 0..Len(w) : Part(p[j], Append(h, l))
  BY <1>1, PartOfMore
<1>. QED BY <1>1, <1>2 DEF Chain

LEMMA ChainWeakens ==
  ASSUME NEW w, NEW t, NEW h, NEW f, NEW x, NEW g, NEW y,
         Chain(w, t, h, f, x), g => f /\ x = y
  PROVE  Chain(w, t, h, g, y)
BY DEF Chain

LEMMA ChainHead ==
  ASSUME NEW w \in Seq(Chunks), w # <<>>, NEW t, NEW h, NEW f, NEW x,
         Chain(w, t, h, f, x)
  PROVE  \E a, b \in Spans : Part(b, h) /\ Link(Head(w), a, b) /\ (f => Ends(a, x))
<1>1. PICK p \in [0..Len(w) -> Spans] :
        /\ \A j \in 0..Len(w) : Part(p[j], h)
        /\ \A j \in 1..Len(w) : Link(w[j], p[j - 1], p[j])
        /\ f => Ends(p[0], x)
  BY DEF Chain
<1>2. Len(w) \in Nat /\ Len(w) # 0 /\ Head(w) = w[1]
  BY EmptySeq, LenProperties
<1>3. 1 \in 1..Len(w) /\ 1 - 1 = 0 /\ 0 \in 0..Len(w) /\ 1 \in 0..Len(w)
  BY <1>2
<1>4. Link(Head(w), p[0], p[1])
  BY <1>1, <1>2, <1>3
<1>. QED BY <1>1, <1>3, <1>4

LEMMA ChainExtends ==
  ASSUME NEW w \in Seq(Chunks), NEW t, NEW h, NEW f, NEW x, Chain(w, t, h, f, x),
         NEW c \in Chunks, NEW u,
         \A q \in Spans : Part(q, h) /\ Ends(t, q) =>
            \E b \in Spans : Link(c, q, b) /\ Part(b, h) /\ Ends(u, b)
  PROVE  Chain(w \o <<c>>, u, h, f, x)
<1>1. PICK p \in [0..Len(w) -> Spans] :
        /\ \A j \in 0..Len(w) : Part(p[j], h)
        /\ Ends(t, p[Len(w)])
        /\ \A j \in 1..Len(w) : Link(w[j], p[j - 1], p[j])
        /\ f => Ends(p[0], x)
  BY DEF Chain
<1>2. Len(w) \in Nat
  BY LenProperties
<1>3. /\ Len(w \o <<c>>) = Len(w) + 1 /\ (w \o <<c>>)[Len(w) + 1] = c
      /\ \A j \in 1..Len(w) : (w \o <<c>>)[j] = w[j]
  <2>1. <<c>> \in Seq(Chunks) /\ Len(<<c>>) = 1 /\ <<c>>[1] = c
    OBVIOUS
  <2>. QED BY <1>2, <2>1, ConcatProperties
<1>4. PICK b \in Spans : Link(c, p[Len(w)], b) /\ Part(b, h) /\ Ends(u, b)
  BY <1>1, <1>2
<1> DEFINE q == [j \in 0..(Len(w) + 1) |-> IF j <= Len(w) THEN p[j] ELSE b]
<1>5. /\ q \in [0..Len(w \o <<c>>) -> Spans] /\ q[Len(w) + 1] = b
      /\ \A j \in 0..Len(w) : q[j] = p[j]
  BY <1>2, <1>3
<1>. HIDE DEF q
<1>6. \A j \in 0..Len(w \o <<c>>) : Part(q[j], h)
  <2>1. ASSUME NEW j \in 0..Len(w \o <<c>>) PROVE j \in 0..Len(w) \/ j = Len(w) + 1
    BY <1>2, <1>3
  <2>. QED BY <1>1, <1>4, <1>5, <2>1
<1>7. ASSUME NEW j \in 1..Len(w \o <<c>>) PROVE Link((w \o <<c>>)[j], q[j - 1], q[j])
  <2>1. CASE j = Len(w) + 1
    <3>1. j - 1 = Len(w) /\ j - 1 \in 0..Len(w)
      BY <1>2, <2>1
    <3>. QED BY <1>3, <1>4, <1>5, <2>1, <3>1
  <2>2. CASE j # Len(w) + 1
    <3>1. j \in 1..Len(w) /\ j \in 0..Len(w) /\ j - 1 \in 0..Len(w)
      BY <1>2, <1>3, <2>2
    <3>. QED BY <1>1, <1>3, <1>5, <3>1
  <2>. QED BY <2>1, <2>2
<1>8. q[Len(w \o <<c>>)] = b /\ q[0] = p[0]
  BY <1>2, <1>3, <1>5
<1>. QED BY <1>1, <1>4, <1>5, <1>6, <1>7, <1>8 DEF Chain

(* The view takes the first chunk.                                         *)
LEMMA ChainFirst ==
  ASSUME NEW w \in Seq(Chunks), w # <<>>, NEW t, NEW h, NEW f, NEW x,
         Chain(w, t, h, f, x), NEW g, NEW y,
         \A a, b \in Spans : Part(b, h) /\ Link(Head(w), a, b) /\ (f => Ends(a, x))
            => (g => Ends(b, y))
  PROVE  Chain(Tail(w), t, h, g, y)
<1>1. PICK p \in [0..Len(w) -> Spans] :
        /\ \A j \in 0..Len(w) : Part(p[j], h)
        /\ Ends(t, p[Len(w)])
        /\ \A j \in 1..Len(w) : Link(w[j], p[j - 1], p[j])
        /\ f => Ends(p[0], x)
  BY DEF Chain
<1>2. /\ Len(w) \in Nat /\ Len(w) >= 1 /\ Head(w) = w[1]
      /\ Len(Tail(w)) = Len(w) - 1 /\ \A j \in 1..Len(Tail(w)) : Tail(w)[j] = w[j + 1]
  <2>1. Len(w) \in Nat /\ Len(w) # 0 /\ Head(w) = w[1]
    BY EmptySeq, LenProperties
  <2>. QED BY <2>1, HeadTailProperties
<1> DEFINE q == [j \in 0..(Len(w) - 1) |-> p[j + 1]]
<1>3. \A j \in 0..(Len(w) - 1) : j + 1 \in 0..Len(w) /\ j + 1 \in 1..Len(w)
  BY <1>2
<1>4. q \in [0..Len(Tail(w)) -> Spans] /\ \A j \in 0..Len(Tail(w)) : q[j] = p[j + 1]
  BY <1>2, <1>3
<1>. HIDE DEF q
<1>5. \A j \in 0..Len(Tail(w)) : Part(q[j], h)
  BY <1>1, <1>2, <1>3, <1>4
<1>6. Ends(t, q[Len(Tail(w))])
  <2>1. Len(Tail(w)) \in 0..Len(Tail(w)) /\ Len(Tail(w)) + 1 = Len(w)
    BY <1>2
  <2>. QED BY <1>1, <1>4, <2>1
<1>7. ASSUME NEW j \in 1..Len(Tail(w)) PROVE Link(Tail(w)[j], q[j - 1], q[j])
  <2>1. /\ j + 1 \in 1..Len(w) /\ j - 1 \in 0..Len(Tail(w)) /\ j \in 0..Len(Tail(w))
        /\ (j - 1) + 1 = (j + 1) - 1
    BY <1>2
  <2>2. Link(w[j + 1], p[(j + 1) - 1], p[j + 1])
    BY <1>1, <2>1
  <2>. QED BY <1>2, <1>4, <2>1, <2>2
<1>8. g => Ends(q[0], y)
  <2>1. 1 \in 1..Len(w) /\ 1 - 1 = 0 /\ 0 \in 0..Len(w) /\ 1 \in 0..Len(w)
        /\ 0 \in 0..Len(Tail(w)) /\ 0 + 1 = 1
    BY <1>2
  <2>2. Link(Head(w), p[0], p[1]) /\ Part(p[1], h) /\ p[0] \in Spans /\ p[1] \in Spans
    BY <1>1, <1>2, <2>1
  <2>3. q[0] = p[1]
    BY <1>4, <2>1
  <2>. QED BY <1>1, <2>2, <2>3
<1>. QED BY <1>4, <1>5, <1>6, <1>7, <1>8 DEF Chain

(* The variables' types, with what the bounds say of the lengths.          *)
LogTypes ==
  /\ history \in Spans /\ Len(history) <= MaxWrites
  /\ log \in Spans /\ Ends(log, history)
  /\ follower \in [Streams -> {"none", "running", "cancelled", "ended"}]
  /\ view \in [Streams -> {"none", "asked", "abandoned", "followed", "left"}]
  /\ prev \in [Streams -> Spans] /\ \A s \in Streams : Len(prev[s]) <= TailCount
  /\ wire \in [Streams -> Seq(Chunks)] /\ \A s \in Streams : Len(wire[s]) <= MaxChunks
  /\ shown \in Spans /\ synced \in BOOLEAN

(* One stream is followed at a time, and the view has no text of it yet while    *)
(* it waits for the stream's id.                                           *)
OneView ==
  /\ \A r, s \in Streams : Following(r) /\ Following(s) => r = s
  /\ \A s \in Streams : view[s] = "asked" => ~synced

(* The chunks of every stream continue the view's text, as long as it is   *)
(* synced; and a synced view of a log without repeated lines has no gap.   *)
Showing(s) == view[s] = "followed" /\ synced
WireInv == \A s \in Streams : Chain(wire[s], prev[s], history, Showing(s), shown)
ShownInv == synced /\ IsInjective(history) => Part(shown, history)

LogInv == LogTypes /\ OneView /\ WireInv /\ ShownInv /\ LeftIsStopped

LEMMA WindowOf ==
  ASSUME LogAssumption, log \in Spans, history \in Spans, Ends(log, history)
  PROVE  /\ TakeLineWindow \in Spans /\ Len(TakeLineWindow) <= TailCount
         /\ Ends(TakeLineWindow, log) /\ Part(TakeLineWindow, history)
<1> DEFINE n == IF Len(log) < TailCount THEN Len(log) ELSE TailCount
<1>1. Len(log) \in Nat /\ Len(history) \in Nat /\ TailCount \in Nat
  BY LenProperties, LogAssumption DEF Spans
<1>2. n \in 0..Len(log) /\ n <= TailCount
  BY <1>1
<1>. HIDE DEF n
<1>3. /\ LastLines(log, n) \in Spans /\ Len(LastLines(log, n)) = n
      /\ \A i \in 1..n : LastLines(log, n)[i] = log[Len(log) - n + i]
  BY <1>2, LastLinesOf
<1>4. Ends(LastLines(log, n), log)
  BY <1>1, <1>2, <1>3 DEF Ends
<1>5. Part(LastLines(log, n), history)
  BY <1>3, <1>4, EndsTransitive, EndIsPart
<1>6. TakeLineWindow = LastLines(log, n)
  BY DEF TakeLineWindow, n
<1>. QED BY <1>2, <1>3, <1>4, <1>5, <1>6

LEMMA LogInitInv == LogAssumption /\ LogInit => LogInv
<1>. SUFFICES ASSUME LogAssumption, LogInit PROVE LogInv
  OBVIOUS
<1>1. <<>> \in Spans /\ <<>> \in Seq(Chunks) /\ Len(<<>>) = 0 /\ Ends(<<>>, <<>>)
      /\ Part(<<>>, <<>>)
  BY EmptySeq, EmptyEnds, EndIsPart DEF Spans
<1>2. LogTypes
  <2>1. /\ prev \in [Streams -> Spans] /\ wire \in [Streams -> Seq(Chunks)]
        /\ follower \in [Streams -> {"none", "running", "cancelled", "ended"}]
        /\ view \in [Streams -> {"none", "asked", "abandoned", "followed", "left"}]
    BY <1>1 DEF LogInit
  <2>2. \A s \in Streams : prev[s] = <<>> /\ wire[s] = <<>>
    BY DEF LogInit
  <2>3. 0 <= MaxWrites /\ 0 <= TailCount /\ 0 <= MaxChunks
    BY DEF LogAssumption
  <2>4. \A s \in Streams : Len(prev[s]) <= TailCount /\ Len(wire[s]) <= MaxChunks
    BY <1>1, <2>2, <2>3
  <2>. QED BY <1>1, <2>1, <2>3, <2>4 DEF LogInit, LogTypes
<1>3. OneView /\ ShownInv /\ LeftIsStopped
  BY DEF LogInit, OneView, ShownInv, LeftIsStopped, Following
<1>4. ASSUME NEW s \in Streams PROVE Chain(wire[s], prev[s], history, Showing(s), shown)
  <2> DEFINE p == [j \in 0..0 |-> <<>>]
  <2>1. wire[s] = <<>> /\ prev[s] = <<>> /\ history = <<>> /\ ~Showing(s)
    BY DEF LogInit, Showing
  <2>2. p \in [0..Len(<<>>) -> Spans] /\ (\A j \in 0..Len(<<>>) : p[j] = <<>>)
          /\ p[Len(<<>>)] = <<>>
    BY <1>1
  <2>. HIDE DEF p
  <2>3. \A j \in 1..Len(<<>>) : FALSE
    BY <1>1
  <2>. QED BY <1>1, <2>1, <2>2, <2>3 DEF Chain
<1>. QED BY <1>2, <1>3, <1>4 DEF LogInv, WireInv

LEMMA WriteKeeps ==
  ASSUME LogInv, NEW l \in Lines, WriteLine(l) PROVE LogInv'
<1>. USE DEF LogInv
<1>1. /\ Len(history) < MaxWrites /\ log' = Append(log, l) /\ history' = Append(history, l)
      /\ UNCHANGED <<follower, prev, wire, view, shown, synced>>
  BY DEF WriteLine, streamVars, viewVars
<1>2. /\ log \in Spans /\ history \in Spans /\ Ends(log, history) /\ Len(history) \in Nat
      /\ shown \in Spans /\ \A s \in Streams : wire[s] \in Seq(Chunks)
  BY LenProperties DEF LogTypes, Spans
<1>3. Ends(log', history') /\ log' \in Spans /\ history' \in Spans
  BY <1>1, <1>2, AppendEnds
<1>4. Len(history') = Len(history) + 1
  BY <1>1, <1>2 DEF Spans
<1>5. LogTypes'
  <2>1. Len(history') <= MaxWrites
    BY <1>1, <1>2, <1>4, LogAssumption DEF LogAssumption
  <2>. QED BY <1>1, <1>3, <2>1 DEF LogTypes
<1>6. OneView' /\ LeftIsStopped'
  BY <1>1 DEF OneView, LeftIsStopped, Following
<1>7. WireInv'
  <2>. SUFFICES ASSUME NEW s \in Streams
                PROVE  Chain(wire'[s], prev'[s], history', Showing(s)', shown')
    BY DEF WireInv
  <2>1. Chain(wire[s], prev[s], history, Showing(s), shown)
    BY DEF WireInv
  <2>2. Chain(wire[s], prev[s], Append(history, l), Showing(s), shown)
    BY <1>2, <2>1, ChainGrows
  <2>3. Showing(s)' = Showing(s)
    BY <1>1 DEF Showing
  <2>. QED BY <1>1, <2>2, <2>3
<1>8. ShownInv'
  BY <1>1, <1>2, InjectiveBefore, PartOfMore DEF ShownInv
<1>. QED BY <1>5, <1>6, <1>7, <1>8

LEMMA RotateKeeps ==
  ASSUME LogInv, RotateLog PROVE LogInv'
<1>1. log' = <<>> /\ UNCHANGED <<history, follower, prev, wire, view, shown, synced>>
  BY DEF RotateLog, streamVars, viewVars
<1>2. history \in Spans
  BY DEF LogInv, LogTypes
<1>3. log' \in Spans /\ Ends(log', history)
  BY <1>1, <1>2, EmptyEnds
<1>4. LogTypes'
  BY <1>1, <1>3 DEF LogInv, LogTypes
<1>5. OneView' /\ LeftIsStopped' /\ WireInv' /\ ShownInv'
  BY <1>1 DEF LogInv, OneView, LeftIsStopped, Following, WireInv, ShownInv, Showing
<1>. QED BY <1>4, <1>5 DEF LogInv

(* Chunks that a follower sends: the other streams and the view are as before.   *)
LEMMA SendKeeps ==
  ASSUME LogInv, NEW s \in Streams, NEW chunks \in Seq(Chunks), NEW t \in Spans,
         Len(t) <= TailCount, Send(s, chunks), prev' = [prev EXCEPT ![s] = t],
         UNCHANGED <<log, history, view, shown, synced>>,
         follower' \in [Streams -> {"none", "running", "cancelled", "ended"}],
         \A r \in Streams : follower[r] \in {"cancelled", "ended"}
            => follower'[r] \in {"cancelled", "ended"},
         Chain(wire[s] \o chunks, t, history, Showing(s), shown)
  PROVE  LogInv'
<1>1. /\ wire \in [Streams -> Seq(Chunks)] /\ prev \in [Streams -> Spans]
      /\ \A r \in Streams : Len(wire[r]) \in Nat
  BY LenProperties DEF LogInv, LogTypes
<1>2. /\ wire[s] \o chunks \in Seq(Chunks)
      /\ Len(wire[s] \o chunks) = Len(wire[s]) + Len(chunks)
  BY <1>1, ConcatProperties
<1>3. /\ wire' \in [Streams -> Seq(Chunks)] /\ wire'[s] = wire[s] \o chunks
      /\ \A r \in Streams \ {s} : wire'[r] = wire[r]
  BY <1>1, <1>2 DEF Send
<1>4. /\ prev' \in [Streams -> Spans] /\ prev'[s] = t
      /\ \A r \in Streams \ {s} : prev'[r] = prev[r]
  BY <1>1
<1>5. \A r \in Streams : Len(prev'[r]) <= TailCount /\ Len(wire'[r]) <= MaxChunks
  BY <1>2, <1>3, <1>4 DEF LogInv, LogTypes, Send
<1>6. LogTypes'
  BY <1>3, <1>4, <1>5 DEF LogInv, LogTypes
<1>7. OneView' /\ ShownInv' /\ LeftIsStopped'
  BY DEF LogInv, OneView, ShownInv, LeftIsStopped, Following
<1>8. WireInv'
  <2>. SUFFICES ASSUME NEW r \in Streams
                PROVE  Chain(wire'[r], prev'[r], history', Showing(r)', shown')
    BY DEF WireInv
  <2>1. Showing(r)' = Showing(r)
    BY DEF Showing
  <2>2. Chain(wire[r], prev[r], history, Showing(r), shown)
    BY DEF LogInv, WireInv
  <2>3. CASE r = s
    BY <1>3, <1>4, <2>1, <2>3
  <2>4. CASE r # s
    BY <1>3, <1>4, <2>1, <2>2, <2>4
  <2>. QED BY <2>3, <2>4
<1>. QED BY <1>6, <1>7, <1>8 DEF LogInv

LEMMA PollKeeps ==
  ASSUME LogInv, NEW s \in Streams, Poll(s) PROVE LogInv'
<1> DEFINE t == TakeLineWindow
           a == prev[s]
           chunks == Emitted(a, DiffAppend(a, t))
<1>1. /\ Send(s, chunks) /\ prev' = [prev EXCEPT ![s] = t]
      /\ UNCHANGED <<log, history, follower, view, shown, synced>>
  BY DEF Poll, viewVars
<1>2. t \in Spans /\ Len(t) <= TailCount /\ Part(t, history)
  BY WindowOf, LogAssumption DEF LogInv, LogTypes
<1>3. a \in Spans /\ wire[s] \in Seq(Chunks)
  BY DEF LogInv, LogTypes
<1>4. Chain(wire[s], a, history, Showing(s), shown)
  BY DEF LogInv, WireInv
<1>. HIDE DEF a, t
<1>5. CASE chunks = <<>>
  <2>1. wire[s] \o chunks = wire[s] /\ chunks \in Seq(Chunks)
    BY <1>3, <1>5, ConcatEmptySeq, EmptySeq
  <2>2. \A q \in Spans : Ends(a, q) => Ends(t, q)
    BY <1>2, <1>3, <1>5, NothingSent
  <2>3. Chain(wire[s], t, history, Showing(s), shown)
    <3>1. Len(wire[s]) \in Nat
      BY <1>3, LenProperties
    <3>. QED BY <1>4, <2>2, <3>1 DEF Chain
  <2>. QED BY <1>1, <1>2, <2>1, <2>3, SendKeeps DEF LogInv, LogTypes, a
<1>6. CASE chunks # <<>>
  <2>1. PICK c \in Chunks : /\ chunks = <<c>> /\ (c.reset => c.text = t)
                            /\ ~c.reset => \E k : Joins(a, t, k, c.text)
    BY <1>2, <1>3, <1>6, SomethingSent
  <2>2. ASSUME NEW q \in Spans, Part(q, history), Ends(a, q)
        PROVE  \E b \in Spans : Link(c, q, b) /\ Part(b, history) /\ Ends(t, b)
    <3>1. Link(c, q, t)
      <4>1. CASE c.reset
        BY <2>1, <4>1 DEF Link
      <4>2. CASE ~c.reset
        <5>1. PICK k : Joins(a, t, k, c.text)
          BY <2>1, <4>2
        <5>2. Joins(q, t, k, c.text)
          BY <1>2, <1>3, <2>2, <5>1, JoinsLonger
        <5>. QED BY <4>2, <5>2 DEF Link
      <4>. QED BY <4>1, <4>2
    <3>. QED BY <1>2, <3>1, EmptyEnds
  <2>3. Chain(wire[s] \o <<c>>, t, history, Showing(s), shown)
    BY <1>3, <1>4, <2>2, ChainExtends
  <2>4. chunks \in Seq(Chunks) /\ chunks = <<c>>
    BY <2>1
  <2>. HIDE DEF chunks
  <2>. QED BY <1>1, <1>2, <2>3, <2>4, SendKeeps DEF LogInv, LogTypes
<1>. QED BY <1>5, <1>6

(* A chunk with an error has no line.                                      *)
LEMMA ErrorKeeps ==
  ASSUME LogInv, NEW s \in Streams, Send(s, <<ErrorChunk>>),
         UNCHANGED <<log, history, prev, view, shown, synced>>,
         follower' \in [Streams -> {"none", "running", "cancelled", "ended"}],
         \A r \in Streams : follower[r] \in {"cancelled", "ended"}
            => follower'[r] \in {"cancelled", "ended"}
  PROVE  LogInv'
<1>1. /\ wire[s] \in Seq(Chunks) /\ prev \in [Streams -> Spans] /\ prev[s] \in Spans
      /\ Len(prev[s]) <= TailCount
  BY DEF LogInv, LogTypes
<1>2. ErrorChunk \in Chunks /\ <<ErrorChunk>> \in Seq(Chunks)
      /\ ~ErrorChunk.reset /\ ErrorChunk.text = <<>>
  BY EmptySeq DEF ErrorChunk, Chunks, Spans
<1>3. ASSUME NEW q \in Spans, Part(q, history), Ends(prev[s], q)
      PROVE  \E b \in Spans : Link(ErrorChunk, q, b) /\ Part(b, history) /\ Ends(prev[s], b)
  BY <1>2, <1>3 DEF Link
<1>4. Chain(wire[s], prev[s], history, Showing(s), shown)
  BY DEF LogInv, WireInv
<1>5. Chain(wire[s] \o <<ErrorChunk>>, prev[s], history, Showing(s), shown)
  BY <1>1, <1>2, <1>3, <1>4, ChainExtends
<1>6. prev' = [prev EXCEPT ![s] = prev[s]]
  BY <1>1
<1>. QED BY <1>1, <1>2, <1>5, <1>6, SendKeeps

LEMMA PollFailsKeeps ==
  ASSUME LogInv, NEW s \in Streams, PollFails(s) PROVE LogInv'
<1>1. /\ Send(s, <<ErrorChunk>>) /\ UNCHANGED <<log, history, prev, view, shown, synced>>
      /\ follower' = follower
  BY DEF PollFails, viewVars
<1>. QED BY <1>1, ErrorKeeps DEF LogInv, LogTypes

LEMMA FollowerEndsKeeps ==
  ASSUME LogInv, NEW s \in Streams, FollowerEnds(s) PROVE LogInv'
<1>1. /\ follower' = [follower EXCEPT ![s] = "ended"]
      /\ UNCHANGED <<log, history, prev, view, shown, synced>>
  BY DEF FollowerEnds, viewVars
<1>2. /\ follower' \in [Streams -> {"none", "running", "cancelled", "ended"}]
      /\ \A r \in Streams : follower[r] \in {"cancelled", "ended"}
            => follower'[r] \in {"cancelled", "ended"}
  BY <1>1 DEF LogInv, LogTypes
<1>3. CASE Send(s, <<ErrorChunk>>)
  BY <1>1, <1>2, <1>3, ErrorKeeps
<1>4. CASE Send(s, <<>>)
  <2>1. /\ wire[s] \in Seq(Chunks) /\ prev \in [Streams -> Spans] /\ prev[s] \in Spans
        /\ Len(prev[s]) <= TailCount
    BY DEF LogInv, LogTypes
  <2>2. prev' = [prev EXCEPT ![s] = prev[s]] /\ wire[s] \o <<>> = wire[s]
        /\ <<>> \in Seq(Chunks)
    BY <1>1, <2>1, ConcatEmptySeq, EmptySeq
  <2>3. Chain(wire[s] \o <<>>, prev[s], history, Showing(s), shown)
    BY <2>2 DEF LogInv, WireInv
  <2>. QED BY <1>1, <1>2, <1>4, <2>1, <2>2, <2>3, SendKeeps
<1>. QED BY <1>3, <1>4 DEF FollowerEnds

LEMMA FetchKeeps ==
  ASSUME LogInv, FetchTail PROVE LogInv'
<1>1. /\ shown' = TakeLineWindow /\ synced' = FALSE
      /\ UNCHANGED <<log, history, follower, prev, wire, view>>
  BY DEF FetchTail, streamVars
<1>2. shown' \in Spans
  BY <1>1, WindowOf, LogAssumption DEF LogInv, LogTypes
<1>3. LogTypes'
  BY <1>1, <1>2 DEF LogInv, LogTypes
<1>4. OneView' /\ ShownInv' /\ LeftIsStopped'
  BY <1>1 DEF LogInv, OneView, ShownInv, LeftIsStopped, Following
<1>5. WireInv'
  <2>. SUFFICES ASSUME NEW s \in Streams
                PROVE  Chain(wire[s], prev[s], history, Showing(s)', shown')
    BY <1>1 DEF WireInv
  <2>. QED BY <1>1, ChainWeakens DEF LogInv, WireInv, Showing
<1>. QED BY <1>3, <1>4, <1>5 DEF LogInv

(* What the user does with the view touches neither tails nor chunks.      *)
LEMMA ViewKeeps ==
  ASSUME LogInv, UNCHANGED <<log, history, prev, wire, shown>>,
         view' \in [Streams -> {"none", "asked", "abandoned", "followed", "left"}],
         follower' \in [Streams -> {"none", "running", "cancelled", "ended"}],
         synced' \in BOOLEAN, OneView', LeftIsStopped', synced' => synced,
         \A s \in Streams : Showing(s)' => Showing(s)
  PROVE  LogInv'
<1>1. LogTypes' /\ ShownInv'
  BY DEF LogInv, LogTypes, ShownInv
<1>2. WireInv'
  <2>. SUFFICES ASSUME NEW s \in Streams
                PROVE  Chain(wire[s], prev[s], history, Showing(s)', shown)
    BY DEF WireInv
  <2>. QED BY ChainWeakens DEF LogInv, WireInv
<1>. QED BY <1>1, <1>2 DEF LogInv

LEMMA StartKeeps ==
  ASSUME LogInv, NEW s \in Streams, StartFollow(s) PROVE LogInv'
<1>1. /\ view[s] = "none" /\ \A r \in Streams : ~Following(r)
      /\ view' = [view EXCEPT ![s] = "asked"]
      /\ follower' = [follower EXCEPT ![s] = "running"] /\ synced' = FALSE
      /\ UNCHANGED <<log, history, prev, wire, shown>>
  BY DEF StartFollow
<1>2. /\ view \in [Streams -> {"none", "asked", "abandoned", "followed", "left"}]
      /\ follower \in [Streams -> {"none", "running", "cancelled", "ended"}]
  BY DEF LogInv, LogTypes
<1>3. \A r \in Streams : Following(r)' => r = s
  BY <1>1, <1>2 DEF Following
<1>4. OneView' /\ LeftIsStopped'
  BY <1>1, <1>2, <1>3 DEF LogInv, OneView, LeftIsStopped
<1>. QED BY <1>1, <1>2, <1>4, ViewKeeps DEF Showing

LEMMA ResolvesKeeps ==
  ASSUME LogInv, NEW s \in Streams, StartResolves(s) PROVE LogInv'
<1>1. /\ \/ view[s] = "asked" /\ view' = [view EXCEPT ![s] = "followed"]
              /\ follower' = follower
         \/ /\ view[s] = "abandoned" /\ view' = [view EXCEPT ![s] = "left"]
            /\ follower' = [follower EXCEPT ![s] = "cancelled"]
      /\ UNCHANGED <<log, history, prev, wire, shown, synced>>
  BY DEF StartResolves, StopsBack
<1>2. /\ view \in [Streams -> {"none", "asked", "abandoned", "followed", "left"}]
      /\ follower \in [Streams -> {"none", "running", "cancelled", "ended"}]
      /\ synced \in BOOLEAN
  BY DEF LogInv, LogTypes
<1>3. \A r \in Streams : Following(r)' => Following(r)
  BY <1>1, <1>2 DEF Following
<1>4. OneView' /\ LeftIsStopped'
  BY <1>1, <1>2, <1>3 DEF LogInv, OneView, LeftIsStopped
<1>5. \A r \in Streams : Showing(r)' => Showing(r)
  BY <1>1, <1>2 DEF LogInv, OneView, Showing
<1>. QED BY <1>1, <1>2, <1>4, <1>5, ViewKeeps

LEMMA StopKeeps ==
  ASSUME LogInv, NEW s \in Streams, StopFollow(s) PROVE LogInv'
<1>1. /\ \/ view[s] = "asked" /\ view' = [view EXCEPT ![s] = "abandoned"]
              /\ follower' = follower
         \/ /\ view[s] = "followed" /\ view' = [view EXCEPT ![s] = "left"]
            /\ follower' = [follower EXCEPT ![s] = "cancelled"]
      /\ UNCHANGED <<log, history, prev, wire, shown, synced>>
  BY DEF StopFollow, StopsBack
<1>2. /\ view \in [Streams -> {"none", "asked", "abandoned", "followed", "left"}]
      /\ follower \in [Streams -> {"none", "running", "cancelled", "ended"}]
      /\ synced \in BOOLEAN
  BY DEF LogInv, LogTypes
<1>3. \A r \in Streams : Following(r)' => Following(r)
  BY <1>1, <1>2 DEF Following
<1>4. OneView' /\ LeftIsStopped'
  BY <1>1, <1>2, <1>3 DEF LogInv, OneView, LeftIsStopped
<1>5. \A r \in Streams : Showing(r)' => Showing(r)
  BY <1>1, <1>2 DEF Showing
<1>. QED BY <1>1, <1>2, <1>4, <1>5, ViewKeeps

LEMMA DeliverKeeps ==
  ASSUME LogInv, NEW s \in Streams, DeliverChunk(s) PROVE LogInv'
<1> DEFINE c == Head(wire[s])
<1>1. /\ wire[s] # <<>> /\ wire' = [wire EXCEPT ![s] = Tail(wire[s])]
      /\ view[s] # "followed" => UNCHANGED <<shown, synced>>
      /\ view[s] = "followed" => /\ shown' = IF c.reset THEN c.text ELSE shown \o c.text
                                 /\ synced' = (synced \/ c.reset)
      /\ UNCHANGED <<log, history, follower, prev, view>>
  BY DEF DeliverChunk
<1>2. /\ wire \in [Streams -> Seq(Chunks)] /\ wire[s] \in Seq(Chunks) /\ history \in Spans
      /\ shown \in Spans /\ synced \in BOOLEAN /\ prev \in [Streams -> Spans]
  BY DEF LogInv, LogTypes
<1>3. /\ c \in Chunks /\ Tail(wire[s]) \in Seq(Chunks)
      /\ Len(Tail(wire[s])) = Len(wire[s]) - 1 /\ Len(wire[s]) \in Nat
  BY <1>1, <1>2, HeadTailProperties, LenProperties
<1>4. /\ wire' \in [Streams -> Seq(Chunks)] /\ wire'[s] = Tail(wire[s])
      /\ \A r \in Streams \ {s} : wire'[r] = wire[r]
  BY <1>1, <1>2, <1>3
<1>5. c.reset \in BOOLEAN /\ c.text \in Spans
  BY <1>3 DEF Chunks
<1>6. Chain(wire[s], prev[s], history, Showing(s), shown)
  BY DEF LogInv, WireInv
<1>. HIDE DEF c
<1>7. shown' \in Spans /\ synced' \in BOOLEAN
  BY <1>1, <1>2, <1>5, ConcatLines
<1>8. \A r \in Streams : Len(wire'[r]) <= MaxChunks
  <2>1. MaxChunks \in Nat
    BY LogAssumption DEF LogAssumption
  <2>2. \A r \in Streams : Len(wire[r]) <= MaxChunks
    BY DEF LogInv, LogTypes
  <2>. QED BY <1>3, <1>4, <2>1, <2>2
<1>9. LogTypes' /\ LeftIsStopped'
  BY <1>1, <1>4, <1>7, <1>8 DEF LogInv, LogTypes, LeftIsStopped
<1>10. CASE view[s] # "followed"
  <2>1. UNCHANGED <<shown, synced, history, prev, view>> /\ ~Showing(s)
    BY <1>1, <1>10 DEF Showing
  <2>2. OneView' /\ ShownInv'
    BY <1>1, <2>1 DEF LogInv, OneView, ShownInv, Following
  <2>3. Chain(Tail(wire[s]), prev[s], history, Showing(s), shown)
    BY <1>1, <1>2, <1>6, <2>1, ChainFirst
  <2>4. WireInv'
    <3>. SUFFICES ASSUME NEW r \in Streams
                  PROVE  Chain(wire'[r], prev[r], history, Showing(r), shown)
      BY <2>1 DEF WireInv, Showing
    <3>1. CASE r = s
      BY <1>4, <2>3, <3>1
    <3>2. CASE r # s
      BY <1>4, <3>2 DEF LogInv, WireInv
    <3>. QED BY <3>1, <3>2
  <2>. QED BY <1>9, <2>2, <2>4 DEF LogInv
<1>11. CASE view[s] = "followed"
  <2>1. /\ shown' = IF c.reset THEN c.text ELSE shown \o c.text
        /\ synced' = (synced \/ c.reset) /\ UNCHANGED <<history, prev, view>>
        /\ Showing(s) = synced /\ Showing(s)' = synced'
    BY <1>1, <1>2, <1>7, <1>11 DEF Showing
  <2>2. \A r \in Streams \ {s} : ~Showing(r)' /\ view[r] # "asked"
    BY <1>1, <1>11 DEF LogInv, OneView, Following, Showing
  <2>3. OneView'
    BY <1>1, <1>11, <2>2 DEF LogInv, OneView, Following
  <2>4. ASSUME NEW a \in Spans, NEW b \in Spans, Part(b, history), Link(c, a, b),
               Showing(s) => Ends(a, shown)
        PROVE  /\ synced' => Ends(b, shown')
               /\ synced' /\ IsInjective(history) => Part(shown', history)
    <3>1. CASE c.reset
      <4>1. shown' = b
        BY <2>1, <2>4, <3>1 DEF Link
      <4>. QED BY <2>4, <4>1, EmptyEnds
    <3>2. CASE ~c.reset
      <4>1. shown' = shown \o c.text /\ synced' = synced
        BY <1>2, <2>1, <3>2
      <4>2. CASE synced
        <5>1. Ends(a, shown)
          BY <2>1, <2>4, <4>2
        <5>2. IsInjective(history) => Part(shown, history)
          BY <4>2 DEF LogInv, ShownInv
        <5>3. CASE c.text = <<>> /\ a = b
          <6>1. shown' = shown
            BY <1>2, <4>1, <5>3, ConcatEmptySeq DEF Spans
          <6>. QED BY <5>1, <5>2, <5>3, <6>1
        <5>4. CASE \E k : Joins(a, b, k, c.text)
          <6>1. PICK k : Joins(a, b, k, c.text)
            BY <5>4
          <6>2. Ends(b, shown \o c.text)
            BY <1>2, <5>1, <6>1, JoinedEnds
          <6>3. IsInjective(history) => Part(shown \o c.text, history)
            BY <1>2, <2>4, <5>1, <5>2, <6>1, JoinedParts
          <6>. QED BY <4>1, <6>2, <6>3
        <5>. QED BY <2>4, <3>2, <5>3, <5>4 DEF Link
      <4>. QED BY <4>1, <4>2
    <3>. QED BY <1>5, <3>1, <3>2
  <2>5. Chain(Tail(wire[s]), prev[s], history, synced', shown')
    BY <1>1, <1>2, <1>6, <2>4, ChainFirst DEF c
  <2>6. ShownInv'
    <3>1. PICK a \in Spans, b \in Spans :
            Part(b, history) /\ Link(c, a, b) /\ (Showing(s) => Ends(a, shown))
      BY <1>1, <1>2, <1>6, ChainHead DEF c
    <3>2. synced' /\ IsInjective(history) => Part(shown', history)
      BY <2>4, <3>1
    <3>. QED BY <2>1, <3>2 DEF ShownInv
  <2>7. WireInv'
    <3>. SUFFICES ASSUME NEW r \in Streams
                  PROVE  Chain(wire'[r], prev[r], history, Showing(r)', shown')
      BY <2>1 DEF WireInv
    <3>1. CASE r = s
      BY <1>4, <2>1, <2>5, <3>1
    <3>2. CASE r # s
      BY <1>4, <2>2, <3>2, ChainWeakens DEF LogInv, WireInv
    <3>. QED BY <3>1, <3>2
  <2>. QED BY <1>9, <2>3, <2>6, <2>7 DEF LogInv
<1>. QED BY <1>10, <1>11

LEMMA LogNextInv == LogAssumption /\ LogInv /\ [LogNext]_logVars => LogInv'
<1>. SUFFICES ASSUME LogInv, [LogNext]_logVars PROVE LogInv'
  OBVIOUS
<1>1. CASE UNCHANGED logVars
  BY <1>1 DEF logVars, LogInv, LogTypes, OneView, Following, WireInv, Showing, ShownInv,
              LeftIsStopped
<1>2. CASE LogNext
  BY <1>2, WriteKeeps, RotateKeeps, PollKeeps, PollFailsKeeps, FollowerEndsKeeps,
     FetchKeeps,
     StartKeeps, ResolvesKeeps, StopKeeps, DeliverKeeps DEF LogNext
<1>. QED BY <1>1, <1>2

LEMMA LogInvImplies == LogAssumption /\ LogInv => LogTypeOK /\ LogFollowSafe
<1>. SUFFICES ASSUME LogInv PROVE LogTypeOK /\ LogFollowSafe
  OBVIOUS
<1>. USE DEF LogInv
<1>1. \A x \in Spans : Range(x) \subseteq Lines
  BY LenProperties DEF Range, Spans
<1>2. LogTypeOK
  BY <1>1, SuffixIsEnd DEF LogTypes, LogTypeOK
<1>3. ASSUME NEW s \in Streams, view[s] = "followed", synced, wire[s] = <<>>
      PROVE  IsSuffix(prev[s], shown)
  <2>1. Len(wire[s]) = 0 /\ Showing(s) /\ prev[s] \in Spans /\ shown \in Spans
    BY <1>3, EmptySeq DEF LogTypes, Showing
  <2>2. Chain(wire[s], prev[s], history, Showing(s), shown)
    BY DEF WireInv
  <2>3. PICK p \in [0..0 -> Spans] : Ends(prev[s], p[0]) /\ Ends(p[0], shown)
    BY <2>1, <2>2 DEF Chain
  <2>. QED BY <2>1, <2>3, EndsTransitive, SuffixIsEnd
<1>4. ASSUME IsInjective(history), synced
      PROVE  \E i \in 1..(Len(history) + 1), j \in 0..Len(history) :
               shown = SubSeq(history, i, j)
  <2>1. /\ shown \in Spans /\ history \in Spans /\ Len(shown) \in Nat
             /\ Len(history) \in Nat
        /\ history \in [1..Len(history) -> Lines]
    BY LenProperties DEF LogTypes, Spans
  <2>2. PICK d \in Nat : /\ d + Len(shown) <= Len(history)
                         /\ \A i \in 1..Len(shown) : shown[i] = history[d + i]
    BY <1>4 DEF ShownInv, Part
  <2>3. d + 1 \in 1..(Len(history) + 1) /\ d + Len(shown) \in 0..Len(history)
    BY <2>1, <2>2
  <2> DEFINE w == SubSeq(history, d + 1, d + Len(shown))
  <2>4. \A i \in (d + 1)..(d + Len(shown)) : history[i] \in Lines
    BY <2>1, <2>2
  <2>5. /\ w \in Spans
        /\ Len(w) = IF d + 1 <= d + Len(shown) THEN d + Len(shown) - (d + 1) + 1 ELSE 0
        /\ \A i \in 1..(d + Len(shown) - (d + 1) + 1) : w[i] = history[(d + 1) + i - 1]
    BY <2>1, <2>2, <2>4, SubSeqProperties DEF Spans
  <2>. HIDE DEF w
  <2>6. Len(w) = Len(shown)
    BY <2>1, <2>5
  <2>7. ASSUME NEW i \in 1..Len(shown) PROVE w[i] = shown[i]
    <3>1. (d + 1) + i - 1 = d + i /\ i \in 1..(d + Len(shown) - (d + 1) + 1)
      BY <2>1
    <3>. QED BY <2>2, <2>5, <3>1
  <2>8. w = shown
    BY <2>1, <2>5, <2>6, <2>7, SeqEqual DEF Spans
  <2>. QED BY <2>3, <2>8 DEF w
<1>. QED BY <1>2, <1>3, <1>4 DEF LogFollowSafe, ViewEndsWithTail, NoGap

(* The invariant of the followed log holds in every reachable state.       *)
THEOREM LogInvariance == LogSpec => []LogInv
<1>. USE LogAssumption
<1>. QED BY LogInitInv, LogNextInv, PTL DEF LogSpec

(* Every variable of the followed log keeps its type (log_follow.go).      *)
THEOREM LogTypeCorrect == LogSpec => []LogTypeOK
BY LogInvariance, LogInvImplies, LogAssumption, PTL

(* A view that shows a log and has all its chunks ends with the tail its   *)
(* stream sent last; without repeated lines it has no gap; and a view that *)
(* was left has no follower, unless its stop came before its id.           *)
THEOREM LogIsSafe == LogSpec => []LogFollowSafe
BY LogInvariance, LogInvImplies, LogAssumption, PTL

-----------------------------------------------------------------------------
(* The tabs of the terminals.                                              *)

(* The handlers' records, as the types have them.                          *)
Busy(c) == closer[c] # NoCall

TabType == [st : {"unborn", "connecting", "failed", "ready", "gone"},
            id : 0..MaxSessions, panes : SUBSET Sessions]
CloserType == [pc : {"tabs", "pane"}, gone : SUBSET Tabs, list : [Tabs -> TabType],
               left : SUBSET Sessions, cut : SUBSET Sessions]
ReconnType == [pc : {"run"}, tab : Tabs, id : Sessions, old : SUBSET Sessions,
               left : SUBSET Sessions, got : SUBSET Sessions]
SplitType == [pc : {"run"}, tab : Tabs, id : Sessions, old : SUBSET Sessions]

TabTypes ==
  /\ sess \in [Sessions -> {"unused", "open", "closed"}]
  /\ tabs \in [Tabs -> TabType] /\ opens \in [Tabs -> 0..2]
  /\ reconn \in {NoCall} \cup ReconnType /\ split \in {NoCall} \cup SplitType
  /\ closer \in [Closers -> {NoCall} \cup CloserType]
  /\ restore \in [todo : 0..MaxStored, got : SUBSET Sessions, done : BOOLEAN]
  /\ excused \subseteq Sessions /\ stale \subseteq Tabs /\ begun \in 0..MaxHandlers

(* Only a tab that is ready has an id and panes.                           *)
Formed(tab) == (tab.st = "ready" => tab.id \in Sessions)
  /\ (tab.st # "ready" => tab.panes = {})
TabForms == \A t \in Tabs : /\ Formed(tabs[t])
                            /\ \A c \in Closers : Busy(c) => Formed(closer[c].list[t])

(* Session s has, had or may again have its pane in tab t.                 *)
Owns(t, s) ==
  \/ s \in tabs[t].panes
  \/ \E c \in Closers : Busy(c) /\ s \in closer[c].list[t].panes
  \/ split # NoCall /\ split.tab = t /\ s \in split.old
  \/ reconn # NoCall /\ reconn.tab = t /\ s \in reconn.old
Opened(s) == s \in restore.got \/ (reconn # NoCall /\ s \in reconn.got)

(* A session has one tab at most, and one that was opened for a tab to     *)
(* come has none yet.                                                      *)
OwnInv == \A s \in Sessions : \A t \in Tabs :
  Owns(t, s) => /\ sess[s] # "unused" /\ ~Opened(s)
                /\ \A u \in Tabs : Owns(u, s) => u = t
OpenedInv == \A s \in Sessions :
  Opened(s) => /\ sess[s] = "open"
               /\ ~(reconn # NoCall /\ s \in reconn.got /\ s \in restore.got)

(* The reconnect has closed the sessions it no longer has before it.       *)
ReconnInv ==
  reconn # NoCall =>
    /\ reconn.left \subseteq reconn.old
    /\ \A s \in reconn.old \ reconn.left : sess[s] = "closed"

(* What a closer closes; what it has closed already.                       *)
Doomed(c, s) ==
  IF closer[c].pc = "pane" THEN s \in closer[c].cut
  ELSE \E t \in closer[c].gone : s \in closer[c].list[t].panes
CloserInv == \A c \in Closers :
  Busy(c) =>
    /\ closer[c].gone # {} /\ \A s \in closer[c].left : Doomed(c, s)
    /\ \A s \in Sessions : Doomed(c, s) => s \in closer[c].left \/ sess[s] = "closed"
(* The close of a pane works on one tab, which it has read as ready.       *)
PaneInv == \A c \in Closers, t \in Tabs :
  Busy(c) /\ closer[c].pc = "pane" /\ t \in closer[c].gone =>
    /\ closer[c].gone = {t} /\ closer[c].list[t].st = "ready"
    /\ closer[c].cut \subseteq closer[c].list[t].panes
    /\ t \notin stale => tabs[t].st = "gone" \/ Has(t, closer[c].list[t].id)

(* A handler that has closed the session of a pane is to write the tab.    *)
Replaces(t, s) ==
  \/ reconn # NoCall /\ reconn.tab = t /\ s \in reconn.old
  \/ \E c \in Closers : Busy(c) /\ t \in closer[c].gone /\ Doomed(c, s)
LiveInv == \A t \in Tabs \ stale : \A s \in tabs[t].panes : sess[s] = "closed"
  => Replaces(t, s)

(* The invariant.                                                          *)
TabsInv == /\ TabTypes /\ TabForms /\ OwnInv /\ OpenedInv /\ ReconnInv /\ CloserInv
  /\ PaneInv
           /\ LiveInv /\ SessionsShown /\ ConnectingIsAwaited

(* The next id is that of a session nobody has opened.                     *)
LEMMA NewIs ==
  ASSUME Fresh # {} PROVE NewSession \in Sessions /\ sess[NewSession] = "unused"
<1>. DEFINE R == {p \in Nat \X Nat : p[1] < p[2]}
<1>1. IsWellFoundedOn(R, Nat)
  BY NatLessThanWellFounded DEF OpToRel
<1>2. Fresh \subseteq Nat
  BY TerminalTabsAssumption DEF Fresh, Sessions
<1>. HIDE DEF R
<1>3. PICK m \in Fresh : \A y \in Fresh : ~(<<y, m>> \in R)
  BY <1>1, <1>2, WFMin
<1>4. \A r \in Fresh : ~(r < m)
  BY <1>2, <1>3 DEF R
<1>5. \A r \in Fresh : m <= r
  BY <1>2, <1>4
<1>6. NewSession \in Fresh
  BY <1>5 DEF NewSession
<1>. QED BY <1>6 DEF Fresh

(* A handler that goes on still has its tab to write.                      *)
LEMMA ReplacesStays ==
  ASSUME NEW w, NEW r, Replaces(w, r),
         \A d \in Closers : Busy(d) =>
             /\ Busy(d)' /\ closer'[d].pc = closer[d].pc /\ closer'[d].gone = closer[d].gone
             /\ closer'[d].list = closer[d].list /\ closer'[d].cut = closer[d].cut,
         reconn # NoCall =>
             reconn' # NoCall /\ reconn'.tab = reconn.tab /\ reconn'.old = reconn.old
  PROVE  Replaces(w, r)'
BY DEF Replaces, Doomed

LEMMA DoomedHasTab ==
  ASSUME TabsInv, NEW c \in Closers, NEW s \in Sessions, Busy(c), Doomed(c, s)
  PROVE  \E w \in Tabs : Owns(w, s) /\ w \in closer[c].gone
<1>1. closer[c] \in CloserType
  BY DEF TabsInv, TabTypes, Busy
<1>2. CASE closer[c].pc = "pane"
  <2>1. \E w \in closer[c].gone : w \in Tabs /\ s \in closer[c].list[w].panes
    BY <1>1, <1>2 DEF TabsInv, PaneInv, CloserInv, Doomed, CloserType
  <2>. QED BY <2>1 DEF Owns
<1>3. CASE closer[c].pc # "pane"
  BY <1>1, <1>3 DEF Doomed, CloserType, Owns
<1>. QED BY <1>2, <1>3

LEMMA DoomedIsOwned ==
  ASSUME TabsInv, NEW c \in Closers, NEW s \in Sessions, CloserCloses(c, s),
         NEW w \in Tabs, s \in tabs[w].panes
  PROVE  w \in closer[c].gone /\ Doomed(c, s)
<1>1. Doomed(c, s) /\ Busy(c)
  BY DEF TabsInv, CloserInv, CloserCloses, Busy
<1>2. PICK u \in Tabs : Owns(u, s) /\ u \in closer[c].gone
  BY <1>1, DoomedHasTab
<1>3. u = w
  BY <1>2 DEF TabsInv, OwnInv, Owns
<1>. QED BY <1>1, <1>2, <1>3

LEMMA TabFields ==
  /\ Unborn \in TabType /\ Closed \in TabType
  /\ Unborn.st = "unborn" /\ Closed.st = "gone" /\ Unborn.panes = {} /\ Closed.panes = {}
  /\ \A s : LET t == Tab("ready", s, {s}) IN t.st = "ready" /\ t.id = s /\ t.panes = {s}
<1>1. 0 \in 0..MaxSessions
  BY TerminalTabsAssumption
<1>. QED BY <1>1 DEF Unborn, Closed, Tab, TabType

(* The list that the restore sets, tab by tab.                             *)
LEMMA RestoreSets ==
  ASSUME TabsInv, RestoreEnds
  PROVE  \/ restore.got = {} /\ tabs' = tabs /\ stale' = stale
         \/ /\ tabs' = [t \in Tabs |-> tabs'[t]] /\ Listed \subseteq stale'
            /\ stale \subseteq stale'
            /\ \A t \in Tabs :
                 \/ \E s \in restore.got : tabs[t] = Unborn
                      /\ tabs'[t] = Tab("ready", s, {s})
                 \/ tabs[t] = Unborn /\ tabs'[t] = Unborn
                 \/ tabs[t] # Unborn /\ tabs'[t] = Closed
            /\ \A t, u \in Tabs, s \in restore.got :
                 tabs'[t] = Tab("ready", s, {s}) /\ tabs'[u] = Tab("ready", s, {s}) => t = u
            /\ \A s \in restore.got : \E t \in Tabs : tabs'[t] = Tab("ready", s, {s})
            /\ LostByOverlap(Listed # {}, Shown(tabs), Listed)
<1>1. CASE restore.got = {}
  BY <1>1 DEF RestoreEnds
<1>2. CASE restore.got # {}
  <2>1. PICK place \in [restore.got -> {t \in Tabs : tabs[t] = Unborn}] :
          /\ \A r, s \in restore.got : place[r] = place[s] => r = s
          /\ tabs' = [t \in Tabs |->
               IF \E s \in restore.got : place[s] = t
                 THEN LET s == CHOOSE s \in restore.got : place[s] = t
                      IN  Tab("ready", s, {s})
                 ELSE IF tabs[t] = Unborn THEN Unborn ELSE Closed]
          /\ LostByOverlap(Listed # {}, Shown(tabs), Listed)
    BY <1>2 DEF RestoreEnds
  <2> DEFINE Of(t) == CHOOSE s \in restore.got : place[s] = t
  <2>2. \A t \in Tabs : (\E s \in restore.got : place[s] = t) =>
          Of(t) \in restore.got /\ place[Of(t)] = t /\ tabs[t] = Unborn
    BY <2>1
  <2>3. \A t \in Tabs : (\E s \in restore.got : place[s] = t) =>
          tabs'[t] = Tab("ready", Of(t), {Of(t)})
    BY <2>1
  <2>4. \A t \in Tabs : ~(\E s \in restore.got : place[s] = t) =>
          tabs'[t] = IF tabs[t] = Unborn THEN Unborn ELSE Closed
    BY <2>1
  <2>. HIDE DEF Of
  <2>5. ASSUME NEW t \in Tabs, NEW s \in restore.got, tabs'[t] = Tab("ready", s, {s})
        PROVE  place[s] = t
    <3>1. \E r \in restore.got : place[r] = t
      BY <2>4, <2>5 DEF Tab, Unborn, Closed
    <3>2. tabs'[t] = Tab("ready", Of(t), {Of(t)})
      BY <2>3, <3>1
    <3>3. Of(t) = s
      BY <2>5, <3>2, TabFields
    <3>. QED BY <2>2, <3>1, <3>3
  <2>6. Listed \subseteq stale' /\ stale \subseteq stale'
    BY <2>1 DEF LostByOverlap
  <2>7. ASSUME NEW t \in Tabs
        PROVE  \/ \E s \in restore.got : tabs[t] = Unborn /\ tabs'[t] = Tab("ready", s, {s})
               \/ tabs[t] = Unborn /\ tabs'[t] = Unborn
               \/ tabs[t] # Unborn /\ tabs'[t] = Closed
    BY <2>2, <2>3, <2>4
  <2>8. ASSUME NEW t \in Tabs, NEW u \in Tabs, NEW s \in restore.got,
               tabs'[t] = Tab("ready", s, {s}), tabs'[u] = Tab("ready", s, {s})
        PROVE  t = u
    BY <2>5, <2>8
  <2>9. tabs' = [t \in Tabs |-> tabs'[t]]
    BY <2>1
  <2>10. ASSUME NEW s \in restore.got PROVE \E t \in Tabs : tabs'[t] = Tab("ready", s, {s})
    <3>1. place[s] \in Tabs /\ Of(place[s]) \in restore.got
            /\ place[Of(place[s])] = place[s]
      BY <2>1, <2>2
    <3>2. Of(place[s]) = s
      BY <2>1, <3>1
    <3>. QED BY <2>3, <3>1, <3>2
  <2>. QED BY <2>1, <2>6, <2>7, <2>8, <2>9, <2>10
<1>. QED BY <1>1, <1>2

(* Each action keeps the invariant.                                        *)
LEMMA TabsConnect ==
  ASSUME TabsInv, NEW t \in Tabs, Connect(t)
  PROVE  TabsInv'
<1>1. TabTypes'
  BY DEF TabsInv, TabTypes, TabType, CloserType, ReconnType, SplitType, Connect, Tab, Unborn
<1>2. TabForms'
  BY DEF TabsInv, TabForms, Formed, Busy, Connect, Tab, Unborn
<1>3. OwnInv'
  BY DEF TabsInv, OwnInv, Owns, Opened, OpenedInv, Busy, Connect, Tab, Unborn
<1>4. OpenedInv'
  BY DEF TabsInv, OpenedInv, Opened, OwnInv, Owns, ReconnInv, Connect, Tab, Unborn
<1>5. ReconnInv'
  BY DEF TabsInv, ReconnInv, Connect, Tab, Unborn
<1>6. CloserInv'
  BY DEF TabsInv, CloserInv, Busy, Doomed, Connect, Tab, Unborn
<1>7. PaneInv'
  BY DEF TabsInv, PaneInv, Busy, Has, Connect, Tab, Unborn
<1>8. LiveInv'
  <2>. SUFFICES ASSUME NEW w \in Tabs, w \notin stale', NEW r \in tabs'[w].panes,
                       sess'[r] = "closed"
                PROVE  Replaces(w, r)'
    BY DEF LiveInv
  <2>1. w \notin stale /\ r \in tabs[w].panes /\ sess[r] = "closed"
    BY DEF Connect, Tab, Unborn
  <2>2. Replaces(w, r)
    BY <2>1 DEF TabsInv, LiveInv
  <2>3. /\ \A d \in Closers : Busy(d) =>
             /\ Busy(d)' /\ closer'[d].pc = closer[d].pc /\ closer'[d].gone = closer[d].gone
             /\ closer'[d].list = closer[d].list /\ closer'[d].cut = closer[d].cut
        /\ reconn # NoCall =>
             reconn' # NoCall /\ reconn'.tab = reconn.tab /\ reconn'.old = reconn.old
    BY DEF Busy, Connect, Tab, Unborn
  <2>. QED BY <2>2, <2>3, ReplacesStays
<1>9. SessionsShown'
  BY DEF TabsInv, SessionsShown, Held, Shown, ReconnInv, Connect, Tab, Unborn
<1>10. ConnectingIsAwaited'
  BY DEF TabsInv, ConnectingIsAwaited, TabTypes, TabType, Connect, Tab, Unborn
<1>. QED BY <1>1, <1>2, <1>3, <1>4, <1>5, <1>6, <1>7, <1>8, <1>9, <1>10 DEF TabsInv

LEMMA TabsRetry ==
  ASSUME TabsInv, NEW t \in Tabs, Retry(t)
  PROVE  TabsInv'
<1>1. TabTypes'
  BY NewIs, TerminalTabsAssumption DEF TabsInv, TabTypes, TabType, CloserType, ReconnType,
     SplitType, TabForms, Formed, Busy, Retry, Begin, NoCall
<1>2. TabForms'
  BY DEF TabsInv, TabForms, Formed, Busy, Retry, Begin
<1>3. OwnInv'
  BY DEF TabsInv, OwnInv, Owns, Opened, OpenedInv, Busy, Retry, Begin
<1>4. OpenedInv'
  BY DEF TabsInv, OpenedInv, Opened, OwnInv, Owns, ReconnInv, Retry, Begin
<1>5. ReconnInv'
  BY DEF TabsInv, ReconnInv, Retry, Begin
<1>6. CloserInv'
  BY DEF TabsInv, CloserInv, Busy, Doomed, Retry, Begin
<1>7. PaneInv'
  BY DEF TabsInv, PaneInv, Busy, Has, Retry, Begin, Has
<1>8. LiveInv'
  BY DEF TabsInv, LiveInv, Busy, OwnInv, OpenedInv, Opened, Owns, Replaces, Doomed, PaneInv,
     Retry, Begin
<1>9. SessionsShown'
  BY DEF TabsInv, SessionsShown, Held, Shown, ReconnInv, Retry, Begin
<1>10. ConnectingIsAwaited'
  BY DEF TabsInv, ConnectingIsAwaited, TabTypes, TabType, Retry, Begin
<1>. QED BY <1>1, <1>2, <1>3, <1>4, <1>5, <1>6, <1>7, <1>8, <1>9, <1>10 DEF TabsInv

LEMMA TabsOpenReturns ==
  ASSUME TabsInv, NEW t \in Tabs, OpenReturns(t)
  PROVE  TabsInv'
<1>1. TabTypes'
  <2>1. sess' \in [Sessions -> {"unused", "open", "closed"}]
    BY DEF TabsInv, TabTypes, TabType, CloserType, ReconnType, OpenReturns, OpenSess, Tab,
       Pending
  <2>2. tabs' \in [Tabs -> TabType]
    <3>1. Tab("ready", NewSession, {NewSession}) \in TabType
      BY NewIs DEF OpenReturns, OpenSess, TabType, Tab, Sessions
    <3>2. tabs \in [Tabs -> TabType]
      BY DEF TabsInv, TabTypes
    <3>. QED BY <3>1, <3>2 DEF OpenReturns
  <2>3. excused' \subseteq Sessions /\ stale' \subseteq Tabs
    BY NewIs DEF TabsInv, TabTypes, OpenReturns, OpenSess, LostByOverlap
  <2>4. opens' \in [Tabs -> 0..2]
    BY DEF TabsInv, TabTypes, OpenReturns
  <2>. QED BY <2>1, <2>2, <2>3, <2>4 DEF TabsInv, TabTypes, OpenReturns
<1>2. TabForms'
  BY NewIs DEF TabsInv, TabForms, Formed, Busy, OpenReturns, OpenSess, Tab, Pending
<1>3. OwnInv'
  BY NewIs DEF TabsInv, OwnInv, TabTypes, TabType, CloserType, ReconnType, SplitType, Owns,
     Opened, OpenedInv, Busy, OpenReturns, OpenSess, Tab, Pending
<1>4. OpenedInv'
  BY DEF TabsInv, OpenedInv, Opened, OwnInv, Owns, ReconnInv, OpenReturns, OpenSess, Tab,
     Pending
<1>5. ReconnInv'
  BY NewIs DEF TabsInv, ReconnInv, OpenReturns, OpenSess, Tab, Pending
<1>6. CloserInv'
  BY NewIs DEF TabsInv, CloserInv, Busy, Doomed, OpenReturns, OpenSess, Tab, Pending
<1>7. PaneInv'
  BY DEF TabsInv, PaneInv, Busy, Has, OpenReturns, LostByOverlap, Has, Tab, Pending
<1>8. LiveInv'
  <2>. SUFFICES ASSUME NEW w \in Tabs, w \notin stale', NEW r \in tabs'[w].panes,
                       sess'[r] = "closed"
                PROVE  Replaces(w, r)'
    BY DEF LiveInv
  <2>1. r # NewSession /\ sess[r] = "closed" /\ w \notin stale
    BY NewIs DEF OpenReturns, OpenSess, LostByOverlap
  <2>2. r \in tabs[w].panes
    <3>1. CASE w = t /\ tabs[t].st \in Pending
      <4>1. r \in Tab("ready", NewSession, {NewSession}).panes
        BY <3>1 DEF TabsInv, TabTypes, OpenReturns
      <4>. QED BY <2>1, <4>1 DEF Tab
    <3>2. CASE ~(w = t /\ tabs[t].st \in Pending)
      BY <3>2 DEF TabsInv, TabTypes, OpenReturns
    <3>. QED BY <3>1, <3>2
  <2>3. Replaces(w, r)
    BY <2>1, <2>2 DEF TabsInv, LiveInv
  <2>. QED BY <2>3 DEF Replaces, Busy, Doomed, OpenReturns
<1>9. SessionsShown'
  BY DEF TabsInv, SessionsShown, TabTypes, TabForms, Formed, TabType, CloserType,
     ReconnType, SplitType, Held, Shown, ReconnInv, OpenReturns, OpenSess, LostByOverlap,
     Tab, Pending
<1>10. ConnectingIsAwaited'
  BY DEF TabsInv, ConnectingIsAwaited, TabTypes, TabType, OpenReturns, LostByOverlap, Tab,
     Pending
<1>. QED BY <1>1, <1>2, <1>3, <1>4, <1>5, <1>6, <1>7, <1>8, <1>9, <1>10 DEF TabsInv

LEMMA TabsOpenFails ==
  ASSUME TabsInv, NEW t \in Tabs, OpenFails(t)
  PROVE  TabsInv'
<1>1. TabTypes'
  BY TerminalTabsAssumption DEF TabsInv, TabTypes, TabType, CloserType, ReconnType,
     SplitType, OpenFails, NoCall, Pending
<1>2. TabForms'
  BY DEF TabsInv, TabForms, Formed, Busy, OpenFails, Pending
<1>3. OwnInv'
  BY DEF TabsInv, OwnInv, Owns, Opened, OpenedInv, Busy, OpenFails, Pending
<1>4. OpenedInv'
  BY DEF TabsInv, OpenedInv, Opened, OwnInv, Owns, ReconnInv, OpenFails, Pending
<1>5. ReconnInv'
  BY DEF TabsInv, ReconnInv, OpenFails, Pending
<1>6. CloserInv'
  BY DEF TabsInv, CloserInv, Busy, Doomed, OpenFails, Pending
<1>7. PaneInv'
  BY DEF TabsInv, PaneInv, Busy, Has, OpenFails, Has, Pending
<1>8. LiveInv'
  <2>. SUFFICES ASSUME NEW w \in Tabs, w \notin stale', NEW r \in tabs'[w].panes,
                       sess'[r] = "closed"
                PROVE  Replaces(w, r)'
    BY DEF LiveInv
  <2>1. w \notin stale /\ r \in tabs[w].panes /\ sess[r] = "closed"
    BY DEF OpenFails, Pending
  <2>2. Replaces(w, r)
    BY <2>1 DEF TabsInv, LiveInv
  <2>3. /\ \A d \in Closers : Busy(d) =>
             /\ Busy(d)' /\ closer'[d].pc = closer[d].pc /\ closer'[d].gone = closer[d].gone
             /\ closer'[d].list = closer[d].list /\ closer'[d].cut = closer[d].cut
        /\ reconn # NoCall =>
             reconn' # NoCall /\ reconn'.tab = reconn.tab /\ reconn'.old = reconn.old
    BY DEF Busy, OpenFails, Pending
  <2>. QED BY <2>2, <2>3, ReplacesStays
<1>9. SessionsShown'
  BY DEF TabsInv, SessionsShown, Held, Shown, ReconnInv, OpenFails, Pending
<1>10. ConnectingIsAwaited'
  BY DEF TabsInv, ConnectingIsAwaited, TabTypes, TabType, OpenFails, Pending
<1>. QED BY <1>1, <1>2, <1>3, <1>4, <1>5, <1>6, <1>7, <1>8, <1>9, <1>10 DEF TabsInv

LEMMA TabsReconnectTab ==
  ASSUME TabsInv, NEW t \in Tabs, ReconnectTab(t)
  PROVE  TabsInv'
<1>1. TabTypes'
  BY TerminalTabsAssumption DEF TabsInv, TabTypes, TabType, CloserType, ReconnType,
     SplitType, TabForms, Formed, ReconnectTab, Begin
<1>2. TabForms'
  BY DEF TabsInv, TabForms, Busy, ReconnectTab, Begin
<1>3. OwnInv'
  BY DEF TabsInv, OwnInv, Owns, Opened, OpenedInv, Busy, ReconnectTab, Begin
<1>4. OpenedInv'
  BY DEF TabsInv, OpenedInv, Opened, OwnInv, Owns, ReconnInv, ReconnectTab, Begin
<1>5. ReconnInv'
  BY DEF ReconnInv, ReconnectTab, Begin
<1>6. CloserInv'
  BY DEF TabsInv, CloserInv, Busy, Doomed, ReconnectTab, Begin
<1>7. PaneInv'
  BY DEF TabsInv, PaneInv, Busy, Has, ReconnectTab, Begin, Has
<1>8. LiveInv'
  BY DEF TabsInv, LiveInv, Busy, OwnInv, OpenedInv, Opened, Owns, Replaces, Doomed, PaneInv,
     ReconnectTab, Begin
<1>9. SessionsShown'
  BY DEF TabsInv, SessionsShown, Held, Shown, ReconnInv, ReconnectTab, Begin
<1>10. ConnectingIsAwaited'
  BY DEF TabsInv, ConnectingIsAwaited, ReconnectTab, Begin
<1>. QED BY <1>1, <1>2, <1>3, <1>4, <1>5, <1>6, <1>7, <1>8, <1>9, <1>10 DEF TabsInv

LEMMA TabsReconnectCloses ==
  ASSUME TabsInv, NEW s \in Sessions, ReconnectCloses(s)
  PROVE  TabsInv'
<1>1. TabTypes'
  BY DEF TabsInv, TabTypes, TabType, CloserType, ReconnType, SplitType, ReconnectCloses,
     CloseSess
<1>2. TabForms'
  BY DEF TabsInv, TabForms, Busy, ReconnectCloses, CloseSess
<1>3. OwnInv'
  BY DEF TabsInv, OwnInv, Owns, Opened, OpenedInv, Busy, ReconnectCloses, CloseSess
<1>4. OpenedInv'
  BY DEF TabsInv, OpenedInv, TabTypes, TabType, ReconnType, CloserType, Opened, OwnInv,
     Owns, ReconnInv, ReconnectCloses, CloseSess
<1>5. ReconnInv'
  BY DEF TabsInv, ReconnInv, TabTypes, ReconnType, ReconnectCloses, CloseSess
<1>6. CloserInv'
  BY DEF TabsInv, CloserInv, Busy, Doomed, ReconnectCloses, CloseSess
<1>7. PaneInv'
  BY DEF TabsInv, PaneInv, Busy, Has, ReconnectCloses, CloseSess, Has
<1>8. LiveInv'
  <2>. SUFFICES ASSUME NEW w \in Tabs, w \notin stale', NEW r \in tabs'[w].panes,
                       sess'[r] = "closed"
                PROVE  Replaces(w, r)'
    BY DEF LiveInv
  <2>1. w \notin stale /\ r \in tabs[w].panes /\ (r = s \/ sess[r] = "closed")
          /\ r \in Sessions
    BY DEF TabsInv, TabTypes, TabType, CloserType, ReconnType, ReconnectCloses, CloseSess
  <2>4. /\ \A d \in Closers : Busy(d) =>
             /\ Busy(d)' /\ closer'[d].pc = closer[d].pc /\ closer'[d].gone = closer[d].gone
             /\ closer'[d].list = closer[d].list /\ closer'[d].cut = closer[d].cut
        /\ reconn # NoCall =>
             reconn' # NoCall /\ reconn'.tab = reconn.tab /\ reconn'.old = reconn.old
    BY DEF TabsInv, TabTypes, Busy, TabType, CloserType, ReconnType, ReconnectCloses,
       CloseSess, NoCall
  <2>2. CASE r = s
    <3>1. reconn.tab = w /\ s \in reconn.old
      BY <2>1, <2>2 DEF TabsInv, TabTypes, ReconnType, OwnInv, Owns, ReconnInv,
         ReconnectCloses
    <3>2. Replaces(w, r)
      BY <2>2, <3>1 DEF Replaces, Busy, ReconnectCloses
    <3>. QED BY <3>2, <2>4, ReplacesStays
  <2>3. CASE r # s
    <3>1. Replaces(w, r)
      BY <2>1, <2>3 DEF TabsInv, LiveInv
    <3>. QED BY <3>1, <2>4, ReplacesStays
  <2>. QED BY <2>2, <2>3
<1>9. SessionsShown'
  BY DEF TabsInv, SessionsShown, TabTypes, TabType, CloserType, ReconnType, SplitType, Held,
     Shown, ReconnInv, ReconnectCloses, CloseSess, NoCall
<1>10. ConnectingIsAwaited'
  BY DEF TabsInv, ConnectingIsAwaited, ReconnectCloses, CloseSess
<1>. QED BY <1>1, <1>2, <1>3, <1>4, <1>5, <1>6, <1>7, <1>8, <1>9, <1>10 DEF TabsInv

LEMMA TabsReconnectOpens ==
  ASSUME TabsInv, ReconnectOpens
  PROVE  TabsInv'
<1>1. TabTypes'
  BY NewIs DEF TabsInv, TabTypes, TabType, CloserType, ReconnType, SplitType,
     ReconnectOpens, OpenSess
<1>2. TabForms'
  BY DEF TabsInv, TabForms, Busy, ReconnectOpens
<1>3. OwnInv'
  BY NewIs DEF TabsInv, OwnInv, Owns, Opened, OpenedInv, Busy, ReconnectOpens, OpenSess
<1>4. OpenedInv'
  BY NewIs DEF TabsInv, OpenedInv, TabTypes, TabType, ReconnType, CloserType, Opened,
     OwnInv, Owns, ReconnInv, ReconnectOpens, OpenSess
<1>5. ReconnInv'
  BY NewIs DEF TabsInv, ReconnInv, ReconnectOpens, OpenSess
<1>6. CloserInv'
  BY NewIs DEF TabsInv, CloserInv, Busy, Doomed, ReconnectOpens, OpenSess
<1>7. PaneInv'
  BY DEF TabsInv, PaneInv, Busy, Has, ReconnectOpens, Has
<1>8. LiveInv'
  <2>. SUFFICES ASSUME NEW w \in Tabs, w \notin stale', NEW r \in tabs'[w].panes,
                       sess'[r] = "closed"
                PROVE  Replaces(w, r)'
    BY DEF LiveInv
  <2>1. w \notin stale /\ r \in tabs[w].panes /\ sess[r] = "closed"
    BY DEF ReconnectOpens, OpenSess
  <2>2. Replaces(w, r)
    BY <2>1 DEF TabsInv, LiveInv
  <2>3. /\ \A d \in Closers : Busy(d) =>
             /\ Busy(d)' /\ closer'[d].pc = closer[d].pc /\ closer'[d].gone = closer[d].gone
             /\ closer'[d].list = closer[d].list /\ closer'[d].cut = closer[d].cut
        /\ reconn # NoCall =>
             reconn' # NoCall /\ reconn'.tab = reconn.tab /\ reconn'.old = reconn.old
    BY DEF TabsInv, TabTypes, Busy, TabType, CloserType, ReconnType, ReconnectOpens, NoCall
  <2>. QED BY <2>2, <2>3, ReplacesStays
<1>9. SessionsShown'
  <2>. SUFFICES ASSUME NEW s \in Sessions, sess'[s] = "open"
                PROVE  s \in Shown(tabs) \cup excused \/ Held(s)'
    BY DEF SessionsShown, ReconnectOpens
  <2>1. reconn' # NoCall /\ reconn'.got = reconn.got \cup {NewSession}
          /\ reconn'.left = reconn.left
    BY DEF ReconnectOpens, TabsInv, TabTypes, ReconnType, NoCall
  <2>2. CASE s = NewSession
    BY <2>1, <2>2 DEF Held
  <2>3. CASE s # NewSession
    <3>1. sess[s] = "open"
      BY <2>3 DEF ReconnectOpens, OpenSess, TabsInv, TabTypes
    <3>. QED BY <2>1, <3>1 DEF TabsInv, SessionsShown, Held, ReconnectOpens
  <2>. QED BY <2>2, <2>3
<1>10. ConnectingIsAwaited'
  BY DEF TabsInv, ConnectingIsAwaited, ReconnectOpens
<1>. QED BY <1>1, <1>2, <1>3, <1>4, <1>5, <1>6, <1>7, <1>8, <1>9, <1>10 DEF TabsInv

LEMMA TabsReconnectEnds ==
  ASSUME TabsInv, ReconnectEnds
  PROVE  TabsInv'
<1>1. TabTypes'
  BY NewIs, TerminalTabsAssumption DEF TabsInv, TabTypes, TabType, CloserType, ReconnType,
     SplitType, TabForms, ReconnectEnds, OpenSess, LostByOverlap, SetPanes, NoCall
<1>2. TabForms'
  BY DEF TabsInv, TabForms, TabType, CloserType, Formed, Busy, ReconnectEnds, SetPanes, Has
<1>3. OwnInv'
  BY NewIs DEF TabsInv, OwnInv, TabTypes, TabType, CloserType, ReconnType, SplitType, Owns,
     Opened, OpenedInv, Busy, ReconnectEnds, OpenSess, SetPanes
<1>4. OpenedInv'
  BY DEF TabsInv, OpenedInv, Opened, OwnInv, Owns, ReconnInv, ReconnectEnds, OpenSess,
     SetPanes
<1>5. ReconnInv'
  BY DEF ReconnInv, ReconnectEnds, SetPanes
<1>6. CloserInv'
  BY NewIs DEF TabsInv, CloserInv, Busy, Doomed, ReconnectEnds, OpenSess, SetPanes
<1>7. PaneInv'
  BY DEF TabsInv, PaneInv, Busy, Has, ReconnectEnds, LostByOverlap, SetPanes, Has
<1>8. LiveInv'
  BY NewIs DEF TabsInv, LiveInv, TabTypes, TabType, CloserType, ReconnType, SplitType, Busy,
     OwnInv, OpenedInv, Opened, Owns, Replaces, Doomed, PaneInv, CloserInv, ReconnectEnds,
     OpenSess, LostByOverlap, SetPanes, Has
<1>9. SessionsShown'
  BY DEF TabsInv, SessionsShown, TabTypes, TabType, CloserType, ReconnType, SplitType, Held,
     Shown, ReconnInv, ReconnectEnds, OpenSess, LostByOverlap, SetPanes
<1>10. ConnectingIsAwaited'
  BY DEF TabsInv, ConnectingIsAwaited, ReconnectEnds, LostByOverlap, SetPanes
<1>. QED BY <1>1, <1>2, <1>3, <1>4, <1>5, <1>6, <1>7, <1>8, <1>9, <1>10 DEF TabsInv

LEMMA TabsReconnectFails ==
  ASSUME TabsInv, ReconnectFails
  PROVE  TabsInv'
<1>1. TabTypes'
  BY DEF TabsInv, TabTypes, TabType, CloserType, ReconnType, SplitType, ReconnectFails,
     LostByOverlap
<1>2. TabForms'
  BY DEF TabsInv, TabForms, Busy, ReconnectFails
<1>3. OwnInv'
  BY DEF TabsInv, OwnInv, Owns, Opened, OpenedInv, Busy, ReconnectFails
<1>4. OpenedInv'
  BY DEF TabsInv, OpenedInv, Opened, OwnInv, Owns, ReconnInv, ReconnectFails
<1>5. ReconnInv'
  BY DEF ReconnInv, ReconnectFails
<1>6. CloserInv'
  BY DEF TabsInv, CloserInv, Busy, Doomed, ReconnectFails
<1>7. PaneInv'
  BY DEF TabsInv, PaneInv, Busy, Has, ReconnectFails, LostByOverlap, Has
<1>8. LiveInv'
  BY DEF TabsInv, LiveInv, Busy, OwnInv, OpenedInv, Opened, Owns, Replaces, Doomed, PaneInv,
     ReconnectFails, LostByOverlap
<1>9. SessionsShown'
  BY DEF TabsInv, SessionsShown, Held, Shown, ReconnInv, ReconnectFails, LostByOverlap
<1>10. ConnectingIsAwaited'
  BY DEF TabsInv, ConnectingIsAwaited, ReconnectFails, LostByOverlap
<1>. QED BY <1>1, <1>2, <1>3, <1>4, <1>5, <1>6, <1>7, <1>8, <1>9, <1>10 DEF TabsInv

LEMMA TabsSplitPane ==
  ASSUME TabsInv, NEW t \in Tabs, SplitPane(t)
  PROVE  TabsInv'
<1>1. TabTypes'
  BY TerminalTabsAssumption DEF TabsInv, TabTypes, TabType, CloserType, ReconnType,
     SplitType, TabForms, Formed, SplitPane, Begin
<1>2. TabForms'
  BY DEF TabsInv, TabForms, Busy, SplitPane, Begin
<1>3. OwnInv'
  BY DEF TabsInv, OwnInv, Owns, Opened, OpenedInv, Busy, SplitPane, Begin
<1>4. OpenedInv'
  BY DEF TabsInv, OpenedInv, Opened, OwnInv, Owns, ReconnInv, SplitPane, Begin
<1>5. ReconnInv'
  BY DEF TabsInv, ReconnInv, SplitPane, Begin
<1>6. CloserInv'
  BY DEF TabsInv, CloserInv, Busy, Doomed, SplitPane, Begin
<1>7. PaneInv'
  BY DEF TabsInv, PaneInv, Busy, Has, SplitPane, Begin, Has
<1>8. LiveInv'
  BY DEF TabsInv, LiveInv, Busy, OwnInv, OpenedInv, Opened, Owns, Replaces, Doomed, PaneInv,
     SplitPane, Begin
<1>9. SessionsShown'
  BY DEF TabsInv, SessionsShown, Held, Shown, ReconnInv, SplitPane, Begin
<1>10. ConnectingIsAwaited'
  BY DEF TabsInv, ConnectingIsAwaited, SplitPane, Begin
<1>. QED BY <1>1, <1>2, <1>3, <1>4, <1>5, <1>6, <1>7, <1>8, <1>9, <1>10 DEF TabsInv

LEMMA TabsSplitEnds ==
  ASSUME TabsInv, SplitEnds
  PROVE  TabsInv'
<1>1. TabTypes'
  BY NewIs DEF TabsInv, TabTypes, TabType, CloserType, ReconnType, SplitType, SplitEnds,
     OpenSess, LostByOverlap, SetPanes, Has
<1>2. TabForms'
  BY DEF TabsInv, TabForms, Formed, Busy, SplitEnds, SetPanes, Has
<1>3. OwnInv'
  BY NewIs DEF TabsInv, OwnInv, TabTypes, TabType, CloserType, ReconnType, SplitType, Owns,
     Opened, OpenedInv, Busy, SplitEnds, OpenSess, SetPanes
<1>4. OpenedInv'
  BY DEF TabsInv, OpenedInv, Opened, OwnInv, Owns, ReconnInv, SplitEnds, OpenSess, SetPanes
<1>5. ReconnInv'
  BY NewIs DEF TabsInv, ReconnInv, SplitEnds, OpenSess, SetPanes
<1>6. CloserInv'
  BY NewIs DEF TabsInv, CloserInv, Busy, Doomed, SplitEnds, OpenSess, SetPanes
<1>7. PaneInv'
  BY DEF TabsInv, PaneInv, Busy, Has, SplitEnds, LostByOverlap, SetPanes, Has
<1>8. LiveInv'
  <2>. SUFFICES ASSUME NEW w \in Tabs, w \notin stale', NEW r \in tabs'[w].panes,
                       sess'[r] = "closed"
                PROVE  Replaces(w, r)'
    BY DEF LiveInv
  <2>1. w \notin stale /\ r \in tabs[w].panes /\ sess[r] = "closed"
    BY NewIs DEF OwnInv, Opened, Owns, SplitEnds, OpenSess, LostByOverlap, SetPanes
  <2>2. Replaces(w, r)
    BY <2>1 DEF TabsInv, LiveInv
  <2>3. /\ \A d \in Closers : Busy(d) =>
             /\ Busy(d)' /\ closer'[d].pc = closer[d].pc /\ closer'[d].gone = closer[d].gone
             /\ closer'[d].list = closer[d].list /\ closer'[d].cut = closer[d].cut
        /\ reconn # NoCall =>
             reconn' # NoCall /\ reconn'.tab = reconn.tab /\ reconn'.old = reconn.old
    BY DEF Busy, SplitEnds, SetPanes
  <2>. QED BY <2>2, <2>3, ReplacesStays
<1>9. SessionsShown'
  BY DEF TabsInv, SessionsShown, TabTypes, TabType, CloserType, ReconnType, SplitType, Held,
     Shown, ReconnInv, SplitEnds, OpenSess, LostByOverlap, SetPanes, Has
<1>10. ConnectingIsAwaited'
  BY DEF TabsInv, ConnectingIsAwaited, SplitEnds, LostByOverlap, SetPanes
<1>. QED BY <1>1, <1>2, <1>3, <1>4, <1>5, <1>6, <1>7, <1>8, <1>9, <1>10 DEF TabsInv

LEMMA TabsSplitFails ==
  ASSUME TabsInv, SplitFails
  PROVE  TabsInv'
<1>1. TabTypes'
  BY DEF TabsInv, TabTypes, TabType, CloserType, ReconnType, SplitType, SplitFails
<1>2. TabForms'
  BY DEF TabsInv, TabForms, Busy, SplitFails
<1>3. OwnInv'
  BY DEF TabsInv, OwnInv, Owns, Opened, OpenedInv, Busy, SplitFails
<1>4. OpenedInv'
  BY DEF TabsInv, OpenedInv, Opened, OwnInv, Owns, ReconnInv, SplitFails
<1>5. ReconnInv'
  BY DEF TabsInv, ReconnInv, SplitFails
<1>6. CloserInv'
  BY DEF TabsInv, CloserInv, Busy, Doomed, SplitFails
<1>7. PaneInv'
  BY DEF TabsInv, PaneInv, Busy, Has, SplitFails, Has
<1>8. LiveInv'
  BY DEF TabsInv, LiveInv, Busy, OwnInv, OpenedInv, Opened, Owns, Replaces, Doomed, PaneInv,
     SplitFails
<1>9. SessionsShown'
  BY DEF TabsInv, SessionsShown, Held, Shown, ReconnInv, SplitFails
<1>10. ConnectingIsAwaited'
  BY DEF TabsInv, ConnectingIsAwaited, SplitFails
<1>. QED BY <1>1, <1>2, <1>3, <1>4, <1>5, <1>6, <1>7, <1>8, <1>9, <1>10 DEF TabsInv

LEMMA TabsCloseTabs ==
  ASSUME TabsInv, NEW c \in Closers, NEW gone \in SUBSET Tabs, CloseTabs(c, gone)
  PROVE  TabsInv'
<1>1. TabTypes'
  BY TerminalTabsAssumption DEF TabsInv, TabTypes, TabType, CloserType, ReconnType,
     SplitType, Busy, CloseTabs, Begin, Tab, Closed, NoCall, Listed
<1>2. TabForms'
  <2>1. \A d \in Closers : Busy(d)' => \A w \in Tabs : Formed(closer'[d].list[w])
    BY DEF TabsInv, TabTypes, TabForms, Busy, CloseTabs
  <2>2. \A w \in Tabs : Formed(tabs'[w])
    BY DEF TabsInv, TabForms, Formed, CloseTabs, Closed, Tab
  <2>. QED BY <2>1, <2>2 DEF TabForms
<1>3. OwnInv'
  <2>1. \A w \in Tabs, s \in Sessions : s \in tabs'[w].panes => s \in tabs[w].panes
    BY DEF TabsInv, TabTypes, CloseTabs, Closed, Tab
  <2>2. \A d \in Closers, w \in Tabs, s \in Sessions : Busy(d)'
          /\ s \in closer'[d].list[w].panes =>
          s \in tabs[w].panes \/ (Busy(d) /\ s \in closer[d].list[w].panes)
    BY DEF TabsInv, TabTypes, CloseTabs, Busy
  <2>3. \A w \in Tabs, s \in Sessions : Owns(w, s)' => Owns(w, s)
    BY <2>1, <2>2 DEF Owns, CloseTabs
  <2>. QED BY <2>3 DEF TabsInv, OwnInv, Opened, CloseTabs
<1>4. OpenedInv'
  BY DEF TabsInv, OpenedInv, Opened, OwnInv, Owns, ReconnInv, CloseTabs, Begin, Tab, Closed,
     Listed
<1>5. ReconnInv'
  BY DEF TabsInv, ReconnInv, CloseTabs, Begin, Tab, Closed, Listed
<1>6. CloserInv'
  BY DEF TabsInv, CloserInv, TabTypes, CloserType, TabType, Busy, Doomed, CloseTabs, Begin,
     Tab, Closed, Listed
<1>7. PaneInv'
  BY DEF TabsInv, PaneInv, TabTypes, CloserType, TabType, Busy, Has, CloseTabs, Begin, Has,
     Tab, Closed, Listed
<1>8. LiveInv'
  <2>. SUFFICES ASSUME NEW w \in Tabs, w \notin stale', NEW r \in tabs'[w].panes,
                       sess'[r] = "closed"
                PROVE  Replaces(w, r)'
    BY DEF LiveInv
  <2>1. w \notin stale /\ r \in tabs[w].panes /\ sess[r] = "closed"
    BY DEF CloseTabs, Begin, Tab, Closed, Listed
  <2>2. Replaces(w, r)
    BY <2>1 DEF TabsInv, LiveInv
  <2>3. /\ \A d \in Closers : Busy(d) =>
             /\ Busy(d)' /\ closer'[d].pc = closer[d].pc /\ closer'[d].gone = closer[d].gone
             /\ closer'[d].list = closer[d].list /\ closer'[d].cut = closer[d].cut
        /\ reconn # NoCall =>
             reconn' # NoCall /\ reconn'.tab = reconn.tab /\ reconn'.old = reconn.old
    BY DEF TabsInv, TabTypes, Busy, TabType, CloserType, ReconnType, CloseTabs, Begin, Tab,
       Closed, NoCall, Listed
  <2>. QED BY <2>2, <2>3, ReplacesStays
<1>9. SessionsShown'
  <2>. SUFFICES ASSUME NEW s \in Sessions, sess[s] = "open"
                PROVE  s \in Shown(tabs') \cup excused' \/ Held(s)'
    BY DEF SessionsShown, CloseTabs
  <2>1. s \in Shown(tabs) \cup excused \/ Held(s)
    BY DEF TabsInv, SessionsShown
  <2>2. Held(s) => Held(s)'
    BY DEF Held, CloseTabs, TabsInv, TabTypes
  <2>3. s \in Shown(tabs) => s \in Shown(tabs')
    BY DEF Shown, CloseTabs, TabsInv, TabTypes
  <2>. QED BY <2>1, <2>2, <2>3 DEF CloseTabs
<1>10. ConnectingIsAwaited'
  BY DEF TabsInv, ConnectingIsAwaited, CloseTabs, Begin, Tab, Closed, Listed
<1>. QED BY <1>1, <1>2, <1>3, <1>4, <1>5, <1>6, <1>7, <1>8, <1>9, <1>10 DEF TabsInv

LEMMA TabsClosePane ==
  ASSUME TabsInv, NEW c \in Closers, NEW t \in Tabs, NEW s \in Sessions, ClosePane(c, t, s)
  PROVE  TabsInv'
<1>1. TabTypes'
  BY TerminalTabsAssumption DEF TabsInv, TabTypes, TabType, CloserType, ReconnType,
     SplitType, ClosePane, Begin
<1>2. TabForms'
  BY DEF TabsInv, TabForms, Busy, ClosePane, Begin
<1>3. OwnInv'
  BY DEF TabsInv, OwnInv, Owns, Opened, OpenedInv, Busy, ClosePane, Begin
<1>4. OpenedInv'
  BY DEF TabsInv, OpenedInv, Opened, OwnInv, Owns, ReconnInv, ClosePane, Begin
<1>5. ReconnInv'
  BY DEF TabsInv, ReconnInv, ClosePane, Begin
<1>6. CloserInv'
  BY TerminalTabsAssumption DEF TabsInv, CloserInv, CloserType, TabType, Busy, Doomed,
     ClosePane, Begin, NoCall
<1>7. PaneInv'
  BY DEF TabsInv, PaneInv, Busy, Has, ClosePane, Begin, Has
<1>8. LiveInv'
  <2>. SUFFICES ASSUME NEW w \in Tabs, w \notin stale', NEW r \in tabs'[w].panes,
                       sess'[r] = "closed"
                PROVE  Replaces(w, r)'
    BY DEF LiveInv
  <2>1. w \notin stale /\ r \in tabs[w].panes /\ sess[r] = "closed"
    BY DEF ClosePane, Begin
  <2>2. Replaces(w, r)
    BY <2>1 DEF TabsInv, LiveInv
  <2>3. /\ \A d \in Closers : Busy(d) =>
             /\ Busy(d)' /\ closer'[d].pc = closer[d].pc /\ closer'[d].gone = closer[d].gone
             /\ closer'[d].list = closer[d].list /\ closer'[d].cut = closer[d].cut
        /\ reconn # NoCall =>
             reconn' # NoCall /\ reconn'.tab = reconn.tab /\ reconn'.old = reconn.old
    BY DEF Busy, ClosePane, Begin
  <2>. QED BY <2>2, <2>3, ReplacesStays
<1>9. SessionsShown'
  BY DEF TabsInv, SessionsShown, Held, Shown, ReconnInv, ClosePane, Begin
<1>10. ConnectingIsAwaited'
  BY DEF TabsInv, ConnectingIsAwaited, ClosePane, Begin
<1>. QED BY <1>1, <1>2, <1>3, <1>4, <1>5, <1>6, <1>7, <1>8, <1>9, <1>10 DEF TabsInv

LEMMA TabsCloserCloses ==
  ASSUME TabsInv, NEW c \in Closers, NEW s \in Sessions, CloserCloses(c, s)
  PROVE  TabsInv'
<1>1. TabTypes'
  <2>1. sess' \in [Sessions -> {"unused", "open", "closed"}]
    BY DEF TabsInv, TabTypes, CloserCloses, CloseSess
  <2>2. closer[c] \in CloserType /\ closer \in [Closers -> {NoCall} \cup CloserType]
    BY DEF TabsInv, TabTypes, CloserCloses
  <2>3. [closer[c] EXCEPT !.left = @ \ {s}] \in CloserType
    BY <2>2 DEF CloserType
  <2>4. closer' = [closer EXCEPT ![c] = [closer[c] EXCEPT !.left = @ \ {s}]]
    BY DEF CloserCloses
  <2>5. closer' \in [Closers -> {NoCall} \cup CloserType]
    BY <2>2, <2>3, <2>4
  <2>. QED BY <2>1, <2>5 DEF TabsInv, TabTypes, CloserCloses
<1>2. TabForms'
  BY DEF TabsInv, TabForms, Busy, CloserCloses, CloseSess
<1>3. OwnInv'
  BY DEF TabsInv, OwnInv, TabType, CloserType, ReconnType, SplitType, Owns, Opened,
     OpenedInv, Busy, CloserCloses, CloseSess
<1>4. OpenedInv'
  <2>1. \A r \in Sessions : Opened(r)' = Opened(r)
    BY DEF CloserCloses, Opened
  <2>2. Doomed(c, s) /\ Busy(c)
    BY DEF TabsInv, CloserInv, CloserCloses, Busy
  <2>3. ~Opened(s)
    BY <2>2, DoomedHasTab DEF TabsInv, OwnInv
  <2>. QED BY <2>1, <2>3 DEF TabsInv, OpenedInv, CloserCloses, CloseSess, Opened
<1>5. ReconnInv'
  BY DEF TabsInv, ReconnInv, CloserCloses, CloseSess
<1>6. CloserInv'
  BY DEF TabsInv, CloserInv, TabTypes, CloserType, TabType, Busy, Doomed, CloserCloses,
     CloseSess
<1>7. PaneInv'
  BY DEF TabsInv, PaneInv, Busy, Has, CloserCloses, CloseSess, Has
<1>8. LiveInv'
  <2>. SUFFICES ASSUME NEW w \in Tabs, w \notin stale', NEW r \in tabs'[w].panes,
                       sess'[r] = "closed"
                PROVE  Replaces(w, r)'
    BY DEF LiveInv
  <2>1. w \notin stale /\ r \in tabs[w].panes /\ (r = s \/ sess[r] = "closed")
          /\ r \in Sessions
    BY DEF TabsInv, TabTypes, TabType, CloserType, ReconnType, CloserCloses, CloseSess
  <2>4. /\ \A d \in Closers : Busy(d) =>
             /\ Busy(d)' /\ closer'[d].pc = closer[d].pc /\ closer'[d].gone = closer[d].gone
             /\ closer'[d].list = closer[d].list /\ closer'[d].cut = closer[d].cut
        /\ reconn # NoCall =>
             reconn' # NoCall /\ reconn'.tab = reconn.tab /\ reconn'.old = reconn.old
    BY DEF TabsInv, TabTypes, Busy, TabType, CloserType, ReconnType, CloserCloses,
       CloseSess, NoCall
  <2>2. CASE r = s
    <3>1. w \in closer[c].gone /\ Doomed(c, s)
      BY <2>1, <2>2, DoomedIsOwned
    <3>2. Replaces(w, r)
      BY <2>2, <3>1 DEF Replaces, Busy, CloserCloses
    <3>. QED BY <3>2, <2>4, ReplacesStays
  <2>3. CASE r # s
    <3>1. Replaces(w, r)
      BY <2>1, <2>3 DEF TabsInv, LiveInv
    <3>. QED BY <3>1, <2>4, ReplacesStays
  <2>. QED BY <2>2, <2>3
<1>9. SessionsShown'
  BY NewIs, TerminalTabsAssumption DEF TabsInv, SessionsShown, TabTypes, TabType,
     CloserType, ReconnType, SplitType, Held, Shown, ReconnInv, CloserCloses, CloseSess,
     NoCall
<1>10. ConnectingIsAwaited'
  BY DEF TabsInv, ConnectingIsAwaited, CloserCloses, CloseSess
<1>. QED BY <1>1, <1>2, <1>3, <1>4, <1>5, <1>6, <1>7, <1>8, <1>9, <1>10 DEF TabsInv

LEMMA TabsCloseTabsEnds ==
  ASSUME TabsInv, NEW c \in Closers, CloseTabsEnds(c)
  PROVE  TabsInv'
<1>1. TabTypes'
  <2>1. closer[c] \in CloserType /\ Closed \in TabType
    BY TabFields DEF TabsInv, TabTypes, CloseTabsEnds
  <2>2. tabs' \in [Tabs -> TabType]
    BY <2>1 DEF CloseTabsEnds, SetList, CloserType
  <2>3. Shown(tabs) \subseteq Sessions
    BY DEF TabsInv, TabTypes, Shown, TabType
  <2>4. excused' \subseteq Sessions /\ stale' \subseteq Tabs
    BY <2>3 DEF TabsInv, TabTypes, CloseTabsEnds, LostByOverlap
  <2>5. closer' \in [Closers -> {NoCall} \cup CloserType]
    BY DEF TabsInv, TabTypes, CloseTabsEnds
  <2>. QED BY <2>2, <2>4, <2>5 DEF TabsInv, TabTypes, CloseTabsEnds
<1>2. TabForms'
  BY DEF TabsInv, TabForms, TabTypes, TabType, CloserType, Formed, Busy, CloseTabsEnds,
     SetList, Tab, Unborn, Closed
<1>3. OwnInv'
  BY NewIs, TerminalTabsAssumption DEF TabsInv, OwnInv, TabType, CloserType, ReconnType,
     SplitType, Owns, Opened, OpenedInv, Busy, CloseTabsEnds, LostByOverlap, SetList, Tab,
     Unborn, Closed, NoCall
<1>4. OpenedInv'
  BY DEF TabsInv, OpenedInv, Opened, OwnInv, Owns, ReconnInv, CloseTabsEnds, SetList, Tab,
     Unborn, Closed
<1>5. ReconnInv'
  BY DEF TabsInv, ReconnInv, CloseTabsEnds, SetList, Tab, Unborn, Closed
<1>6. CloserInv'
  BY DEF TabsInv, CloserInv, Busy, Doomed, CloseTabsEnds, SetList, Tab, Unborn, Closed
<1>7. PaneInv'
  BY DEF TabsInv, PaneInv, Busy, Has, CloseTabsEnds, LostByOverlap, SetList, Has, Tab,
     Unborn, Closed
<1>8. LiveInv'
  <2>. SUFFICES ASSUME NEW w \in Tabs, w \notin stale', NEW r \in tabs'[w].panes,
                       sess'[r] = "closed"
                PROVE  Replaces(w, r)'
    BY DEF LiveInv
  <2>1. sess' = sess /\ w \notin stale
    BY DEF CloseTabsEnds, LostByOverlap
  <2>2. w \notin closer[c].gone
    BY DEF CloseTabsEnds, SetList, Closed, Unborn, Tab
  <2>3. tabs'[w] = tabs[w]
    <3>1. CASE tabs # closer[c].list
      BY <3>1 DEF CloseTabsEnds, LostByOverlap
    <3>2. CASE tabs = closer[c].list
      BY <2>2, <3>2 DEF CloseTabsEnds, SetList
    <3>. QED BY <3>1, <3>2
  <2>4. Replaces(w, r)
    BY <2>1, <2>3 DEF TabsInv, LiveInv
  <2>5. reconn' = reconn /\ \A d \in Closers \ {c} : closer'[d] = closer[d]
    BY DEF CloseTabsEnds, TabsInv, TabTypes
  <2>. QED BY <2>2, <2>4, <2>5 DEF Replaces, Busy, Doomed
<1>9. SessionsShown'
  <2> DEFINE list ==
        [t \in Tabs |-> IF t \in closer[c].gone THEN Closed ELSE closer[c].list[t]]
  <2>. SUFFICES ASSUME NEW s \in Sessions, sess[s] = "open"
                PROVE  s \in Shown(tabs') \cup excused' \/ Held(s)'
    BY DEF SessionsShown, CloseTabsEnds
  <2>1. s \in Shown(tabs) \cup excused \/ Held(s)
    BY DEF TabsInv, SessionsShown
  <2>2. Held(s) => Held(s)'
    BY DEF Held, CloseTabsEnds, TabsInv, TabTypes
  <2>3. Shown(list) \subseteq Shown(tabs')
    BY DEF Shown, CloseTabsEnds, SetList, Unborn, Tab
  <2>4. excused \subseteq excused'
    BY DEF CloseTabsEnds, LostByOverlap
  <2>5. ASSUME s \in Shown(tabs), s \notin Shown(list) PROVE s \in excused'
    <3>1. CASE tabs # closer[c].list
      BY <2>5, <3>1 DEF CloseTabsEnds, LostByOverlap
    <3>2. CASE tabs = closer[c].list
      <4>1. PICK t \in Tabs : s \in tabs[t].panes
        BY <2>5 DEF Shown
      <4>2. t \in closer[c].gone
        BY <2>5, <3>2, <4>1 DEF Shown
      <4>3. Doomed(c, s)
        BY <3>2, <4>1, <4>2 DEF Doomed, CloseTabsEnds
      <4>. QED BY <4>3 DEF TabsInv, CloserInv, Busy, CloseTabsEnds
    <3>. QED BY <3>1, <3>2
  <2>. QED BY <2>1, <2>2, <2>3, <2>4, <2>5
<1>10. ConnectingIsAwaited'
  BY DEF TabsInv, ConnectingIsAwaited, CloseTabsEnds, LostByOverlap, SetList, Tab, Unborn,
     Closed
<1>. QED BY <1>1, <1>2, <1>3, <1>4, <1>5, <1>6, <1>7, <1>8, <1>9, <1>10 DEF TabsInv

LEMMA TabsClosePaneEnds ==
  ASSUME TabsInv, NEW c \in Closers, ClosePaneEnds(c)
  PROVE  TabsInv'
<1>1. TabTypes'
  BY DEF TabsInv, TabTypes, TabType, CloserType, ReconnType, SplitType, ClosePaneEnds,
     LostByOverlap, SetPanes, Has, NoCall
<1>2. TabForms'
  BY DEF TabsInv, TabForms, Formed, Busy, ClosePaneEnds, LostByOverlap, SetPanes, Has
<1>3. OwnInv'
  BY TerminalTabsAssumption DEF TabsInv, OwnInv, TabTypes, TabType, CloserType, ReconnType,
     SplitType, Owns, Opened, OpenedInv, Busy, ClosePaneEnds, SetPanes, Has, NoCall
<1>4. OpenedInv'
  BY DEF TabsInv, OpenedInv, Opened, OwnInv, Owns, ReconnInv, ClosePaneEnds, SetPanes
<1>5. ReconnInv'
  BY DEF TabsInv, ReconnInv, ClosePaneEnds, SetPanes
<1>6. CloserInv'
  BY DEF TabsInv, CloserInv, Busy, Doomed, ClosePaneEnds, SetPanes
<1>7. PaneInv'
  BY DEF TabsInv, PaneInv, Busy, Has, ClosePaneEnds, LostByOverlap, SetPanes, Has
<1>8. LiveInv'
  <2>. PICK t \in Tabs : /\ closer[c] # NoCall /\ closer[c].pc = "pane"
         /\ closer[c].gone = {t}
                          /\ closer[c].left = {}
                          /\ SetPanes(t, closer[c].list[t].id,
                                       closer[c].list[t].panes \ closer[c].cut)
                          /\ LostByOverlap(/\ Has(t, closer[c].list[t].id)
                                            /\ tabs[t].panes # closer[c].list[t].panes,
                               tabs[t].panes \ (closer[c].list[t].panes \ closer[c].cut), {t})
                          /\ closer' = [closer EXCEPT ![c] = NoCall]
                          /\ UNCHANGED <<sess, opens, reconn, split, restore, begun>>
    BY DEF ClosePaneEnds
  <2>. SUFFICES ASSUME NEW w \in Tabs, w \notin stale', NEW r \in tabs'[w].panes,
                       sess'[r] = "closed"
                PROVE  Replaces(w, r)'
    BY DEF LiveInv
  <2> DEFINE old == closer[c].list[t]
  <2>1. sess' = sess /\ w \notin stale
    BY DEF LostByOverlap
  <2>2. reconn' = reconn /\ \A d \in Closers \ {c} : closer'[d] = closer[d]
    BY DEF TabsInv, TabTypes
  <2>3. CASE w # t
    <3>1. r \in tabs[w].panes
      BY <2>3 DEF SetPanes
    <3>2. Replaces(w, r)
      BY <2>1, <3>1 DEF TabsInv, LiveInv
    <3>. QED BY <2>2, <2>3, <3>2 DEF Replaces, Busy, Doomed
  <2>4. CASE w = t
    <3>1. tabs[t].st = "gone" \/ Has(t, old.id)
      BY <2>1, <2>4 DEF TabsInv, PaneInv, Busy
    <3>2. tabs[t].st # "gone"
      BY <2>4 DEF TabsInv, TabForms, Formed, SetPanes, Has
    <3>3. tabs[t].panes = old.panes
      BY <2>4, <3>1, <3>2 DEF LostByOverlap
    <3>4. r \in old.panes /\ r \notin closer[c].cut
      BY <2>4, <3>1, <3>2 DEF SetPanes, TabsInv, TabTypes, TabType
    <3>5. Replaces(t, r)
      BY <2>1, <2>4, <3>3, <3>4 DEF TabsInv, LiveInv
    <3>6. ~Doomed(c, r)
      BY <3>4 DEF Doomed
    <3>. QED BY <2>2, <2>4, <3>5, <3>6 DEF Replaces, Busy, Doomed
  <2>. QED BY <2>3, <2>4
<1>9. SessionsShown'
  <2>. PICK t \in Tabs : /\ closer[c] # NoCall /\ closer[c].pc = "pane"
         /\ closer[c].gone = {t}
                          /\ closer[c].left = {}
                          /\ SetPanes(t, closer[c].list[t].id,
                                       closer[c].list[t].panes \ closer[c].cut)
                          /\ LostByOverlap(/\ Has(t, closer[c].list[t].id)
                                            /\ tabs[t].panes # closer[c].list[t].panes,
                               tabs[t].panes \ (closer[c].list[t].panes \ closer[c].cut), {t})
                          /\ closer' = [closer EXCEPT ![c] = NoCall]
                          /\ UNCHANGED <<sess, opens, reconn, split, restore, begun>>
    BY DEF ClosePaneEnds
  <2>. SUFFICES ASSUME NEW s \in Sessions, sess[s] = "open"
                PROVE  s \in Shown(tabs') \cup excused' \/ Held(s)'
    BY DEF SessionsShown
  <2>1. s \in Shown(tabs) \cup excused \/ Held(s)
    BY DEF TabsInv, SessionsShown
  <2>2. Held(s) => Held(s)'
    BY DEF Held, TabsInv, TabTypes
  <2>3. excused \subseteq excused'
    BY DEF LostByOverlap
  <2>4. s \notin closer[c].cut
    BY DEF TabsInv, CloserInv, Busy, Doomed
  <2>5. ASSUME NEW w \in Tabs, s \in tabs[w].panes
        PROVE  s \in tabs'[w].panes \/ s \in excused'
    <3>1. CASE w = t /\ Has(t, closer[c].list[t].id)
      BY <2>4, <2>5, <3>1 DEF SetPanes, LostByOverlap
    <3>2. CASE ~(w = t /\ Has(t, closer[c].list[t].id))
      BY <2>5, <3>2 DEF SetPanes, TabsInv, TabTypes
    <3>. QED BY <3>1, <3>2
  <2>. QED BY <2>1, <2>2, <2>3, <2>5 DEF Shown
<1>10. ConnectingIsAwaited'
  BY DEF TabsInv, ConnectingIsAwaited, ClosePaneEnds, LostByOverlap, SetPanes
<1>. QED BY <1>1, <1>2, <1>3, <1>4, <1>5, <1>6, <1>7, <1>8, <1>9, <1>10 DEF TabsInv

LEMMA TabsRestoreOpens ==
  ASSUME TabsInv, RestoreOpens
  PROVE  TabsInv'
<1>1. TabTypes'
  <2>1. sess' \in [Sessions -> {"unused", "open", "closed"}]
    BY DEF TabsInv, TabTypes, RestoreOpens, OpenSess
  <2>2. restore' \in [todo : 0..MaxStored, got : SUBSET Sessions, done : BOOLEAN]
    <3>1. /\ restore \in [todo : 0..MaxStored, got : SUBSET Sessions, done : BOOLEAN]
          /\ restore.todo > 0 /\ NewSession \in Sessions /\ MaxStored \in Nat
      BY NewIs, TerminalTabsAssumption DEF TabsInv, TabTypes, RestoreOpens, OpenSess
    <3>2. restore.todo - 1 \in 0..MaxStored
            /\ restore.got \cup {NewSession} \in SUBSET Sessions
      BY <3>1
    <3>. QED BY <3>1, <3>2 DEF RestoreOpens
  <2>. QED BY <2>1, <2>2 DEF TabsInv, TabTypes, RestoreOpens
<1>2. TabForms'
  BY DEF TabsInv, TabForms, Busy, RestoreOpens
<1>3. OwnInv'
  BY NewIs DEF TabsInv, OwnInv, Owns, Opened, OpenedInv, Busy, RestoreOpens, OpenSess
<1>4. OpenedInv'
  BY NewIs DEF TabsInv, OpenedInv, TabTypes, TabType, ReconnType, CloserType, Opened,
     OwnInv, Owns, ReconnInv, RestoreOpens, OpenSess
<1>5. ReconnInv'
  BY NewIs DEF TabsInv, ReconnInv, RestoreOpens, OpenSess
<1>6. CloserInv'
  BY NewIs DEF TabsInv, CloserInv, Busy, Doomed, RestoreOpens, OpenSess
<1>7. PaneInv'
  BY DEF TabsInv, PaneInv, Busy, Has, RestoreOpens, Has
<1>8. LiveInv'
  BY DEF TabsInv, LiveInv, Busy, OwnInv, OpenedInv, Opened, Owns, Replaces, Doomed, PaneInv,
     RestoreOpens, OpenSess
<1>9. SessionsShown'
  BY DEF TabsInv, SessionsShown, Held, Shown, ReconnInv, RestoreOpens, OpenSess
<1>10. ConnectingIsAwaited'
  BY DEF TabsInv, ConnectingIsAwaited, RestoreOpens
<1>. QED BY <1>1, <1>2, <1>3, <1>4, <1>5, <1>6, <1>7, <1>8, <1>9, <1>10 DEF TabsInv

LEMMA TabsRestoreSkips ==
  ASSUME TabsInv, RestoreSkips
  PROVE  TabsInv'
<1>1. TabTypes'
  BY NewIs, TerminalTabsAssumption DEF TabsInv, TabTypes, TabType, CloserType, ReconnType,
     SplitType, Busy, RestoreSkips, OpenSess, LostByOverlap
<1>2. TabForms'
  BY DEF TabsInv, TabForms, Busy, RestoreSkips
<1>3. OwnInv'
  BY DEF TabsInv, OwnInv, TabTypes, TabType, CloserType, ReconnType, SplitType, Owns,
     Opened, OpenedInv, Busy, RestoreSkips, OpenSess, LostByOverlap
<1>4. OpenedInv'
  BY DEF TabsInv, OpenedInv, TabTypes, TabType, ReconnType, CloserType, Opened, OwnInv,
     Owns, ReconnInv, RestoreSkips, OpenSess, LostByOverlap
<1>5. ReconnInv'
  BY NewIs DEF TabsInv, ReconnInv, TabTypes, ReconnType, RestoreSkips, OpenSess
<1>6. CloserInv'
  BY NewIs DEF TabsInv, CloserInv, TabTypes, CloserType, TabType, Busy, Doomed,
     RestoreSkips, OpenSess, LostByOverlap
<1>7. PaneInv'
  BY DEF TabsInv, PaneInv, Busy, Has, RestoreSkips, LostByOverlap, Has
<1>8. LiveInv'
  BY DEF TabsInv, LiveInv, TabTypes, TabType, CloserType, ReconnType, SplitType, Busy,
     OwnInv, OpenedInv, Opened, Owns, Replaces, Doomed, PaneInv, RestoreSkips, OpenSess,
     LostByOverlap
<1>9. SessionsShown'
  BY DEF TabsInv, SessionsShown, TabTypes, TabType, CloserType, ReconnType, SplitType, Held,
     Shown, ReconnInv, RestoreSkips, OpenSess, LostByOverlap
<1>10. ConnectingIsAwaited'
  BY DEF TabsInv, ConnectingIsAwaited, RestoreSkips, LostByOverlap
<1>. QED BY <1>1, <1>2, <1>3, <1>4, <1>5, <1>6, <1>7, <1>8, <1>9, <1>10 DEF TabsInv

LEMMA TabsRestoreEnds ==
  ASSUME TabsInv, RestoreEnds
  PROVE  TabsInv'
<1>1. TabTypes'
  <2>1. tabs' \in [Tabs -> TabType]
    <3>. SUFFICES ASSUME NEW t \in Tabs PROVE tabs'[t] \in TabType
      BY RestoreSets DEF TabsInv, TabTypes
    <3>1. Unborn \in TabType /\ Closed \in TabType
      BY TabFields
    <3>2. tabs[t] \in TabType /\ restore.got \subseteq Sessions
      BY DEF TabsInv, TabTypes
    <3>3. \A s \in Sessions : Tab("ready", s, {s}) \in TabType
      BY DEF Tab, TabType, Sessions
    <3>. QED BY <3>1, <3>2, <3>3, RestoreSets
  <2>2. excused' \subseteq Sessions /\ stale' \subseteq Tabs
    <3>1. Shown(tabs) \subseteq Sessions
      BY DEF TabsInv, TabTypes, Shown, TabType
    <3>. QED BY <3>1 DEF TabsInv, TabTypes, RestoreEnds, LostByOverlap, Listed
  <2>3. restore' \in [todo : 0..MaxStored, got : SUBSET Sessions, done : BOOLEAN]
    BY DEF TabsInv, TabTypes, RestoreEnds
  <2>. QED BY <2>1, <2>2, <2>3 DEF TabsInv, TabTypes, RestoreEnds
<1>2. TabForms'
  BY DEF TabsInv, TabForms, TabTypes, TabType, CloserType, Formed, Busy, RestoreEnds,
     LostByOverlap, Tab, Unborn, Closed, Listed
<1>3. OwnInv'
  <2>1. \A t \in Tabs, s \in Sessions : Owns(t, s)' =>
          Owns(t, s) \/ (s \in restore.got /\ tabs'[t] = Tab("ready", s, {s}))
    <3>. SUFFICES ASSUME NEW t \in Tabs, NEW s \in Sessions, Owns(t, s)'
                  PROVE  Owns(t, s)
                    \/ (s \in restore.got /\ tabs'[t] = Tab("ready", s, {s}))
      OBVIOUS
    <3>1. s \in tabs'[t].panes => s \in tabs[t].panes
                                   \/ (s \in restore.got /\ tabs'[t] = Tab("ready", s, {s}))
      <4>1. CASE restore.got = {}
        BY <4>1 DEF RestoreEnds
      <4>2. CASE restore.got # {}
        <5>1. \/ \E u \in restore.got : tabs'[t] = Tab("ready", u, {u})
              \/ tabs'[t] = Unborn \/ tabs'[t] = Closed
          BY <4>2, RestoreSets
        <5>2. \A u : Tab("ready", u, {u}).panes = {u}
          BY DEF Tab
        <5>3. ASSUME NEW u \in restore.got, tabs'[t] = Tab("ready", u, {u}),
                     s \in tabs'[t].panes
              PROVE  s = u
          <6>1. s \in Tab("ready", u, {u}).panes
            BY <5>3
          <6>. QED BY <5>2, <6>1
        <5>. QED BY <5>1, <5>3, TabFields
      <4>. QED BY <4>1, <4>2
    <3>. QED BY <3>1 DEF Owns, Busy, RestoreEnds
  <2>2. \A s \in Sessions : Opened(s)' => Opened(s) /\ s \notin restore.got
    BY DEF TabsInv, TabTypes, RestoreEnds, Opened, OpenedInv
  <2>3. \A s \in restore.got, t \in Tabs :
          Opened(s) /\ sess[s] = "open" /\ s \in Sessions /\ ~Owns(t, s)
    BY DEF TabsInv, TabTypes, OpenedInv, OwnInv, Opened
  <2>4. \A s \in restore.got : \A t, u \in Tabs :
          tabs'[t] = Tab("ready", s, {s}) /\ tabs'[u] = Tab("ready", s, {s}) => t = u
    BY RestoreSets
  <2>5. sess' = sess
    BY DEF RestoreEnds
  <2>. SUFFICES ASSUME NEW s \in Sessions, NEW t \in Tabs, Owns(t, s)'
                PROVE  /\ sess[s] # "unused" /\ ~Opened(s)'
                       /\ \A u \in Tabs : Owns(u, s)' => u = t
    BY <2>5 DEF OwnInv
  <2>6. CASE s \in restore.got
    BY <2>1, <2>2, <2>3, <2>4, <2>6
  <2>7. CASE s \notin restore.got
    BY <2>1, <2>2, <2>7 DEF TabsInv, OwnInv
  <2>. QED BY <2>6, <2>7
<1>4. OpenedInv'
  BY DEF TabsInv, OpenedInv, Opened, OwnInv, Owns, ReconnInv, RestoreEnds, Tab, Unborn,
     Closed, Listed
<1>5. ReconnInv'
  BY DEF TabsInv, ReconnInv, RestoreEnds, Tab, Unborn, Closed, Listed
<1>6. CloserInv'
  BY DEF TabsInv, CloserInv, Busy, Doomed, RestoreEnds, Tab, Unborn, Closed, Listed
<1>7. PaneInv'
  <2>. SUFFICES ASSUME NEW c \in Closers, NEW t \in Tabs, Busy(c), closer[c].pc = "pane",
                       t \in closer[c].gone
                PROVE  /\ closer[c].gone = {t} /\ closer[c].list[t].st = "ready"
                       /\ closer[c].cut \subseteq closer[c].list[t].panes
                       /\ t \notin stale' => tabs'[t].st = "gone"
                            \/ Has(t, closer[c].list[t].id)'
    BY DEF RestoreEnds, PaneInv, Busy
  <2>1. /\ closer[c].gone = {t} /\ closer[c].list[t].st = "ready"
        /\ closer[c].cut \subseteq closer[c].list[t].panes
        /\ t \notin stale => tabs[t].st = "gone" \/ Has(t, closer[c].list[t].id)
    BY DEF TabsInv, PaneInv
  <2>2. CASE restore.got = {}
    BY <2>1, <2>2 DEF RestoreEnds, Has
  <2>3. CASE restore.got # {}
    <3>. SUFFICES ASSUME t \notin stale' PROVE tabs'[t].st = "gone"
      BY <2>1
    <3>1. t \notin stale /\ t \notin Listed
      BY <2>3, RestoreSets
    <3>2. tabs[t].st = "gone"
      BY <2>1, <3>1 DEF Has, Listed
    <3>. QED BY <2>3, <3>2, RestoreSets, TabFields
  <2>. QED BY <2>2, <2>3
<1>8. LiveInv'
  <2>. SUFFICES ASSUME NEW w \in Tabs, w \notin stale', NEW r \in tabs'[w].panes,
                       sess'[r] = "closed"
                PROVE  Replaces(w, r)'
    BY DEF LiveInv
  <2>1. sess' = sess /\ \A s \in restore.got : sess[s] # "closed"
    BY DEF TabsInv, TabTypes, OpenedInv, Opened, RestoreEnds
  <2>2. restore.got = {}
    <3>. SUFFICES ASSUME restore.got # {} PROVE FALSE
      OBVIOUS
    <3>1. \/ \E u \in restore.got : tabs'[w] = Tab("ready", u, {u})
          \/ tabs'[w] = Unborn \/ tabs'[w] = Closed
      BY RestoreSets
    <3>2. ASSUME NEW u \in restore.got, tabs'[w] = Tab("ready", u, {u}) PROVE r = u
      <4>1. r \in Tab("ready", u, {u}).panes
        BY <3>2
      <4>. QED BY <4>1 DEF Tab
    <3>. QED BY <2>1, <3>1, <3>2, TabFields
  <2>3. Replaces(w, r)
    BY <2>1, <2>2 DEF TabsInv, LiveInv, RestoreEnds
  <2>. QED BY <2>3 DEF Replaces, Busy, Doomed, RestoreEnds
<1>9. SessionsShown'
  <2>. SUFFICES ASSUME NEW s \in Sessions, sess[s] = "open"
                PROVE  s \in Shown(tabs') \cup excused' \/ Held(s)'
    BY DEF SessionsShown, RestoreEnds
  <2>1. s \in Shown(tabs) \cup excused \/ Held(s)
    BY DEF TabsInv, SessionsShown
  <2>2. CASE restore.got = {}
    BY <2>1, <2>2 DEF RestoreEnds, Held
  <2>3. CASE restore.got # {}
    <3>1. ASSUME s \in restore.got PROVE s \in Shown(tabs')
      <4>1. PICK t \in Tabs : tabs'[t] = Tab("ready", s, {s})
        BY <3>1, RestoreSets
      <4>2. s \in Tab("ready", s, {s}).panes
        BY DEF Tab
      <4>. QED BY <4>1, <4>2 DEF Shown
    <3>2. LostByOverlap(Listed # {}, Shown(tabs), Listed)
      BY <2>3, RestoreSets
    <3>3. s \in Shown(tabs) => Listed # {}
      BY DEF Shown, Listed, TabsInv, TabForms, Formed
    <3>4. Held(s) /\ s \notin restore.got => Held(s)'
      BY DEF Held, RestoreEnds
    <3>. QED BY <2>1, <3>1, <3>2, <3>3, <3>4 DEF LostByOverlap
  <2>. QED BY <2>2, <2>3
<1>10. ConnectingIsAwaited'
  BY DEF TabsInv, ConnectingIsAwaited, RestoreEnds, LostByOverlap, Tab, Unborn, Closed,
     Listed
<1>. QED BY <1>1, <1>2, <1>3, <1>4, <1>5, <1>6, <1>7, <1>8, <1>9, <1>10 DEF TabsInv

LEMMA TabsInitInv == TabsInit => TabsInv
<1>. SUFFICES ASSUME TabsInit PROVE TabsInv
  OBVIOUS
<1>1. PICK n \in 0..MaxStored :
        /\ restore = [todo |-> n, got |-> {}, done |-> n = 0]
        /\ begun = IF n = 0 THEN 0 ELSE 1
  BY DEF TabsInit
<1>2. restore \in [todo : 0..MaxStored, got : SUBSET Sessions, done : BOOLEAN]
  BY <1>1
<1>3. begun \in 0..MaxHandlers
  BY <1>1, TerminalTabsAssumption
<1>4. tabs \in [Tabs -> TabType] /\ \A t \in Tabs : tabs[t].panes = {}
        /\ tabs[t].st = "unborn"
  BY TabFields DEF TabsInit
<1>5. TabTypes
  BY <1>2, <1>3, <1>4 DEF TabsInit, TabTypes
<1>6. (\A c \in Closers : ~Busy(c)) /\ reconn = NoCall /\ split = NoCall /\ restore.got = {}
      /\ \A s \in Sessions : sess[s] = "unused"
  BY <1>1 DEF TabsInit, Busy
<1>7. TabForms /\ OwnInv /\ OpenedInv /\ ReconnInv /\ CloserInv /\ PaneInv
  BY <1>4, <1>6 DEF TabForms, Formed, OwnInv, Owns, Opened, OpenedInv, ReconnInv, CloserInv,
     PaneInv
<1>8. LiveInv /\ SessionsShown /\ ConnectingIsAwaited
  BY <1>4, <1>6 DEF LiveInv, SessionsShown, ConnectingIsAwaited
<1>. QED BY <1>5, <1>7, <1>8 DEF TabsInv

LEMMA TabsNextInv == TabsInv /\ [TabsNext]_ttVars => TabsInv'
<1>. SUFFICES ASSUME TabsInv, [TabsNext]_ttVars PROVE TabsInv'
  OBVIOUS
<1>1. CASE UNCHANGED ttVars
  BY <1>1 DEF ttVars, TabsInv, TabTypes, TabForms, Busy, OwnInv, Owns, Opened, OpenedInv,
     ReconnInv, CloserInv, Doomed, PaneInv, Has, LiveInv, Replaces, SessionsShown, Held,
     Shown, ConnectingIsAwaited
<1>2. CASE TabsNext
  BY <1>2, TabsConnect, TabsRetry, TabsOpenReturns, TabsOpenFails, TabsReconnectTab,
     TabsReconnectCloses, TabsReconnectOpens, TabsReconnectEnds, TabsReconnectFails,
     TabsSplitPane, TabsSplitEnds, TabsSplitFails, TabsCloseTabs, TabsClosePane,
     TabsCloserCloses, TabsCloseTabsEnds, TabsClosePaneEnds, TabsRestoreOpens,
     TabsRestoreSkips, TabsRestoreEnds DEF TabsNext
<1>. QED BY <1>1, <1>2

LEMMA TabsInvImplies == TabsInv => TabsTypeOK /\ TabsSafe
<1>. SUFFICES ASSUME TabsInv PROVE TabsTypeOK /\ TabsSafe
  OBVIOUS
<1>. USE DEF TabsInv
<1>1. TabsTypeOK
  BY DEF TabTypes, TabsTypeOK, TabType, ReconnType, SplitType, CloserType
<1>2. ASSUME NEW t \in Tabs, NEW u \in Tabs, t # u
      PROVE  tabs[t].panes \cap tabs[u].panes = {}
  BY <1>2 DEF OwnInv, Owns, TabTypes, TabType
<1>3. \A s \in Shown(tabs) : s \in Sessions /\ ~Opened(s)
  BY DEF Shown, OwnInv, Owns, TabTypes, TabType
<1>4. OnePanePerSession
  BY <1>2, <1>3 DEF OnePanePerSession, Opened
<1>5. PanesAreLive
  BY DEF LiveInv, Replaces, PanesAreLive, BeingReplaced, Busy
<1>. QED BY <1>1, <1>4, <1>5 DEF TabsSafe

(* The invariant of the tabs holds in every reachable state.               *)
THEOREM TabsInvariance == TabsSpec => []TabsInv
BY TabsInitInv, TabsNextInv, PTL DEF TabsSpec

(* Every variable of the tabs keeps its type (TerminalWorkbench.tsx).      *)
THEOREM TabsTypeCorrect == TabsSpec => []TabsTypeOK
BY TabsInvariance, TabsInvImplies, PTL

(* An open session has a pane or a handler that will give it one or close  *)
(* it, no two tabs show one session, a pane shows an open session unless a *)
(* handler is about to write its tab, and a tab that connects has a call   *)
(* it waits for: except what handlers that met have lost                   *)
(* (TerminalWorkbench.tsx).                                                *)
THEOREM TabsAreSafe == TabsSpec => []TabsSafe
BY TabsInvariance, TabsInvImplies, PTL

-----------------------------------------------------------------------------
(* The tree of saved requests.                                             *)

(* No set of folders holds the parents of all its folders.                 *)
Acyclic(tree) == \A S \in SUBSET Folders : S # {} => \E f \in S : tree[f] \notin S

(* The folders above one, itself among them.                               *)
LEMMA UpwardStarts ==
  ASSUME NEW tree, NEW f \in Folders PROVE f \in Upward(tree, f)
BY DEF Upward

LEMMA UpwardCloses ==
  ASSUME NEW tree, NEW n, NEW f \in Upward(tree, n), tree[f] \in Folders
  PROVE  tree[f] \in Upward(tree, n)
BY DEF Upward, UpClosed

LEMMA UpwardOfParent ==
  ASSUME NEW tree, NEW f \in Folders, tree[f] \in Folders
  PROVE  Upward(tree, tree[f]) \subseteq Upward(tree, f)
BY DEF Upward, UpClosed

(* In an acyclic tree no folder is above its parent.                       *)
LEMMA AcyclicSays ==
  ASSUME NEW tree, Acyclic(tree), NEW f \in Folders
  PROVE  f \notin Upward(tree, tree[f])
<1>. SUFFICES ASSUME f \in Upward(tree, tree[f]) PROVE FALSE
  OBVIOUS
<1> DEFINE G == {w \in Folders : f \in Upward(tree, w)}
<1>1. ASSUME NEW w \in Folders, f \in Upward(tree, tree[w]) PROVE tree[w] \in G
  <2>1. tree[w] \in Folders
    <3>1. ASSUME tree[w] \notin Folders PROVE FALSE
      <4>1. {} \in SUBSET Folders /\ UpClosed(tree, {})
              /\ {tree[w]} \cap Folders \subseteq {}
        BY <3>1 DEF UpClosed
      <4>. QED BY <1>1, <4>1 DEF Upward
    <3>. QED BY <3>1
  <2>. QED BY <1>1, <2>1
<1>2. ASSUME NEW w \in G, w # f PROVE tree[w] \in G
  <2>1. ASSUME NEW set \in SUBSET Folders, UpClosed(tree, set),
               {tree[w]} \cap Folders \subseteq set
        PROVE  f \in set
    <3>1. /\ set \cup {w} \in SUBSET Folders /\ UpClosed(tree, set \cup {w})
          /\ {w} \cap Folders \subseteq set \cup {w}
      BY <2>1 DEF UpClosed
    <3>2. f \in set \cup {w}
      BY <3>1 DEF Upward
    <3>. QED BY <1>2, <3>2
  <2>2. f \in Upward(tree, tree[w])
    BY <2>1 DEF Upward
  <2>. QED BY <1>1, <2>2
<1>3. f \in G /\ G \in SUBSET Folders
  BY UpwardStarts
<1>4. \A w \in G : tree[w] \in G
  BY <1>1, <1>2
<1>. HIDE DEF G
<1>. QED BY <1>3, <1>4 DEF Acyclic

(* Folders that are not above p may go below it.                           *)
LEMMA MovesKeepAcyclic ==
  ASSUME NEW old, NEW new, NEW p, Acyclic(old),
         \A f \in Folders : new[f] = old[f] \/ (new[f] = p /\ f \notin Upward(old, p))
  PROVE  Acyclic(new)
<1>. SUFFICES ASSUME NEW S \in SUBSET Folders, S # {}, \A f \in S : new[f] \in S PROVE FALSE
  BY DEF Acyclic
<1>1. CASE p \notin S
  <2>1. \A f \in S : old[f] \in S
    BY <1>1
  <2>. QED BY <2>1 DEF Acyclic
<1>2. CASE p \in S
  <2> DEFINE W == S \cap Upward(old, p)
  <2>1. p \in W /\ W \in SUBSET Folders
    BY <1>2, UpwardStarts
  <2>2. ASSUME NEW w \in W PROVE old[w] \in W
    <3>1. new[w] = old[w] /\ new[w] \in S
      OBVIOUS
    <3>. QED BY <3>1, UpwardCloses
  <2>. HIDE DEF W
  <2>. QED BY <2>1, <2>2 DEF Acyclic
<1>. QED BY <1>1, <1>2

LEMMA FewerKeepAcyclic ==
  ASSUME NEW old, NEW new, Acyclic(old),
         \A f \in Folders : new[f] = old[f] \/ new[f] \notin Folders
  PROVE  Acyclic(new)
<1>. SUFFICES ASSUME NEW S \in SUBSET Folders, S # {}, \A f \in S : new[f] \in S PROVE FALSE
  BY DEF Acyclic
<1>1. \A f \in S : old[f] \in S
  OBVIOUS
<1>. QED BY <1>1 DEF Acyclic

LEMMA LeavesKeepAcyclic ==
  ASSUME NEW old, NEW new, NEW n, Acyclic(old),
         \A f \in Folders : f # n => new[f] = old[f],
         \A f \in Folders : new[f] # n
  PROVE  Acyclic(new)
<1>. SUFFICES ASSUME NEW S \in SUBSET Folders, S # {}, \A f \in S : new[f] \in S PROVE FALSE
  BY DEF Acyclic
<1>1. /\ S \ {n} \in SUBSET Folders /\ S \ {n} # {}
      /\ \A f \in S \ {n} : old[f] \in S \ {n}
  OBVIOUS
<1>. QED BY <1>1 DEF Acyclic

(* A layout that is accepted leaves no cycle in the rows it was checked with.    *)
LEMMA LayoutKeepsAcyclic ==
  ASSUME IsFiniteSet(Folders), NEW read \in Trees, Acyclic(read),
         NEW layout, DOMAIN layout \subseteq Nodes,
         \A n \in DOMAIN layout : layout[n] \in Folders \cup {Top},
         NEW order \in SetToSeqs({layout[n] : n \in DOMAIN layout}),
         AcceptedIn(order, layout, read)
  PROVE  Acyclic([n \in Nodes |-> IF n \in DOMAIN layout THEN layout[n] ELSE read[n]])
<1> DEFINE P == {layout[n] : n \in DOMAIN layout}
           k == Cardinality(P)
           T(i) == [n \in Nodes |->
                       IF n \in DOMAIN layout /\ layout[n] \in {order[j] : j \in 1..i}
                                      THEN layout[n] ELSE read[n]]
           R == {p \in Nat \X Nat : p[1] < p[2]}
           Bad == {i \in Nat : i <= k /\ ~Acyclic(T(i))}
<1>1. IsFiniteSet(P) /\ k \in Nat
  <2>1. IsFiniteSet(Folders \cup {Top})
    BY FS_AddElement
  <2>2. P \in SUBSET (Folders \cup {Top})
    OBVIOUS
  <2>. HIDE DEF P
  <2>. QED BY <2>1, <2>2, FS_Subset, FS_CardinalityType
<1>2. order \in [1..k -> P] /\ \A i, j \in 1..k : i # j => order[i] # order[j]
  BY DEF SetToSeqs
<1>3. \A n \in DOMAIN layout : layout[n] \in P
  OBVIOUS
<1>4. \A n \in DOMAIN layout : \E i \in 1..k : order[i] = layout[n]
  <2>. HIDE DEF P
  <2>1. order \in Injection(1..k, P)
    BY <1>2 DEF Injection, IsInjective
  <2>2. Cardinality(1..k) = k
    BY <1>1, FS_Interval
  <2>3. order \in Surjection(1..k, P)
    BY <1>1, <2>1, <2>2, FS_Injection
  <2>. QED BY <1>3, <2>3 DEF Surjection
<1>. HIDE DEF P, k
<1>5. Bad = {}
  <2>. SUFFICES ASSUME Bad # {} PROVE FALSE
    OBVIOUS
  <2>1. IsWellFoundedOn(R, Nat)
    BY NatLessThanWellFounded DEF OpToRel
  <2>. HIDE DEF R
  <2>2. PICK i \in Bad : \A j \in Bad : ~(<<j, i>> \in R)
    BY <2>1, WFMin
  <2>3. i \in Nat /\ i <= k /\ ~Acyclic(T(i))
    OBVIOUS
  <2>4. CASE i = 0
    <3>1. {order[j] : j \in 1..i} = {}
      BY <2>4
    <3>2. \A f \in Folders : T(i)[f] = read[f]
      BY <3>1 DEF Nodes
    <3>. HIDE DEF T
    <3>. QED BY <2>3, <3>2, FewerKeepAcyclic
  <2>5. CASE i # 0
    <3>1. i - 1 \in Nat /\ i - 1 <= k /\ i \in 1..k /\ i - 1 < i /\ i \in 1..i
          /\ 1..i = (1..(i - 1)) \cup {i}
      BY <1>1, <2>3, <2>5
    <3>2. <<i - 1, i>> \in R
      BY <2>3, <3>1 DEF R
    <3>3. Acyclic(T(i - 1))
      BY <2>2, <3>1, <3>2
    <3>4. ASSUME NEW f \in Folders, T(i)[f] # T(i - 1)[f]
          PROVE  T(i)[f] = order[i] /\ f \notin Upward(T(i - 1), order[i])
      <4>1. f \in DOMAIN layout /\ layout[f] = order[i] /\ T(i)[f] = order[i]
        BY <3>1, <3>4 DEF Nodes
      <4>2. i \in DOMAIN order
        BY <1>2, <3>1
      <4>3. ~IsFolderDescendant(T(i - 1), f, order[i])
        BY <4>1, <4>2 DEF AcceptedIn
      <4>. QED BY <4>1, <4>3 DEF IsFolderDescendant
    <3>. HIDE DEF T
    <3>5. Acyclic(T(i))
      BY <3>3, <3>4, MovesKeepAcyclic
    <3>. QED BY <2>3, <3>5
  <2>. QED BY <2>4, <2>5
<1>6. Acyclic(T(k))
  BY <1>1, <1>5
<1>7. T(k) = [n \in Nodes |-> IF n \in DOMAIN layout THEN layout[n] ELSE read[n]]
  BY <1>4
<1>. HIDE DEF T
<1>. QED BY <1>6, <1>7

(* A drop has put no folder below itself in the list it has seen; nobody   *)
(* having written meanwhile, its two reads agree with the rows, it is not  *)
(* refused and its layout moves one node.                                  *)
DropOK(d, tree, x) ==
  /\ d.pc \in {"sent", "read"} =>
       d.node \in In(d.seen) /\ ~IsFolderDescendant(d.seen, d.node, d.to)
  /\ ~x /\ d.pc = "read" => Acyclic(d.read)
  /\ d.alone =>
       /\ d.pc \in {"sent", "read"} => tree = d.seen /\ d.to \in {Top} \cup In(d.seen)
       /\ d.pc = "read" => d.read = d.seen
       /\ ~x => d.pc # "refused"
       /\ ~x /\ d.pc = "done" => tree = [d.seen EXCEPT ![d.node] = d.to]

(* A row a delete is through with is gone; of a folder it has, at first,   *)
(* only deleted the requests.                                              *)
Emptied(d, tree, n) ==
  CASE n \in Apis -> tree[n] = Absent
    [] n \in Folders /\ d.pc = "apis" -> \A a \in Apis : tree[a] # n
    [] OTHER -> tree[n] = Absent

(* A delete nobody interfered with has all the folders below those it was  *)
(* asked for, and is through with those it no longer lists.                *)
DeleteOK(d, tree) ==
  d.alone /\ d.pc # "sent" =>
    /\ \A f \in Folders : tree[f] \in d.ids => f \in d.ids
    /\ \A n \in d.ids \ d.left : Emptied(d, tree, n)
    /\ d.pc # "apis" =>
         \A a \in Apis : tree[a] \notin d.ids /\ (a \in d.ids => tree[a] = Absent)
    /\ d.pc = "done" => d.left = {}

(* The invariant: tree and crossed are the rows and the flag.              *)
Cmd == {NoCommand} \cup Drops \cup Saves \cup Deletes

CommandOK(d, tree, x) ==
  /\ d # NoCommand /\ d \in Drops => DropOK(d, tree, x)
  /\ d # NoCommand /\ d \in Deletes => DeleteOK(d, tree)

TreeInv ==
  /\ TreeTypeOK
  /\ ~crossed => Acyclic(parent)
  /\ \A c \in Commands : CommandOK(command[c], parent, crossed)

(* A command another one writes under promises less from then on.          *)
LEMMA DisturbedIsOK ==
  ASSUME NEW d \in Drops \cup Saves \cup Deletes, NEW tree, NEW new, NEW x, NEW y, x => y,
         CommandOK(d, tree, x)
  PROVE  /\ [d EXCEPT !.alone = FALSE] \in Drops \cup Saves \cup Deletes
         /\ d # NoCommand => CommandOK([d EXCEPT !.alone = FALSE], new, y)
<1> DEFINE e == [d EXCEPT !.alone = FALSE]
<1>1. CASE d \in Drops
  <2>1. e \in Drops /\ e \notin Deletes
    BY <1>1 DEF Drops, Deletes
  <2>2. /\ e.pc = d.pc /\ e.node = d.node /\ e.to = d.to /\ e.seen = d.seen
        /\ e.read = d.read /\ ~e.alone
    BY <1>1 DEF Drops
  <2>. HIDE DEF e
  <2>3. d # NoCommand => CommandOK(e, new, y)
    BY <1>1, <2>1, <2>2 DEF CommandOK, DropOK
  <2>. QED BY <2>1, <2>3 DEF e
<1>2. CASE d \in Saves
  <2>1. e \in Saves /\ e \notin Deletes /\ e \notin Drops
    BY <1>2 DEF Drops, Deletes, Saves
  <2>. QED BY <2>1 DEF CommandOK
<1>3. CASE d \in Deletes
  <2>1. e \in Deletes /\ e \notin Drops /\ ~e.alone
    BY <1>3 DEF Drops, Deletes
  <2>. QED BY <2>1 DEF CommandOK, DeleteOK
<1>. QED BY <1>1, <1>2, <1>3

LEMMA AntitoneOK ==
  ASSUME NEW d, NEW tree, NEW x, NEW y, x => y, CommandOK(d, tree, x)
  PROVE  CommandOK(d, tree, y)
BY DEF CommandOK, DropOK

LEMMA DisturbedAreOK ==
  ASSUME TreeInv, NEW c, NEW d \in Commands, d # c, NEW new, NEW y, crossed => y
  PROVE  Disturbed(c)[d] \in Cmd /\ CommandOK(Disturbed(c)[d], new, y)
<1>1. command[d] \in Cmd /\ CommandOK(command[d], parent, crossed)
  BY DEF TreeInv, TreeTypeOK, Cmd
<1>2. CASE command[d] = NoCommand
  BY <1>2 DEF Disturbed, Cmd, CommandOK
<1>3. CASE command[d] # NoCommand
  <2>1. command[d] \in Drops \cup Saves \cup Deletes
    BY <1>1, <1>3 DEF Cmd
  <2>2. Disturbed(c)[d] = [command[d] EXCEPT !.alone = FALSE]
    BY <1>3 DEF Disturbed
  <2>. QED BY <1>1, <1>3, <2>1, <2>2, DisturbedIsOK DEF Cmd
<1>. QED BY <1>2, <1>3

(* The steps that write rows, those that do not, and those that end one.   *)
LEMMA WritesKeeps ==
  ASSUME TreeInv, NEW c \in Commands, NEW tree \in Trees, NEW rec \in Cmd,
         Writes(c, tree, rec), crossed' \in BOOLEAN, crossed => crossed',
         ~crossed' => Acyclic(tree), CommandOK(rec, tree, crossed')
  PROVE  TreeInv'
<1>1. ASSUME NEW d \in Commands
      PROVE  command'[d] \in Cmd /\ CommandOK(command'[d], tree, crossed')
  <2>1. command[d] \in Cmd /\ CommandOK(command[d], parent, crossed)
    BY DEF TreeInv, TreeTypeOK, Cmd
  <2>2. DOMAIN command = Commands /\ DOMAIN Disturbed(c) = Commands
    BY DEF TreeInv, TreeTypeOK, Disturbed
  <2>3. CASE d = c
    BY <2>2, <2>3 DEF Writes
  <2>4. CASE d # c /\ tree = parent
    <3>1. command'[d] = command[d]
      BY <2>2, <2>4 DEF Writes
    <3>. QED BY <2>1, <2>4, <3>1, AntitoneOK
  <2>5. CASE d # c /\ tree # parent
    <3>1. command'[d] = Disturbed(c)[d]
      BY <2>2, <2>5 DEF Writes
    <3>. QED BY <2>5, <3>1, DisturbedAreOK
  <2>. QED BY <2>3, <2>4, <2>5
<1>2. DOMAIN command' = Commands /\ command' = [d \in DOMAIN command' |-> command'[d]]
  BY DEF Writes, TreeInv, TreeTypeOK, Disturbed
<1>3. command' \in [Commands -> Cmd]
  BY <1>1, <1>2
<1>4. TreeTypeOK'
  BY <1>3 DEF TreeInv, TreeTypeOK, Writes, listVars, Cmd
<1>. QED BY <1>1, <1>4 DEF TreeInv, Writes

LEMMA TurnsKeeps ==
  ASSUME TreeInv, NEW c \in Commands, NEW rec \in Cmd, Turns(c, rec),
         UNCHANGED <<parent, crossed>>, CommandOK(rec, parent, crossed),
         listed' \in Trees, unused' \subseteq Nodes, due' \subseteq Kinds,
         answers' \subseteq answers, issued' \in 0..MaxCommands
  PROVE  TreeInv'
<1>1. command' \in [Commands -> Cmd]
  BY DEF TreeInv, TreeTypeOK, Turns, Cmd
<1>2. TreeTypeOK'
  BY <1>1 DEF TreeInv, TreeTypeOK, Cmd
<1>3. \A d \in Commands : CommandOK(command'[d], parent, crossed)
  BY DEF TreeInv, TreeTypeOK, Turns
<1>. QED BY <1>2, <1>3 DEF TreeInv

LEMMA NoCommandOK == ASSUME NEW tree, NEW x PROVE CommandOK(NoCommand, tree, x)
BY DEF CommandOK

LEMMA SavesAreOK ==
  ASSUME NEW s \in Saves, NEW tree, NEW x PROVE CommandOK(s, tree, x)
BY DEF CommandOK, Saves, Drops, Deletes

LEMMA EndsKeeps ==
  ASSUME TreeInv, NEW c \in Commands, NEW refresh \in SUBSET Kinds, EndsCommand(c, refresh)
  PROVE  TreeInv'
<1>1. NoCommand \in Cmd /\ CommandOK(NoCommand, parent, crossed)
  BY NoCommandOK DEF Cmd
<1>2. /\ Turns(c, NoCommand) /\ UNCHANGED <<parent, crossed>>
      /\ listed' \in Trees /\ unused' \subseteq Nodes /\ due' \subseteq Kinds
      /\ answers' \subseteq answers /\ issued' \in 0..MaxCommands
  BY DEF EndsCommand, TreeInv, TreeTypeOK, rowVars
<1>. QED BY <1>1, <1>2, TurnsKeeps

LEMMA StartsKeeps ==
  ASSUME TreeInv, NEW c \in Commands, NEW rec \in Cmd, StartsCommand(c, rec),
         CommandOK(rec, parent, crossed)
  PROVE  TreeInv'
<1>1. /\ Turns(c, rec) /\ UNCHANGED <<parent, crossed>>
      /\ listed' \in Trees /\ unused' \subseteq Nodes /\ due' \subseteq Kinds
      /\ answers' \subseteq answers
  BY DEF StartsCommand, TreeInv, TreeTypeOK, listVars
<1>2. issued' \in 0..MaxCommands
  <2>1. issued \in 0..MaxCommands /\ MaxCommands \in Nat
    BY TreeAssumption DEF TreeInv, TreeTypeOK
  <2>2. (issued' = issued + 1 \/ issued' = issued + 2) /\ issued' <= MaxCommands
    BY DEF StartsCommand
  <2>. QED BY <2>1, <2>2
<1>. QED BY <1>1, <1>2, TurnsKeeps

(* Each action keeps the invariant.                                        *)
LEMMA TreeInits == TreeInit => TreeInv
<1>. SUFFICES ASSUME TreeInit PROVE TreeInv
  OBVIOUS
<1>1. parent \in Trees
  BY DEF TreeInit, Trees, Places
<1>2. TreeTypeOK
  <2>1. 0 \in 0..MaxCommands
    BY TreeAssumption
  <2>2. command \in [Commands -> {NoCommand} \cup Drops \cup Saves \cup Deletes]
    BY DEF TreeInit
  <2>. QED BY <1>1, <2>1, <2>2 DEF TreeInit, TreeTypeOK
<1>3. Acyclic(parent)
  BY TreeAssumption DEF Acyclic, TreeInit, Nodes
<1>4. \A c \in Commands : CommandOK(command[c], parent, crossed)
  BY NoCommandOK DEF TreeInit
<1>. QED BY <1>2, <1>3, <1>4 DEF TreeInv

LEMMA Restarts == TreeInv /\ RestartTree => TreeInv'
<1>. SUFFICES ASSUME TreeInv, RestartTree PROVE TreeInv'
  OBVIOUS
<1>1. TreeTypeOK'
  BY DEF TreeInv, TreeTypeOK, RestartTree, rowVars
<1>2. \A c \in Commands : CommandOK(command[c], parent, crossed)'
  BY NoCommandOK DEF RestartTree
<1>. QED BY <1>1, <1>2 DEF TreeInv, RestartTree, rowVars

LEMMA ToolSaves ==
  ASSUME TreeInv, NEW a \in Apis, NEW p \in Places, ToolSavesRequest(a, p) PROVE TreeInv'
<1>1. parent' \in Trees /\ \A f \in Folders : parent'[f] = parent[f]
  BY TreeAssumption DEF TreeInv, TreeTypeOK, ToolSavesRequest, Trees, Nodes
<1>2. ~crossed' => Acyclic(parent')
  BY <1>1 DEF Acyclic, TreeInv, ToolSavesRequest
<1>3. ASSUME NEW d \in Commands
      PROVE  command'[d] \in Cmd /\ CommandOK(command'[d], parent', crossed')
  <2>1. CASE parent' = parent
    BY <2>1 DEF TreeInv, TreeTypeOK, Cmd, ToolSavesRequest
  <2>2. CASE parent' # parent
    <3>1. command' = Disturbed(NoCommand) /\ crossed' = crossed /\ d # NoCommand
      BY <2>2, TreeAssumption DEF ToolSavesRequest
    <3>. QED BY <3>1, DisturbedAreOK
  <2>. QED BY <2>1, <2>2
<1>4. DOMAIN command' = Commands /\ command' = [d \in DOMAIN command' |-> command'[d]]
  BY DEF ToolSavesRequest, TreeInv, TreeTypeOK, Disturbed
<1>5. command' \in [Commands -> Cmd]
  BY <1>3, <1>4
<1>6. issued' \in 0..MaxCommands
  <2>1. issued \in 0..MaxCommands /\ MaxCommands \in Nat
    BY TreeAssumption DEF TreeInv, TreeTypeOK
  <2>. QED BY <2>1 DEF ToolSavesRequest
<1>7. TreeTypeOK'
  BY <1>1, <1>5, <1>6 DEF TreeInv, TreeTypeOK, ToolSavesRequest, Cmd
<1>. QED BY <1>2, <1>3, <1>7 DEF TreeInv

LEMMA ListsRead == ASSUME TreeInv, NEW k \in Kinds, ListReads(k) PROVE TreeInv'
<1>1. [kind |-> k, list |-> [n \in k |-> parent[n]]]
        \in [kind : {k}, list : [k -> Places \cup {Absent}]]
  BY DEF TreeInv, TreeTypeOK, Trees, Kinds, Nodes
<1>2. answers'
        \subseteq UNION {[kind : {j}, list : [j -> Places \cup {Absent}]] : j \in Kinds}
  BY <1>1 DEF TreeInv, TreeTypeOK, ListReads
<1>3. TreeTypeOK'
  BY <1>2 DEF TreeInv, TreeTypeOK, ListReads, rowVars
<1>. QED BY <1>3 DEF TreeInv, ListReads, rowVars

LEMMA ListsReturn ==
  ASSUME TreeInv, NEW answer \in answers, ListReturns(answer) PROVE TreeInv'
<1>1. PICK k \in Kinds : answer \in [kind : {k}, list : [k -> Places \cup {Absent}]]
  BY DEF TreeInv, TreeTypeOK
<1>2. answer.kind = k /\ answer.list \in [k -> Places \cup {Absent}]
  BY <1>1
<1>3. listed' \in Trees
  BY <1>2 DEF ListReturns, Trees, TreeInv, TreeTypeOK
<1>4. TreeTypeOK'
  BY <1>3 DEF TreeInv, TreeTypeOK, ListReturns, rowVars
<1>. QED BY <1>4 DEF TreeInv, ListReturns, rowVars

LEMMA Dropping ==
  ASSUME TreeInv, NEW c \in Commands, NEW n \in Nodes, NEW p \in Places, Drop(c, n, p)
  PROVE  TreeInv'
<1> DEFINE d == [kind |-> "drop", pc |-> "sent", node |-> n, to |-> p, seen |-> listed,
                 read |-> listed, alone |-> (listed = parent)]
<1>1. d \in Drops
  BY DEF Drops, TreeInv, TreeTypeOK
<1>2. /\ d.pc = "sent" /\ d.node = n /\ d.to = p /\ d.seen = listed
      /\ d.alone = (listed = parent)
  OBVIOUS
<1>3. StartsCommand(c, d) /\ n \in In(listed) /\ ~IsFolderDescendant(listed, n, p)
      /\ p \in {Top} \cup In(listed)
  BY DEF Drop, ShownPlaces
<1>. HIDE DEF d
<1>4. d \notin Deletes
  BY <1>1 DEF Drops, Deletes
<1>5. CommandOK(d, parent, crossed)
  BY <1>2, <1>3, <1>4 DEF CommandOK, DropOK
<1>. QED BY <1>1, <1>3, <1>5, StartsKeeps DEF Cmd

LEMMA SaveStarts ==
  ASSUME TreeInv, NEW c \in Commands, NEW s \in Saves, StartsCommand(c, s) PROVE TreeInv'
BY SavesAreOK, StartsKeeps DEF Cmd

LEMMA DialogsOpen ==
  ASSUME TreeInv, NEW c \in Commands, NEW f \in Folders, OpenFolderDialog(c, f)
  PROVE  TreeInv'
<1> DEFINE s == [kind |-> "save", pc |-> "open", node |-> f, to |-> listed[f],
                 alone |-> TRUE]
<1>1. s \in Saves
  BY DEF Saves, TreeInv, TreeTypeOK, Trees, Nodes
<1>2. StartsCommand(c, s)
  BY DEF OpenFolderDialog
<1>. HIDE DEF s
<1>. QED BY <1>1, <1>2, SaveStarts

LEMMA NewDialogsOpen ==
  ASSUME TreeInv, NEW c \in Commands, NEW f \in Folders, NEW p \in Places,
         OpenNewFolderDialog(c, f, p)
  PROVE  TreeInv'
<1> DEFINE s == [kind |-> "save", pc |-> "open", node |-> f, to |-> p, alone |-> TRUE]
<1>1. s \in Saves
  BY DEF Saves, Nodes
<1>2. StartsCommand(c, s)
  BY DEF OpenNewFolderDialog
<1>. HIDE DEF s
<1>. QED BY <1>1, <1>2, SaveStarts

LEMMA Creating ==
  ASSUME TreeInv, NEW c \in Commands, NEW a \in Apis, NEW p \in Places,
         CreateRequest(c, a, p)
  PROVE  TreeInv'
<1> DEFINE s == [kind |-> "save", pc |-> "sent", node |-> a, to |-> p, alone |-> TRUE]
<1>1. s \in Saves
  BY DEF Saves, Nodes
<1>2. StartsCommand(c, s)
  BY DEF CreateRequest
<1>. HIDE DEF s
<1>. QED BY <1>1, <1>2, SaveStarts

LEMMA DeleteStarts ==
  ASSUME TreeInv, NEW c \in Commands, NEW ids \in SUBSET Nodes,
         StartsCommand(c, Delete(ids))
  PROVE  TreeInv'
<1>1. Delete(ids) \in Deletes /\ Delete(ids).pc = "sent"
  BY DEF Delete, Deletes
<1>2. Delete(ids) \notin Drops
  BY <1>1 DEF Deletes, Drops
<1>3. CommandOK(Delete(ids), parent, crossed)
  BY <1>1, <1>2 DEF CommandOK, DeleteOK
<1>. QED BY <1>1, <1>3, StartsKeeps DEF Cmd

LEMMA FolderDeletes ==
  ASSUME TreeInv, NEW c \in Commands, NEW f \in Folders, DeleteFolder(c, f) PROVE TreeInv'
BY DeleteStarts DEF DeleteFolder, Nodes

LEMMA BatchDeletes ==
  ASSUME TreeInv, NEW c \in Commands, NEW selected \in SUBSET Nodes,
         BatchDelete(c, selected)
  PROVE  TreeInv'
<1> DEFINE folders == Below(listed, selected \cap Folders) \cap Folders
           ids == folders \cup (selected \cap Apis)
                     \cup {a \in Apis : listed[a] \in folders}
<1>1. ids \in SUBSET Nodes
  BY DEF Nodes
<1>2. StartsCommand(c, Delete(ids))
  BY DEF BatchDelete
<1>. HIDE DEF ids
<1>. QED BY <1>1, <1>2, DeleteStarts

LEMMA Leaving ==
  ASSUME TreeInv, NEW c \in Commands, NEW pc \in {"sent", "left"}, LeaveDialog(c, pc)
  PROVE  TreeInv'
<1> DEFINE s == [command[c] EXCEPT !.pc = "sent"]
           rec == IF pc = "sent" THEN s ELSE NoCommand
<1>1. command[c] \in Saves
  BY DEF LeaveDialog, TreeInv, TreeTypeOK, Drops, Saves, Deletes
<1>2. s \in Saves
  BY <1>1 DEF Saves
<1>3. rec \in Cmd /\ CommandOK(rec, parent, crossed)
  BY <1>2, SavesAreOK, NoCommandOK DEF Cmd
<1>4. Turns(c, rec) /\ UNCHANGED <<parent, crossed>>
      /\ listed' \in Trees /\ unused' \subseteq Nodes /\ due' \subseteq Kinds
      /\ answers' \subseteq answers /\ issued' \in 0..MaxCommands
  BY DEF LeaveDialog, TreeInv, TreeTypeOK, rowVars, listVars
<1>. HIDE DEF rec
<1>. QED BY <1>3, <1>4, TurnsKeeps

LEMMA Ending ==
  ASSUME TreeInv, NEW c \in Commands,
         DropEnds(c) \/ SaveEnds(c) \/ DeleteFails(c) \/ DeleteEnds(c)
  PROVE  TreeInv'
<1>1. PICK refresh \in SUBSET Kinds : EndsCommand(c, refresh)
  BY DEF DropEnds, SaveEnds, DeleteFails, DeleteEnds, Kinds
<1>. QED BY <1>1, EndsKeeps

LEMMA DropsRead == ASSUME TreeInv, NEW c \in Commands, DropReads(c) PROVE TreeInv'
<1> DEFINE d == command[c]
           e == [d EXCEPT !.pc = "read", !.read = parent]
<1>1. d \in Drops /\ d # NoCommand /\ d.pc = "sent"
  BY DEF DropReads, TreeInv, TreeTypeOK, Drops, Saves, Deletes
<1>2. parent \in Trees /\ DropOK(d, parent, crossed) /\ (~crossed => Acyclic(parent))
  BY <1>1 DEF TreeInv, TreeTypeOK, CommandOK
<1>3. e \in Drops /\ e.pc = "read" /\ e.node = d.node /\ e.to = d.to /\ e.seen = d.seen
      /\ e.read = parent /\ e.alone = d.alone
  BY <1>1, <1>2 DEF Drops
<1>4. Turns(c, e) /\ UNCHANGED <<parent, crossed>>
      /\ listed' \in Trees /\ unused' \subseteq Nodes /\ due' \subseteq Kinds
      /\ answers' \subseteq answers /\ issued' \in 0..MaxCommands
  BY DEF DropReads, TreeInv, TreeTypeOK, rowVars, listVars
<1>. HIDE DEF d, e
<1>5. e \notin Deletes
  BY <1>3 DEF Drops, Deletes
<1>6. DropOK(e, parent, crossed)
  BY <1>1, <1>2, <1>3 DEF DropOK
<1>. QED BY <1>3, <1>4, <1>5, <1>6, TurnsKeeps DEF CommandOK, Cmd

LEMMA RowsSaved == ASSUME TreeInv, NEW c \in Commands, SaveRow(c) PROVE TreeInv'
<1> DEFINE s == command[c]
           after == [parent EXCEPT ![s.node] = s.to]
           e == [s EXCEPT !.pc = "done"]
<1>1. s \in Saves
  BY DEF SaveRow, TreeInv, TreeTypeOK, Drops, Saves, Deletes
<1>2. e \in Saves /\ s.node \in Nodes /\ s.to \in Places \cup {Absent}
  BY <1>1 DEF Saves
<1>3. after \in Trees
  BY <1>2 DEF TreeInv, TreeTypeOK, Trees
<1>4. Writes(c, after, e)
      /\ crossed' = (crossed \/ (after # parent /\ \E f \in Folders : after[f] = s.node))
  BY DEF SaveRow
<1>5. ~crossed' => Acyclic(after)
  <2>. SUFFICES ASSUME ~crossed' PROVE Acyclic(after)
    OBVIOUS
  <2>1. Acyclic(parent)
    BY <1>4 DEF TreeInv
  <2>2. \A f \in Folders : f # s.node => after[f] = parent[f]
    BY DEF TreeInv, TreeTypeOK, Trees, Nodes
  <2>. HIDE DEF after, s
  <2>. QED BY <1>4, <2>1, <2>2, LeavesKeepAcyclic
<1>6. crossed' \in BOOLEAN /\ (crossed => crossed')
  BY <1>4 DEF TreeInv, TreeTypeOK
<1>. HIDE DEF after, s, e
<1>. QED BY <1>2, <1>3, <1>4, <1>5, <1>6, SavesAreOK, WritesKeeps DEF Cmd

LEMMA LayoutSays ==
  ASSUME NEW d \in Drops
  PROVE  /\ DOMAIN Layout(d) \subseteq Nodes
         /\ \A n \in DOMAIN Layout(d) :
              /\ Layout(d)[n] = [d.seen EXCEPT ![d.node] = d.to][n]
              /\ Layout(d)[n] \in Folders \cup {Top}
         /\ \A n \in Nodes :
              [d.seen EXCEPT ![d.node] = d.to][n] \in {Top} \cup In(d.seen)
                => n \in DOMAIN Layout(d)
<1> DEFINE after == [d.seen EXCEPT ![d.node] = d.to]
           found == {n \in Nodes : after[n] = Top \/ after[n] \in In(d.seen)}
<1>1. d.seen \in Trees /\ d.to \in Places
  BY DEF Drops
<1>2. after \in Trees
  BY <1>1 DEF Trees
<1>3. \A n \in found : after[n] \in Folders \cup {Top}
  BY <1>2, TreeAssumption DEF Trees, Places, In
<1>4. Layout(d) = [n \in found |-> after[n]]
  BY DEF Layout
<1>. HIDE DEF after
<1>5. DOMAIN Layout(d) = found /\ \A n \in found : Layout(d)[n] = after[n]
  BY <1>4
<1>6. found \subseteq Nodes /\ \A n \in Nodes : after[n] \in {Top} \cup In(d.seen)
        => n \in found
  OBVIOUS
<1>. HIDE DEF found
<1>. QED BY <1>3, <1>5, <1>6 DEF after

(* What is written when the rows are those the drop was made from.         *)
LEMMA LayoutLands ==
  ASSUME NEW d \in Drops, d.node \in In(d.seen), d.to \in {Top} \cup In(d.seen)
  PROVE  [n \in Nodes |-> IF n \in DOMAIN Layout(d) THEN Layout(d)[n] ELSE d.seen[n]]
           = [d.seen EXCEPT ![d.node] = d.to]
<1> DEFINE after == [d.seen EXCEPT ![d.node] = d.to]
           new == [n \in Nodes |->
                      IF n \in DOMAIN Layout(d) THEN Layout(d)[n] ELSE d.seen[n]]
<1>1. d.seen \in Trees /\ d.to \in Places /\ d.node \in Nodes
  BY DEF Drops
<1>2. after \in [Nodes -> Places \cup {Absent}] /\ after[d.node] = d.to
      /\ \A n \in Nodes : n # d.node => after[n] = d.seen[n]
  BY <1>1 DEF Trees
<1>3. ASSUME NEW n \in Nodes PROVE new[n] = after[n]
  <2>. HIDE DEF after
  <2>1. CASE n \in DOMAIN Layout(d)
    BY <2>1, LayoutSays DEF after
  <2>2. CASE n \notin DOMAIN Layout(d)
    <3>1. n # d.node
      BY <2>2, <1>1, <1>2, LayoutSays DEF after
    <3>. QED BY <1>2, <2>2, <3>1
  <2>. QED BY <2>1, <2>2
<1>4. new = [n \in Nodes |-> new[n]] /\ after = [n \in Nodes |-> after[n]]
  BY <1>2
<1>. QED BY <1>3, <1>4

(* And it is accepted in any order.                                        *)
LEMMA LayoutAccepted ==
  ASSUME NEW d \in Drops, d.node \in In(d.seen), Acyclic(d.seen),
         ~IsFolderDescendant(d.seen, d.node, d.to), NEW order
  PROVE  AcceptedIn(order, Layout(d), d.seen)
<1> DEFINE after == [d.seen EXCEPT ![d.node] = d.to]
           L == Layout(d)
<1>1. d.seen \in Trees /\ d.to \in Places /\ d.node \in Nodes
  BY DEF Drops
<1>2. after \in [Nodes -> Places \cup {Absent}] /\ after[d.node] = d.to
      /\ \A n \in Nodes : n # d.node => after[n] = d.seen[n]
  BY <1>1 DEF Trees
<1>3. Acyclic(after)
  <2>1. \A f \in Folders : after[f] = d.seen[f]
          \/ (after[f] = d.to /\ f \notin Upward(d.seen, d.to))
    BY <1>2 DEF IsFolderDescendant, Nodes
  <2>. HIDE DEF after
  <2>. QED BY <2>1, MovesKeepAcyclic
<1>4. DOMAIN L \subseteq Nodes /\ \A n \in DOMAIN L : L[n] = after[n]
  BY LayoutSays
<1>5. d.seen \in [Nodes -> Places \cup {Absent}]
  BY <1>1 DEF Trees
<1>. HIDE DEF after, L
<1>6. ASSUME NEW before, NEW n \in DOMAIN L,
             NEW now, now = [m \in Nodes |-> IF m \in DOMAIN L /\ L[m] \in before
                                               THEN L[m] ELSE d.seen[m]]
      PROVE  ~IsFolderDescendant(now, n, L[n])
  <2>1. \A m \in Nodes : now[m] = IF m \in DOMAIN L
          /\ L[m] \in before THEN L[m] ELSE d.seen[m]
    BY <1>6
  <2>2. now \in [Nodes -> Places \cup {Absent}] \/ now = [m \in Nodes |-> now[m]]
    BY <1>6
  <2>3. \A m \in Nodes : m # d.node => now[m] = d.seen[m] /\ now[m] = after[m]
    BY <1>2, <1>4, <2>1
  <2>4. CASE now[d.node] = after[d.node]
    <3>1. \A m \in Nodes : now[m] = after[m]
      BY <2>3, <2>4
    <3>2. \A m \in Nodes : now[m] = after[m] /\ now = [k \in Nodes |-> now[k]]
                           /\ after = [k \in Nodes |-> after[k]]
      BY <1>2, <1>6, <3>1
    <3>3. now = after
      BY <1>1, <3>2
    <3>4. ~IsFolderDescendant(after, n, after[n])
      BY <1>3, AcyclicSays DEF IsFolderDescendant
    <3>. QED BY <1>4, <3>3, <3>4
  <2>5. CASE now[d.node] # after[d.node]
    <3>1. now[d.node] = d.seen[d.node]
      BY <1>1, <1>4, <2>1, <2>5
    <3>2. \A m \in Nodes : now[m] = d.seen[m] /\ now = [k \in Nodes |-> now[k]]
                           /\ d.seen = [k \in Nodes |-> d.seen[k]]
      BY <1>5, <1>6, <2>3, <3>1
    <3>3. now = d.seen
      BY <1>1, <3>2
    <3>4. CASE n = d.node
      BY <1>2, <1>4, <3>3, <3>4
    <3>5. CASE n # d.node
      <4>1. L[n] = d.seen[n]
        BY <1>2, <1>4, <3>5
      <4>2. ~IsFolderDescendant(d.seen, n, d.seen[n])
        BY AcyclicSays DEF IsFolderDescendant
      <4>. QED BY <3>3, <4>1, <4>2
    <3>. QED BY <3>4, <3>5
  <2>. QED BY <2>4, <2>5
<1>7. AcceptedIn(order, L, d.seen)
  BY <1>6 DEF AcceptedIn
<1>. QED BY <1>7 DEF L

LEMMA LayoutsApplied == ASSUME TreeInv, NEW c \in Commands, ApplyLayout(c) PROVE TreeInv'
<1> DEFINE d == command[c]
           L == Layout(d)
           P == {L[n] : n \in DOMAIN L}
           known == DOMAIN L \cup (P \ {Top}) \subseteq In(d.read)
           there == DOMAIN L \subseteq In(parent)
           new == [n \in Nodes |-> IF n \in DOMAIN L THEN L[n] ELSE parent[n]]
           done == [d EXCEPT !.pc = "done", !.read = d.seen]
           refused == [d EXCEPT !.pc = "refused", !.read = d.seen]
<1>1. d \in Drops /\ d # NoCommand /\ d.pc = "read"
  BY DEF ApplyLayout, TreeInv, TreeTypeOK, Drops, Saves, Deletes
<1>2. parent \in Trees /\ crossed \in BOOLEAN /\ DropOK(d, parent, crossed)
  BY <1>1 DEF TreeInv, TreeTypeOK, CommandOK
<1>3. PICK order \in SetToSeqs(P) :
        IF known /\ there /\ AcceptedIn(order, L, d.read)
          THEN /\ Writes(c, new, done)
               /\ crossed' = (crossed \/ \E f \in Folders \ DOMAIN L :
                                            parent[f] \notin {d.read[f], Absent})
          ELSE Writes(c, parent, refused) /\ UNCHANGED crossed
  BY DEF ApplyLayout
<1>4. /\ DOMAIN L \subseteq Nodes
      /\ \A n \in DOMAIN L : L[n] \in Folders \cup {Top}
  BY <1>1, LayoutSays
<1>5. /\ d.read \in Trees /\ d.seen \in Trees /\ d.to \in Places /\ d.node \in Nodes
      /\ d.alone \in BOOLEAN
  BY <1>1 DEF Drops
<1>6. CASE known /\ there /\ AcceptedIn(order, L, d.read)
  <2>1. /\ Writes(c, new, done)
        /\ crossed' = (crossed \/ \E f \in Folders \ DOMAIN L :
                                     parent[f] \notin {d.read[f], Absent})
    BY <1>3, <1>6
  <2>2. new \in Trees
    BY <1>2, <1>4 DEF Trees, Places
  <2>3. crossed' \in BOOLEAN /\ (crossed => crossed')
    BY <1>2, <2>1
  <2>4. ~crossed' => Acyclic(new)
    <3>. SUFFICES ASSUME ~crossed' PROVE Acyclic(new)
      OBVIOUS
    <3> DEFINE mid == [n \in Nodes |-> IF n \in DOMAIN L THEN L[n] ELSE d.read[n]]
    <3>1. Acyclic(d.read)
      BY <1>1, <1>2, <2>3 DEF DropOK
    <3>2. Acyclic(mid)
      <4>. HIDE DEF d, L
      <4>. QED BY <1>3, <1>4, <1>5, <1>6, <3>1, LayoutKeepsAcyclic, TreeAssumption
    <3>3. \A f \in Folders : new[f] = mid[f] \/ new[f] \notin Folders
      <4>1. ASSUME NEW f \in Folders PROVE new[f] = mid[f] \/ new[f] = Absent
        <5>1. f \in DOMAIN L \/ parent[f] \in {d.read[f], Absent}
          BY <2>1
        <5>. QED BY <5>1 DEF Nodes
      <4>2. Absent \notin Folders
        BY TreeAssumption DEF Nodes
      <4>. HIDE DEF new, mid
      <4>. QED BY <4>1, <4>2
    <3>. HIDE DEF new, mid
    <3>. QED BY <3>2, <3>3, FewerKeepAcyclic
  <2>5. done \in Drops /\ done.pc = "done" /\ done.seen = d.seen /\ done.node = d.node
        /\ done.to = d.to /\ done.alone = d.alone
    BY <1>1, <1>5 DEF Drops
  <2>6. d.alone => new = [d.seen EXCEPT ![d.node] = d.to]
    <3>. SUFFICES ASSUME d.alone PROVE new = [d.seen EXCEPT ![d.node] = d.to]
      OBVIOUS
    <3>1. d.node \in In(d.seen) /\ d.to \in {Top} \cup In(d.seen) /\ parent = d.seen
      BY <1>1, <1>2 DEF DropOK
    <3>. HIDE DEF d
    <3>. QED BY <1>1, <3>1, LayoutLands
  <2>. HIDE DEF d, new, done
  <2>7. CommandOK(done, new, crossed')
    <3>1. done \notin Deletes
      BY <2>5 DEF Drops, Deletes
    <3>2. DropOK(done, new, crossed')
      BY <2>5, <2>6 DEF DropOK
    <3>. QED BY <3>1, <3>2 DEF CommandOK
  <2>. QED BY <2>1, <2>2, <2>3, <2>4, <2>5, <2>7, WritesKeeps DEF Cmd
<1>7. CASE ~(known /\ there /\ AcceptedIn(order, L, d.read))
  <2>1. Writes(c, parent, refused) /\ UNCHANGED crossed
    BY <1>3, <1>7
  <2>2. refused \in Drops /\ refused.pc = "refused" /\ refused.alone = d.alone
    BY <1>1, <1>5 DEF Drops
  <2>3. d.alone => crossed
    <3>. SUFFICES ASSUME d.alone, ~crossed PROVE FALSE
      BY <1>2
    <3>1. /\ d.node \in In(d.seen) /\ d.to \in {Top} \cup In(d.seen) /\ parent = d.seen
          /\ d.read = d.seen /\ ~IsFolderDescendant(d.seen, d.node, d.to)
          /\ Acyclic(d.seen)
      BY <1>1, <1>2 DEF DropOK
    <3>2. AcceptedIn(order, L, d.read)
      <4>. HIDE DEF d
      <4>. QED BY <1>1, <3>1, LayoutAccepted
    <3>3. \A n \in DOMAIN L : n \in In(d.seen) /\ L[n] \in {Top} \cup In(d.seen)
      <4>1. ASSUME NEW n \in DOMAIN L PROVE n \in In(d.seen)
        <5>1. CASE n = d.node
          BY <3>1, <5>1
        <5>2. CASE n # d.node
          <6>1. L[n] = d.seen[n]
            BY <1>1, <1>4, <1>5, <5>2, LayoutSays DEF Trees
          <6>. QED BY <1>4, <6>1, TreeAssumption DEF In, Nodes
        <5>. QED BY <5>1, <5>2
      <4>2. \A n \in DOMAIN L : L[n] \in {Top} \cup In(d.seen)
        BY DEF Layout
      <4>. QED BY <4>1, <4>2
    <3>4. known /\ there
      BY <3>1, <3>3
    <3>. QED BY <1>7, <3>2, <3>4
  <2>. HIDE DEF d, refused
  <2>4. CommandOK(refused, parent, crossed')
    <3>1. refused \notin Deletes
      BY <2>2 DEF Drops, Deletes
    <3>2. DropOK(refused, parent, crossed')
      BY <2>1, <2>2, <2>3 DEF DropOK
    <3>. QED BY <3>1, <3>2 DEF CommandOK
  <2>5. ~crossed' => Acyclic(parent)
    BY <2>1 DEF TreeInv
  <2>. QED BY <1>2, <2>1, <2>2, <2>4, <2>5, WritesKeeps DEF Cmd
<1>. QED BY <1>6, <1>7

LEMMA DeletesRead == ASSUME TreeInv, NEW c \in Commands, DeleteReads(c) PROVE TreeInv'
<1> DEFINE d == command[c]
           roots == d.ids \cap Folders
           all == (d.ids \cap Apis) \cup ExpandDescendants(roots)
           e == [d EXCEPT !.pc = "apis", !.ids = all, !.left = all, !.alone = TRUE]
<1>1. d \in Deletes
  BY DEF DeleteReads, TreeInv, TreeTypeOK, Drops, Saves, Deletes
<1>2. all \in SUBSET Nodes
  BY DEF ExpandDescendants, Nodes
<1>3. e \in Deletes /\ e.pc = "apis" /\ e.ids = all /\ e.left = all
  <2>. HIDE DEF all
  <2>. QED BY <1>1, <1>2 DEF Deletes
<1>4. \A f \in Folders : parent[f] \in all => f \in all
  <2>. SUFFICES ASSUME NEW f \in Folders, parent[f] \in all
                PROVE  f \in ExpandDescendants(roots)
    OBVIOUS
  <2>0. parent[f] \in Folders
    BY TreeAssumption DEF TreeInv, TreeTypeOK, Trees, Places, ExpandDescendants, Nodes
  <2>1. Upward(parent, parent[f]) \cap roots # {} \/ parent[parent[f]] \in roots
    BY <2>0, TreeAssumption DEF ExpandDescendants, Below
  <2>2. Upward(parent, f) \cap roots # {}
    <3>. HIDE DEF roots
    <3>1. CASE Upward(parent, parent[f]) \cap roots # {}
      BY <2>0, <3>1, UpwardOfParent
    <3>2. CASE parent[parent[f]] \in roots
      <4>1. parent[f] \in Upward(parent, f)
        BY <2>0, UpwardStarts, UpwardCloses
      <4>2. parent[parent[f]] \in Upward(parent, f)
        BY <3>2, <4>1, UpwardCloses DEF roots
      <4>. QED BY <3>2, <4>2
    <3>. QED BY <2>1, <3>1, <3>2
  <2>. QED BY <2>2 DEF ExpandDescendants, Below, Nodes
<1>5. Turns(c, e) /\ UNCHANGED <<parent, crossed>>
      /\ listed' \in Trees /\ unused' \subseteq Nodes /\ due' \subseteq Kinds
      /\ answers' \subseteq answers /\ issued' \in 0..MaxCommands
  BY DEF DeleteReads, TreeInv, TreeTypeOK, rowVars, listVars
<1>. HIDE DEF d, e, all
<1>6. DeleteOK(e, parent)
  BY <1>3, <1>4 DEF DeleteOK
<1>7. e \notin Drops
  BY <1>3 DEF Drops, Deletes
<1>. QED BY <1>3, <1>5, <1>6, <1>7, TurnsKeeps DEF CommandOK, Cmd

LEMMA RowsDeleted ==
  ASSUME TreeInv, NEW c \in Commands, NEW n \in Nodes, DeleteRows(c, n) PROVE TreeInv'
<1> DEFINE d == command[c]
           left == d.left \ {n}
           rows == IF d.pc = "apis"
             /\ n \in Folders THEN {a \in Apis : parent[a] = n} ELSE {n}
           folders == d.ids \cap Folders
           new == [m \in Nodes |-> IF m \in rows THEN Absent ELSE parent[m]]
           e == CASE left # {} -> [d EXCEPT !.left = left]
                  [] left = {} /\ d.pc = "apis" /\ folders # {}
                       -> [d EXCEPT !.pc = "folders", !.left = folders]
                  [] OTHER -> [d EXCEPT !.pc = "done", !.left = {}]
<1>1. d \in Deletes /\ d # NoCommand /\ d.pc \in {"apis", "folders"} /\ n \in d.left
      /\ Writes(c, new, e) /\ crossed' = crossed
  BY DEF DeleteRows, TreeInv, TreeTypeOK, Drops, Saves, Deletes
<1>2. parent \in Trees /\ DeleteOK(d, parent)
  BY <1>1 DEF TreeInv, TreeTypeOK, CommandOK
<1>3. new \in Trees
  BY <1>2 DEF Trees
<1>4. d.ids \in SUBSET Nodes /\ d.left \in SUBSET Nodes /\ d.alone \in BOOLEAN
  BY <1>1 DEF Deletes
<1>5. /\ e \in Deletes /\ e.ids = d.ids /\ e.alone = d.alone
      /\ \/ left # {} /\ e.left = left /\ e.pc = d.pc
         \/ left = {} /\ d.pc = "apis" /\ e.pc = "folders" /\ e.left = folders
         \/ left = {} /\ d.pc = "apis" /\ folders = {} /\ e.pc = "done" /\ e.left = {}
         \/ left = {} /\ d.pc = "folders" /\ e.pc = "done" /\ e.left = {}
  <2>1. left \in SUBSET Nodes /\ folders \in SUBSET Nodes
    BY <1>4
  <2>. HIDE DEF left, folders
  <2>. QED BY <1>1, <2>1 DEF Deletes
<1>6. \A m \in Nodes : new[m] = IF m \in rows THEN Absent ELSE parent[m]
  OBVIOUS
<1>7. Absent \notin Nodes /\ Folders \cap Apis = {} /\ Nodes = Folders \cup Apis
  BY TreeAssumption DEF Nodes
<1>8. ~crossed' => Acyclic(new)
  <2>1. \A f \in Folders : new[f] = parent[f] \/ new[f] \notin Folders
    BY <1>6, <1>7
  <2>. HIDE DEF new
  <2>. QED BY <1>1, <2>1, FewerKeepAcyclic DEF TreeInv
<1>9. DeleteOK(e, new)
  <2>. HIDE DEF e, new, d
  <2>. SUFFICES ASSUME d.alone PROVE DeleteOK(e, new)
    BY <1>5 DEF DeleteOK
  <2>1. /\ \A f \in Folders : parent[f] \in d.ids => f \in d.ids
        /\ \A m \in d.ids \ d.left : Emptied(d, parent, m)
        /\ d.pc = "folders" =>
             \A a \in Apis : parent[a] \notin d.ids /\ (a \in d.ids => parent[a] = Absent)
    BY <1>1, <1>2 DEF DeleteOK
  <2>2. \A f \in Folders : new[f] \in d.ids => f \in d.ids
    BY <1>4, <1>6, <1>7, <2>1
  <2>3. ASSUME NEW m \in d.ids \ left PROVE Emptied(d, new, m)
    <3>1. CASE m \in Apis
      <4>1. m = n \/ parent[m] = Absent
        BY <1>7, <2>1, <3>1 DEF Emptied
      <4>. QED BY <1>6, <1>7, <3>1, <4>1 DEF Emptied
    <3>2. CASE m \in Folders /\ d.pc = "apis"
      <4>1. m = n \/ \A a \in Apis : parent[a] # m
        BY <1>7, <2>1, <3>2 DEF Emptied
      <4>2. \A a \in Apis : new[a] # m
        BY <1>6, <1>7, <3>2, <4>1
      <4>. QED BY <1>7, <3>2, <4>2 DEF Emptied
    <3>3. CASE m \in Folders /\ d.pc = "folders"
      <4>1. m = n \/ parent[m] = Absent
        BY <1>7, <2>1, <3>3 DEF Emptied
      <4>2. new[m] = Absent
        BY <1>6, <1>7, <3>3, <4>1
      <4>. QED BY <1>7, <3>3, <4>2 DEF Emptied
    <3>. QED BY <1>1, <1>4, <1>7, <3>1, <3>2, <3>3
  <2>4. ASSUME d.pc = "folders" \/ left = {}, NEW a \in Apis
        PROVE  new[a] \notin d.ids /\ (a \in d.ids => new[a] = Absent)
    <3>1. CASE d.pc = "folders"
      BY <1>4, <1>6, <1>7, <2>1, <3>1
    <3>2. CASE d.pc = "apis" /\ left = {}
      <4>1. a \in d.ids => new[a] = Absent
        BY <1>7, <2>3, <3>2 DEF Emptied
      <4>2. \A f \in d.ids \cap Folders : new[a] # f
        BY <1>7, <2>3, <3>2 DEF Emptied
      <4>3. new[a] \notin Apis
        BY <1>2, <1>3, TreeAssumption DEF Trees, Places, Nodes
      <4>. QED BY <1>4, <1>7, <4>1, <4>2, <4>3
    <3>. QED BY <1>1, <2>4, <3>1, <3>2
  <2>5. CASE left # {} /\ e.left = left /\ e.pc = d.pc
    <3>1. \A m \in d.ids \ left : Emptied(e, new, m)
      BY <2>3, <2>5 DEF Emptied
    <3>2. d.pc # "apis" => d.pc = "folders"
      BY <1>1
    <3>3. d.pc # "done"
      BY <1>1
    <3>. HIDE DEF left, rows, folders
    <3>. QED BY <1>5, <2>2, <2>4, <2>5, <3>1, <3>2, <3>3 DEF DeleteOK
  <2>6. CASE left = {} /\ d.pc = "apis" /\ e.pc = "folders" /\ e.left = folders
    <3>1. \A m \in d.ids \ folders : m \in Apis /\ new[m] = Absent
      BY <1>4, <1>7, <2>4, <2>6
    <3>2. \A m \in d.ids \ folders : Emptied(e, new, m)
      BY <3>1 DEF Emptied
    <3>. HIDE DEF left, rows, folders
    <3>. QED BY <1>5, <2>2, <2>4, <2>6, <3>2 DEF DeleteOK
  <2>7. CASE left = {} /\ e.left = {} /\ e.pc = "done"
             /\ (d.pc = "folders" \/ (d.pc = "apis" /\ folders = {}))
    <3>1. \A m \in d.ids : new[m] = Absent
      <4>1. \A m \in d.ids \cap Apis : new[m] = Absent
        BY <2>4, <2>7
      <4>2. \A m \in d.ids \cap Folders : new[m] = Absent
        BY <1>7, <2>3, <2>7 DEF Emptied
      <4>. QED BY <1>4, <1>7, <4>1, <4>2
    <3>2. \A m \in d.ids : Emptied(e, new, m)
      BY <1>4, <1>7, <2>7, <3>1 DEF Emptied
    <3>. HIDE DEF left, rows, folders
    <3>. QED BY <1>5, <2>2, <2>4, <2>7, <3>2 DEF DeleteOK
  <2>. HIDE DEF left, rows, folders
  <2>. QED BY <1>5, <2>5, <2>6, <2>7
<1>10. e \notin Drops
  BY <1>5 DEF Deletes, Drops
<1>11. CommandOK(e, new, crossed')
  BY <1>9, <1>10 DEF CommandOK
<1>12. crossed' \in BOOLEAN /\ (crossed => crossed')
  BY <1>1 DEF TreeInv, TreeTypeOK
<1>13. e \in Cmd /\ Writes(c, new, e)
  BY <1>1, <1>5 DEF Cmd
<1>. HIDE DEF e, new
<1>. QED BY <1>3, <1>8, <1>11, <1>12, <1>13, WritesKeeps

LEMMA TreeSteps == TreeInv /\ [TreeNext]_treeVars => TreeInv'
<1>. SUFFICES ASSUME TreeInv, [TreeNext]_treeVars PROVE TreeInv'
  OBVIOUS
<1>1. CASE UNCHANGED treeVars
  BY <1>1 DEF treeVars, TreeInv, TreeTypeOK
<1>2. ASSUME NEW c \in Commands,
             \/ DropReads(c) \/ ApplyLayout(c) \/ DropEnds(c) \/ SaveRow(c) \/ SaveEnds(c)
             \/ DeleteReads(c) \/ DeleteFails(c) \/ DeleteEnds(c)
             \/ \E pc \in {"sent", "left"} : LeaveDialog(c, pc)
             \/ \E n \in Nodes : DeleteRows(c, n)
      PROVE  TreeInv'
  BY <1>2, DropsRead, LayoutsApplied, Ending, RowsSaved, DeletesRead, Leaving, RowsDeleted
<1>3. ASSUME NEW c \in Commands,
             \/ \E n \in Nodes, p \in Places : Drop(c, n, p)
             \/ \E f \in Folders : OpenFolderDialog(c, f) \/ DeleteFolder(c, f)
             \/ \E f \in Folders, p \in Places : OpenNewFolderDialog(c, f, p)
             \/ \E a \in Apis, p \in Places : CreateRequest(c, a, p)
             \/ \E selected \in SUBSET Nodes : BatchDelete(c, selected)
      PROVE  TreeInv'
  BY <1>3, Dropping, DialogsOpen, FolderDeletes, NewDialogsOpen, Creating, BatchDeletes
<1>4. CASE \/ RestartTree
           \/ \E a \in Apis, p \in Places : ToolSavesRequest(a, p)
           \/ \E k \in Kinds : ListReads(k)
           \/ \E answer \in answers : ListReturns(answer)
  BY <1>4, Restarts, ToolSaves, ListsRead, ListsReturn
<1>. QED BY <1>1, <1>2, <1>3, <1>4 DEF TreeNext

LEMMA TreeSays == TreeInv => TreeSafe
<1>. SUFFICES ASSUME TreeInv PROVE TreeSafe
  OBVIOUS
<1>1. NoCycle
  BY AcyclicSays DEF NoCycle, TreeInv, IsFolderDescendant
<1>2. ASSUME NEW c \in Commands, command[c] # NoCommand
      PROVE  /\ command[c].kind = "drop" => command[c] \in Drops
             /\ command[c].kind = "delete" => command[c] \in Deletes
  BY <1>2 DEF TreeInv, TreeTypeOK, Drops, Saves, Deletes
<1>3. DropsLand
  BY <1>2 DEF DropsLand, TreeInv, CommandOK, DropOK
<1>4. DeletesAreWhole
  <2>. SUFFICES ASSUME NEW c \in Commands, NEW d, d = command[c], d # NoCommand,
                       d.kind = "delete", d.alone, d.pc = "done", NEW n \in d.ids
                PROVE  parent[n] = Absent /\ \A m \in Nodes : parent[m] # n
    BY DEF DeletesAreWhole
  <2>1. d \in Deletes /\ DeleteOK(d, parent)
    BY <1>2 DEF TreeInv, CommandOK
  <2>2. n \in Nodes /\ Absent \notin Nodes /\ Nodes = Folders \cup Apis
    BY <2>1, TreeAssumption DEF Deletes, Nodes
  <2>3. \A m \in d.ids : Emptied(d, parent, m)
    BY <2>1 DEF DeleteOK
  <2>4. \A m \in d.ids : parent[m] = Absent
    BY <2>3 DEF Emptied
  <2>. QED BY <2>1, <2>2, <2>4 DEF DeleteOK
<1>. QED BY <1>1, <1>3, <1>4 DEF TreeSafe

(* The invariant of the tree holds in every reachable state.               *)
THEOREM TreeInvariance == TreeSpec => []TreeInv
<1>. QED BY TreeInits, TreeSteps, PTL DEF TreeSpec

(* Every variable of the tree keeps its type (HttpWorkbench.tsx).          *)
THEOREM TreeTypeCorrect == TreeSpec => []TreeTypeOK
<1>1. TreeInv => TreeTypeOK
  BY DEF TreeInv
<1>. QED BY <1>1, TreeInvariance, PTL

(* Folders form no cycle unless commands crossed, a drop that nobody wrote *)
(* under lands as the user saw it, and a delete that nobody wrote under    *)
(* leaves nothing below what it deleted (http_layout.go, http_folder.go).  *)
THEOREM TreeIsSafe == TreeSpec => []TreeSafe
BY TreeInvariance, TreeSays, PTL
=============================================================================
