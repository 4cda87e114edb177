----------------------------- MODULE TeamProofs -----------------------------
(***************************************************************************)
(* Proofs about the runs of a team, for any number of cards, threads and   *)
(* calls and any bounds.  In order: the pool's operations; who holds which *)
(* slot while the team is open; the cards; the chains of retries, counted  *)
(* against the calls of the user; the phases of a team from open to left;  *)
(* the cancel functions; and the theorems.                                 *)
(***************************************************************************)
EXTENDS TeamRuns, FiniteSetTheorems, SequenceTheorems, FunctionTheorems, TLAPS

(* Sequences of cards that hold none twice.                                *)
Once(s) == \A i, j \in DOMAIN s : s[i] = s[j] => i = j

LEMMA CardSequence ==
    ASSUME NEW s \in Seq(Card)
    PROVE  /\ Len(s) \in Nat
           /\ DOMAIN s = 1 .. Len(s)
           /\ Elems(s) \subseteq Card
           /\ s = <<>> <=> Len(s) = 0
           /\ s /= <<>> => Elems(s) /= {}
<1>1. Len(s) \in Nat /\ DOMAIN s = 1 .. Len(s) /\ \A i \in 1 .. Len(s) : s[i] \in Card
  BY LenProperties, ElementOfSeq
<1>2. s = <<>> <=> Len(s) = 0
  BY EmptySeq
<1>3. s /= <<>> => s[1] \in Elems(s)
  BY <1>1, <1>2 DEF Elems
<1>4. QED
  BY <1>1, <1>2, <1>3 DEF Elems

LEMMA EmptyOnce == Elems(<<>>) = {} /\ Once(<<>>)
BY DEF Elems, Once

LEMMA AppendOnce ==
    ASSUME NEW s \in Seq(Card), NEW c \in Card
    PROVE  /\ Append(s, c) \in Seq(Card)
           /\ Elems(Append(s, c)) = Elems(s) \cup {c}
           /\ Once(s) /\ c \notin Elems(s) => Once(Append(s, c))
<1> DEFINE t == Append(s, c)
<1>1. /\ t \in Seq(Card) /\ Len(t) = Len(s) + 1
      /\ \A i \in 1 .. Len(s) : t[i] = s[i]
      /\ t[Len(s) + 1] = c
  BY AppendProperties
<1>2. Len(s) \in Nat /\ DOMAIN s = 1 .. Len(s) /\ DOMAIN t = 1 .. Len(s) + 1
  BY <1>1, CardSequence
<1> HIDE DEF t
<1>3. Elems(t) = Elems(s) \cup {c}
  <2>1. Elems(t) \subseteq Elems(s) \cup {c}
    BY <1>1, <1>2 DEF Elems
  <2>2. \A i \in DOMAIN s : s[i] = t[i] /\ i \in DOMAIN t
    BY <1>1, <1>2
  <2>3. Elems(s) \subseteq Elems(t)
    BY <2>2 DEF Elems
  <2>4. c \in Elems(t)
    BY <1>1, <1>2 DEF Elems
  <2>5. QED
    BY <2>1, <2>3, <2>4
<1>4. ASSUME Once(s), c \notin Elems(s)
      PROVE  Once(t)
  BY <1>1, <1>2, <1>4 DEF Once, Elems
<1>5. QED
  BY <1>1, <1>3, <1>4 DEF t

LEMMA SplitOnce ==
    ASSUME NEW s \in Seq(Card), NEW k \in 0 .. Len(s)
    PROVE  LET a == SubSeq(s, 1, k)
               b == SubSeq(s, k + 1, Len(s))
           IN  /\ a \in Seq(Card) /\ b \in Seq(Card)
               /\ Len(a) = k /\ Len(b) = Len(s) - k
               /\ Elems(s) = Elems(a) \cup Elems(b)
               /\ Once(s) => Once(a) /\ Once(b) /\ Elems(a) \cap Elems(b) = {}
<1> DEFINE a == SubSeq(s, 1, k)
           b == SubSeq(s, k + 1, Len(s))
<1>1. Len(s) \in Nat /\ DOMAIN s = 1 .. Len(s) /\ \A i \in 1 .. Len(s) : s[i] \in Card
  BY CardSequence, ElementOfSeq
<1>2. a \in Seq(Card) /\ Len(a) = k /\ \A i \in 1 .. k : a[i] = s[i]
  BY <1>1, SubSeqProperties
<1>3. b \in Seq(Card) /\ Len(b) = Len(s) - k /\ \A i \in 1 .. Len(s) - k : b[i] = s[i + k]
  <2>1. /\ k + 1 \in Int /\ Len(s) \in Int
        /\ \A i \in k + 1 .. Len(s) : s[i] \in Card
    BY <1>1
  <2>2. /\ b \in Seq(Card)
        /\ Len(b) = IF k + 1 <= Len(s) THEN Len(s) - (k + 1) + 1 ELSE 0
        /\ \A i \in 1 .. Len(s) - (k + 1) + 1 : b[i] = s[(k + 1) + i - 1]
    BY <2>1, SubSeqProperties
  <2>3. \A i \in 1 .. Len(s) - k : (k + 1) + i - 1 = i + k /\ Len(s) - (k + 1) + 1 = Len(s) - k
    BY <1>1
  <2> HIDE DEF b
  <2>4. Len(b) = Len(s) - k
    <3>1. CASE k + 1 <= Len(s)
      BY <1>1, <2>2, <2>3, <3>1
    <3>2. CASE k = Len(s)
      BY <1>1, <2>2, <3>2
    <3>3. \A n \in Nat : \A m \in 0 .. n : m + 1 <= n \/ m = n
      OBVIOUS
    <3>4. QED
      BY <1>1, <3>1, <3>2, <3>3
  <2>5. ASSUME NEW i \in 1 .. Len(s) - k PROVE b[i] = s[i + k]
    BY <1>1, <2>2, <2>3
  <2>6. QED
    BY <2>2, <2>4, <2>5
<1>4. DOMAIN a = 1 .. k /\ DOMAIN b = 1 .. Len(s) - k
  BY <1>2, <1>3, CardSequence
<1> HIDE DEF a, b
<1>5. Elems(s) = Elems(a) \cup Elems(b)
  <2>1. \A i \in 1 .. Len(s) : i \in 1 .. k \/ (i - k \in 1 .. Len(s) - k /\ i = (i - k) + k)
    BY <1>1
  <2>2. Elems(s) \subseteq Elems(a) \cup Elems(b)
    <3>1. ASSUME NEW i \in 1 .. Len(s) PROVE s[i] \in Elems(a) \cup Elems(b)
      <4>1. CASE i \in 1 .. k
        BY <1>2, <1>4, <4>1 DEF Elems
      <4>2. CASE i - k \in 1 .. Len(s) - k /\ i = (i - k) + k
        <5>1. b[i - k] = s[i]
          BY <1>3, <4>2
        <5>2. QED
          BY <1>4, <4>2, <5>1 DEF Elems
      <4>3. QED
        BY <2>1, <4>1, <4>2
    <3>2. QED
      BY <1>1, <3>1 DEF Elems
  <2>3. \A i \in 1 .. k : i \in 1 .. Len(s)
    BY <1>1
  <2>4. \A i \in 1 .. Len(s) - k : i + k \in 1 .. Len(s)
    BY <1>1
  <2>5. Elems(a) \subseteq Elems(s)
    BY <1>1, <1>2, <1>4, <2>3 DEF Elems
  <2>6. Elems(b) \subseteq Elems(s)
    BY <1>1, <1>3, <1>4, <2>4 DEF Elems
  <2>7. QED
    BY <2>2, <2>5, <2>6
<1>6. ASSUME Once(s) PROVE Once(a) /\ Once(b) /\ Elems(a) \cap Elems(b) = {}
  <2>1. Once(a)
    BY <1>1, <1>2, <1>4, <1>6 DEF Once
  <2>0. /\ \A i \in 1 .. k : i \in DOMAIN s
        /\ \A i \in 1 .. Len(s) - k : i + k \in DOMAIN s
    BY <1>1
  <2>2. Once(b)
    <3>1. ASSUME NEW i \in 1 .. Len(s) - k, NEW j \in 1 .. Len(s) - k, b[i] = b[j]
          PROVE  i = j
      <4>1. i + k = j + k
        BY <1>3, <1>6, <2>0, <3>1 DEF Once
      <4>2. QED
        BY <4>1
    <3>2. QED
      BY <1>4, <3>1 DEF Once
  <2>3. ASSUME NEW i \in 1 .. k, NEW j \in 1 .. Len(s) - k PROVE a[i] /= b[j]
    <3>1. i /= j + k
      OBVIOUS
    <3>2. QED
      BY <1>2, <1>3, <1>6, <2>0, <3>1 DEF Once
  <2>4. QED
    BY <1>4, <2>1, <2>2, <2>3 DEF Elems
<1>7. QED
  BY <1>2, <1>3, <1>5, <1>6 DEF a, b

LEMMA JoinOnce ==
    ASSUME NEW a \in Seq(Card), NEW b \in Seq(Card)
    PROVE  /\ a \o b \in Seq(Card)
           /\ Elems(a \o b) = Elems(a) \cup Elems(b)
           /\ Once(a) /\ Once(b) /\ Elems(a) \cap Elems(b) = {} => Once(a \o b)
<1> DEFINE s == a \o b
<1>1. /\ s \in Seq(Card) /\ Len(s) = Len(a) + Len(b)
      /\ \A i \in 1 .. Len(a) + Len(b) : s[i] = IF i <= Len(a) THEN a[i] ELSE b[i - Len(a)]
  BY ConcatProperties
<1>2. /\ Len(a) \in Nat /\ DOMAIN a = 1 .. Len(a)
      /\ Len(b) \in Nat /\ DOMAIN b = 1 .. Len(b)
      /\ DOMAIN s = 1 .. Len(a) + Len(b)
  BY <1>1, CardSequence
<1> HIDE DEF s
<1>3. /\ \A i \in DOMAIN a : i \in DOMAIN s /\ s[i] = a[i]
      /\ \A i \in DOMAIN b : i + Len(a) \in DOMAIN s /\ s[i + Len(a)] = b[i]
      /\ \A i \in DOMAIN s : \/ i \in DOMAIN a /\ s[i] = a[i]
                             \/ i - Len(a) \in DOMAIN b /\ s[i] = b[i - Len(a)]
  BY <1>1, <1>2
<1>4. Elems(s) = Elems(a) \cup Elems(b)
  BY <1>3 DEF Elems
<1>5. ASSUME Once(a), Once(b), Elems(a) \cap Elems(b) = {} PROVE Once(s)
  <2>1. ASSUME NEW i \in DOMAIN a, NEW j \in DOMAIN b PROVE a[i] /= b[j]
    BY <1>5 DEF Elems
  <2>2. ASSUME NEW i \in DOMAIN s, NEW j \in DOMAIN s, s[i] = s[j] PROVE i = j
    BY <1>2, <1>3, <1>5, <2>1, <2>2 DEF Once
  <2>3. QED
    BY <2>2 DEF Once
<1>6. QED
  BY <1>1, <1>4, <1>5 DEF s

LEMMA HeadOnce ==
    ASSUME NEW s \in Seq(Card), s /= <<>>
    PROVE  /\ Head(s) \in Card /\ Tail(s) \in Seq(Card)
           /\ Elems(s) = {Head(s)} \cup Elems(Tail(s))
           /\ Once(s) => Once(Tail(s)) /\ Head(s) \notin Elems(Tail(s))
<1>1. Len(s) \in Nat /\ Len(s) >= 1 /\ Head(s) \in Card /\ Tail(s) \in Seq(Card)
  BY CardSequence, HeadTailProperties
<1>2. SubSeq(s, 2, Len(s)) = Tail(s)
  BY TailIsSubSeq
<1>3. SubSeq(s, 1, 1) = <<Head(s)>>
  <2>1. SubSeq(s, 1, 1) \in Seq(Card) /\ Len(SubSeq(s, 1, 1)) = 1 /\ SubSeq(s, 1, 1)[1] = s[1]
    BY <1>1, ElementOfSeq, SubSeqProperties
  <2>2. Head(s) = s[1]
    OBVIOUS
  <2>3. QED
    <3>1. <<Head(s)>> \in Seq(Card) /\ Len(<<Head(s)>>) = 1 /\ <<Head(s)>>[1] = Head(s)
      BY <1>1
    <3> DEFINE a == SubSeq(s, 1, 1)
               b == <<Head(s)>>
    <3>2. a \in Seq(Card) /\ b \in Seq(Card) /\ Len(a) = Len(b)
      BY <2>1, <3>1
    <3>3. \A i \in 1 .. Len(a) : i = 1 /\ a[i] = b[i]
      BY <2>1, <2>2, <3>1
    <3> HIDE DEF a, b
    <3>4. a = b
      BY <3>2, <3>3, SeqEqual
    <3>5. QED
      BY <3>4 DEF a, b
<1>4. Elems(<<Head(s)>>) = {Head(s)}
  BY DEF Elems
<1>5. 1 \in 0 .. Len(s)
  BY <1>1
<1>6. /\ Elems(s) = Elems(SubSeq(s, 1, 1)) \cup Elems(SubSeq(s, 1 + 1, Len(s)))
      /\ Once(s) => /\ Once(SubSeq(s, 1 + 1, Len(s)))
                    /\ Elems(SubSeq(s, 1, 1)) \cap Elems(SubSeq(s, 1 + 1, Len(s))) = {}
  BY <1>5, SplitOnce
<1>7. SubSeq(s, 1 + 1, Len(s)) = Tail(s)
  BY <1>2
<1>8. /\ Elems(s) = {Head(s)} \cup Elems(Tail(s))
      /\ Once(s) => Once(Tail(s)) /\ {Head(s)} \cap Elems(Tail(s)) = {}
  BY <1>3, <1>4, <1>6, <1>7, Zenon
<1>9. QED
  BY <1>1, <1>8

LEMMA CountOnce ==
    ASSUME NEW s \in Seq(Card), Once(s)
    PROVE  IsFiniteSet(Elems(s)) /\ Cardinality(Elems(s)) = Len(s)
<1>1. Len(s) \in Nat /\ DOMAIN s = 1 .. Len(s) /\ s \in [1 .. Len(s) -> Card]
  BY CardSequence, LenProperties
<1>2. s \in Bijection(1 .. Len(s), Elems(s))
  <2>1. s \in [1 .. Len(s) -> Elems(s)]
    BY <1>1 DEF Elems
  <2>2. s \in Injection(1 .. Len(s), Elems(s))
    BY <1>1, <2>1 DEF Once, Injection, IsInjective
  <2>3. s \in Surjection(1 .. Len(s), Elems(s))
    BY <1>1, <2>1 DEF Elems, Surjection
  <2>4. QED
    BY <2>2, <2>3 DEF Bijection
<1>3. IsFiniteSet(1 .. Len(s)) /\ Cardinality(1 .. Len(s)) = Len(s)
  BY <1>1, FS_Interval
<1>4. QED
  BY <1>2, <1>3, FS_Bijection DEF ExistsBijection

-----------------------------------------------------------------------------
(* The pool's operations.  `Within` is what Slots asks of a change of the  *)
(* grants.                                                                 *)
Within(p, q) == q.running \subseteq p.running \/ Cardinality(q.running) <= q.max

LEMMA PoolShape ==
    ASSUME NEW p \in Pool
    PROVE  /\ p = [max |-> p.max, running |-> p.running, queue |-> p.queue]
           /\ p.max \in Nat \ {0} /\ p.running \subseteq Card /\ p.queue \in Seq(Card)
           /\ IsFiniteSet(p.running) /\ Cardinality(p.running) \in Nat
<1>1. /\ p = [max |-> p.max, running |-> p.running, queue |-> p.queue]
      /\ p.max \in Nat \ {0} /\ p.running \subseteq Card /\ p.queue \in Seq(Card)
  BY DEF Pool
<1>2. IsFiniteSet(p.running) /\ Cardinality(p.running) \in Nat
  BY <1>1, PoolAssumption, FS_Subset, FS_CardinalityType
<1>3. QED
  BY <1>1, <1>2

LEMMA NormalizedBound ==
    ASSUME NEW max \in Nat
    PROVE  NormalizeMaxParallel(max) \in Nat \ {0}
BY PoolAssumption DEF NormalizeMaxParallel

LEMMA NewPoolOK ==
    ASSUME NEW max \in Nat
    PROVE  PoolOK(NewPool(max)) /\ NewPool(max).running = {}
<1> DEFINE p == NewPool(max)
<1>1. p \in Pool /\ p.running = {} /\ p.queue = <<>>
  BY NormalizedBound, EmptySeq DEF NewPool, Pool
<1>2. QED
  BY <1>1, EmptyOnce DEF PoolOK, BookedOnce, WorkConserving, Once

(* A card more in a pool that is not full.                                 *)
LEMMA OneMore ==
    ASSUME NEW p \in Pool, ~Full(p), NEW c \in Card
    PROVE  /\ p.running \cup {c} \subseteq Card
           /\ Cardinality(p.running \cup {c}) <= p.max
           /\ c \notin p.running => Cardinality(p.running \cup {c}) = Cardinality(p.running) + 1
<1>1. /\ p.max \in Nat /\ p.running \subseteq Card
      /\ IsFiniteSet(p.running) /\ Cardinality(p.running) \in Nat
  BY PoolShape
<1>2. Cardinality(p.running \cup {c})
        = IF c \in p.running THEN Cardinality(p.running) ELSE Cardinality(p.running) + 1
  BY <1>1, FS_AddElement
<1>3. Cardinality(p.running) < p.max
  BY <1>1 DEF Full
<1>4. QED
  BY <1>1, <1>2, <1>3

LEMMA AdmittedOK ==
    ASSUME NEW p, PoolOK(p), NEW key \in Card
    PROVE  /\ PoolOK(Admitted(p, key)) /\ Within(p, Admitted(p, key))
           /\ Admit(p, key) = "running"
                => key \notin p.running /\ Admitted(p, key).running = p.running \cup {key}
           /\ Admit(p, key) /= "running" => Admitted(p, key).running = p.running
           /\ Admit(p, key) \in {"duplicate", "queued", "running"}
<1>1. p \in Pool /\ BookedOnce(p) /\ WorkConserving(p)
  BY DEF PoolOK
<1>2. p = [max |-> p.max, running |-> p.running, queue |-> p.queue]
      /\ p.max \in Nat \ {0} /\ p.running \subseteq Card /\ p.queue \in Seq(Card)
  BY <1>1, PoolShape
<1>3. CASE Admit(p, key) = "duplicate"
  BY <1>3 DEF Admitted, Within
<1>4. CASE Admit(p, key) = "running"
  <2> DEFINE q == [p EXCEPT !.running = @ \cup {key}]
  <2>1. Admitted(p, key) = q /\ ~Full(p) /\ key \notin p.running /\ key \notin Elems(p.queue)
    BY <1>4 DEF Admitted, Admit, Known
  <2>2. q.running = p.running \cup {key} /\ q.queue = p.queue /\ q.max = p.max
    BY <1>2
  <2>3. q \in Pool /\ Cardinality(q.running) <= q.max
    BY <1>1, <1>2, <2>1, <2>2, OneMore DEF Pool
  <2>4. p.queue = <<>>
    BY <1>1, <2>1 DEF WorkConserving
  <2> HIDE DEF q
  <2>5. PoolOK(q)
    BY <2>2, <2>3, <2>4, EmptyOnce DEF PoolOK, BookedOnce, WorkConserving, Once
  <2>6. QED
    BY <1>4, <2>1, <2>2, <2>3, <2>5 DEF Within
<1>5. CASE Admit(p, key) = "queued"
  <2> DEFINE q == [p EXCEPT !.queue = Append(@, key)]
  <2>1. Admitted(p, key) = q /\ Full(p) /\ key \notin p.running /\ key \notin Elems(p.queue)
    BY <1>5 DEF Admitted, Admit, Known
  <2>2. q.running = p.running /\ q.queue = Append(p.queue, key) /\ q.max = p.max
    BY <1>2
  <2>3. Append(p.queue, key) \in Seq(Card)
    BY <1>2, AppendOnce
  <2>4. q \in Pool
    BY <1>2, <2>3 DEF Pool
  <2>5. Once(p.queue) /\ Elems(p.queue) \cap p.running = {}
    BY <1>1 DEF BookedOnce, Once
  <2>6. Elems(q.queue) = Elems(p.queue) \cup {key} /\ Once(q.queue)
    BY <1>2, <2>1, <2>2, <2>5, AppendOnce
  <2> HIDE DEF q
  <2>7. Full(q)
    BY <2>1, <2>2 DEF Full
  <2>8. BookedOnce(q)
    <3>1. Elems(q.queue) \cap q.running = {}
      BY <2>1, <2>2, <2>5, <2>6
    <3>2. QED
      BY <2>6, <3>1 DEF BookedOnce, Once
  <2>9. QED
    BY <1>5, <2>1, <2>2, <2>4, <2>7, <2>8 DEF PoolOK, WorkConserving, Within
<1>6. Admit(p, key) \in {"duplicate", "queued", "running"}
  BY DEF Admit
<1>7. QED
  BY <1>3, <1>4, <1>5, <1>6

LEMMA ReleasedOK ==
    ASSUME NEW p, PoolOK(p), NEW key \in Card
    PROVE  /\ PoolOK(Released(p, key)) /\ Within(p, Released(p, key))
           /\ ReleaseStarts(p, key) \in Seq(Card) /\ Once(ReleaseStarts(p, key))
           /\ Elems(ReleaseStarts(p, key)) \cap p.running = {}
           /\ Released(p, key).running = (p.running \ {key}) \cup Elems(ReleaseStarts(p, key))
<1> DEFINE r == Removed(p, key)
<1>1. /\ p \in Pool /\ Once(p.queue) /\ Elems(p.queue) \cap p.running = {}
      /\ p.queue /= <<>> => Full(p)
  BY DEF PoolOK, BookedOnce, WorkConserving, Once
<1>2. /\ p = [max |-> p.max, running |-> p.running, queue |-> p.queue]
      /\ p.max \in Nat \ {0} /\ p.running \subseteq Card /\ p.queue \in Seq(Card)
      /\ IsFiniteSet(p.running) /\ Cardinality(p.running) \in Nat
  BY <1>1, PoolShape
<1>3. r \in Pool /\ r.max = p.max /\ r.queue = p.queue /\ r.running = p.running \ {key}
  BY <1>2 DEF Removed, Pool
<1>4. Cardinality(r.running) \in Nat /\ Cardinality(r.running) >= Cardinality(p.running) - 1
  <2>1. /\ IsFiniteSet(p.running \ {key})
        /\ Cardinality(p.running \ {key})
             = IF key \in p.running THEN Cardinality(p.running) - 1 ELSE Cardinality(p.running)
    BY <1>2, FS_RemoveElement
  <2>2. Cardinality(p.running \ {key}) \in Nat
    BY <2>1, FS_CardinalityType
  <2> HIDE DEF r
  <2>3. QED
    BY <1>2, <1>3, <2>1, <2>2
<1> HIDE DEF r
<1>5. CASE ~Promotes(r)
  <2>1. Released(p, key) = r /\ ReleaseStarts(p, key) = <<>>
    BY <1>5 DEF Released, Promoted, ReleaseStarts, r
  <2>2. PoolOK(r)
    BY <1>1, <1>3, <1>5 DEF PoolOK, BookedOnce, WorkConserving, Promotes, Once
  <2>3. <<>> \in Seq(Card)
    BY EmptySeq
  <2>4. QED
    BY <1>3, <2>1, <2>2, <2>3, EmptyOnce DEF Within
<1>6. CASE Promotes(r)
  <2> DEFINE h == Head(r.queue)
             q == [r EXCEPT !.running = @ \cup {h}, !.queue = Tail(@)]
  <2>1. Released(p, key) = q /\ ReleaseStarts(p, key) = <<h>>
    BY <1>6 DEF Released, Promoted, ReleaseStarts, r
  <2>2. r.queue /= <<>> /\ ~Full(r) /\ Full(p)
    BY <1>1, <1>3, <1>6 DEF Promotes
  <2>3. /\ h \in Card /\ Tail(r.queue) \in Seq(Card)
        /\ Elems(p.queue) = {h} \cup Elems(Tail(r.queue))
        /\ Once(Tail(r.queue)) /\ h \notin Elems(Tail(r.queue))
    BY <1>1, <1>2, <1>3, <2>2, HeadOnce
  <2>4. q.running = r.running \cup {h} /\ q.queue = Tail(r.queue) /\ q.max = p.max
    BY <1>3 DEF Pool
  <2>5. <<h>> \in Seq(Card) /\ Elems(<<h>>) = {h} /\ Once(<<h>>)
    BY <2>3 DEF Elems, Once
  <2> HIDE DEF h
  <2>6. /\ q.running \subseteq Card /\ Cardinality(q.running) <= q.max
        /\ Cardinality(q.running) = Cardinality(r.running) + 1
    <3>1. h \notin r.running
      BY <1>1, <1>3, <2>3
    <3>2. QED
      BY <1>3, <2>2, <2>3, <2>4, <3>1, OneMore
  <2>7. q \in Pool
    BY <1>2, <1>3, <2>3, <2>4, <2>6 DEF Pool
  <2> HIDE DEF q
  <2>8. Full(q)
    <3>1. Cardinality(p.running) >= p.max
      BY <2>2 DEF Full
    <3>2. QED
      BY <1>2, <1>4, <2>4, <2>6, <3>1 DEF Full
  <2>9. BookedOnce(q)
    <3>1. Elems(q.queue) \cap q.running = {}
      BY <1>1, <1>3, <2>3, <2>4
    <3>2. QED
      BY <2>3, <2>4, <3>1 DEF BookedOnce, Once
  <2>10. {h} \cap p.running = {} /\ q.running = (p.running \ {key}) \cup {h}
    BY <1>1, <1>3, <2>3, <2>4
  <2>11. PoolOK(q) /\ Within(p, q)
    BY <2>6, <2>7, <2>8, <2>9 DEF PoolOK, WorkConserving, Within
  <2>12. QED
    BY <2>1, <2>5, <2>10, <2>11
<1>7. QED
  BY <1>5, <1>6

LEMMA ReboundedOK ==
    ASSUME NEW p, PoolOK(p), NEW max \in Nat
    PROVE  /\ PoolOK(Rebounded(p, max)) /\ Within(p, Rebounded(p, max))
           /\ SetMaxStarts(p, max) \in Seq(Card) /\ Once(SetMaxStarts(p, max))
           /\ Elems(SetMaxStarts(p, max)) \cap p.running = {}
           /\ Rebounded(p, max).running = p.running \cup Elems(SetMaxStarts(p, max))
<1> DEFINE n == NewSlots(p, max)
           m == NormalizeMaxParallel(max)
           a == SetMaxStarts(p, max)
           b == SubSeq(p.queue, n + 1, Len(p.queue))
           q == Rebounded(p, max)
<1>1. /\ p \in Pool /\ Once(p.queue) /\ Elems(p.queue) \cap p.running = {}
  BY DEF PoolOK, BookedOnce, Once
<1>2. /\ p.max \in Nat \ {0} /\ p.running \subseteq Card /\ p.queue \in Seq(Card)
      /\ IsFiniteSet(p.running) /\ Cardinality(p.running) \in Nat /\ Len(p.queue) \in Nat
  BY <1>1, PoolShape, CardSequence
<1>3. m \in Nat \ {0}
  BY NormalizedBound
<1>4. q.max = m /\ q.running = p.running \cup Elems(a) /\ q.queue = b
  BY DEF Rebounded
<1> HIDE DEF m
<1>5. /\ n \in 0 .. Len(p.queue)
      /\ n = 0 \/ n + Cardinality(p.running) <= m
      /\ n < Len(p.queue) => n + Cardinality(p.running) >= m
  <2>1. n = LET room == IF m > Cardinality(p.running) THEN m - Cardinality(p.running) ELSE 0
            IN  IF room < Len(p.queue) THEN room ELSE Len(p.queue)
    BY DEF NewSlots, m
  <2> HIDE DEF n
  <2>2. \A c, l \in Nat : \A k \in Nat : \A x :
           x = (LET room == IF k > c THEN k - c ELSE 0 IN IF room < l THEN room ELSE l)
               => x \in 0 .. l /\ (x = 0 \/ x + c <= k) /\ (x < l => x + c >= k)
    OBVIOUS
  <2>3. QED
    BY <1>2, <1>3, <2>1, <2>2
<1>6. /\ a \in Seq(Card) /\ b \in Seq(Card)
      /\ Len(a) = n /\ Len(b) = Len(p.queue) - n
      /\ Elems(p.queue) = Elems(a) \cup Elems(b)
      /\ Once(a) /\ Once(b) /\ Elems(a) \cap Elems(b) = {}
  BY <1>1, <1>2, <1>5, SplitOnce DEF SetMaxStarts
<1>7. q \in Pool
  <2>1. Elems(a) \subseteq Card
    BY <1>6, CardSequence
  <2>2. QED
    BY <1>2, <1>3, <1>6, <2>1 DEF Rebounded, Pool, m
<1> HIDE DEF n, a, b, q
<1>8. Elems(a) \cap p.running = {}
  BY <1>1, <1>6
<1>9. Cardinality(q.running) = Cardinality(p.running) + n
  <2>1. IsFiniteSet(Elems(a)) /\ Cardinality(Elems(a)) = n
    BY <1>6, CountOnce
  <2>2. p.running \cap Elems(a) = {}
    BY <1>8
  <2>3. Cardinality(p.running \cup Elems(a))
          = Cardinality(p.running) + Cardinality(Elems(a)) - Cardinality({})
    BY <1>2, <2>1, <2>2, FS_Union
  <2>4. n \in Nat
    BY <1>2, <1>5
  <2>5. QED
    BY <1>2, <1>4, <2>1, <2>3, <2>4, FS_EmptySet
<1>10. Within(p, q)
  <2>1. CASE n = 0
    <3>1. a = <<>>
      BY <1>6, <2>1, EmptySeq
    <3>2. QED
      BY <1>4, <3>1, EmptyOnce DEF Within
  <2>2. CASE n + Cardinality(p.running) <= m
    <3>1. n \in Nat
      BY <1>2, <1>5
    <3>2. QED
      BY <1>2, <1>3, <1>4, <1>9, <2>2, <3>1 DEF Within
  <2>3. QED
    BY <1>5, <2>1, <2>2
<1>11. WorkConserving(q)
  <2>1. SUFFICES ASSUME b /= <<>> PROVE Cardinality(q.running) >= m
    BY <1>4 DEF WorkConserving, Full
  <2>2. Len(b) /= 0
    BY <1>6, <2>1, CardSequence
  <2>3. n \in Nat /\ n < Len(p.queue)
    BY <1>2, <1>5, <1>6, <2>2
  <2>4. QED
    BY <1>2, <1>3, <1>5, <1>9, <2>3
<1>12. BookedOnce(q)
  <2>1. Elems(q.queue) \cap q.running = {}
    BY <1>1, <1>4, <1>6
  <2>2. QED
    BY <1>4, <1>6, <2>1 DEF BookedOnce, Once
<1>13. QED
  BY <1>4, <1>6, <1>7, <1>8, <1>10, <1>11, <1>12 DEF PoolOK, a, q

LEMMA EmptiedOK ==
    ASSUME NEW p \in Pool
    PROVE  PoolOK(Emptied(p)) /\ Emptied(p).running = {} /\ Emptied(p).queue = <<>>
<1> DEFINE q == Emptied(p)
<1>1. q \in Pool /\ q.running = {} /\ q.queue = <<>>
  BY EmptySeq DEF Emptied, Pool
<1>2. QED
  BY <1>1, EmptyOnce DEF PoolOK, BookedOnce, WorkConserving, Once

LEMMA PlaceOK ==
    ASSUME NEW p, PoolOK(p), NEW key \in Elems(p.queue)
    PROVE  Place(p, key) \in 1 .. Len(p.queue)
<1> DEFINE s == p.queue
<1>1. Once(s) /\ DOMAIN s = 1 .. Len(s)
  BY PoolShape, CardSequence DEF PoolOK, BookedOnce, Once
<1>2. PICK j \in DOMAIN s : s[j] = key
  BY DEF Elems
<1>3. \A k \in DOMAIN s : s[k] = key => j <= k
  BY <1>1, <1>2 DEF Once
<1>4. Place(p, key) \in DOMAIN s
  BY <1>2, <1>3 DEF Place
<1>5. QED
  BY <1>1, <1>4

LEMMA DequeuedOK ==
    ASSUME NEW p, PoolOK(p), NEW key \in Card
    PROVE  PoolOK(Dequeued(p, key)) /\ Dequeued(p, key).running = p.running
<1>1. CASE key \notin Elems(p.queue)
  BY <1>1 DEF Dequeued
<1>2. CASE key \in Elems(p.queue)
  <2> DEFINE s == p.queue
             i == Place(p, key)
             a == SubSeq(s, 1, i - 1)
             b == SubSeq(s, i + 1, Len(s))
             q == [p EXCEPT !.queue = a \o b]
  <2>1. /\ p \in Pool /\ Once(s) /\ Elems(s) \cap p.running = {}
        /\ s /= <<>> => Full(p)
    BY DEF PoolOK, BookedOnce, WorkConserving, Once
  <2>2. /\ p = [max |-> p.max, running |-> p.running, queue |-> p.queue]
        /\ p.max \in Nat \ {0} /\ p.running \subseteq Card /\ s \in Seq(Card)
        /\ Len(s) \in Nat /\ DOMAIN s = 1 .. Len(s)
    BY <2>1, PoolShape, CardSequence
  <2>3. i \in 1 .. Len(s)
    BY <1>2, PlaceOK
  <2>4. Dequeued(p, key) = q
    BY <1>2 DEF Dequeued
  <2> HIDE DEF i
  <2>5. /\ a \in Seq(Card) /\ Once(a)
        /\ SubSeq(s, (i - 1) + 1, Len(s)) \in Seq(Card)
        /\ Elems(s) = Elems(a) \cup Elems(SubSeq(s, (i - 1) + 1, Len(s)))
        /\ Elems(a) \cap Elems(SubSeq(s, (i - 1) + 1, Len(s))) = {}
    <3>1. i - 1 \in 0 .. Len(s)
      BY <2>2, <2>3
    <3>2. QED
      BY <2>1, <2>2, <3>1, SplitOnce
  <2>6. /\ b \in Seq(Card) /\ Once(b)
        /\ SubSeq(s, 1, i) \in Seq(Card)
        /\ Elems(s) = Elems(SubSeq(s, 1, i)) \cup Elems(b)
    <3>1. i \in 0 .. Len(s)
      BY <2>2, <2>3
    <3>2. QED
      BY <2>1, <2>2, <3>1, SplitOnce
  <2>7. Elems(a) \cap Elems(b) = {}
    <3>1. /\ DOMAIN a = 1 .. i - 1 /\ \A j \in 1 .. i - 1 : a[j] = s[j]
      BY <2>2, <2>3
    <3>2. /\ DOMAIN b = 1 .. Len(s) - i /\ \A j \in 1 .. Len(s) - i : b[j] = s[j + i]
      BY <2>2, <2>3
    <3>3. ASSUME NEW j \in 1 .. i - 1, NEW k \in 1 .. Len(s) - i PROVE a[j] /= b[k]
      <4>1. j \in DOMAIN s /\ k + i \in DOMAIN s /\ j /= k + i
        BY <2>2, <2>3
      <4>2. QED
        BY <2>1, <3>1, <3>2, <4>1 DEF Once
    <3> HIDE DEF a, b
    <3>4. QED
      BY <3>1, <3>2, <3>3 DEF Elems
  <2> HIDE DEF a, b
  <2>8. a \o b \in Seq(Card) /\ Once(a \o b) /\ Elems(a \o b) \subseteq Elems(s)
    BY <2>5, <2>6, <2>7, JoinOnce
  <2>9. q \in Pool /\ q.queue = a \o b /\ q.running = p.running /\ q.max = p.max
    BY <2>2, <2>8 DEF Pool
  <2>10. Full(q)
    <3>1. s /= <<>>
      BY <2>2, <2>3, CardSequence
    <3>2. QED
      BY <2>1, <2>9, <3>1 DEF Full
  <2> HIDE DEF q
  <2>11. BookedOnce(q)
    BY <2>1, <2>8, <2>9 DEF BookedOnce, Once
  <2>12. QED
    BY <2>4, <2>9, <2>10, <2>11 DEF PoolOK, WorkConserving
<1>3. QED
  BY <1>1, <1>2

-----------------------------------------------------------------------------
(* Threads: what one of them may look like, and the slots it holds.        *)
Closing  == {"empty", "dropped", "quit"}
Holding  == {"promoted", "register", "flip", "unlaunch", "work", "forget", "release"}
Carrying == {"promoted", "flip", "unlaunch", "release"}
Keyed    == Holding \cup {"resolve", "admit", "ask", "park", "unpark", "replan", "cancel", "reserved"}

Sound(t) ==
    /\ t \in Thread /\ t.pc \notin Closing
    /\ t.pc \in Keyed => t.key \in Card
    /\ t.todo /= <<>> => t.pc \in Carrying
    /\ Once(t.todo)
    /\ t.pc \in Holding => t.key \notin Elems(t.todo)

Held(t)  == Elems(t.todo) \cup (IF t.pc \in Holding THEN {t.key} ELSE {})
Granted  == IF pool = None THEN {} ELSE pool.running

LEMMA HoldsByThread ==
    ASSUME NEW p \in Proc, NEW c
    PROVE  HoldsSlot(p, c) <=> c \in Held(proc[p])
BY DEF HoldsSlot, Held, Holding, Key

LEMMA HeldCards ==
    ASSUME NEW t, Sound(t)
    PROVE  Held(t) \subseteq Card
<1>1. t.todo \in Seq(Card)
  BY DEF Sound, Thread
<1>2. Elems(t.todo) \subseteq Card
  BY <1>1, CardSequence
<1>3. QED
  BY <1>2 DEF Held, Sound, Keyed

LEMMA IdleSound ==
    /\ Sound(Idle) /\ Held(Idle) = {}
    /\ Idle.pc = "idle" /\ Idle.todo = <<>> /\ Idle.own = None /\ Idle.sub = None
<1>1. Idle \in Thread
  BY EmptySeq DEF Idle, Thread, PC
<1>2. QED
  BY <1>1, EmptyOnce DEF Idle, Sound, Held, Closing, Keyed, Holding

(* A step of one thread that only moves it on.                             *)
LEMMA MovesOn ==
    ASSUME NEW t, Sound(t), NEW x \in PC \ Closing,
           x \in Keyed => t.pc \in Keyed,
           x \in Holding <=> t.pc \in Holding,
           t.todo /= <<>> => x \in Carrying
    PROVE  LET u == [t EXCEPT !.pc = x]
           IN  /\ Sound(u) /\ Held(u) = Held(t)
               /\ u.pc = x /\ u.key = t.key /\ u.sub = t.sub /\ u.todo = t.todo /\ u.own = t.own
<1> DEFINE u == [t EXCEPT !.pc = x]
<1>1. /\ u \in Thread /\ u.pc = x /\ u.key = t.key /\ u.sub = t.sub
      /\ u.todo = t.todo /\ u.own = t.own
  BY DEF Sound, Thread
<1> HIDE DEF u
<1>2. Sound(u)
  BY <1>1 DEF Sound
<1>3. Held(u) = Held(t)
  BY <1>1 DEF Held
<1>4. QED
  BY <1>1, <1>2, <1>3 DEF u

(* What is left to do after a start.                                       *)
LEMMA RestSound ==
    ASSUME NEW t \in Thread, Once(t.todo)
    PROVE  /\ Sound(Rest(t)) /\ Held(Rest(t)) = Elems(t.todo)
           /\ Rest(t).pc \in {"promoted", "replan", "idle"}
<1>1. t.todo \in Seq(Card) /\ t.own \in Card \cup {None}
  BY DEF Thread
<1>2. CASE t.todo /= <<>>
  <2> DEFINE u == [Idle EXCEPT !.pc = "promoted", !.key = Head(t.todo), !.todo = Tail(t.todo),
                              !.own = t.own]
  <2>1. Rest(t) = u
    BY <1>2 DEF Rest
  <2>2. /\ Head(t.todo) \in Card /\ Tail(t.todo) \in Seq(Card)
        /\ Elems(t.todo) = {Head(t.todo)} \cup Elems(Tail(t.todo))
        /\ Once(Tail(t.todo)) /\ Head(t.todo) \notin Elems(Tail(t.todo))
    BY <1>1, <1>2, HeadOnce
  <2>3. u \in Thread /\ u.pc = "promoted" /\ u.key = Head(t.todo) /\ u.todo = Tail(t.todo)
    BY <1>1, <2>2, IdleSound DEF Sound, Thread, PC
  <2> HIDE DEF u
  <2>4. Sound(u) /\ Held(u) = Elems(t.todo)
    BY <2>2, <2>3 DEF Sound, Held, Closing, Carrying, Holding
  <2>5. QED
    BY <2>1, <2>3, <2>4
<1>3. CASE t.todo = <<>> /\ t.own /= None
  <2> DEFINE u == [Idle EXCEPT !.pc = "replan", !.key = t.own]
  <2>1. Rest(t) = u
    BY <1>3 DEF Rest
  <2>2. u \in Thread /\ u.pc = "replan" /\ u.key \in Card /\ u.todo = <<>>
    BY <1>1, <1>3, IdleSound DEF Sound, Thread, PC
  <2> HIDE DEF u
  <2>3. Sound(u) /\ Held(u) = {}
    BY <2>2, EmptyOnce DEF Sound, Held, Closing, Holding
  <2>4. QED
    BY <1>3, <2>1, <2>2, <2>3, EmptyOnce
<1>4. CASE t.todo = <<>> /\ t.own = None
  BY <1>4, IdleSound, EmptyOnce DEF Rest
<1>5. QED
  BY <1>2, <1>3, <1>4

-----------------------------------------------------------------------------
(* The inductive invariant, of a team that exists in a program that runs:  *)
(* a thread between launch and start has a goroutine reserved for its      *)
(* card, and the slots the threads hold are the pool's, each held once.    *)
Threads == proc \in [Proc -> Thread] /\ \A p \in Proc : Sound(proc[p])

Reserves ==
    \A p \in Proc : proc[p].pc \in {"flip", "unlaunch"} =>
        /\ proc[p].sub \in Proc
        /\ proc[proc[p].sub].pc = "reserved"
        /\ proc[proc[p].sub].key = proc[p].key

Owners ==
    /\ \A p \in Proc : Held(proc[p]) \subseteq Granted
    /\ \A p, q \in Proc : p /= q => Held(proc[p]) \cap Held(proc[q]) = {}
    /\ \A c \in Granted : \E p \in Proc : c \in Held(proc[p])

(* Who holds a pointer to a pool: the pool of the map, or one that a       *)
(* deletion took from it.                                                  *)
Pointers ==
    /\ orphan \in Pool \cup {None}
    /\ orphan /= None => PoolOK(orphan)
    /\ strays \subseteq Proc
    /\ \A p \in Proc : proc[p].pc \in HasPool => IF p \in strays THEN orphan /= None ELSE pool /= None

Pooled == /\ policy \in Nat
          /\ pool \in Pool \cup {None}
          /\ pool /= None => PoolOK(pool)

OpenInv == Threads /\ Reserves /\ Owners /\ Pooled

LEMMA GrantedShape ==
    ASSUME Pooled
    PROVE  Granted \subseteq Card
BY PoolShape DEF Pooled, Granted

(* One thread takes a step: it gives back the slots D and is granted the   *)
(* slots A.                                                                *)
LEMMA OneThread ==
    ASSUME OpenInv, Pooled', NEW p \in Proc, NEW u, Sound(u),
           proc' = [proc EXCEPT ![p] = u],
           proc[p].pc \notin {"reserved", "work"}, u.pc /= "work",
           u.pc \in {"flip", "unlaunch"} =>
               proc[p].pc \in {"flip", "unlaunch"} /\ u.sub = proc[p].sub /\ u.key = proc[p].key,
           NEW D, NEW A, D \subseteq Held(proc[p]), A \cap Granted = {},
           Held(u) = (Held(proc[p]) \ D) \cup A,
           Granted' = (Granted \ D) \cup A
    PROVE  OpenInv' /\ Sessions' = Sessions
<1>1. /\ \A q \in Proc : proc'[q] = IF q = p THEN u ELSE proc[q]
      /\ proc' \in [Proc -> Thread]
  BY DEF OpenInv, Threads, Sound
<1>2. Threads'
  BY <1>1 DEF OpenInv, Threads
<1>3. Reserves'
  BY <1>1 DEF OpenInv, Reserves
<1>4. /\ \A q \in Proc : q /= p => Held(proc'[q]) = Held(proc[q])
      /\ Held(proc'[p]) = (Held(proc[p]) \ D) \cup A
  BY <1>1
<1>5. Owners'
  <2>1. /\ \A q \in Proc : Held(proc[q]) \subseteq Granted
        /\ \A q, r \in Proc : q /= r => Held(proc[q]) \cap Held(proc[r]) = {}
        /\ \A c \in Granted : \E q \in Proc : c \in Held(proc[q])
    BY DEF OpenInv, Owners
  <2>2. \A q \in Proc : Held(proc'[q]) \subseteq Granted'
    BY <1>4, <2>1
  <2>3. \A q, r \in Proc : q /= r => Held(proc'[q]) \cap Held(proc'[r]) = {}
    BY <1>4, <2>1
  <2>4. \A c \in Granted' : \E q \in Proc : c \in Held(proc'[q])
    BY <1>4, <2>1
  <2>5. QED
    BY <2>2, <2>3, <2>4 DEF Owners, Held
<1>6. Sessions' = Sessions
  BY <1>1 DEF Sessions, At, Key
<1>7. QED
  BY <1>2, <1>3, <1>5, <1>6 DEF OpenInv

(* Threads move on, and no slot changes hands.                             *)
LEMMA NobodyStarts ==
    ASSUME OpenInv, Pooled', Granted' = Granted,
           proc' \in [Proc -> Thread],
           \A q \in Proc : /\ Sound(proc'[q]) /\ Held(proc'[q]) = Held(proc[q])
                           /\ proc'[q].pc /= proc[q].pc => proc[q].pc = "cancel" /\ proc'[q].pc = "idle"
                           /\ proc'[q].pc = proc[q].pc =>
                                 proc'[q].key = proc[q].key /\ proc'[q].sub = proc[q].sub
    PROVE  OpenInv' /\ Sessions' = Sessions
<1>1. Threads'
  BY DEF OpenInv, Threads
<1>2. Reserves'
  <2>1. ASSUME NEW p \in Proc, proc'[p].pc \in {"flip", "unlaunch"}
        PROVE  /\ proc'[p].sub \in Proc
               /\ proc'[proc'[p].sub].pc = "reserved"
               /\ proc'[proc'[p].sub].key = proc'[p].key
    <3>1. proc'[p].pc = proc[p].pc /\ proc'[p].key = proc[p].key /\ proc'[p].sub = proc[p].sub
      BY <2>1
    <3>2. /\ proc[p].sub \in Proc /\ proc[proc[p].sub].pc = "reserved"
          /\ proc[proc[p].sub].key = proc[p].key
      BY <2>1, <3>1 DEF OpenInv, Reserves
    <3>3. QED
      BY <3>1, <3>2
  <2>2. QED
    BY <2>1 DEF Reserves
<1>3. Owners'
  <2>1. \A q \in Proc : Held(proc[q])' = Held(proc[q])
    BY DEF Held
  <2>2. QED
    BY <2>1 DEF OpenInv, Owners
<1>4. Sessions' = Sessions
  <2>1. \A q \in Proc : proc'[q].pc = "work" <=> proc[q].pc = "work"
    OBVIOUS
  <2>2. \A q \in Proc : proc[q].pc = "work" => proc'[q].key = proc[q].key
    BY <2>1
  <2>3. QED
    BY <2>1, <2>2 DEF Sessions, At, Key
<1>5. QED
  BY <1>1, <1>2, <1>3, <1>4 DEF OpenInv

(* What a step does to sessions and grants unless it starts or ends a      *)
(* session.                                                                *)
Limit   == IF pool = None THEN 0 ELSE pool.max
Regrant == Sessions' = Sessions /\ (Granted' \subseteq Granted \/ Cardinality(Granted') <= Limit')

(* A step of one thread that moves no slot.                                *)
LEMMA OwnStep ==
    ASSUME OpenInv, Pooled', Granted' = Granted, NEW p \in Proc, NEW u, Sound(u),
           proc' = [proc EXCEPT ![p] = u], Held(u) = Held(proc[p]),
           proc[p].pc \notin {"reserved", "work"}, u.pc /= "work",
           u.pc \in {"flip", "unlaunch"} =>
               proc[p].pc \in {"flip", "unlaunch"} /\ u.sub = proc[p].sub /\ u.key = proc[p].key
    PROVE  OpenInv' /\ Regrant
<1>1. /\ {} \subseteq Held(proc[p]) /\ {} \cap Granted = {}
      /\ Held(u) = (Held(proc[p]) \ {}) \cup {}
      /\ Granted' = (Granted \ {}) \cup {}
  OBVIOUS
<1>2. OpenInv' /\ Sessions' = Sessions
  BY <1>1, OneThread
<1>3. QED
  BY <1>2 DEF Regrant

LEMMA GoesOK ==
    ASSUME OpenInv, Pooled', Granted' = Granted, NEW p \in Proc,
           NEW x \in PC \ Closing, Goes(p, x),
           x \in Keyed => proc[p].pc \in Keyed,
           x \in Holding <=> proc[p].pc \in Holding,
           proc[p].todo /= <<>> => x \in Carrying,
           proc[p].pc \notin {"reserved", "work"}, x /= "work",
           x \in {"flip", "unlaunch"} => proc[p].pc \in {"flip", "unlaunch"}
    PROVE  OpenInv' /\ Regrant
<1> DEFINE t == proc[p]
           u == [t EXCEPT !.pc = x]
<1>1. Sound(t)
  BY DEF OpenInv, Threads
<1>2. Sound(u) /\ Held(u) = Held(t) /\ u.pc = x /\ u.key = t.key /\ u.sub = t.sub
  BY <1>1, MovesOn
<1>3. proc' = [proc EXCEPT ![p] = u]
  BY DEF Goes, OpenInv, Threads
<1> HIDE DEF u
<1>4. QED
  BY <1>2, <1>3, OwnStep

LEMMA ContinuesOK ==
    ASSUME OpenInv, Pooled', Granted' = Granted, NEW p \in Proc, Continues(p),
           proc[p].pc \notin Holding \cup {"reserved"}
    PROVE  OpenInv' /\ Regrant
<1> DEFINE t == proc[p]
           u == Rest(t)
<1>1. Sound(t)
  BY DEF OpenInv, Threads
<1>2. Sound(u) /\ Held(u) = Elems(t.todo) /\ u.pc \in {"promoted", "replan", "idle"}
  BY <1>1, RestSound DEF Sound
<1>3. Held(u) = Held(t)
  BY <1>2 DEF Held
<1>4. proc' = [proc EXCEPT ![p] = u]
  BY DEF Continues
<1> HIDE DEF u
<1>5. QED
  BY <1>2, <1>3, <1>4, OwnStep DEF Holding

(* A thread that is free, and takes a call.                                *)
LEMMA FreeThread ==
    ASSUME OpenInv, Free /= {}, NEW f, f = CHOOSE q \in Free : TRUE
    PROVE  /\ f \in Proc /\ proc[f].pc = "idle" /\ Held(proc[f]) = {}
           /\ proc[f].todo = <<>>
<1>1. f \in Free
  OBVIOUS
<1>2. f \in Proc /\ proc[f].pc = "idle"
  BY <1>1 DEF Free, At
<1>3. proc[f].todo = <<>>
  BY <1>2 DEF OpenInv, Threads, Sound, Carrying
<1>4. QED
  BY <1>2, <1>3, EmptyOnce DEF Held, Holding

LEMMA NewThreadOK ==
    ASSUME OpenInv, Pooled', Granted' = Granted, NEW t, Sound(t), t.todo = <<>>,
           t.pc \notin Holding, NewThread(t)
    PROVE  OpenInv' /\ Regrant
<1> DEFINE f == CHOOSE q \in Free : TRUE
<1>1. Free /= {}
  <2>1. Free /= {} \/ Cardinality(Free) >= 2
    BY DEF NewThread
  <2>2. Free = {} => Cardinality(Free) = 0
    BY FS_EmptySet
  <2>3. QED
    BY <2>1, <2>2
<1>2. /\ f \in Proc /\ proc[f].pc = "idle" /\ Held(proc[f]) = {}
      /\ proc' = [proc EXCEPT ![f] = t]
  BY <1>1, FreeThread DEF NewThread
<1>3. Held(t) = {}
  BY EmptyOnce DEF Held
<1> HIDE DEF f
<1>4. QED
  BY <1>2, <1>3, OwnStep DEF Holding

LEMMA LaunchOK ==
    ASSUME OpenInv, Pooled', Granted' = Granted, NEW p \in Proc,
           proc[p].pc \in {"register", "promoted"}, Launch(p)
    PROVE  OpenInv' /\ Regrant
<1> DEFINE r == CHOOSE f \in Free : TRUE
           t == proc[p]
           u == [t EXCEPT !.pc = "flip", !.sub = r]
           w == [Idle EXCEPT !.pc = "reserved", !.key = Key(p), !.own = Key(p)]
<1>1. /\ r \in Proc /\ proc[r].pc = "idle" /\ Held(proc[r]) = {}
  BY FreeThread DEF Launch
<1>2. proc' = [proc EXCEPT ![p].pc = "flip", ![p].sub = r, ![r] = w]
  BY DEF Launch
<1>3. p /= r
  BY <1>1
<1> HIDE DEF r
<1>4. Sound(t) /\ t.key \in Card
  BY DEF OpenInv, Threads, Sound, Keyed, Holding
<1>5. /\ u \in Thread /\ u.pc = "flip" /\ u.key = t.key /\ u.sub = r /\ u.todo = t.todo
  BY <1>1, <1>4 DEF Sound, Thread, PC
<1>6. w \in Thread /\ w.pc = "reserved" /\ w.key = t.key /\ w.todo = <<>>
  BY <1>4, IdleSound DEF Sound, Thread, PC, Key
<1>7. /\ \A q \in Proc : proc'[q] = IF q = p THEN u ELSE IF q = r THEN w ELSE proc[q]
      /\ proc' \in [Proc -> Thread]
  BY <1>1, <1>2, <1>3, <1>5, <1>6 DEF OpenInv, Threads
<1> HIDE DEF u, w
<1>8. /\ Sound(u) /\ Held(u) = Held(t)
      /\ Sound(w) /\ Held(w) = {}
  BY <1>4, <1>5, <1>6, EmptyOnce DEF Sound, Held, Holding, Keyed, Closing, Carrying
<1>9. Threads'
  BY <1>7, <1>8 DEF OpenInv, Threads
<1>10. Reserves'
  BY <1>1, <1>5, <1>6, <1>7 DEF OpenInv, Reserves
<1>11. Owners'
  <2>1. \A q \in Proc : Held(proc[q])' = Held(proc[q])
    BY <1>1, <1>7, <1>8 DEF Held
  <2>2. QED
    BY <2>1 DEF OpenInv, Owners
<1>12. Sessions' = Sessions
  BY <1>1, <1>5, <1>6, <1>7 DEF Sessions, At, Key
<1>13. QED
  BY <1>9, <1>10, <1>11, <1>12 DEF OpenInv, Regrant

(* A launch that failed gives its goroutine back.                          *)
LEMMA UnlaunchOK ==
    ASSUME OpenInv, NEW p \in Proc, Unlaunch(p)
    PROVE  OpenInv' /\ Regrant
<1> DEFINE t == proc[p]
           r == t.sub
           u == [t EXCEPT !.sub = None, !.pc = "release"]
<1>1. t.pc = "unlaunch" /\ r \in Proc /\ proc[r].pc = "reserved" /\ proc[r].key = t.key
  BY DEF Unlaunch, At, OpenInv, Reserves
<1>2. proc' = [proc EXCEPT ![r] = Idle, ![p].sub = None, ![p].pc = "release"]
  BY DEF Unlaunch
<1>3. p /= r
  BY <1>1
<1>4. Sound(t) /\ Sound(proc[r])
  BY <1>1 DEF OpenInv, Threads
<1>5. u \in Thread /\ u.pc = "release" /\ u.key = t.key /\ u.todo = t.todo
  BY <1>4 DEF Sound, Thread, PC
<1>6. /\ \A q \in Proc : proc'[q] = IF q = p THEN u ELSE IF q = r THEN Idle ELSE proc[q]
      /\ proc' \in [Proc -> Thread]
  BY <1>1, <1>2, <1>3, <1>5, IdleSound DEF OpenInv, Threads, Sound
<1> HIDE DEF u
<1>7. Sound(u) /\ Held(u) = Held(t)
  BY <1>1, <1>4, <1>5 DEF Sound, Held, Holding, Keyed, Closing, Carrying
<1>8. Held(proc[r]) = {}
  BY <1>1, <1>4, EmptyOnce DEF Sound, Held, Holding, Carrying
<1>9. Threads'
  BY <1>6, <1>7, IdleSound DEF OpenInv, Threads
<1>10. Pooled' /\ Granted' = Granted
  BY DEF Unlaunch, store, OpenInv, Pooled, Granted
<1>11. Owners'
  <2>1. \A q \in Proc : Held(proc[q])' = Held(proc[q])
    BY <1>1, <1>6, <1>7, <1>8, IdleSound DEF Held
  <2>2. QED
    BY <2>1, <1>10 DEF OpenInv, Owners
<1>12. Reserves'
  <2>1. ASSUME NEW q \in Proc, q /= p, proc[q].pc \in {"flip", "unlaunch"}
        PROVE  proc[q].sub /= r
    <3>1. proc[q].sub = r => proc[q].key = t.key
      BY <1>1, <2>1 DEF OpenInv, Reserves
    <3>2. proc[q].key \in Held(proc[q]) /\ t.key \in Held(t)
      BY <1>1, <2>1 DEF Held, Holding
    <3>3. Held(proc[q]) \cap Held(t) = {}
      BY <2>1 DEF OpenInv, Owners
    <3>4. QED
      BY <3>1, <3>2, <3>3
  <2>2. QED
    BY <1>1, <1>5, <1>6, <2>1, IdleSound DEF OpenInv, Reserves
<1>13. Sessions' = Sessions
  BY <1>1, <1>5, <1>6, IdleSound DEF Sessions, At, Key
<1>14. QED
  BY <1>9, <1>10, <1>11, <1>12, <1>13 DEF OpenInv, Regrant

(* A session starts: its goroutine takes the slot over.                    *)
Begins == \E c \in Granted \ Sessions : Sessions' = Sessions \cup {c} /\ UNCHANGED <<Granted, Limit>>
Ends   == \E c \in Card : Sessions' = Sessions \ {c} /\ UNCHANGED <<Granted, Limit>>

Apart(h, G) ==
    /\ \A q \in Proc : h[q] \subseteq G
    /\ \A q, o \in Proc : q /= o => h[q] \cap h[o] = {}
    /\ \A d \in G : \E q \in Proc : d \in h[q]

LEMMA TakesOver ==
    ASSUME NEW h \in [Proc -> SUBSET Card], NEW k \in [Proc -> SUBSET Card], NEW G,
           NEW p \in Proc, NEW r \in Proc, p /= r, NEW c \in h[p],
           k[p] = h[p] \ {c}, k[r] = {c}, h[r] = {},
           \A q \in Proc : q /= p /\ q /= r => k[q] = h[q],
           Apart(h, G)
    PROVE  Apart(k, G)
<1> USE DEF Apart
<1>1. \A q \in Proc : k[q] \subseteq G
  OBVIOUS
<1>2. \A q, o \in Proc : q /= o => k[q] \cap k[o] = {}
  OBVIOUS
<1>3. \A d \in G : \E q \in Proc : d \in k[q]
  OBVIOUS
<1>4. QED
  BY <1>1, <1>2, <1>3

LEMMA SlotPasses ==
    ASSUME Owners, Threads, Threads', Granted' = Granted,
           NEW p \in Proc, NEW r \in Proc, p /= r, NEW c,
           c \in Held(proc[p]), Held(proc[r]) = {},
           Held(proc'[p]) = Held(proc[p]) \ {c}, Held(proc'[r]) = {c},
           \A q \in Proc : q /= p /\ q /= r => Held(proc'[q]) = Held(proc[q])
    PROVE  Owners'
<1> DEFINE h == [q \in Proc |-> Held(proc[q])]
           k == [q \in Proc |-> Held(proc'[q])]
<1>1. /\ \A q \in Proc : Held(proc[q]) \subseteq Card
      /\ \A q \in Proc : Held(proc'[q]) \subseteq Card
  BY HeldCards DEF Threads
<1>2. /\ h \in [Proc -> SUBSET Card] /\ k \in [Proc -> SUBSET Card]
      /\ \A q \in Proc : h[q] = Held(proc[q]) /\ k[q] = Held(proc'[q])
  BY <1>1
<1> HIDE DEF h, k
<1>3. /\ c \in h[p] /\ k[p] = h[p] \ {c} /\ k[r] = {c} /\ h[r] = {}
      /\ \A q \in Proc : q /= p /\ q /= r => k[q] = h[q]
  BY <1>2
<1>4. Apart(h, Granted)
  BY <1>2 DEF Owners, Apart
<1>5. Apart(k, Granted)
  BY <1>2, <1>3, <1>4, TakesOver
<1>6. \A q \in Proc : Held(proc[q])' = k[q]
  BY <1>2 DEF Held
<1>7. QED
  BY <1>5, <1>6 DEF Owners, Apart

LEMMA StartOK ==
    ASSUME OpenInv, NEW p \in Proc, At(p, "flip"), UNCHANGED <<pool, policy>>,
           proc' = [proc EXCEPT ![p] = Rest(@), ![proc[p].sub].pc = "work"]
    PROVE  OpenInv' /\ Begins
<1> DEFINE t == proc[p]
           r == t.sub
           c == t.key
           u == Rest(t)
           s == proc[r]
           w == [s EXCEPT !.pc = "work"]
<1>1. t.pc = "flip" /\ r \in Proc /\ s.pc = "reserved" /\ s.key = c
  BY DEF At, OpenInv, Reserves
<1>2. p /= r
  BY <1>1
<1>3. Sound(t) /\ Sound(s)
  BY <1>1 DEF OpenInv, Threads
<1>4. /\ c \in Card /\ c \notin Elems(t.todo) /\ Held(t) = Elems(t.todo) \cup {c}
      /\ s.todo = <<>> /\ Held(s) = {}
  BY <1>1, <1>3, EmptyOnce DEF Sound, Held, Holding, Keyed, Carrying
<1>5. Sound(u) /\ Held(u) = Held(t) \ {c} /\ u.pc \in {"promoted", "replan", "idle"}
  BY <1>3, <1>4, RestSound DEF Sound
<1>6. w \in Thread /\ w.pc = "work" /\ w.key = c /\ w.todo = <<>>
  BY <1>1, <1>3, <1>4 DEF Sound, Thread, PC
<1>7. /\ \A q \in Proc : proc'[q] = IF q = p THEN u ELSE IF q = r THEN w ELSE proc[q]
      /\ proc' \in [Proc -> Thread]
  BY <1>1, <1>2, <1>5, <1>6 DEF OpenInv, Threads, Sound
<1> HIDE DEF u, w
<1>8. Sound(w) /\ Held(w) = {c}
  BY <1>4, <1>6, EmptyOnce DEF Sound, Held, Holding, Keyed, Closing
<1>9. Threads'
  BY <1>5, <1>7, <1>8 DEF OpenInv, Threads
<1>10. Pooled' /\ Granted' = Granted /\ Limit' = Limit
  BY DEF OpenInv, Pooled, Granted, Limit
<1>11. /\ \A q \in Proc : Held(proc[q]) \subseteq Granted
       /\ \A q, o \in Proc : q /= o => Held(proc[q]) \cap Held(proc[o]) = {}
       /\ \A d \in Granted : \E q \in Proc : d \in Held(proc[q])
  BY DEF OpenInv, Owners
<1>12. Owners'
  <2>1. /\ Held(proc'[p]) = Held(proc[p]) \ {c} /\ Held(proc'[r]) = {c}
        /\ \A q \in Proc : q /= p /\ q /= r => Held(proc'[q]) = Held(proc[q])
        /\ c \in Held(proc[p])
    BY <1>1, <1>2, <1>4, <1>5, <1>7, <1>8
  <2>2. Owners /\ Threads
    BY DEF OpenInv
  <2>3. p \in Proc /\ r \in Proc /\ p /= r /\ Held(proc[r]) = {}
    BY <1>1, <1>2, <1>4
  <2> HIDE DEF c, r
  <2>4. QED
    BY <1>9, <1>10, <2>1, <2>2, <2>3, SlotPasses
<1>13. Reserves'
  <2>1. ASSUME NEW q \in Proc, q /= p, proc[q].pc \in {"flip", "unlaunch"}
        PROVE  proc[q].sub /= r
    <3>1. proc[q].sub = r => proc[q].key = c
      BY <1>1, <2>1 DEF OpenInv, Reserves
    <3>2. proc[q].key \in Held(proc[q]) /\ c \in Held(t)
      BY <1>4, <2>1 DEF Held, Holding
    <3>3. QED
      BY <1>11, <2>1, <3>1, <3>2
  <2>2. QED
    BY <1>1, <1>5, <1>6, <1>7, <2>1 DEF OpenInv, Reserves
<1>14. c \in Granted /\ c \notin Sessions
  <2>1. \A q \in Proc : proc[q].pc = "work" => proc[q].key \in Held(proc[q])
    BY DEF Held, Holding
  <2>2. \A q \in Proc : proc[q].pc = "work" => proc[q].key /= c
    <3>1. proc[p].pc /= "work" /\ c \in Held(proc[p])
      BY <1>1, <1>4
    <3> HIDE DEF c
    <3>2. QED
      BY <1>11, <2>1, <3>1
  <2>3. QED
    BY <1>4, <1>11, <2>2 DEF Sessions, At, Key
<1>15. Sessions' = Sessions \cup {c}
  BY <1>1, <1>2, <1>4, <1>5, <1>6, <1>7 DEF Sessions, At, Key
<1>16. QED
  BY <1>9, <1>10, <1>12, <1>13, <1>14, <1>15 DEF OpenInv, Begins

LEMMA WorkOK ==
    ASSUME OpenInv, NEW p \in Proc, Work(p)
    PROVE  OpenInv' /\ Ends
<1> DEFINE t == proc[p]
           c == t.key
           u == [t EXCEPT !.pc = "forget"]
<1>1. t.pc = "work" /\ Sound(t) /\ c \in Card
  BY DEF Work, At, OpenInv, Threads, Sound, Keyed, Holding
<1>2. t.todo = <<>>
  BY <1>1 DEF Sound, Carrying
<1>3. Sound(u) /\ Held(u) = Held(t) /\ u.pc = "forget" /\ u.key = c
  BY <1>1, <1>2, MovesOn DEF PC, Closing, Keyed, Holding
<1>4. /\ \A q \in Proc : proc'[q] = IF q = p THEN u ELSE proc[q]
      /\ proc' \in [Proc -> Thread]
  BY <1>3 DEF Work, Goes, OpenInv, Threads, Sound
<1> HIDE DEF u
<1>5. Threads'
  BY <1>3, <1>4 DEF OpenInv, Threads
<1>6. Pooled' /\ Granted' = Granted /\ Limit' = Limit
  BY DEF Work, OpenInv, Pooled, Granted, Limit
<1>7. Owners'
  <2>1. \A q \in Proc : Held(proc[q])' = Held(proc[q])
    BY <1>3, <1>4 DEF Held
  <2>2. QED
    BY <1>6, <2>1 DEF OpenInv, Owners
<1>8. Reserves'
  BY <1>1, <1>3, <1>4 DEF OpenInv, Reserves
<1>9. Sessions' = Sessions \ {c}
  <2>1. ASSUME NEW q \in Proc, q /= p, proc[q].pc = "work" PROVE proc[q].key /= c
    <3>1. proc[q].key \in Held(proc[q]) /\ c \in Held(t)
      BY <1>1, <2>1 DEF Held, Holding
    <3>2. QED
      BY <2>1, <3>1 DEF OpenInv, Owners
  <2>2. QED
    BY <1>1, <1>3, <1>4, <2>1 DEF Sessions, At, Key
<1>10. QED
  BY <1>1, <1>5, <1>6, <1>7, <1>8, <1>9 DEF OpenInv, Ends

-----------------------------------------------------------------------------
(* The other steps.                                                        *)
LEMMA FreshSound ==
    ASSUME NEW t \in Thread, t.todo = <<>>, t.pc \notin Closing \cup Holding,
           t.pc \in Keyed => t.key \in Card
    PROVE  Sound(t) /\ Held(t) = {}
BY EmptyOnce DEF Sound, Held

(* The pool after one of its operations.                                   *)
LEMMA PoolAfter ==
    ASSUME PoolOK(pool'), policy' \in Nat
    PROVE  Pooled' /\ pool' /= None /\ Granted' = pool'.running /\ Limit' = pool'.max
<1>1. pool' \in Pool
  BY DEF PoolOK
<1>2. pool' /= None
  BY <1>1, RunsAssumption
<1>3. QED
  BY <1>1, <1>2 DEF Pooled, Granted, Limit

LEMMA PoolKept ==
    ASSUME Pooled, UNCHANGED pool, policy' \in Nat
    PROVE  Pooled' /\ Granted' = Granted /\ Limit' = Limit
BY DEF Pooled, Granted, Limit

LEMMA QuietOK ==
    ASSUME OpenInv, UNCHANGED <<pool, proc>>, policy' \in Nat
    PROVE  OpenInv' /\ Regrant
<1>1. Pooled' /\ Granted' = Granted
  BY PoolKept DEF OpenInv
<1>2. Sessions' = Sessions
  BY DEF Sessions, At, Key
<1>3. Threads' /\ Reserves' /\ Owners'
  BY <1>1 DEF OpenInv, Threads, Reserves, Owners
<1>4. QED
  BY <1>1, <1>2, <1>3 DEF OpenInv, Regrant

LEMMA ResolveOK ==
    ASSUME OpenInv, NEW p \in Proc, Resolve(p)
    PROVE  OpenInv' /\ Regrant
<1>1. Pooled' /\ Granted' = Granted /\ proc[p].pc = "resolve" /\ policy \in Nat
  BY PoolKept DEF Resolve, At, store, OpenInv, Pooled
<1>2. CASE Continues(p)
  BY <1>1, <1>2, ContinuesOK DEF Holding
<1>3. CASE proc' = [proc EXCEPT ![p].pc = "admit", ![p].max = policy]
  <2> DEFINE t == proc[p]
             u == [t EXCEPT !.pc = "admit", !.max = policy]
  <2>1. Sound(t) /\ t.key \in Card /\ t.todo = <<>>
    BY <1>1 DEF OpenInv, Threads, Sound, Keyed, Carrying
  <2>2. u \in Thread /\ u.pc = "admit" /\ u.key = t.key /\ u.todo = <<>>
    BY <1>1, <2>1 DEF Sound, Thread, PC
  <2>3. proc' = [proc EXCEPT ![p] = u]
    BY <1>3 DEF OpenInv, Threads
  <2> HIDE DEF u
  <2>4. Sound(u) /\ Held(u) = {} /\ Held(t) = {}
    BY <1>1, <2>1, <2>2, EmptyOnce, FreshSound DEF Holding, Closing, Held
  <2>5. QED
    BY <1>1, <2>2, <2>3, <2>4, OwnStep
<1>4. QED
  BY <1>2, <1>3 DEF Resolve

LEMMA EnsureOK ==
    ASSUME OpenInv, NEW p \in Proc, Ensure(p)
    PROVE  OpenInv' /\ Regrant
<1> DEFINE t == proc[p]
<1>1. /\ t.pc = "admit" /\ Sound(t) /\ t.todo = <<>> /\ t.max \in Nat
      /\ policy' = policy /\ policy \in Nat /\ Goes(p, "ask")
  BY DEF Ensure, At, store, OpenInv, Pooled, Threads, Sound, Carrying, Thread
<1>2. Pooled' /\ Granted' = Granted
  <2>1. CASE pool = None
    <3>1. pool' = NewPool(t.max)
      BY <2>1 DEF Ensure
    <3>2. PoolOK(pool') /\ pool'.running = {}
      BY <1>1, <3>1, NewPoolOK
    <3>3. QED
      BY <1>1, <2>1, <3>2, PoolAfter DEF Granted
  <2>2. CASE pool /= None
    BY <1>1, <2>2, PoolKept DEF Ensure, OpenInv
  <2>3. QED
    BY <2>1, <2>2
<1>3. QED
  BY <1>1, <1>2, GoesOK DEF PC, Closing, Holding, Keyed

LEMMA AdmitCardOK ==
    ASSUME OpenInv, Pointers, strays = {}, NEW p \in Proc, AdmitCard(p)
    PROVE  OpenInv' /\ Regrant
<1> DEFINE t == proc[p]
           c == t.key
           a == Admit(pool, c)
           u == [t EXCEPT !.pc = "register"]
<1>1. /\ t.pc = "ask" /\ Sound(t) /\ c \in Card /\ t.todo = <<>>
  BY DEF AdmitCard, At, OpenInv, Threads, Sound, Keyed, Carrying
<1>2. /\ pool' = Admitted(pool, c)
      /\ a = "duplicate" => Continues(p)
      /\ a = "queued" => Goes(p, "park")
      /\ a = "running" => Goes(p, "register")
      /\ policy' = policy
  BY DEF AdmitCard, Key, store
<1>3. PoolOK(pool) /\ pool.running = Granted
  BY <1>1 DEF OpenInv, Pooled, Granted, Pointers, HasPool
<1>4. /\ PoolOK(pool') /\ Within(pool, pool')
      /\ a = "running" => c \notin pool.running /\ pool'.running = pool.running \cup {c}
      /\ a /= "running" => pool'.running = pool.running
      /\ a \in {"duplicate", "queued", "running"}
  BY <1>1, <1>2, <1>3, AdmittedOK
<1>5. Pooled' /\ Granted' = pool'.running /\ Limit' = pool'.max
  BY <1>2, <1>4, PoolAfter DEF OpenInv, Pooled
<1> HIDE DEF a
<1>6. CASE a = "duplicate"
  BY <1>1, <1>2, <1>3, <1>4, <1>5, <1>6, ContinuesOK DEF Holding
<1>7. CASE a = "queued"
  BY <1>1, <1>2, <1>3, <1>4, <1>5, <1>7, GoesOK DEF PC, Closing, Holding, Keyed
<1>8. CASE a = "running"
  <2>1. proc' = [proc EXCEPT ![p] = u]
    BY <1>2, <1>8 DEF Goes, OpenInv, Threads
  <2>2. u \in Thread /\ u.pc = "register" /\ u.key = c /\ u.todo = <<>>
    BY <1>1 DEF Sound, Thread, PC
  <2> HIDE DEF u
  <2>3. Sound(u) /\ Held(u) = {c} /\ Held(t) = {}
    BY <1>1, <2>2, EmptyOnce DEF Sound, Held, Holding, Keyed, Closing
  <2>4. /\ {} \subseteq Held(t) /\ {c} \cap Granted = {}
        /\ Held(u) = (Held(t) \ {}) \cup {c}
        /\ Granted' = (Granted \ {}) \cup {c}
    BY <1>3, <1>4, <1>5, <1>8, <2>3
  <2>5. OpenInv' /\ Sessions' = Sessions
    BY <1>1, <1>5, <2>1, <2>2, <2>3, <2>4, OneThread, ZenonT(40)
  <2>6. QED
    BY <1>3, <1>4, <1>5, <2>5 DEF Within, Regrant
<1>9. QED
  BY <1>4, <1>6, <1>7, <1>8

LEMMA ParkOK ==
    ASSUME OpenInv, Pointers, strays = {}, NEW p \in Proc, Park(p) \/ Unpark(p)
    PROVE  OpenInv' /\ Regrant
<1>1. /\ proc[p].pc \in {"park", "unpark"} /\ Key(p) \in Card /\ proc[p].todo = <<>>
  BY DEF Park, Unpark, At, OpenInv, Threads, Sound, Keyed, Carrying, Key
<1>2. Pooled' /\ Granted' = Granted
  <2>1. policy' \in Nat
    BY DEF Park, Unpark, store, OpenInv, Pooled
  <2>2. CASE UNCHANGED pool
    BY <2>1, <2>2, PoolKept DEF OpenInv
  <2>3. CASE pool /= None /\ pool' = Dequeued(pool, Key(p))
    <3>1. PoolOK(pool)
      BY <2>3 DEF OpenInv, Pooled
    <3>2. PoolOK(pool') /\ pool'.running = pool.running
      BY <1>1, <2>3, <3>1, DequeuedOK
    <3>3. QED
      BY <2>1, <2>3, <3>2, PoolAfter DEF Granted
  <2>4. QED
    BY <1>1, <2>2, <2>3 DEF Park, Unpark, At, Pointers, HasPool
<1>3. CASE Continues(p)
  BY <1>1, <1>2, <1>3, ContinuesOK DEF Holding
<1>4. CASE Goes(p, "unpark")
  BY <1>1, <1>2, <1>4, GoesOK DEF PC, Closing, Holding, Keyed
<1>5. QED
  BY <1>3, <1>4 DEF Park, Unpark

LEMMA RegisterOK ==
    ASSUME OpenInv, NEW p \in Proc, Register(p) \/ StartPromoted(p)
    PROVE  OpenInv' /\ Regrant
<1>1. /\ Pooled' /\ Granted' = Granted
      /\ proc[p].pc \in {"register", "promoted"}
  BY PoolKept DEF Register, StartPromoted, At, store, OpenInv, Pooled
<1>2. CASE Launch(p)
  BY <1>1, <1>2, LaunchOK
<1>3. CASE Goes(p, "release")
  BY <1>1, <1>3, GoesOK DEF PC, Closing, Holding, Keyed, Carrying
<1>4. QED
  BY <1>2, <1>3 DEF Register, StartPromoted

LEMMA FlipOK ==
    ASSUME OpenInv, NEW p \in Proc, Flip(p)
    PROVE  OpenInv' /\ (Regrant \/ Begins)
<1>1. /\ Pooled' /\ Granted' = Granted
      /\ proc[p].pc = "flip" /\ UNCHANGED <<pool, policy>>
  BY PoolKept DEF Flip, At, OpenInv, Pooled
<1>2. CASE proc' = [proc EXCEPT ![p] = Rest(@), ![proc[p].sub].pc = "work"]
  BY <1>1, <1>2, StartOK DEF At
<1>3. CASE Goes(p, "unlaunch")
  BY <1>1, <1>3, GoesOK DEF PC, Closing, Holding, Keyed, Carrying
<1>4. QED
  BY <1>2, <1>3 DEF Flip

LEMMA ForgetOK ==
    ASSUME OpenInv, NEW p \in Proc, Forget(p)
    PROVE  OpenInv' /\ Regrant
<1>1. /\ Pooled' /\ Granted' = Granted
      /\ proc[p].pc = "forget" /\ Goes(p, "release")
  BY PoolKept DEF Forget, At, store, OpenInv, Pooled
<1>2. QED
  BY <1>1, GoesOK DEF PC, Closing, Holding, Keyed, Carrying

LEMMA ReleaseOK ==
    ASSUME OpenInv, NEW p \in Proc, Release(p)
    PROVE  OpenInv' /\ Regrant
<1> DEFINE t == proc[p]
           c == t.key
           s == ReleaseStarts(pool, c)
           v == [t EXCEPT !.todo = s \o @]
           u == Rest(v)
<1>1. /\ t.pc = "release" /\ Sound(t) /\ c \in Card /\ c \notin Elems(t.todo)
      /\ t.todo \in Seq(Card) /\ Once(t.todo)
  BY DEF Release, At, OpenInv, Threads, Sound, Keyed, Holding, Thread
<1>2. Held(t) = Elems(t.todo) \cup {c} /\ Held(t) \subseteq Granted
  BY <1>1 DEF Held, Holding, OpenInv, Owners
<1>3. pool /= None /\ PoolOK(pool) /\ Granted = pool.running
  BY <1>2 DEF OpenInv, Pooled, Granted
<1>4. /\ pool' = Released(pool, c) /\ policy' = policy
      /\ proc' = [proc EXCEPT ![p] = u]
  <2>1. /\ pool' = Released(pool, Key(p)) /\ policy' = policy
        /\ proc' = [proc EXCEPT ![p] = Rest([proc[p] EXCEPT !.todo = ReleaseStarts(pool, Key(p)) \o @])]
    BY <1>3 DEF Release, store
  <2>2. QED
    BY <2>1, Zenon DEF Key
<1>5. /\ PoolOK(pool') /\ Within(pool, pool')
      /\ s \in Seq(Card) /\ Once(s) /\ Elems(s) \cap Granted = {}
      /\ pool'.running = (Granted \ {c}) \cup Elems(s)
  BY <1>1, <1>3, <1>4, ReleasedOK
<1>6. Pooled' /\ Granted' = pool'.running /\ Limit' = pool'.max
  BY <1>4, <1>5, PoolAfter DEF OpenInv, Pooled
<1> HIDE DEF s
<1>7. /\ s \o t.todo \in Seq(Card) /\ Elems(s \o t.todo) = Elems(s) \cup Elems(t.todo)
      /\ Once(s \o t.todo)
  <2>1. Elems(s) \cap Elems(t.todo) = {}
    BY <1>2, <1>5
  <2>2. QED
    BY <1>1, <1>5, <2>1, JoinOnce
<1>8. v \in Thread /\ v.todo = s \o t.todo
  BY <1>1, <1>7 DEF Sound, Thread
<1> HIDE DEF v
<1>9. /\ Sound(u) /\ Held(u) = Elems(s) \cup Elems(t.todo)
      /\ u.pc \in {"promoted", "replan", "idle"}
  BY <1>7, <1>8, RestSound
<1> HIDE DEF u
<1>10. /\ {c} \subseteq Held(t) /\ Elems(s) \cap Granted = {}
       /\ Held(u) = (Held(t) \ {c}) \cup Elems(s)
       /\ Granted' = (Granted \ {c}) \cup Elems(s)
  BY <1>1, <1>2, <1>5, <1>6, <1>9
<1>11. OpenInv' /\ Sessions' = Sessions
  <2>1. t.pc \notin {"reserved", "work"} /\ u.pc \notin {"work", "flip", "unlaunch"}
    BY <1>1, <1>9
  <2>2. {c} \subseteq Held(proc[p])
    BY <1>10
  <2>3. Held(u) = (Held(proc[p]) \ {c}) \cup Elems(s)
    BY <1>10
  <2>4. proc' = [proc EXCEPT ![p] = u] /\ Pooled' /\ Sound(u)
    BY <1>4, <1>6, <1>9
  <2> HIDE DEF c
  <2>5. QED
    BY <1>10, <2>1, <2>2, <2>3, <2>4, OneThread
<1>12. QED
  BY <1>3, <1>5, <1>6, <1>11 DEF Within, Regrant

LEMMA ReboundOK ==
    ASSUME OpenInv, NEW p \in Proc, Rebound(p)
    PROVE  OpenInv' /\ Regrant
<1> DEFINE t == proc[p]
           s == SetMaxStarts(pool, t.max)
           v == [t EXCEPT !.todo = s]
           u == Rest(v)
<1>1. /\ t.pc = "rebound" /\ Sound(t) /\ t.max \in Nat /\ t.todo = <<>>
  BY DEF Rebound, At, OpenInv, Threads, Sound, Carrying, Thread
<1>2. Held(t) = {} /\ policy' \in Nat
  BY <1>1, EmptyOnce DEF Held, Holding, Rebound, store, OpenInv, Pooled
<1>3. CASE pool = None
  <2>1. pool' = NewPool(t.max) /\ Continues(p)
    BY <1>3 DEF Rebound
  <2>2. PoolOK(pool') /\ pool'.running = {}
    BY <1>1, <2>1, NewPoolOK
  <2>3. Pooled' /\ Granted' = Granted
    BY <1>2, <1>3, <2>2, PoolAfter DEF Granted
  <2>4. QED
    BY <1>1, <2>1, <2>3, ContinuesOK DEF Holding
<1>4. CASE pool /= None
  <2>1. pool' = Rebounded(pool, t.max) /\ proc' = [proc EXCEPT ![p] = u]
    BY <1>4 DEF Rebound
  <2>2. PoolOK(pool) /\ Granted = pool.running
    BY <1>4 DEF OpenInv, Pooled, Granted
  <2>3. /\ PoolOK(pool') /\ Within(pool, pool')
        /\ s \in Seq(Card) /\ Once(s) /\ Elems(s) \cap Granted = {}
        /\ pool'.running = Granted \cup Elems(s)
    BY <1>1, <2>1, <2>2, ReboundedOK
  <2>4. Pooled' /\ Granted' = pool'.running /\ Limit' = pool'.max
    BY <1>2, <2>3, PoolAfter
  <2> HIDE DEF s
  <2>5. v \in Thread /\ v.todo = s
    BY <1>1, <2>3 DEF Sound, Thread
  <2> HIDE DEF v
  <2>6. Sound(u) /\ Held(u) = Elems(s) /\ u.pc \in {"promoted", "replan", "idle"}
    BY <2>3, <2>5, RestSound
  <2> HIDE DEF u
  <2>7. /\ {} \subseteq Held(t)
        /\ Held(u) = (Held(t) \ {}) \cup Elems(s)
        /\ Granted' = (Granted \ {}) \cup Elems(s)
        /\ t.pc \notin {"reserved", "work"} /\ u.pc \notin {"work", "flip", "unlaunch"}
    BY <1>1, <1>2, <2>3, <2>4, <2>6
  <2>8. OpenInv' /\ Sessions' = Sessions
    BY <2>1, <2>3, <2>4, <2>6, <2>7, OneThread
  <2>9. QED
    BY <2>2, <2>3, <2>4, <2>8 DEF Within, Regrant
<1>5. QED
  BY <1>3, <1>4

LEMMA ReplanOK ==
    ASSUME OpenInv, NEW p \in Proc, Replan(p)
    PROVE  OpenInv' /\ Regrant
<1> DEFINE t == proc[p]
           w == [Idle EXCEPT !.pc = "resolve", !.key = Key(p)]
<1>1. /\ Pooled' /\ Granted' = Granted
  BY PoolKept DEF Replan, OpenInv, Pooled
<1>2. /\ t.pc = "replan" /\ t.key \in Card /\ t.todo = <<>>
  BY DEF Replan, At, OpenInv, Threads, Sound, Keyed, Carrying
<1>3. Held(t) = {}
  BY <1>2, EmptyOnce DEF Held, Holding
<1>4. CASE proc' = [proc EXCEPT ![p] = Idle]
  BY <1>1, <1>2, <1>3, <1>4, IdleSound, OwnStep
<1>5. CASE proc' = [proc EXCEPT ![p] = w]
  <2>1. w \in Thread /\ w.pc = "resolve" /\ w.key \in Card /\ w.todo = <<>>
    BY <1>2, IdleSound DEF Sound, Thread, PC, Key
  <2> HIDE DEF w
  <2>2. Sound(w) /\ Held(w) = {}
    BY <2>1, FreshSound DEF Closing, Holding
  <2>3. QED
    BY <1>1, <1>2, <1>3, <1>5, <2>1, <2>2, OwnStep
<1>6. QED
  BY <1>4, <1>5 DEF Replan

LEMMA CancelRunOK ==
    ASSUME OpenInv, NEW p \in Proc, CancelRun(p)
    PROVE  OpenInv' /\ Regrant
<1> DEFINE r == handle[Key(p)]
<1>1. Pooled' /\ Granted' = Granted
  BY PoolKept DEF CancelRun, store, OpenInv, Pooled
<1>2. proc[p].pc = "cancel" /\ proc[p].todo = <<>>
  BY DEF CancelRun, At, OpenInv, Threads, Sound, Carrying
<1>3. proc' = [q \in Proc |-> IF q = p THEN Idle
                              ELSE IF q = r THEN [proc[q] EXCEPT !.cancelled = TRUE] ELSE proc[q]]
  BY DEF CancelRun
<1>4. ASSUME NEW q \in Proc
      PROVE  LET u == [proc[q] EXCEPT !.cancelled = TRUE]
             IN  /\ Sound(u) /\ Held(u) = Held(proc[q])
                 /\ u.pc = proc[q].pc /\ u.key = proc[q].key /\ u.sub = proc[q].sub
  <2> DEFINE u == [proc[q] EXCEPT !.cancelled = TRUE]
  <2>1. Sound(proc[q])
    BY DEF OpenInv, Threads
  <2>2. /\ u \in Thread /\ u.todo = proc[q].todo
        /\ u.pc = proc[q].pc /\ u.key = proc[q].key /\ u.sub = proc[q].sub
    BY <2>1 DEF Sound, Thread
  <2> HIDE DEF u
  <2>3. Sound(u) /\ Held(u) = Held(proc[q])
    BY <2>1, <2>2 DEF Sound, Held
  <2>4. QED
    BY <2>2, <2>3 DEF u
<1>5. Held(proc[p]) = {}
  BY <1>2, EmptyOnce DEF Held, Holding
<1> HIDE DEF r
<1>6. \A q \in Proc : /\ Sound(proc'[q]) /\ Held(proc'[q]) = Held(proc[q])
                      /\ proc'[q].pc /= proc[q].pc => proc[q].pc = "cancel" /\ proc'[q].pc = "idle"
                      /\ proc'[q].pc = proc[q].pc =>
                            proc'[q].key = proc[q].key /\ proc'[q].sub = proc[q].sub
  <2>1. ASSUME NEW q \in Proc
        PROVE  /\ Sound(proc'[q]) /\ Held(proc'[q]) = Held(proc[q])
               /\ proc'[q].pc /= proc[q].pc => proc[q].pc = "cancel" /\ proc'[q].pc = "idle"
               /\ proc'[q].pc = proc[q].pc =>
                     proc'[q].key = proc[q].key /\ proc'[q].sub = proc[q].sub
    <3>1. CASE q = p
      <4>1. proc'[q] = Idle
        BY <1>3, <3>1
      <4>2. QED
        BY <1>2, <1>5, <3>1, <4>1, IdleSound
    <3>2. CASE q /= p /\ q = r
      <4>1. proc'[q] = [proc[q] EXCEPT !.cancelled = TRUE]
        BY <1>3, <3>2
      <4>2. QED
        BY <1>4, <4>1
    <3>3. CASE q /= p /\ q /= r
      <4>1. proc'[q] = proc[q]
        BY <1>3, <3>3
      <4>2. QED
        BY <4>1 DEF OpenInv, Threads
    <3>4. QED
      BY <3>1, <3>2, <3>3
  <2>2. QED
    BY <2>1
<1>7. proc' \in [Proc -> Thread]
  <2>1. \A q \in Proc : proc'[q] \in Thread
    BY <1>6 DEF Sound
  <2>2. QED
    BY <1>3, <2>1
<1>8. QED
  BY <1>1, <1>6, <1>7, NobodyStarts DEF Regrant

-----------------------------------------------------------------------------
(* Calls of the frontend.                                                  *)
LEMMA CallOK ==
    ASSUME OpenInv, NEW t \in Thread, t.todo = <<>>, t.pc \notin Closing \cup Holding,
           t.pc \in Keyed => t.key \in Card, NewThread(t), UNCHANGED pool, policy' \in Nat
    PROVE  OpenInv' /\ Regrant
<1>1. Pooled' /\ Granted' = Granted
  BY PoolKept DEF OpenInv
<1>2. Sound(t)
  BY FreshSound
<1>3. QED
  BY <1>1, <1>2, NewThreadOK

LEMMA RunTeamTaskOK ==
    ASSUME OpenInv, NEW c \in Card, RunTeamTask(c)
    PROVE  OpenInv' /\ Regrant
<1> DEFINE t == [Idle EXCEPT !.pc = "admit", !.key = c, !.max = policy]
<1>1. policy \in Nat /\ policy' = policy /\ pool' = pool /\ NewThread(t)
  BY DEF RunTeamTask, store, OpenInv, Pooled
<1>2. t \in Thread /\ t.pc = "admit" /\ t.key = c /\ t.todo = <<>>
  BY <1>1, IdleSound DEF Sound, Thread, PC
<1> HIDE DEF t
<1>3. QED
  BY <1>1, <1>2, CallOK DEF Closing, Holding

LEMMA CancelTeamTaskOK ==
    ASSUME OpenInv, NEW c \in Card, CancelTeamTask(c)
    PROVE  OpenInv' /\ Regrant
<1> DEFINE t == [Idle EXCEPT !.pc = "cancel", !.key = c]
<1>1. policy' = policy /\ policy \in Nat
  BY DEF CancelTeamTask, store, OpenInv, Pooled
<1>2. CASE ~Waits(c)
  <2>1. NewThread(t) /\ pool' = pool
    BY <1>2 DEF CancelTeamTask, CallThread
  <2>2. t \in Thread /\ t.pc = "cancel" /\ t.key = c /\ t.todo = <<>>
    BY IdleSound DEF Sound, Thread, PC
  <2> HIDE DEF t
  <2>3. QED
    BY <1>1, <2>1, <2>2, CallOK DEF Closing, Holding
<1>3. CASE Waits(c)
  <2>1. pool /= None /\ pool' = Dequeued(pool, c) /\ proc' = proc
    BY <1>3 DEF CancelTeamTask, Waits
  <2>2. PoolOK(pool)
    BY <2>1 DEF OpenInv, Pooled
  <2>3. PoolOK(pool') /\ pool'.running = pool.running
    BY <2>1, <2>2, DequeuedOK
  <2>4. Pooled' /\ Granted' = Granted
    BY <1>1, <2>1, <2>3, PoolAfter DEF Granted
  <2>5. Threads' /\ Reserves' /\ Owners' /\ Sessions' = Sessions
    BY <2>1, <2>4 DEF OpenInv, Threads, Reserves, Owners, Sessions, At, Key
  <2>6. QED
    BY <2>4, <2>5 DEF OpenInv, Regrant
<1>4. QED
  BY <1>2, <1>3

LEMMA ApproveTeamTaskOK ==
    ASSUME OpenInv, NEW c \in Card, ApproveTeamTask(c)
    PROVE  OpenInv' /\ Regrant
<1> DEFINE t == [Idle EXCEPT !.pc = "resolve", !.key = c]
<1>1. policy' \in Nat /\ pool' = pool
  BY DEF ApproveTeamTask, OpenInv, Pooled
<1>2. CASE NewThread(t)
  <2>1. t \in Thread /\ t.pc = "resolve" /\ t.key = c /\ t.todo = <<>>
    BY IdleSound DEF Sound, Thread, PC
  <2> HIDE DEF t
  <2>2. QED
    BY <1>1, <1>2, <2>1, CallOK DEF Closing, Holding
<1>3. CASE UNCHANGED proc
  BY <1>1, <1>3, QuietOK
<1>4. QED
  BY <1>2, <1>3 DEF ApproveTeamTask

LEMMA UpdateTeamProjectOK ==
    ASSUME OpenInv, NEW max \in Bound, UpdateTeamProject(max)
    PROVE  OpenInv' /\ Regrant
<1> DEFINE t == [Idle EXCEPT !.pc = "rebound", !.max = max]
<1>1. max \in Nat /\ policy' = max /\ pool' = pool /\ (NewThread(t) \/ UNCHANGED proc)
  BY RunsAssumption DEF UpdateTeamProject, CallThread
<1>2. t \in Thread /\ t.pc = "rebound" /\ t.todo = <<>>
  BY <1>1, IdleSound DEF Sound, Thread, PC
<1> HIDE DEF t
<1>3. CASE NewThread(t)
  BY <1>1, <1>2, <1>3, CallOK DEF Closing, Holding, Keyed
<1>4. CASE UNCHANGED proc
  BY <1>1, <1>4, QuietOK
<1>5. QED
  BY <1>1, <1>3, <1>4

LEMMA DeleteTeamProjectOK ==
    ASSUME OpenInv, DeleteTeamProject
    PROVE  OpenInv' /\ Regrant
<1> DEFINE t == [Idle EXCEPT !.pc = "drop"]
<1>1. policy' \in Nat /\ pool' = pool /\ NewThread(t)
  BY DEF DeleteTeamProject, CallThread, OpenInv, Pooled
<1>2. t \in Thread /\ t.pc = "drop" /\ t.todo = <<>>
  BY IdleSound DEF Sound, Thread, PC
<1> HIDE DEF t
<1>3. QED
  BY <1>1, <1>2, CallOK DEF Closing, Holding, Keyed

LEMMA ThreadStepOK ==
    ASSUME OpenInv, Pointers, strays = {}, NEW p \in Proc, ThreadStep(p), ~Drop(p)
    PROVE  OpenInv' /\ (Regrant \/ Begins \/ Ends)
<1>1. ~(Empty(p) \/ CancelDropped(p) \/ CancelAllRuns(p))
  BY DEF Empty, CancelDropped, CancelAllRuns, At, OpenInv, Threads, Sound, Closing
<1>2. QED
  BY <1>1, ResolveOK, EnsureOK, AdmitCardOK, ParkOK, RegisterOK, FlipOK, UnlaunchOK, WorkOK, ForgetOK,
     ReleaseOK, ReplanOK, CancelRunOK, ReboundOK DEF ThreadStep

LEMMA UserOK ==
    ASSUME OpenInv, User, ~quit'
    PROVE  OpenInv' /\ Regrant
<1>1. ~CancelAllTeamRuns
  BY DEF CancelAllTeamRuns
<1>2. ASSUME NEW c \in Card, RejectTeamTask(c) \/ (\E g \in Gate : SetTeamTaskApproval(c, g))
                             \/ (\E col \in Column : MoveTeamTask(c, col))
      PROVE  OpenInv' /\ Regrant
  <2>1. UNCHANGED <<pool, proc>> /\ policy' = policy
    BY <1>2 DEF RejectTeamTask, SetTeamTaskApproval, MoveTeamTask
  <2>2. QED
    BY <2>1, QuietOK DEF OpenInv, Pooled
<1>3. QED
  BY <1>1, <1>2, RunTeamTaskOK, CancelTeamTaskOK, ApproveTeamTaskOK, UpdateTeamProjectOK,
     DeleteTeamProjectOK DEF User

-----------------------------------------------------------------------------
(* The cards of the board, whether the team is open or closed.             *)
Cards == [status : Status, attempts : Nat, gate : Gate, decision : Decision]

CInv == card \in [Card -> Cards] /\ calls \in Nat

LEMMA SetStatus ==
    ASSUME NEW c \in Cards, NEW s \in Status
    PROVE  [c EXCEPT !.status = s] \in Cards
BY DEF Cards

LEMMA SetDecision ==
    ASSUME NEW c \in Cards, NEW d \in Decision
    PROVE  [c EXCEPT !.decision = d] \in Cards
BY DEF Cards

LEMMA SetGate ==
    ASSUME NEW c \in Cards, NEW g \in Gate
    PROVE  [c EXCEPT !.gate = g] \in Cards
BY DEF Cards

LEMMA SetAttempts ==
    ASSUME NEW c \in Cards, NEW n \in Nat
    PROVE  [c EXCEPT !.attempts = n] \in Cards
BY DEF Cards

LEMMA StartedCard ==
    ASSUME NEW c \in Cards
    PROVE  Started(c) \in Cards /\ Started(c).status = "running"
<1> DEFINE n == c.attempts + 1
           k == [c EXCEPT !.status = "running"]
<1>1. n \in Nat /\ "running" \in Status
  BY DEF Cards, Status
<1>2. k \in Cards
  BY <1>1, SetStatus
<1>3. Started(c) = [k EXCEPT !.attempts = n]
  BY DEF Started, Cards
<1>4. Started(c).status = "running"
  BY DEF Started, Cards
<1> HIDE DEF n, k
<1>5. QED
  BY <1>1, <1>2, <1>3, <1>4, SetAttempts

LEMMA FinishedCard ==
    ASSUME NEW c \in Cards, NEW out \in {"ok", "fail", "cancelled"}
    PROVE  /\ Finished(c, out) \in Cards
           /\ c.gate = "after" => Finished(c, out).status /= "succeeded"
BY DEF Cards, Finished, Status, Decision

LEMMA ResolvedCard ==
    ASSUME NEW c \in Cards, NEW b \in BOOLEAN
    PROVE  ResolveApproval(c, b) \in Cards
<1> DEFINE d == IF b THEN "approved" ELSE "rejected"
           s == IF ~b THEN "failed" ELSE IF c.gate = "after" THEN "succeeded" ELSE "queued"
           k == [c EXCEPT !.decision = d]
<1>1. s \in Status /\ d \in Decision
  BY DEF Status, Decision
<1>2. ResolveApproval(c, b) = c \/ ResolveApproval(c, b) = [k EXCEPT !.status = s]
  BY DEF ResolveApproval, Cards
<1> HIDE DEF d, s
<1>3. k \in Cards
  BY <1>1, SetDecision
<1> HIDE DEF k
<1>4. QED
  BY <1>1, <1>2, <1>3, SetStatus

LEMMA MovedCard ==
    ASSUME NEW c \in Cards, NEW column \in Column
    PROVE  Moved(c, column) \in Cards
<1>1. Decided(c, column) \in Cards
  BY SetDecision DEF Decided, Decision
<1>2. /\ "pending" \in Decision /\ "none" \in Decision
      /\ "waiting" \in Status /\ "queued" \in Status
  BY DEF Decision, Status
<1>3. CASE column = "approval"
  <2> DEFINE g == IF c.gate = "none" THEN "after" ELSE c.gate
             k == [c EXCEPT !.gate = g]
             j == [k EXCEPT !.decision = "pending"]
  <2>1. g \in Gate
    BY DEF Cards, Gate
  <2>2. Moved(c, column) = [j EXCEPT !.status = "waiting"]
    BY <1>3 DEF Moved, Cards
  <2> HIDE DEF g
  <2>3. k \in Cards
    BY <2>1, SetGate
  <2> HIDE DEF k
  <2>4. j \in Cards
    BY <1>2, <2>3, SetDecision
  <2> HIDE DEF j
  <2>5. QED
    BY <1>2, <2>2, <2>4, SetStatus
<1>4. CASE column = "backlog"
  <2> DEFINE k == [c EXCEPT !.status = "queued"]
  <2>1. Moved(c, column) = [k EXCEPT !.decision = "none"]
    BY <1>4 DEF Moved, Cards
  <2>2. k \in Cards
    BY <1>2, SetStatus
  <2> HIDE DEF k
  <2>3. QED
    BY <1>2, <2>1, <2>2, SetDecision
<1>5. CASE column = "ready"
  <2>1. Moved(c, column) = [Decided(c, column) EXCEPT !.status = "queued"]
    BY <1>5 DEF Moved
  <2>2. QED
    BY <1>1, <1>2, <2>1, SetStatus
<1>6. CASE column \notin {"approval", "backlog", "ready"}
  <2> DEFINE d == Decided(c, column)
             to == StateFor[column]
             n == IF to = "running" THEN d.attempts + 1 ELSE d.attempts
             e == IF to = "succeeded" THEN "none" ELSE d.decision
             k == [d EXCEPT !.status = to]
             j == [k EXCEPT !.attempts = n]
  <2>1. column \in {"doing", "blocked", "done", "failed", "cancelled"}
    BY <1>6, RunsAssumption
  <2>2. to \in Status
    BY <2>1 DEF StateFor, Status
  <2> HIDE DEF to
  <2>3. d \in Cards
    BY <1>1
  <2>4. Moved(c, column) = c \/ Moved(c, column) = [d EXCEPT !.status = to, !.attempts = n, !.decision = e]
    BY <1>6 DEF Moved, to
  <2> HIDE DEF d
  <2>5. n \in Nat /\ e \in Decision
    BY <2>3 DEF Cards, Decision
  <2>6. [d EXCEPT !.status = to, !.attempts = n, !.decision = e] = [j EXCEPT !.decision = e]
    BY <2>3 DEF Cards
  <2> HIDE DEF n, e
  <2>7. k \in Cards
    BY <2>2, <2>3, SetStatus
  <2> HIDE DEF k
  <2>8. j \in Cards
    BY <2>5, <2>7, SetAttempts
  <2> HIDE DEF j
  <2>9. QED
    BY <2>4, <2>5, <2>6, <2>8, SetDecision
<1>7. QED
  BY <1>3, <1>4, <1>5, <1>6

(* What a step of a thread does to a card: it confirms no deliverable.     *)
Unconfirmed(c) ==
    card[c].gate = "after" /\ card[c].status /= "succeeded" => card'[c].status /= "succeeded"

LEMMA UpdateCard ==
    ASSUME card \in [Card -> Cards], NEW k, NEW state, Update(k, state),
           k \in Card => /\ state \in Cards
                         /\ card[k].gate = "after" => state.status /= "succeeded"
    PROVE  card' \in [Card -> Cards] /\ \A c \in Card : Unconfirmed(c)
BY DEF Update, Unconfirmed

LEMMA ThreadCards ==
    ASSUME CInv, NEW p \in Proc, ThreadStep(p)
    PROVE  CInv' /\ \A c \in Card : Unconfirmed(c)
<1> DEFINE k == Key(p)
<1>1. card \in [Card -> Cards] /\ calls' = calls /\ calls \in Nat
  BY DEF CInv, ThreadStep, Resolve, Ensure, AdmitCard, Park, Unpark, StartPromoted, Register, Flip,
         Unlaunch, Work, Forget, Release, Replan, CancelRun, Rebound, Drop, Empty, CancelDropped,
         CancelAllRuns, budgets
<1>2. k \in Card => card[k] \in Cards
  BY <1>1
<1>3. CASE UNCHANGED card
  BY <1>1, <1>3 DEF CInv, Unconfirmed
<1>4. ASSUME NEW s \in Status \ {"succeeded"}, Update(k, [card[k] EXCEPT !.status = s])
      PROVE  CInv' /\ \A c \in Card : Unconfirmed(c)
  <2>1. k \in Card => /\ [card[k] EXCEPT !.status = s] \in Cards
                      /\ [card[k] EXCEPT !.status = s].status /= "succeeded"
    BY <1>2 DEF Cards
  <2>2. QED
    BY <1>1, <1>4, <2>1, UpdateCard DEF CInv
<1>5. CASE Park(p)
  BY <1>4, <1>5 DEF Park, Status
<1>6. CASE Flip(p)
  <2>1. Update(k, Started(card[k]))
    BY <1>6 DEF Flip
  <2>2. k \in Card => Started(card[k]) \in Cards /\ Started(card[k]).status /= "succeeded"
    BY <1>2, StartedCard
  <2>3. QED
    BY <1>1, <2>1, <2>2, UpdateCard DEF CInv
<1>7. CASE Work(p)
  <2>1. PICK out \in {"ok", "fail", "cancelled"} : Update(k, Finished(card[k], out))
    BY <1>7 DEF Work
  <2>2. k \in Card => /\ Finished(card[k], out) \in Cards
                      /\ card[k].gate = "after" => Finished(card[k], out).status /= "succeeded"
    BY <1>2, FinishedCard
  <2>3. QED
    BY <1>1, <2>1, <2>2, UpdateCard DEF CInv
<1>8. CASE Replan(p)
  BY <1>3, <1>4, <1>8 DEF Replan, Status
<1>9. CASE ~(Park(p) \/ Flip(p) \/ Work(p) \/ Replan(p))
  BY <1>3, <1>9 DEF ThreadStep, Resolve, Ensure, AdmitCard, Unpark, StartPromoted, Register,
         Unlaunch, Forget, Release, CancelRun, Rebound, Drop, Empty, CancelDropped, CancelAllRuns, store
<1>10. QED
  BY <1>5, <1>6, <1>7, <1>8, <1>9

LEMMA UserCards ==
    ASSUME CInv, User
    PROVE  CInv' /\ (calls' /= calls \/ UNCHANGED card)
<1>1. card \in [Card -> Cards] /\ calls \in Nat
  BY DEF CInv
<1>2. /\ calls' \in Nat
      /\ calls' /= calls \/ UNCHANGED card
  <2>1. CASE Call
    BY <1>1, <2>1 DEF Call
  <2>2. CASE ~Call
    <3>1. PICK c \in Card : RunTeamTask(c)
      BY <2>2 DEF User, CancelTeamTask, ApproveTeamTask, RejectTeamTask, SetTeamTaskApproval,
         MoveTeamTask, UpdateTeamProject, DeleteTeamProject, CancelAllTeamRuns, CallThread
    <3>2. QED
      BY <1>1, <3>1 DEF RunTeamTask, store
  <2>3. QED
    BY <2>1, <2>2
<1>3. ASSUME NEW c \in Card, NEW state \in Cards, Update(c, state)
      PROVE  card' \in [Card -> Cards]
  BY <1>1, <1>3 DEF Update
<1>4. ASSUME NEW c \in Card PROVE card[c] \in Cards
  BY <1>1
<1>5. card' \in [Card -> Cards]
  <2>1. CASE UNCHANGED card
    BY <1>1, <2>1
  <2>2. CASE \E c \in Card : ApproveTeamTask(c)
    BY <1>3, <1>4, <2>2, ResolvedCard DEF ApproveTeamTask
  <2>3. CASE \E c \in Card : RejectTeamTask(c)
    BY <1>3, <1>4, <2>3, ResolvedCard DEF RejectTeamTask
  <2>4. CASE \E c \in Card : \E g \in Gate \ {card[c].gate} : SetTeamTaskApproval(c, g)
    <3>1. PICK c \in Card, g \in Gate : SetTeamTaskApproval(c, g)
      BY <2>4
    <3>2. "none" \in Decision
      BY DEF Decision
    <3>3. [card[c] EXCEPT !.gate = g, !.decision = "none"] \in Cards
      <4> DEFINE k == [card[c] EXCEPT !.gate = g]
      <4>1. [card[c] EXCEPT !.gate = g, !.decision = "none"] = [k EXCEPT !.decision = "none"]
        BY <1>4 DEF Cards
      <4>2. k \in Cards
        BY <1>4, SetGate
      <4> HIDE DEF k
      <4>3. QED
        BY <3>2, <4>1, <4>2, SetDecision
    <3>4. QED
      BY <1>3, <3>1, <3>3 DEF SetTeamTaskApproval
  <2>5. CASE \E c \in Card : \E col \in Column : MoveTeamTask(c, col)
    BY <1>3, <1>4, <2>5, MovedCard DEF MoveTeamTask
  <2>6. QED
    BY <2>1, <2>2, <2>3, <2>4, <2>5 DEF User, RunTeamTask, CancelTeamTask,
       UpdateTeamProject, DeleteTeamProject, CancelAllTeamRuns, store
<1>6. QED
  BY <1>2, <1>5 DEF CInv

LEMMA SpecCInv == Spec => []CInv
<1>1. Init => CInv
  BY RunsAssumption DEF Init, CInv, Cards, Status, Gate, Decision
<1>2. CInv /\ [Next]_vars => CInv'
  <2>1. ASSUME CInv, UNCHANGED vars PROVE CInv'
    BY <2>1 DEF CInv, vars, store, budgets
  <2>2. QED
    BY <2>1, ThreadCards, UserCards DEF Next
<1>3. QED
  BY <1>1, <1>2, PTL DEF Spec

(* DeliverablesStayTheHumans: a card that is to be confirmed counts as     *)
(* done only by a call of the user, however runs, failed saves and         *)
(* re-planning interleave (finishTeamTask, replanFailedTeamTask).          *)
THEOREM DeliverablesStayTheHumans == Spec => DeliverablesAwaitTheHuman
<1> DEFINE Confirms == \A c \in Card :
              card[c].gate = "after" /\ card[c].status /= "succeeded" /\ card'[c].status = "succeeded"
                  => calls' /= calls
<1>1. CInv /\ [Next]_vars => [Confirms]_vars
  <2>1. ASSUME CInv, Next PROVE Confirms
    <3>1. CASE \E p \in Proc : ThreadStep(p)
      BY <2>1, <3>1, ThreadCards DEF Unconfirmed
    <3>2. CASE User
      BY <2>1, <3>2, UserCards
    <3>3. QED
      BY <2>1, <3>1, <3>2 DEF Next
  <2>2. QED
    BY <2>1
<1>2. QED
  BY <1>1, SpecCInv, PTL DEF Spec, DeliverablesAwaitTheHuman
-----------------------------------------------------------------------------
(* Counting.  How often a card stands in a sequence, and the total of a    *)
(* count over the threads.                                                 *)
Occ(s, c) == Cardinality({i \in DOMAIN s : s[i] = c})
Pairs(f)  == {x \in Proc \X Nat : x[2] < f[x[1]]}
Total(f)  == Cardinality(Pairs(f))

LEMMA OccNat ==
    ASSUME NEW s \in Seq(Card), NEW c
    PROVE  /\ IsFiniteSet({i \in DOMAIN s : s[i] = c}) /\ Occ(s, c) \in Nat
           /\ s = <<>> => Occ(s, c) = 0
           /\ c \notin Elems(s) => Occ(s, c) = 0
<1> DEFINE I == {i \in DOMAIN s : s[i] = c}
<1>1. Len(s) \in Nat /\ DOMAIN s = 1 .. Len(s)
  BY CardSequence
<1>2. IsFiniteSet(1 .. Len(s)) /\ I \in SUBSET (1 .. Len(s))
  BY <1>1, FS_Interval
<1>3. IsFiniteSet(I) /\ Cardinality(I) \in Nat
  BY <1>2, FS_Subset, FS_CardinalityType
<1>4. c \notin Elems(s) => I = {}
  BY DEF Elems
<1>5. s = <<>> => c \notin Elems(s)
  BY EmptyOnce
<1>6. QED
  BY <1>3, <1>4, <1>5, FS_EmptySet DEF Occ

LEMMA OccJoin ==
    ASSUME NEW a \in Seq(Card), NEW b \in Seq(Card), NEW c
    PROVE  a \o b \in Seq(Card) /\ Occ(a \o b, c) = Occ(a, c) + Occ(b, c)
<1> DEFINE s == a \o b
           A == {i \in DOMAIN a : a[i] = c}
           B == {i \in DOMAIN b : b[i] = c}
           C == {i \in DOMAIN s : s[i] = c}
           D == C \ A
<1>1. /\ s \in Seq(Card) /\ Len(s) = Len(a) + Len(b)
      /\ \A i \in 1 .. Len(a) + Len(b) : s[i] = IF i <= Len(a) THEN a[i] ELSE b[i - Len(a)]
  BY ConcatProperties
<1>2. /\ Len(a) \in Nat /\ DOMAIN a = 1 .. Len(a)
      /\ Len(b) \in Nat /\ DOMAIN b = 1 .. Len(b)
      /\ DOMAIN s = 1 .. Len(a) + Len(b)
  BY <1>1, CardSequence
<1> HIDE DEF s
<1>3. /\ \A i \in DOMAIN a : i \in DOMAIN s /\ s[i] = a[i]
      /\ \A i \in DOMAIN b : i + Len(a) \in DOMAIN s /\ s[i + Len(a)] = b[i] /\ i + Len(a) \notin DOMAIN a
      /\ \A i \in DOMAIN s : i \in DOMAIN a \/ (i - Len(a) \in DOMAIN b /\ s[i] = b[i - Len(a)])
  BY <1>1, <1>2
<1>4. /\ IsFiniteSet(A) /\ Cardinality(A) \in Nat
      /\ IsFiniteSet(B) /\ Cardinality(B) \in Nat
      /\ IsFiniteSet(C) /\ Cardinality(C) \in Nat
  BY <1>1, OccNat DEF Occ
<1>5. C = A \cup D /\ A \cap D = {} /\ IsFiniteSet(D)
  <2>1. A \subseteq C
    BY <1>3
  <2>2. D \in SUBSET C
    OBVIOUS
  <2> HIDE DEF A, C
  <2>3. QED
    BY <1>4, <2>1, <2>2, FS_Subset
<1>6. Cardinality(D) = Cardinality(B)
  <2> DEFINE F == [i \in B |-> i + Len(a)]
  <2>1. F \in [B -> D]
    BY <1>3
  <2>2. \A i, j \in B : F[i] = F[j] => i = j
    BY <1>2
  <2>3. ASSUME NEW d \in D PROVE \E i \in B : F[i] = d
    <3>1. d \in DOMAIN s /\ d \notin DOMAIN a /\ s[d] = c
      BY <1>3
    <3>2. d - Len(a) \in B /\ (d - Len(a)) + Len(a) = d
      BY <1>2, <1>3, <3>1
    <3>3. QED
      BY <3>2
  <2> HIDE DEF F, B, D
  <2>4. F \in Injection(B, D)
    BY <2>1, <2>2, Fun_IsInj
  <2>5. F \in Bijection(B, D)
    BY <2>1, <2>3, <2>4, Fun_IsBij
  <2>6. QED
    BY <1>4, <2>5, FS_Bijection DEF ExistsBijection
<1> HIDE DEF A, B, C, D
<1>7. Cardinality(C) = Cardinality(A) + Cardinality(D) - Cardinality({})
  BY <1>4, <1>5, FS_Union
<1>8. Cardinality(C) = Cardinality(A) + Cardinality(B)
  BY <1>4, <1>6, <1>7, FS_EmptySet
<1>9. QED
  BY <1>1, <1>8 DEF Occ, A, B, C, s

LEMMA OccOne ==
    ASSUME NEW h \in Card, NEW c
    PROVE  <<h>> \in Seq(Card) /\ Occ(<<h>>, c) = IF h = c THEN 1 ELSE 0
<1> DEFINE s == <<h>>
           I == {i \in DOMAIN s : s[i] = c}
<1>1. I = IF h = c THEN {1} ELSE {}
  OBVIOUS
<1> HIDE DEF I
<1>2. Cardinality(I) = IF h = c THEN 1 ELSE 0
  BY <1>1, FS_EmptySet, FS_Singleton
<1>3. QED
  BY <1>2 DEF Occ, I

LEMMA OccAppend ==
    ASSUME NEW s \in Seq(Card), NEW h \in Card, NEW c
    PROVE  /\ Append(s, h) \in Seq(Card)
           /\ Occ(Append(s, h), c) = Occ(s, c) + IF h = c THEN 1 ELSE 0
<1>1. Append(s, h) = s \o <<h>>
  BY AppendIsConcat
<1> DEFINE o == <<h>>
           t == Append(s, h)
<1>2. o \in Seq(Card) /\ Occ(o, c) = IF h = c THEN 1 ELSE 0
  BY OccOne
<1>3. t = s \o o
  BY <1>1
<1> HIDE DEF o, t
<1>4. t \in Seq(Card) /\ Occ(t, c) = Occ(s, c) + Occ(o, c)
  BY <1>2, <1>3, OccJoin
<1>5. QED
  BY <1>2, <1>4 DEF t

LEMMA OccSplit ==
    ASSUME NEW s \in Seq(Card), NEW k \in 0 .. Len(s), NEW c
    PROVE  Occ(s, c) = Occ(SubSeq(s, 1, k), c) + Occ(SubSeq(s, k + 1, Len(s)), c)
<1>1. Len(s) \in Nat
  BY CardSequence
<1>2. 1 \in 1 .. Len(s) + 1 /\ k \in 1 - 1 .. Len(s) /\ Len(s) \in k .. Len(s)
  BY <1>1
<1>3. SubSeq(s, 1, k) \o SubSeq(s, k + 1, Len(s)) = SubSeq(s, 1, Len(s))
  BY <1>2, ConcatAdjacentSubSeq
<1>4. SubSeq(s, 1, Len(s)) = s
  BY SubSeqFull
<1>5. SubSeq(s, 1, k) \in Seq(Card) /\ SubSeq(s, k + 1, Len(s)) \in Seq(Card)
  BY SplitOnce
<1> DEFINE a == SubSeq(s, 1, k)
           b == SubSeq(s, k + 1, Len(s))
<1>6. a \in Seq(Card) /\ b \in Seq(Card) /\ s = a \o b
  BY <1>3, <1>4, <1>5
<1> HIDE DEF a, b
<1>7. Occ(s, c) = Occ(a, c) + Occ(b, c)
  BY <1>6, OccJoin
<1>8. QED
  BY <1>7 DEF a, b

LEMMA OccHead ==
    ASSUME NEW s \in Seq(Card), s /= <<>>, NEW c
    PROVE  /\ Head(s) \in Card /\ Tail(s) \in Seq(Card)
           /\ Occ(s, c) = (IF Head(s) = c THEN 1 ELSE 0) + Occ(Tail(s), c)
<1>1. Len(s) \in Nat /\ Len(s) >= 1 /\ Head(s) \in Card /\ Tail(s) \in Seq(Card)
  BY CardSequence, HeadTailProperties
<1>2. SubSeq(s, 2, Len(s)) = Tail(s)
  BY TailIsSubSeq
<1>3. 1 \in 1 .. Len(s) /\ Len(s) \in 1 .. Len(s) /\ s[1] = Head(s) /\ 1 + 1 = 2
  BY <1>1
<1>4. SubSeq(s, 1, Len(s)) = <<s[1]>> \o SubSeq(s, 1 + 1, Len(s))
  BY <1>3, SubSeqRecursiveFirst
<1>5. s = <<Head(s)>> \o Tail(s)
  BY <1>2, <1>3, <1>4, SubSeqFull
<1> DEFINE h == Head(s)
           o == <<h>>
           t == Tail(s)
<1>6. h \in Card /\ t \in Seq(Card) /\ s = o \o t
  BY <1>1, <1>5
<1> HIDE DEF h, t
<1>7. o \in Seq(Card) /\ Occ(o, c) = IF h = c THEN 1 ELSE 0
  BY <1>6, OccOne
<1> HIDE DEF o
<1>8. Occ(s, c) = Occ(o, c) + Occ(t, c)
  BY <1>6, <1>7, OccJoin
<1>9. QED
  BY <1>1, <1>7, <1>8 DEF h, t

LEMMA PairsOf ==
    ASSUME NEW f \in [Proc -> Nat], NEW p \in Proc
    PROVE  LET one == {x \in Pairs(f) : x[1] = p}
           IN  IsFiniteSet(one) /\ Cardinality(one) = f[p]
<1> DEFINE one == {x \in Pairs(f) : x[1] = p}
           n == f[p]
           I == 0 .. n - 1
           F == [i \in I |-> <<p, i>>]
<1>1. n \in Nat /\ IsFiniteSet(I) /\ Cardinality(I) = n
  <2>1. n \in Nat /\ n - 1 \in Int /\ (0 > n - 1 <=> n = 0)
    OBVIOUS
  <2> HIDE DEF n
  <2>2. IsFiniteSet(I) /\ Cardinality(I) = IF 0 > n - 1 THEN 0 ELSE (n - 1) - 0 + 1
    BY <2>1, FS_Interval
  <2>3. QED
    BY <2>1, <2>2
<1>2. one = {<<p, i>> : i \in I}
  <2>1. ASSUME NEW x \in one PROVE x \in {<<p, i>> : i \in I}
    <3>1. x = <<p, x[2]>> /\ x[2] \in Nat /\ x[2] < f[p]
      BY DEF Pairs
    <3>2. QED
      BY <1>1, <3>1
  <2>2. ASSUME NEW i \in I PROVE <<p, i>> \in one
    BY <1>1 DEF Pairs
  <2>3. QED
    BY <2>1, <2>2
<1>3. /\ \A i \in I : F[i] = <<p, i>>
      /\ F \in [I -> one]
  BY <1>2
<1>4. \A i, j \in I : F[i] = F[j] => i = j
  BY <1>3
<1>5. \A x \in one : \E i \in I : F[i] = x
  BY <1>2, <1>3
<1> HIDE DEF F, one, I
<1>6. F \in Injection(I, one)
  BY <1>3, <1>4, Fun_IsInj
<1>7. F \in Bijection(I, one)
  BY <1>3, <1>5, <1>6, Fun_IsBij
<1>8. IsFiniteSet(one) /\ Cardinality(one) = n
  BY <1>1, <1>7, FS_Bijection DEF ExistsBijection
<1>9. QED
  BY <1>8 DEF one

(* One thread's count changes.                                             *)
LEMMA TotalChanges ==
    ASSUME NEW f \in [Proc -> Nat], NEW g \in [Proc -> Nat], NEW p \in Proc,
           \A q \in Proc : q /= p => g[q] = f[q], IsFiniteSet(Pairs(f))
    PROVE  /\ IsFiniteSet(Pairs(g)) /\ Total(f) \in Nat /\ Total(g) \in Nat
           /\ Total(g) + f[p] = Total(f) + g[p]
<1> DEFINE R == {x \in Pairs(f) : x[1] /= p}
           A == {x \in Pairs(f) : x[1] = p}
           B == {x \in Pairs(g) : x[1] = p}
<1>1. /\ Pairs(f) = R \cup A /\ R \cap A = {} /\ R \cap B = {}
      /\ R \subseteq Pairs(f)
  OBVIOUS
<1>2. Pairs(g) = R \cup B
  <2>1. \A x \in Proc \X Nat : x[1] /= p => (x \in Pairs(f) <=> x \in Pairs(g))
    BY DEF Pairs
  <2>2. Pairs(f) \subseteq Proc \X Nat /\ Pairs(g) \subseteq Proc \X Nat
    BY DEF Pairs
  <2>3. QED
    BY <2>1, <2>2
<1>3. /\ IsFiniteSet(A) /\ Cardinality(A) = f[p]
      /\ IsFiniteSet(B) /\ Cardinality(B) = g[p]
  BY PairsOf
<1> HIDE DEF R, A, B
<1>4. IsFiniteSet(R) /\ Cardinality(R) \in Nat
  BY <1>1, FS_Subset, FS_CardinalityType
<1>5. Cardinality(R \cup A) = Cardinality(R) + f[p] - Cardinality({})
  BY <1>1, <1>3, <1>4, FS_Union
<1>6. IsFiniteSet(R \cup B) /\ Cardinality(R \cup B) = Cardinality(R) + g[p] - Cardinality({})
  BY <1>1, <1>3, <1>4, FS_Union
<1>7. f[p] \in Nat /\ g[p] \in Nat
  OBVIOUS
<1>8. Total(f) = Cardinality(R) + f[p] /\ Total(g) = Cardinality(R) + g[p]
  BY <1>1, <1>2, <1>4, <1>5, <1>6, <1>7, FS_EmptySet DEF Total
<1>9. QED
  BY <1>2, <1>4, <1>6, <1>7, <1>8

(* No thread's count grows.                                                *)
LEMMA TotalShrinks ==
    ASSUME NEW f \in [Proc -> Nat], NEW g \in [Proc -> Nat],
           \A q \in Proc : g[q] <= f[q], IsFiniteSet(Pairs(f))
    PROVE  /\ IsFiniteSet(Pairs(g)) /\ Total(f) \in Nat /\ Total(g) \in Nat
           /\ Total(g) <= Total(f)
<1>1. Pairs(g) \in SUBSET Pairs(f)
  <2>1. \A x \in Proc \X Nat : x \in Pairs(g) => x \in Pairs(f)
    BY DEF Pairs
  <2>2. QED
    BY <2>1 DEF Pairs
<1>2. QED
  BY <1>1, FS_Subset, FS_CardinalityType DEF Total

LEMMA TotalNone ==
    ASSUME NEW f \in [Proc -> Nat], \A q \in Proc : f[q] = 0
    PROVE  IsFiniteSet(Pairs(f)) /\ Total(f) = 0
<1>1. Pairs(f) = {}
  BY DEF Pairs
<1>2. QED
  BY <1>1, FS_EmptySet DEF Total

(* What the pool's operations do to the queue: they take what they start   *)
(* from it, and add nothing but a card that is admitted to wait.           *)
LEMMA NewQueue ==
    ASSUME NEW max \in Nat
    PROVE  NewPool(max).queue = <<>>
BY DEF NewPool

LEMMA AdmittedQueue ==
    ASSUME NEW p, PoolOK(p), NEW key \in Card, NEW c
    PROVE  /\ Admit(p, key) = "queued" =>
                Occ(Admitted(p, key).queue, c) = Occ(p.queue, c) + IF key = c THEN 1 ELSE 0
           /\ Admit(p, key) /= "queued" => Admitted(p, key).queue = p.queue
<1>1. p \in Pool /\ p.queue \in Seq(Card)
  BY PoolShape DEF PoolOK
<1>2. CASE Admit(p, key) = "queued"
  <2>1. Admitted(p, key).queue = Append(p.queue, key)
    BY <1>1, <1>2 DEF Admitted, Pool
  <2>2. QED
    BY <1>1, <1>2, <2>1, OccAppend
<1>3. CASE Admit(p, key) /= "queued"
  BY <1>1, <1>3 DEF Admitted, Admit, Pool
<1>4. QED
  BY <1>2, <1>3

LEMMA ReleasedQueue ==
    ASSUME NEW p, PoolOK(p), NEW key \in Card, NEW c
    PROVE  /\ ReleaseStarts(p, key) \in Seq(Card)
           /\ Occ(Released(p, key).queue, c) + Occ(ReleaseStarts(p, key), c) = Occ(p.queue, c)
<1> DEFINE r == Removed(p, key)
           s == p.queue
<1>1. p \in Pool /\ s \in Seq(Card)
  BY PoolShape DEF PoolOK
<1>2. r \in Pool /\ r.queue = s
  BY <1>1 DEF Removed, Pool
<1> HIDE DEF r
<1>3. CASE ~Promotes(r)
  <2>1. Released(p, key) = r /\ ReleaseStarts(p, key) = <<>>
    BY <1>3 DEF Released, Promoted, ReleaseStarts, r
  <2>2. <<>> \in Seq(Card) /\ Occ(<<>>, c) = 0 /\ Occ(s, c) \in Nat
    BY <1>1, EmptySeq, OccNat
  <2>3. QED
    BY <1>2, <2>1, <2>2
<1>4. CASE Promotes(r)
  <2> DEFINE h == Head(s)
             o == <<h>>
             t == Tail(s)
  <2>1. Released(p, key).queue = t /\ ReleaseStarts(p, key) = o
    BY <1>2, <1>4 DEF Released, Promoted, ReleaseStarts, r, Pool
  <2>2. /\ h \in Card /\ t \in Seq(Card)
        /\ Occ(s, c) = (IF h = c THEN 1 ELSE 0) + Occ(t, c)
    BY <1>1, <1>2, <1>4, OccHead DEF Promotes
  <2> HIDE DEF h, t
  <2>3. o \in Seq(Card) /\ Occ(o, c) = (IF h = c THEN 1 ELSE 0) /\ Occ(t, c) \in Nat
    BY <2>2, OccOne, OccNat
  <2> HIDE DEF o
  <2>4. QED
    BY <2>1, <2>2, <2>3
<1>5. QED
  BY <1>3, <1>4

LEMMA ReboundedQueue ==
    ASSUME NEW p, PoolOK(p), NEW max \in Nat, NEW c
    PROVE  Occ(Rebounded(p, max).queue, c) + Occ(SetMaxStarts(p, max), c) = Occ(p.queue, c)
<1> DEFINE n == NewSlots(p, max)
           s == p.queue
           a == SubSeq(s, 1, n)
           b == SubSeq(s, n + 1, Len(s))
<1>1. p \in Pool /\ s \in Seq(Card) /\ Len(s) \in Nat /\ Cardinality(p.running) \in Nat
  BY PoolShape, CardSequence DEF PoolOK
<1>2. NormalizeMaxParallel(max) \in Nat
  BY NormalizedBound
<1>3. n \in 0 .. Len(s)
  BY <1>1, <1>2 DEF NewSlots
<1>4. Rebounded(p, max).queue = b /\ SetMaxStarts(p, max) = a
  BY DEF Rebounded, SetMaxStarts
<1> HIDE DEF n
<1>5. Occ(s, c) = Occ(a, c) + Occ(b, c) /\ a \in Seq(Card) /\ b \in Seq(Card)
  BY <1>1, <1>3, OccSplit, SplitOnce
<1> HIDE DEF a, b
<1>6. Occ(a, c) \in Nat /\ Occ(b, c) \in Nat
  BY <1>5, OccNat
<1>7. QED
  BY <1>4, <1>5, <1>6

LEMMA DequeuedQueue ==
    ASSUME NEW p, PoolOK(p), NEW key \in Card, NEW c
    PROVE  Occ(Dequeued(p, key).queue, c) <= Occ(p.queue, c)
<1> DEFINE s == p.queue
           i == Place(p, key)
           a == SubSeq(s, 1, i - 1)
           b == SubSeq(s, i + 1, Len(s))
           d == SubSeq(s, 1, i)
<1>1. p \in Pool /\ s \in Seq(Card) /\ Len(s) \in Nat /\ Occ(s, c) \in Nat
  BY PoolShape, CardSequence, OccNat DEF PoolOK
<1>2. CASE key \notin Elems(s)
  BY <1>1, <1>2 DEF Dequeued
<1>3. CASE key \in Elems(s)
  <2>1. i \in 1 .. Len(s) /\ Dequeued(p, key).queue = a \o b
    BY <1>1, <1>3, PlaceOK DEF Dequeued, Pool
  <2> HIDE DEF i
  <2>2. /\ i \in 0 .. Len(s) /\ i - 1 \in 0 .. Len(s)
        /\ 1 \in 1 .. Len(s) /\ i \in 1 .. Len(s)
    BY <1>1, <2>1
  <2>3. a \in Seq(Card) /\ b \in Seq(Card) /\ Occ(s, c) = Occ(d, c) + Occ(b, c)
    BY <1>1, <2>2, OccSplit, SplitOnce
  <2>4. d = a \o <<s[i]>> /\ s[i] \in Card
    BY <1>1, <2>2, SubSeqRecursiveSecond, ElementOfSeq
  <2> DEFINE o == <<s[i]>>
  <2>5. o \in Seq(Card) /\ d = a \o o
    BY <2>4, OccOne
  <2> HIDE DEF a, b, o, d
  <2>6. /\ Occ(d, c) = Occ(a, c) + Occ(o, c) /\ Occ(a \o b, c) = Occ(a, c) + Occ(b, c)
        /\ Occ(a, c) \in Nat /\ Occ(b, c) \in Nat /\ Occ(o, c) \in Nat
    BY <2>3, <2>5, OccJoin, OccNat, ZenonT(40)
  <2>7. QED
    BY <2>1, <2>3, <2>6
<1>4. QED
  BY <1>2, <1>3

-----------------------------------------------------------------------------
(* Threads and cards whether the team is open or closed.  A chain of runs  *)
(* begins with a call of the user; `Ahead` are the starts of a card that a *)
(* thread still has to make, `Behind` says that a run of the card is on    *)
(* its way to the re-plan in it.                                           *)
Starting == {"resolve", "admit", "ask", "promoted", "register", "flip"}
Closers  == {"drop", "empty", "dropped", "quit"}
Paired   == {"flip", "unlaunch"}

Fit(t) ==
    /\ t \in Thread
    /\ t.pc \in Keyed => t.key \in Card
    /\ t.todo /= <<>> => t.pc \in Carrying

Ahead(t, c)  == (IF t.pc \in Starting /\ t.key = c THEN 1 ELSE 0) + Occ(t.todo, c)
Behind(t, c) == IF (t.own = c /\ t.pc /= "reserved") \/ (t.pc = "replan" /\ t.key = c) THEN 1 ELSE 0
Queued(c)    == IF pool = None THEN 0 ELSE Occ(pool.queue, c)

aheads(c)  == [p \in Proc |-> Ahead(proc[p], c)]
boths(c)   == [p \in Proc |-> Ahead(proc[p], c) + Behind(proc[p], c)]
Pending(c) == Total(aheads(c)) + Queued(c)
Chains(c)  == Total(boths(c)) + Queued(c)

Fits    == proc \in [Proc -> Thread] /\ \A p \in Proc : Fit(proc[p])
Pairing ==
    /\ \A p \in Proc : proc[p].pc \in Paired =>
          /\ proc[p].sub \in Proc
          /\ proc[proc[p].sub].pc = "reserved"
          /\ proc[proc[p].sub].key = proc[p].key
          /\ proc[proc[p].sub].own = proc[p].key
    /\ \A p, q \in Proc : p /= q /\ proc[p].pc \in Paired /\ proc[q].pc \in Paired
                              => proc[p].sub /= proc[q].sub
Tallied == \A c \in Card : IsFiniteSet(Pairs(aheads(c))) /\ IsFiniteSet(Pairs(boths(c)))
AInv    == Fits /\ Pairing /\ Pooled /\ Tallied

(* No step but a few begins or ends a deletion or the way out.             *)
SameClosers == \A q \in Proc : proc[q].pc \in Closers \/ proc'[q].pc \in Closers =>
                   proc'[q].pc = proc[q].pc /\ proc'[q].doomed = proc[q].doomed

Fewer(c) == Pending(c)' <= Pending(c) /\ Chains(c)' <= Chains(c)

LEMMA Counts ==
    ASSUME NEW t, Fit(t), NEW c \in Card
    PROVE  /\ Occ(t.todo, c) \in Nat /\ Ahead(t, c) \in Nat /\ Behind(t, c) \in {0, 1}
           /\ t.pc \notin Carrying => t.todo = <<>> /\ Occ(t.todo, c) = 0
           /\ t.pc \notin Carrying \cup Starting => Ahead(t, c) = 0
<1>1. t.todo \in Seq(Card)
  BY DEF Fit, Thread
<1>2. Occ(t.todo, c) \in Nat /\ (t.todo = <<>> => Occ(t.todo, c) = 0)
  BY <1>1, OccNat
<1>3. QED
  BY <1>2 DEF Ahead, Behind, Fit

LEMMA IdleFit ==
    /\ Fit(Idle) /\ \A c \in Card : Ahead(Idle, c) = 0 /\ Behind(Idle, c) = 0
    /\ Idle.pc = "idle" /\ Idle.todo = <<>> /\ Idle.own = None /\ Idle.sub = None /\ Idle \in Thread
<1>1. /\ Idle \in Thread /\ Idle.pc = "idle" /\ Idle.todo = <<>> /\ Idle.own = None /\ Idle.sub = None
  BY IdleSound DEF Sound
<1>2. Fit(Idle)
  BY <1>1 DEF Fit, Keyed, Holding
<1>3. \A c \in Card : Ahead(Idle, c) = 0
  BY <1>1, <1>2, Counts DEF Carrying, Starting
<1>4. \A c \in Card : c /= None
  BY RunsAssumption
<1>5. QED
  BY <1>1, <1>2, <1>3, <1>4 DEF Behind

LEMMA RestFit ==
    ASSUME NEW t \in Thread
    PROVE  /\ Fit(Rest(t)) /\ Rest(t).pc \in {"promoted", "replan", "idle"}
           /\ \A c \in Card : /\ Ahead(Rest(t), c) = Occ(t.todo, c)
                              /\ Behind(Rest(t), c) = IF t.own = c THEN 1 ELSE 0
<1>0. \A c \in Card : c /= None
  BY RunsAssumption
<1>1. t.todo \in Seq(Card) /\ t.own \in Card \cup {None}
  BY DEF Thread
<1>2. CASE t.todo /= <<>>
  <2> DEFINE u == [Idle EXCEPT !.pc = "promoted", !.key = Head(t.todo), !.todo = Tail(t.todo),
                              !.own = t.own]
  <2>1. Rest(t) = u
    BY <1>2 DEF Rest
  <2>2. /\ Head(t.todo) \in Card /\ Tail(t.todo) \in Seq(Card)
        /\ \A c \in Card : /\ Occ(t.todo, c) = (IF Head(t.todo) = c THEN 1 ELSE 0) + Occ(Tail(t.todo), c)
                           /\ Occ(Tail(t.todo), c) \in Nat
    BY <1>1, <1>2, OccHead, OccNat
  <2>3. /\ u \in Thread /\ u.pc = "promoted" /\ u.key = Head(t.todo) /\ u.todo = Tail(t.todo)
        /\ u.own = t.own
    BY <1>1, <2>2, IdleFit DEF Thread, PC
  <2> HIDE DEF u
  <2>4. Fit(u)
    BY <2>2, <2>3 DEF Fit, Carrying
  <2>5. \A c \in Card : Ahead(u, c) = Occ(t.todo, c) /\ Behind(u, c) = IF t.own = c THEN 1 ELSE 0
    BY <2>2, <2>3 DEF Ahead, Behind, Starting
  <2>6. QED
    BY <2>1, <2>3, <2>4, <2>5
<1>3. CASE t.todo = <<>> /\ t.own /= None
  <2> DEFINE u == [Idle EXCEPT !.pc = "replan", !.key = t.own]
  <2>1. Rest(t) = u
    BY <1>3 DEF Rest
  <2>2. u \in Thread /\ u.pc = "replan" /\ u.key = t.own /\ u.own = None /\ u.todo = <<>>
    BY <1>1, <1>3, IdleFit DEF Thread, PC
  <2> HIDE DEF u
  <2>3. Fit(u)
    BY <1>1, <1>3, <2>2 DEF Fit
  <2>4. \A c \in Card : Occ(t.todo, c) = 0
    BY <1>1, <1>3, OccNat
  <2>5. \A c \in Card : Ahead(u, c) = 0
    BY <2>2, <2>3, Counts DEF Carrying, Starting
  <2>6. \A c \in Card : Behind(u, c) = IF t.own = c THEN 1 ELSE 0
    BY <1>0, <2>2 DEF Behind
  <2>7. QED
    BY <2>1, <2>2, <2>3, <2>4, <2>5, <2>6
<1>4. CASE t.todo = <<>> /\ t.own = None
  <2>1. Rest(t) = Idle
    BY <1>4 DEF Rest
  <2>2. \A c \in Card : Occ(t.todo, c) = 0
    BY <1>1, <1>4, OccNat
  <2>3. QED
    BY <1>0, <1>4, <2>1, <2>2, IdleFit
<1>5. QED
  BY <1>2, <1>3, <1>4

Alike(u, t) ==
    /\ u \in Thread
    /\ u.pc = t.pc /\ u.key = t.key /\ u.todo = t.todo
    /\ u.own = t.own /\ u.sub = t.sub /\ u.doomed = t.doomed

LEMMA AlikeCounts ==
    ASSUME NEW u, NEW t, Fit(t), Alike(u, t)
    PROVE  Fit(u) /\ \A c \in Card : Ahead(u, c) = Ahead(t, c) /\ Behind(u, c) = Behind(t, c)
BY DEF Alike, Fit, Ahead, Behind

LEMMA AlikeSelf ==
    ASSUME Fits, NEW q \in Proc
    PROVE  Alike(proc[q], proc[q]) /\ Fit(proc[q])
BY DEF Fits, Alike

(* One thread p moves on; the others go on as they are, but may be told to *)
(* stop.                                                                   *)
OnlyMoves(p) ==
    /\ proc' \in [Proc -> Thread]
    /\ Fit(proc'[p])
    /\ \A q \in Proc : q /= p => Alike(proc'[q], proc[q])

LEMMA OneFits ==
    ASSUME Fits, Pairing, NEW p \in Proc, OnlyMoves(p), proc[p].pc /= "reserved",
           proc'[p].pc \in Paired =>
               proc[p].pc \in Paired /\ proc'[p].sub = proc[p].sub /\ proc'[p].key = proc[p].key
    PROVE  Fits' /\ Pairing'
<1>1. \A q \in Proc : Fit(proc'[q])
  BY AlikeCounts DEF OnlyMoves, Fits
<1>2. Fits'
  BY <1>1 DEF OnlyMoves, Fits
<1>3. \A q \in Proc : proc'[q].pc \in Paired =>
          proc[q].pc \in Paired /\ proc'[q].sub = proc[q].sub /\ proc'[q].key = proc[q].key
  BY DEF OnlyMoves, Alike
<1>4. \A q \in Proc : proc[q].pc = "reserved" =>
          proc'[q].pc = "reserved" /\ proc'[q].key = proc[q].key /\ proc'[q].own = proc[q].own
  BY DEF OnlyMoves, Alike
<1>5. Pairing'
  <2>1. ASSUME NEW q \in Proc, proc'[q].pc \in Paired
        PROVE  /\ proc'[q].sub \in Proc
               /\ proc'[proc'[q].sub].pc = "reserved"
               /\ proc'[proc'[q].sub].key = proc'[q].key
               /\ proc'[proc'[q].sub].own = proc'[q].key
    BY <1>3, <1>4, <2>1 DEF Pairing
  <2>2. ASSUME NEW q \in Proc, NEW o \in Proc, q /= o, proc'[q].pc \in Paired, proc'[o].pc \in Paired
        PROVE  proc'[q].sub /= proc'[o].sub
    BY <1>3, <2>2 DEF Pairing
  <2>3. QED
    BY <2>1, <2>2 DEF Pairing
<1>6. QED
  BY <1>2, <1>5

LEMMA CountFunctions ==
    ASSUME Fits, NEW c \in Card
    PROVE  /\ aheads(c) \in [Proc -> Nat] /\ boths(c) \in [Proc -> Nat]
           /\ \A q \in Proc : /\ aheads(c)[q] = Ahead(proc[q], c)
                              /\ boths(c)[q] = Ahead(proc[q], c) + Behind(proc[q], c)
<1>1. \A q \in Proc : Ahead(proc[q], c) \in Nat /\ Behind(proc[q], c) \in {0, 1}
  BY Counts DEF Fits
<1>2. QED
  BY <1>1 DEF aheads, boths

LEMMA OneCounts ==
    ASSUME Fits, Fits', Tallied, Pooled, Pooled', NEW p \in Proc, OnlyMoves(p)
    PROVE  /\ Tallied'
           /\ \A c \in Card :
                 /\ Pending(c) \in Nat /\ Pending(c)' \in Nat /\ Chains(c) \in Nat /\ Chains(c)' \in Nat
                 /\ Pending(c)' + Ahead(proc[p], c) + Queued(c) = Pending(c) + Ahead(proc'[p], c) + Queued(c)'
                 /\ Chains(c)' + Ahead(proc[p], c) + Behind(proc[p], c) + Queued(c)
                      = Chains(c) + Ahead(proc'[p], c) + Behind(proc'[p], c) + Queued(c)'
<1>1. ASSUME NEW c \in Card
      PROVE  /\ IsFiniteSet(Pairs(aheads(c)))' /\ IsFiniteSet(Pairs(boths(c)))'
             /\ Pending(c) \in Nat /\ Pending(c)' \in Nat /\ Chains(c) \in Nat /\ Chains(c)' \in Nat
             /\ Pending(c)' + Ahead(proc[p], c) + Queued(c) = Pending(c) + Ahead(proc'[p], c) + Queued(c)'
             /\ Chains(c)' + Ahead(proc[p], c) + Behind(proc[p], c) + Queued(c)
                  = Chains(c) + Ahead(proc'[p], c) + Behind(proc'[p], c) + Queued(c)'
  <2> DEFINE f == aheads(c)
             b == boths(c)
             g == [q \in Proc |-> Ahead(proc'[q], c)]
             d == [q \in Proc |-> Ahead(proc'[q], c) + Behind(proc'[q], c)]
  <2>1. /\ f \in [Proc -> Nat] /\ b \in [Proc -> Nat]
        /\ \A q \in Proc : f[q] = Ahead(proc[q], c) /\ b[q] = Ahead(proc[q], c) + Behind(proc[q], c)
    BY CountFunctions
  <2>2. \A q \in Proc : Ahead(proc'[q], c) \in Nat /\ Behind(proc'[q], c) \in {0, 1}
    BY Counts DEF Fits
  <2>3. /\ g \in [Proc -> Nat] /\ d \in [Proc -> Nat]
        /\ \A q \in Proc : g[q] = Ahead(proc'[q], c) /\ d[q] = Ahead(proc'[q], c) + Behind(proc'[q], c)
    BY <2>2
  <2>4. f' = g /\ b' = d
    BY DEF aheads, boths, Ahead, Behind
  <2>5. \A q \in Proc : q /= p => Ahead(proc'[q], c) = Ahead(proc[q], c) /\ Behind(proc'[q], c) = Behind(proc[q], c)
    BY AlikeCounts DEF OnlyMoves, Fits
  <2>6. IsFiniteSet(Pairs(f)) /\ IsFiniteSet(Pairs(b))
    BY DEF Tallied
  <2>7. \A q \in Proc : q /= p => g[q] = f[q] /\ d[q] = b[q]
    BY <2>1, <2>3, <2>5
  <2>8. f[p] = Ahead(proc[p], c) /\ g[p] = Ahead(proc'[p], c)
    BY <2>1, <2>3
  <2>9. b[p] = Ahead(proc[p], c) + Behind(proc[p], c) /\ d[p] = Ahead(proc'[p], c) + Behind(proc'[p], c)
    BY <2>1, <2>3
  <2>10. /\ Ahead(proc[p], c) \in Nat /\ Behind(proc[p], c) \in {0, 1}
         /\ Ahead(proc'[p], c) \in Nat /\ Behind(proc'[p], c) \in {0, 1}
    BY <2>2, Counts DEF Fits
  <2>11. Queued(c) \in Nat /\ Queued(c)' \in Nat
    BY PoolShape, OccNat DEF Pooled, Queued
  <2>12. /\ Pending(c) = Total(f) + Queued(c) /\ Chains(c) = Total(b) + Queued(c)
         /\ Pending(c)' = Total(g) + Queued(c)' /\ Chains(c)' = Total(d) + Queued(c)'
    BY <2>4 DEF Pending, Chains, Total, Pairs
  <2>13. IsFiniteSet(Pairs(g)) => IsFiniteSet(Pairs(aheads(c)))'
    BY <2>4 DEF Pairs
  <2>14. IsFiniteSet(Pairs(d)) => IsFiniteSet(Pairs(boths(c)))'
    BY <2>4 DEF Pairs
  <2> HIDE DEF f, g, b, d
  <2>15. /\ IsFiniteSet(Pairs(g)) /\ Total(f) \in Nat /\ Total(g) \in Nat
         /\ Total(g) + f[p] = Total(f) + g[p]
    BY <2>1, <2>3, <2>6, <2>7, TotalChanges
  <2>16. /\ IsFiniteSet(Pairs(d)) /\ Total(b) \in Nat /\ Total(d) \in Nat
         /\ Total(d) + b[p] = Total(b) + d[p]
    BY <2>1, <2>3, <2>6, <2>7, TotalChanges
  <2>17. Pending(c)' + Ahead(proc[p], c) + Queued(c) = Pending(c) + Ahead(proc'[p], c) + Queued(c)'
    BY <2>8, <2>10, <2>11, <2>12, <2>15
  <2>18. Chains(c)' + Ahead(proc[p], c) + Behind(proc[p], c) + Queued(c)
           = Chains(c) + Ahead(proc'[p], c) + Behind(proc'[p], c) + Queued(c)'
    BY <2>9, <2>10, <2>11, <2>12, <2>16
  <2>19. QED
    BY <2>11, <2>12, <2>13, <2>14, <2>15, <2>16, <2>17, <2>18
<1>2. QED
  BY <1>1 DEF Tallied

LEMMA NoneGrows ==
    ASSUME Fits, Fits', Tallied, Pooled, Pooled',
           \A q \in Proc : \A c \in Card : /\ Ahead(proc'[q], c) <= Ahead(proc[q], c)
                                           /\ Behind(proc'[q], c) <= Behind(proc[q], c),
           \A c \in Card : Queued(c)' <= Queued(c)
    PROVE  Tallied' /\ \A c \in Card : Fewer(c)
<1>1. ASSUME NEW c \in Card
      PROVE  /\ IsFiniteSet(Pairs(aheads(c)))' /\ IsFiniteSet(Pairs(boths(c)))'
             /\ Fewer(c)
  <2> DEFINE f == aheads(c)
             b == boths(c)
             g == [q \in Proc |-> Ahead(proc'[q], c)]
             d == [q \in Proc |-> Ahead(proc'[q], c) + Behind(proc'[q], c)]
  <2>1. /\ f \in [Proc -> Nat] /\ b \in [Proc -> Nat]
        /\ \A q \in Proc : f[q] = Ahead(proc[q], c) /\ b[q] = Ahead(proc[q], c) + Behind(proc[q], c)
    BY CountFunctions
  <2>2. \A q \in Proc : Ahead(proc'[q], c) \in Nat /\ Behind(proc'[q], c) \in {0, 1}
    BY Counts DEF Fits
  <2>3. /\ g \in [Proc -> Nat] /\ d \in [Proc -> Nat]
        /\ \A q \in Proc : g[q] = Ahead(proc'[q], c) /\ d[q] = Ahead(proc'[q], c) + Behind(proc'[q], c)
    BY <2>2
  <2>4. f' = g /\ b' = d
    BY DEF aheads, boths, Ahead, Behind
  <2>5. \A q \in Proc : g[q] <= f[q] /\ d[q] <= b[q]
    <3>1. \A q \in Proc : Ahead(proc[q], c) \in Nat /\ Behind(proc[q], c) \in {0, 1}
      BY Counts DEF Fits
    <3> HIDE DEF f, g, b, d
    <3>2. QED
      BY <2>1, <2>2, <2>3, <3>1
  <2>6. IsFiniteSet(Pairs(f)) /\ IsFiniteSet(Pairs(b))
    BY DEF Tallied
  <2>7. Queued(c) \in Nat /\ Queued(c)' \in Nat /\ Queued(c)' <= Queued(c)
    BY PoolShape, OccNat DEF Pooled, Queued
  <2>8. /\ Pending(c) = Total(f) + Queued(c) /\ Chains(c) = Total(b) + Queued(c)
        /\ Pending(c)' = Total(g) + Queued(c)' /\ Chains(c)' = Total(d) + Queued(c)'
    BY <2>4 DEF Pending, Chains, Total, Pairs
  <2>9. /\ IsFiniteSet(Pairs(g)) => IsFiniteSet(Pairs(aheads(c)))'
        /\ IsFiniteSet(Pairs(d)) => IsFiniteSet(Pairs(boths(c)))'
    BY <2>4 DEF Pairs
  <2> HIDE DEF f, g, b, d
  <2>10. /\ IsFiniteSet(Pairs(g)) /\ Total(f) \in Nat /\ Total(g) \in Nat /\ Total(g) <= Total(f)
         /\ IsFiniteSet(Pairs(d)) /\ Total(b) \in Nat /\ Total(d) \in Nat /\ Total(d) <= Total(b)
    BY <2>1, <2>3, <2>5, <2>6, TotalShrinks
  <2>11. QED
    BY <2>7, <2>8, <2>9, <2>10 DEF Fewer
<1>2. QED
  BY <1>1 DEF Tallied

(* The usual step of a thread: what it takes from the queue it has to      *)
(* start, and what it does not start any more is dropped.                  *)
Orderly == SameClosers /\ \A c \in Card : Fewer(c)

LEMMA OneMoves ==
    ASSUME AInv, Pooled', NEW p \in Proc, OnlyMoves(p), proc[p].pc /= "reserved",
           proc'[p].pc \in Paired =>
               proc[p].pc \in Paired /\ proc'[p].sub = proc[p].sub /\ proc'[p].key = proc[p].key,
           \A c \in Card : /\ Ahead(proc'[p], c) + Queued(c)' <= Ahead(proc[p], c) + Queued(c)
                           /\ Behind(proc'[p], c) <= Behind(proc[p], c)
    PROVE  AInv' /\ \A c \in Card : Fewer(c)
<1>1. Fits' /\ Pairing'
  BY OneFits DEF AInv
<1>2. /\ Tallied'
      /\ \A c \in Card :
            /\ Pending(c) \in Nat /\ Pending(c)' \in Nat /\ Chains(c) \in Nat /\ Chains(c)' \in Nat
            /\ Pending(c)' + Ahead(proc[p], c) + Queued(c) = Pending(c) + Ahead(proc'[p], c) + Queued(c)'
            /\ Chains(c)' + Ahead(proc[p], c) + Behind(proc[p], c) + Queued(c)
                 = Chains(c) + Ahead(proc'[p], c) + Behind(proc'[p], c) + Queued(c)'
  BY <1>1, OneCounts DEF AInv
<1>3. ASSUME NEW c \in Card PROVE Fewer(c)
  <2>1. /\ Ahead(proc[p], c) \in Nat /\ Behind(proc[p], c) \in {0, 1}
        /\ Ahead(proc'[p], c) \in Nat /\ Behind(proc'[p], c) \in {0, 1}
    BY <1>1, Counts DEF AInv, Fits
  <2>2. Queued(c) \in Nat /\ Queued(c)' \in Nat
    BY PoolShape, OccNat DEF AInv, Pooled, Queued
  <2>3. QED
    BY <1>2, <2>1, <2>2 DEF Fewer
<1>4. QED
  BY <1>1, <1>2, <1>3 DEF AInv

LEMMA OneSteps ==
    ASSUME AInv, Pooled', NEW p \in Proc, OnlyMoves(p),
           proc[p].pc \notin Closers \cup {"reserved"}, proc'[p].pc \notin Closers,
           proc'[p].pc \in Paired =>
               proc[p].pc \in Paired /\ proc'[p].sub = proc[p].sub /\ proc'[p].key = proc[p].key,
           \A c \in Card : /\ Ahead(proc'[p], c) + Queued(c)' <= Ahead(proc[p], c) + Queued(c)
                           /\ Behind(proc'[p], c) <= Behind(proc[p], c)
    PROVE  AInv' /\ Orderly
<1>1. AInv' /\ \A c \in Card : Fewer(c)
  BY OneMoves
<1>2. SameClosers
  BY DEF SameClosers, OnlyMoves, Alike
<1>3. QED
  BY <1>1, <1>2 DEF Orderly

LEMMA OnlyThread ==
    ASSUME Fits, NEW p \in Proc, NEW u, Fit(u), proc' = [proc EXCEPT ![p] = u]
    PROVE  OnlyMoves(p) /\ proc'[p] = u
<1>1. /\ proc' \in [Proc -> Thread] /\ proc'[p] = u
      /\ \A q \in Proc : q /= p => proc'[q] = proc[q]
  BY DEF Fits, Fit
<1>2. QED
  BY <1>1, AlikeSelf DEF OnlyMoves

LEMMA GoesSteps ==
    ASSUME AInv, Pooled', NEW p \in Proc, NEW x \in PC \ Closers, Goes(p, x),
           proc[p].pc \notin Closers \cup {"reserved"},
           x \in Keyed => proc[p].pc \in Keyed,
           proc[p].pc \in Carrying => x \in Carrying,
           x \in Starting => proc[p].pc \in Starting,
           x \notin {"reserved", "replan"},
           x \in Paired => proc[p].pc \in Paired,
           \A c \in Card : \/ Queued(c)' <= Queued(c)
                           \/ /\ x \notin Starting /\ proc[p].pc \in Starting
                              /\ Queued(c)' <= Queued(c) + IF Key(p) = c THEN 1 ELSE 0
    PROVE  AInv' /\ Orderly
<1> DEFINE t == proc[p]
           u == [t EXCEPT !.pc = x]
<1>1. Fit(t) /\ t \in Thread /\ Fits
  BY DEF AInv, Fits, Fit
<1>2. /\ u \in Thread /\ u.pc = x /\ u.key = t.key /\ u.sub = t.sub /\ u.todo = t.todo /\ u.own = t.own
  BY <1>1 DEF Thread
<1>3. proc' = [proc EXCEPT ![p] = u]
  BY <1>1 DEF Goes, Fits
<1> HIDE DEF u
<1>4. Fit(u)
  BY <1>1, <1>2 DEF Fit
<1>5. OnlyMoves(p) /\ proc'[p] = u
  BY <1>1, <1>3, <1>4, OnlyThread
<1>6. ASSUME NEW c \in Card
      PROVE  /\ Ahead(u, c) + Queued(c)' <= Ahead(t, c) + Queued(c)
             /\ Behind(u, c) <= Behind(t, c)
  <2>1. Queued(c) \in Nat /\ Queued(c)' \in Nat
    BY PoolShape, OccNat DEF AInv, Pooled, Queued
  <2>2. Occ(t.todo, c) \in Nat
    BY <1>1, Counts
  <2>3. Behind(u, c) <= Behind(t, c)
    BY <1>2 DEF Behind
  <2>4. CASE Queued(c)' <= Queued(c)
    BY <1>2, <2>1, <2>2, <2>3, <2>4 DEF Ahead
  <2>5. CASE /\ x \notin Starting /\ proc[p].pc \in Starting
             /\ Queued(c)' <= Queued(c) + IF Key(p) = c THEN 1 ELSE 0
    BY <1>2, <2>1, <2>2, <2>3, <2>5 DEF Ahead, Key
  <2>6. QED
    BY <2>4, <2>5
<1>7. QED
  BY <1>2, <1>5, <1>6, OneSteps

LEMMA ContinuesSteps ==
    ASSUME AInv, Pooled', NEW p \in Proc, Continues(p),
           proc[p].pc \notin Closers \cup {"reserved"},
           \A c \in Card : Queued(c)' <= Queued(c)
    PROVE  AInv' /\ Orderly
<1> DEFINE t == proc[p]
           u == Rest(t)
<1>1. Fit(t) /\ t \in Thread /\ Fits
  BY DEF AInv, Fits, Fit
<1>2. /\ Fit(u) /\ u.pc \in {"promoted", "replan", "idle"}
      /\ \A c \in Card : Ahead(u, c) = Occ(t.todo, c) /\ Behind(u, c) = IF t.own = c THEN 1 ELSE 0
  BY <1>1, RestFit
<1>3. proc' = [proc EXCEPT ![p] = u]
  BY DEF Continues
<1> HIDE DEF u
<1>4. OnlyMoves(p) /\ proc'[p] = u
  BY <1>1, <1>2, <1>3, OnlyThread
<1>5. ASSUME NEW c \in Card
      PROVE  /\ Ahead(u, c) + Queued(c)' <= Ahead(t, c) + Queued(c)
             /\ Behind(u, c) <= Behind(t, c)
  <2>1. Queued(c) \in Nat /\ Queued(c)' \in Nat
    BY PoolShape, OccNat DEF AInv, Pooled, Queued
  <2>2. Occ(t.todo, c) \in Nat
    BY <1>1, Counts
  <2>3. Behind(u, c) <= Behind(t, c)
    BY <1>2 DEF Behind
  <2>4. QED
    BY <1>2, <2>1, <2>2, <2>3 DEF Ahead
<1>6. QED
  BY <1>2, <1>4, <1>5, OneSteps DEF Closers, Paired

(* The queue of the pool after one of its operations.                      *)
LEMMA QueueKept ==
    ASSUME Pooled, UNCHANGED pool, policy' \in Nat
    PROVE  Pooled' /\ \A c \in Card : Queued(c)' <= Queued(c)
<1>1. Pooled'
  BY DEF Pooled
<1>2. \A c \in Card : Queued(c) \in Nat /\ Queued(c)' = Queued(c)
  BY PoolShape, OccNat DEF Pooled, Queued
<1>3. QED
  BY <1>1, <1>2

LEMMA PoolNow ==
    ASSUME PoolOK(pool'), policy' \in Nat
    PROVE  Pooled' /\ \A c : Queued(c)' = Occ(pool'.queue, c)
<1>1. pool' \in Pool
  BY DEF PoolOK
<1>2. pool' /= None
  BY <1>1, RunsAssumption
<1>3. QED
  BY <1>1, <1>2 DEF Pooled, Queued

LEMMA ResolveSteps ==
    ASSUME AInv, NEW p \in Proc, Resolve(p)
    PROVE  AInv' /\ Orderly
<1>1. /\ Pooled' /\ policy \in Nat /\ proc[p].pc = "resolve"
      /\ \A c \in Card : Queued(c)' <= Queued(c)
  BY QueueKept DEF Resolve, At, store, AInv, Pooled
<1>2. CASE Continues(p)
  BY <1>1, <1>2, ContinuesSteps DEF Closers
<1>3. CASE proc' = [proc EXCEPT ![p].pc = "admit", ![p].max = policy]
  <2> DEFINE t == proc[p]
             u == [t EXCEPT !.pc = "admit", !.max = policy]
  <2>1. Fit(t) /\ t \in Thread /\ Fits
    BY DEF AInv, Fits, Fit
  <2>2. t.key \in Card /\ t.todo = <<>>
    BY <1>1, <2>1 DEF Fit, Keyed, Carrying
  <2>3. u \in Thread /\ u.pc = "admit" /\ u.key = t.key /\ u.todo = t.todo /\ u.own = t.own
    BY <1>1, <2>1 DEF Thread, PC
  <2>4. proc' = [proc EXCEPT ![p] = u]
    BY <1>3, <2>1 DEF Fits
  <2> HIDE DEF u
  <2>5. Fit(u)
    BY <2>2, <2>3 DEF Fit
  <2>6. OnlyMoves(p) /\ proc'[p] = u
    BY <2>1, <2>4, <2>5, OnlyThread
  <2>7. ASSUME NEW c \in Card
        PROVE  /\ Ahead(u, c) + Queued(c)' <= Ahead(t, c) + Queued(c)
               /\ Behind(u, c) <= Behind(t, c)
    <3>1. Queued(c) \in Nat /\ Queued(c)' \in Nat /\ Occ(t.todo, c) \in Nat
      BY <1>1, <2>1, Counts, PoolShape, OccNat DEF AInv, Pooled, Queued
    <3>2. QED
      BY <1>1, <2>3, <3>1 DEF Ahead, Behind, Starting
  <2>8. QED
    BY <1>1, <2>3, <2>6, <2>7, OneSteps DEF Closers, Paired
<1>4. QED
  BY <1>2, <1>3 DEF Resolve

LEMMA EnsureSteps ==
    ASSUME AInv, NEW p \in Proc, Ensure(p)
    PROVE  AInv' /\ Orderly
<1> DEFINE q == IF pool = None THEN NewPool(proc[p].max) ELSE pool
<1>1. /\ proc[p].pc = "admit" /\ proc[p].max \in Nat /\ pool' = q
      /\ policy' = policy /\ Goes(p, "ask")
  BY DEF Ensure, At, store, AInv, Fits, Fit, Thread
<1>2. PoolOK(q) /\ policy' \in Nat
  BY <1>1, NewPoolOK DEF AInv, Pooled
<1>3. \A c \in Card : Queued(c) = Occ(q.queue, c)
  BY <1>1, NewQueue, OccNat, EmptySeq DEF Queued
<1> HIDE DEF q
<1>4. Pooled' /\ \A c \in Card : Queued(c)' = Occ(pool'.queue, c)
  BY <1>1, <1>2, PoolNow
<1>5. \A c \in Card : Queued(c) \in Nat
  BY PoolShape, OccNat DEF AInv, Pooled, Queued
<1>6. \A c \in Card : Queued(c)' <= Queued(c)
  BY <1>1, <1>3, <1>4, <1>5
<1>7. QED
  BY <1>1, <1>4, <1>6, GoesSteps DEF PC, Closers, Keyed, Holding, Carrying, Starting, Paired

(* The pool that the thread p was given.                                   *)
PoolOf(p) == IF p \in strays THEN orphan ELSE pool

LEMMA PoolGiven ==
    ASSUME Pooled, Pointers, NEW p \in Proc, proc[p].pc \in HasPool
    PROVE  PoolOf(p) /= None /\ PoolOK(PoolOf(p))
BY DEF Pooled, Pointers, PoolOf

LEMMA AdmitCardSteps ==
    ASSUME AInv, Pointers, NEW p \in Proc, AdmitCard(p)
    PROVE  AInv' /\ Orderly
<1> DEFINE t == proc[p]
           k == t.key
           q == PoolOf(p)
           a == Admit(q, k)
<1>1. Fit(t) /\ t.pc = "ask" /\ k \in Card
  BY DEF AdmitCard, At, AInv, Fits, Fit, Keyed
<1>2. /\ p \in strays => UNCHANGED pool
      /\ p \notin strays => pool' = Admitted(q, k)
      /\ a = "duplicate" => Continues(p)
      /\ a = "queued" => Goes(p, "park")
      /\ a = "running" => Goes(p, "register")
      /\ policy' = policy
  BY DEF AdmitCard, Key, store, PoolOf
<1>3. PoolOK(q) /\ q /= None /\ policy' \in Nat
  BY <1>1, <1>2, PoolGiven DEF AInv, Pooled, HasPool
<1>4. p \notin strays => q = pool
  BY DEF PoolOf
<1> HIDE DEF q
<1>5. PoolOK(Admitted(q, k)) /\ a \in {"duplicate", "queued", "running"}
  BY <1>1, <1>3, AdmittedOK
<1>6. \A c \in Card : Queued(c) \in Nat
  BY PoolShape, OccNat DEF AInv, Pooled, Queued
<1>7. /\ Pooled'
      /\ a = "queued" => \A c \in Card : Queued(c)' <= Queued(c) + IF k = c THEN 1 ELSE 0
      /\ a /= "queued" => \A c \in Card : Queued(c)' <= Queued(c)
  <2>1. CASE p \in strays
    <3>1. Pooled' /\ \A c \in Card : Queued(c)' <= Queued(c)
      BY <1>2, <1>3, <2>1, QueueKept DEF AInv
    <3>2. \A c \in Card : Queued(c)' = Queued(c)
      BY <1>2, <2>1 DEF Queued
    <3>3. QED
      BY <1>6, <3>1, <3>2
  <2>2. CASE p \notin strays
    <3>1. Pooled' /\ \A c \in Card : Queued(c)' = Occ(pool'.queue, c)
      BY <1>2, <1>3, <1>5, <2>2, PoolNow
    <3>2. \A c \in Card : Queued(c) = Occ(q.queue, c)
      BY <1>3, <1>4, <2>2 DEF Queued
    <3>3. /\ a = "queued" => \A c \in Card : Queued(c)' = Queued(c) + IF k = c THEN 1 ELSE 0
          /\ a /= "queued" => \A c \in Card : Queued(c)' = Queued(c)
      BY <1>1, <1>2, <1>3, <2>2, <3>1, <3>2, AdmittedQueue
    <3>4. QED
      BY <1>6, <3>1, <3>3
  <2>3. QED
    BY <2>1, <2>2
<1> HIDE DEF a
<1>9. CASE a = "duplicate"
  BY <1>1, <1>2, <1>7, <1>9, ContinuesSteps DEF Closers
<1>10. CASE a = "queued"
  <2>1. \A c \in Card : Queued(c)' <= Queued(c) + IF Key(p) = c THEN 1 ELSE 0
    BY <1>7, <1>10 DEF Key
  <2>2. QED
    BY <1>1, <1>2, <1>7, <1>10, <2>1, GoesSteps
       DEF PC, Closers, Keyed, Holding, Carrying, Starting, Paired
<1>11. CASE a = "running"
  <2>1. \A c \in Card : Queued(c)' <= Queued(c)
    BY <1>7, <1>11
  <2>2. QED
    BY <1>1, <1>2, <1>7, <1>11, <2>1, GoesSteps
       DEF PC, Closers, Keyed, Holding, Carrying, Starting, Paired
<1>12. QED
  BY <1>5, <1>9, <1>10, <1>11

LEMMA ParkSteps ==
    ASSUME AInv, Pointers, NEW p \in Proc, Park(p) \/ Unpark(p)
    PROVE  AInv' /\ Orderly
<1>1. /\ proc[p].pc \in {"park", "unpark"} /\ Key(p) \in Card
  BY DEF Park, Unpark, At, AInv, Fits, Fit, Keyed, Key
<1>2. Pooled' /\ \A c \in Card : Queued(c)' <= Queued(c)
  <2>1. policy' \in Nat
    BY DEF Park, Unpark, store, AInv, Pooled
  <2>2. CASE UNCHANGED pool
    BY <2>1, <2>2, QueueKept DEF AInv
  <2>3. CASE pool /= None /\ pool' = Dequeued(pool, Key(p))
    <3>1. PoolOK(pool)
      BY <2>3 DEF AInv, Pooled
    <3>2. PoolOK(pool') /\ \A c \in Card : Occ(pool'.queue, c) <= Occ(pool.queue, c)
      BY <1>1, <2>3, <3>1, DequeuedOK, DequeuedQueue
    <3>3. Pooled' /\ \A c \in Card : Queued(c)' = Occ(pool'.queue, c)
      BY <2>1, <3>2, PoolNow
    <3>4. \A c \in Card : Queued(c) = Occ(pool.queue, c)
      BY <2>3 DEF Queued
    <3>5. QED
      BY <3>2, <3>3, <3>4
  <2>4. QED
    BY <1>1, <2>2, <2>3 DEF Park, Unpark, At, Pointers, HasPool
<1>3. CASE Continues(p)
  BY <1>1, <1>2, <1>3, ContinuesSteps DEF Closers
<1>4. CASE Goes(p, "unpark")
  BY <1>1, <1>2, <1>4, GoesSteps DEF PC, Closers, Keyed, Holding, Carrying, Starting, Paired
<1>5. QED
  BY <1>3, <1>4 DEF Park, Unpark

LEMMA FreeFit ==
    ASSUME Fits, Free /= {}, NEW f, f = CHOOSE q \in Free : TRUE
    PROVE  /\ f \in Proc /\ proc[f].pc = "idle" /\ proc[f].todo = <<>>
           /\ \A c \in Card : Ahead(proc[f], c) = 0
<1>1. f \in Free
  OBVIOUS
<1>2. f \in Proc /\ proc[f].pc = "idle"
  BY <1>1 DEF Free, At
<1>3. QED
  BY <1>2, Counts DEF Fits, Fit, Carrying, Starting

LEMMA LaunchSteps ==
    ASSUME AInv, NEW p \in Proc, Register(p) \/ StartPromoted(p)
    PROVE  AInv' /\ Orderly
<1> DEFINE r == CHOOSE f \in Free : TRUE
           t == proc[p]
           u == [t EXCEPT !.pc = "flip", !.sub = r]
           w == [Idle EXCEPT !.pc = "reserved", !.key = Key(p), !.own = Key(p)]
<1>1. /\ Pooled' /\ t.pc \in {"register", "promoted"}
      /\ \A c \in Card : Queued(c)' <= Queued(c)
  BY QueueKept DEF Register, StartPromoted, At, store, AInv, Pooled
<1>2. CASE Goes(p, "release")
  BY <1>1, <1>2, GoesSteps DEF PC, Closers, Keyed, Holding, Carrying, Starting, Paired
<1>3. CASE Launch(p)
  <2>1. /\ Fits /\ Fit(t) /\ t \in Thread /\ t.key \in Card
        /\ r \in Proc /\ proc[r].pc = "idle" /\ \A c \in Card : Ahead(proc[r], c) = 0
    BY <1>1, <1>3, FreeFit DEF Launch, AInv, Fits, Fit, Keyed, Holding
  <2>2. proc' = [proc EXCEPT ![p].pc = "flip", ![p].sub = r, ![r] = w]
    BY <1>3 DEF Launch
  <2>3. p /= r
    BY <1>1, <2>1
  <2> HIDE DEF r
  <2>4. /\ u \in Thread /\ u.pc = "flip" /\ u.key = t.key /\ u.sub = r /\ u.todo = t.todo
        /\ u.own = t.own
    BY <2>1 DEF Thread, PC
  <2>5. w \in Thread /\ w.pc = "reserved" /\ w.key = t.key /\ w.own = t.key /\ w.todo = <<>>
    BY <2>1, IdleFit DEF Thread, PC, Key
  <2>6. /\ \A q \in Proc : proc'[q] = IF q = p THEN u ELSE IF q = r THEN w ELSE proc[q]
        /\ proc' \in [Proc -> Thread]
    BY <2>1, <2>2, <2>3, <2>4, <2>5 DEF Fits
  <2> HIDE DEF u, w
  <2>7. Fit(u) /\ Fit(w)
    BY <2>1, <2>4, <2>5 DEF Fit, Carrying
  <2>8. Fits'
    BY <2>1, <2>6, <2>7 DEF Fits
  <2>9. Pairing'
    <3>1. \A q \in Proc : proc[q].pc \in Paired => proc[q].sub /= r /\ proc[q].sub \in Proc
      BY <2>1 DEF AInv, Pairing
    <3>2. ASSUME NEW q \in Proc, proc'[q].pc \in Paired
          PROVE  /\ proc'[q].sub \in Proc
                 /\ proc'[proc'[q].sub].pc = "reserved"
                 /\ proc'[proc'[q].sub].key = proc'[q].key
                 /\ proc'[proc'[q].sub].own = proc'[q].key
      <4>1. CASE q = p
        BY <2>1, <2>3, <2>4, <2>5, <2>6, <4>1
      <4>2. CASE q /= p
        <5>1. q /= r /\ proc'[q] = proc[q]
          BY <2>5, <2>6, <3>2, <4>2 DEF Paired
        <5>2. /\ proc[q].sub \in Proc /\ proc[proc[q].sub].pc = "reserved"
              /\ proc[proc[q].sub].key = proc[q].key /\ proc[proc[q].sub].own = proc[q].key
          BY <3>2, <5>1 DEF AInv, Pairing
        <5>3. proc[q].sub /= p /\ proc[q].sub /= r
          BY <1>1, <2>1, <5>2
        <5>4. QED
          BY <2>6, <5>1, <5>2, <5>3
      <4>3. QED
        BY <4>1, <4>2
    <3>3. ASSUME NEW q \in Proc, NEW o \in Proc, q /= o, proc'[q].pc \in Paired, proc'[o].pc \in Paired
          PROVE  proc'[q].sub /= proc'[o].sub
      <4>1. q /= r /\ o /= r
        BY <2>3, <2>5, <2>6, <3>3 DEF Paired
      <4>2. QED
        BY <2>4, <2>6, <3>1, <3>3, <4>1 DEF AInv, Pairing
    <3>4. QED
      BY <3>2, <3>3 DEF Pairing
  <2>10. ASSUME NEW q \in Proc, NEW c \in Card
         PROVE  Ahead(proc'[q], c) <= Ahead(proc[q], c) /\ Behind(proc'[q], c) <= Behind(proc[q], c)
    <3>1. /\ Ahead(proc[q], c) \in Nat /\ Behind(proc[q], c) \in {0, 1} /\ Occ(proc[q].todo, c) \in Nat
      BY <2>1, Counts DEF Fits
    <3>2. CASE q = p
      BY <1>1, <2>4, <2>6, <3>1, <3>2 DEF Ahead, Behind, Starting
    <3>3. CASE q = r
      <4>1. proc'[q] = w /\ Ahead(w, c) = 0 /\ Ahead(proc[q], c) = 0
        BY <2>1, <2>3, <2>5, <2>6, <2>7, <3>3, Counts DEF Carrying, Starting
      <4>2. Behind(w, c) = 0
        BY <2>5 DEF Behind
      <4>3. QED
        BY <3>1, <4>1, <4>2
    <3>4. CASE q /= p /\ q /= r
      BY <2>6, <3>1, <3>4
    <3>5. QED
      BY <3>2, <3>3, <3>4
  <2>11. Tallied' /\ \A c \in Card : Fewer(c)
    BY <1>1, <2>1, <2>8, <2>10, NoneGrows DEF AInv
  <2>12. SameClosers
    BY <1>1, <2>1, <2>4, <2>5, <2>6 DEF SameClosers, Closers
  <2>13. QED
    BY <1>1, <2>8, <2>9, <2>11, <2>12 DEF AInv, Orderly
<1>4. QED
  BY <1>2, <1>3 DEF Register, StartPromoted

(* The goroutine of a launch is nobody else's.                             *)
LEMMA OwnGoroutine ==
    ASSUME AInv, NEW p \in Proc, proc[p].pc \in Paired
    PROVE  /\ proc[p].sub \in Proc /\ proc[p].sub /= p
           /\ proc[proc[p].sub].pc = "reserved"
           /\ proc[proc[p].sub].key = proc[p].key /\ proc[proc[p].sub].own = proc[p].key
           /\ \A q \in Proc : q /= p /\ proc[q].pc \in Paired => proc[q].sub /= proc[p].sub
BY DEF AInv, Pairing, Paired

(* p is done with its goroutine r.                                         *)
LEMMA PairParts ==
    ASSUME AInv, NEW p \in Proc, proc[p].pc \in Paired,
           NEW u, Fit(u), u.pc \notin Paired, NEW w, Fit(w), w.pc \notin Paired,
           \A q \in Proc : proc'[q] = IF q = p THEN u ELSE IF q = proc[p].sub THEN w ELSE proc[q],
           proc' \in [Proc -> Thread]
    PROVE  Fits' /\ Pairing'
<1> DEFINE r == proc[p].sub
<1>1. /\ r \in Proc /\ r /= p /\ proc[r].pc = "reserved"
      /\ \A q \in Proc : q /= p /\ proc[q].pc \in Paired => proc[q].sub /= r
  BY OwnGoroutine
<1> HIDE DEF r
<1>2. Fits'
  BY DEF AInv, Fits
<1>3. \A q \in Proc : proc'[q].pc \in Paired =>
          q /= p /\ q /= r /\ proc'[q] = proc[q] /\ proc[q].pc \in Paired
  BY <1>1 DEF r
<1>4. ASSUME NEW q \in Proc, proc'[q].pc \in Paired
      PROVE  /\ proc'[q].sub \in Proc
             /\ proc'[proc'[q].sub].pc = "reserved"
             /\ proc'[proc'[q].sub].key = proc'[q].key
             /\ proc'[proc'[q].sub].own = proc'[q].key
  <2>1. /\ proc[q].sub \in Proc /\ proc[proc[q].sub].pc = "reserved"
        /\ proc[proc[q].sub].key = proc[q].key /\ proc[proc[q].sub].own = proc[q].key
    BY <1>3, <1>4 DEF AInv, Pairing
  <2>2. proc[q].sub /= p /\ proc[q].sub /= r
    BY <1>1, <1>3, <1>4, <2>1 DEF Paired
  <2>3. proc'[proc[q].sub] = proc[proc[q].sub]
    BY <2>1, <2>2 DEF r
  <2>4. QED
    BY <1>3, <1>4, <2>1, <2>3
<1>5. ASSUME NEW q \in Proc, NEW o \in Proc, q /= o, proc'[q].pc \in Paired, proc'[o].pc \in Paired
      PROVE  proc'[q].sub /= proc'[o].sub
  BY <1>3, <1>5 DEF AInv, Pairing
<1>6. QED
  BY <1>2, <1>4, <1>5 DEF Pairing

LEMMA UnlaunchSteps ==
    ASSUME AInv, NEW p \in Proc, Unlaunch(p)
    PROVE  AInv' /\ Orderly
<1> DEFINE t == proc[p]
           r == t.sub
           u == [t EXCEPT !.sub = None, !.pc = "release"]
<1>1. t.pc = "unlaunch" /\ r \in Proc /\ p /= r /\ proc[r].pc = "reserved"
  BY OwnGoroutine DEF Unlaunch, At, Paired
<1>2. /\ Fits /\ Fit(t) /\ t \in Thread
      /\ Pooled' /\ \A c \in Card : Queued(c)' <= Queued(c)
  BY QueueKept DEF Unlaunch, store, AInv, Fits, Fit, Pooled
<1>3. /\ u \in Thread /\ u.pc = "release" /\ u.key = t.key /\ u.todo = t.todo /\ u.own = t.own
  BY <1>2 DEF Thread, PC
<1>4. proc' = [proc EXCEPT ![r] = Idle, ![p].sub = None, ![p].pc = "release"]
  BY DEF Unlaunch
<1>5. /\ \A q \in Proc : proc'[q] = IF q = p THEN u ELSE IF q = r THEN Idle ELSE proc[q]
      /\ proc' \in [Proc -> Thread]
  BY <1>1, <1>2, <1>3, <1>4, IdleFit DEF Fits
<1> HIDE DEF u
<1>6. Fit(u)
  BY <1>1, <1>2, <1>3 DEF Fit, Keyed, Holding, Carrying
<1>7. Fits' /\ Pairing'
  BY <1>1, <1>3, <1>5, <1>6, IdleFit, PairParts DEF Paired
<1>8. ASSUME NEW q \in Proc, NEW c \in Card
      PROVE  Ahead(proc'[q], c) <= Ahead(proc[q], c) /\ Behind(proc'[q], c) <= Behind(proc[q], c)
  <2>1. /\ Ahead(proc[q], c) \in Nat /\ Behind(proc[q], c) \in {0, 1} /\ Occ(proc[q].todo, c) \in Nat
    BY <1>2, Counts DEF Fits
  <2>2. CASE q = p
    BY <1>1, <1>3, <1>5, <2>1, <2>2 DEF Ahead, Behind, Starting
  <2>3. CASE q = r
    BY <1>1, <1>5, <2>1, <2>3, IdleFit
  <2>4. CASE q /= p /\ q /= r
    BY <1>5, <2>1, <2>4
  <2>5. QED
    BY <2>2, <2>3, <2>4
<1>9. Tallied' /\ \A c \in Card : Fewer(c)
  BY <1>2, <1>7, <1>8, NoneGrows DEF AInv
<1>10. SameClosers
  BY <1>1, <1>3, <1>5, IdleFit DEF SameClosers, Closers
<1>11. QED
  BY <1>2, <1>7, <1>9, <1>10 DEF AInv, Orderly

(* A start is counted once: it is no longer ahead of the card.             *)
Spends(k) == \A c \in Card : /\ Chains(c)' <= Chains(c)
                             /\ Pending(c)' + (IF c = k THEN 1 ELSE 0) <= Pending(c)
                             /\ Pending(c) \in Nat /\ Pending(c)' \in Nat

LEMMA FlipSteps ==
    ASSUME AInv, NEW p \in Proc, Flip(p)
    PROVE  AInv' /\ SameClosers /\ Spends(Key(p))
<1> DEFINE t == proc[p]
           k == t.key
           r == t.sub
           s == proc[r]
<1>1. /\ t.pc = "flip" /\ r \in Proc /\ p /= r /\ s.pc = "reserved" /\ s.key = k /\ s.own = k
  BY OwnGoroutine DEF Flip, At, Paired
<1>2. /\ Fits /\ Fit(t) /\ t \in Thread /\ Fit(s) /\ s \in Thread /\ k \in Card
      /\ Pooled' /\ \A c \in Card : Queued(c)' = Queued(c) /\ Queued(c) \in Nat
  <2>1. UNCHANGED <<pool, policy>>
    BY DEF Flip
  <2>2. Pooled' /\ \A c \in Card : Queued(c)' = Queued(c) /\ Queued(c) \in Nat
    BY <2>1, PoolShape, OccNat DEF AInv, Pooled, Queued
  <2>3. QED
    BY <1>1, <2>2 DEF AInv, Fits, Fit, Keyed, Holding
<1>3. \A c \in Card : /\ Occ(t.todo, c) \in Nat
                      /\ Ahead(t, c) = (IF k = c THEN 1 ELSE 0) + Occ(t.todo, c)
                      /\ Behind(t, c) = IF t.own = c THEN 1 ELSE 0
  BY <1>1, <1>2, Counts DEF Ahead, Behind, Starting
<1>4. CASE Goes(p, "unlaunch")
  <2> DEFINE u == [t EXCEPT !.pc = "unlaunch"]
  <2>1. /\ u \in Thread /\ u.pc = "unlaunch" /\ u.key = t.key /\ u.sub = t.sub /\ u.todo = t.todo
        /\ u.own = t.own
    BY <1>2 DEF Thread, PC
  <2>2. proc' = [proc EXCEPT ![p] = u]
    BY <1>2, <1>4 DEF Goes, Fits
  <2> HIDE DEF u
  <2>3. Fit(u)
    BY <1>2, <2>1 DEF Fit, Carrying
  <2>4. OnlyMoves(p) /\ proc'[p] = u
    BY <1>2, <2>2, <2>3, OnlyThread
  <2>5. Fits' /\ Pairing'
    BY <1>1, <2>1, <2>4, OneFits DEF AInv, Paired
  <2>6. /\ Tallied'
        /\ \A c \in Card :
            /\ Pending(c) \in Nat /\ Pending(c)' \in Nat /\ Chains(c) \in Nat /\ Chains(c)' \in Nat
            /\ Pending(c)' + Ahead(t, c) + Queued(c) = Pending(c) + Ahead(u, c) + Queued(c)'
            /\ Chains(c)' + Ahead(t, c) + Behind(t, c) + Queued(c)
                 = Chains(c) + Ahead(u, c) + Behind(u, c) + Queued(c)'
    BY <1>2, <2>4, <2>5, OneCounts DEF AInv
  <2>7. \A c \in Card : Ahead(u, c) = Occ(t.todo, c) /\ Behind(u, c) = IF t.own = c THEN 1 ELSE 0
    BY <1>3, <2>1 DEF Ahead, Behind, Starting
  <2>8. ASSUME NEW c \in Card
        PROVE  /\ Chains(c)' <= Chains(c)
               /\ Pending(c)' + (IF c = k THEN 1 ELSE 0) <= Pending(c)
    BY <1>2, <1>3, <2>6, <2>7
  <2>9. SameClosers
    BY <1>1, <2>1, <2>4 DEF SameClosers, Closers, OnlyMoves, Alike
  <2>10. QED
    BY <1>2, <2>5, <2>6, <2>8, <2>9 DEF AInv, Spends, Key
<1>5. CASE proc' = [proc EXCEPT ![p] = Rest(@), ![r].pc = "work"]
  <2> DEFINE u == Rest(t)
             w == [s EXCEPT !.pc = "work"]
  <2>1. /\ Fit(u) /\ u.pc \in {"promoted", "replan", "idle"}
        /\ \A c \in Card : Ahead(u, c) = Occ(t.todo, c) /\ Behind(u, c) = IF t.own = c THEN 1 ELSE 0
    BY <1>2, RestFit
  <2>2. /\ w \in Thread /\ w.pc = "work" /\ w.key = k /\ w.own = k /\ w.todo = s.todo
        /\ s.todo = <<>>
    BY <1>1, <1>2 DEF Fit, Thread, PC, Carrying
  <2>3. /\ \A q \in Proc : proc'[q] = IF q = p THEN u ELSE IF q = r THEN w ELSE proc[q]
        /\ proc' \in [Proc -> Thread]
    BY <1>1, <1>2, <1>5, <2>1, <2>2 DEF Fits, Fit
  <2> HIDE DEF u, w
  <2>4. Fit(w)
    BY <1>2, <2>2 DEF Fit
  <2>5. Fits' /\ Pairing'
    BY <1>1, <2>1, <2>2, <2>3, <2>4, PairParts DEF Paired
  <2>6. SameClosers
    BY <1>1, <2>1, <2>2, <2>3 DEF SameClosers, Closers
  <2>7. ASSUME NEW c \in Card
        PROVE  /\ IsFiniteSet(Pairs(aheads(c)))' /\ IsFiniteSet(Pairs(boths(c)))'
               /\ Chains(c)' <= Chains(c)
               /\ Pending(c)' + (IF c = k THEN 1 ELSE 0) <= Pending(c)
               /\ Pending(c) \in Nat /\ Pending(c)' \in Nat
    <3> DEFINE f == aheads(c)
               b == boths(c)
               g == [q \in Proc |-> Ahead(proc'[q], c)]
               d == [q \in Proc |-> Ahead(proc'[q], c) + Behind(proc'[q], c)]
               e == [q \in Proc |-> IF q = p THEN d[p] ELSE b[q]]
               one == IF c = k THEN 1 ELSE 0
    <3>1. /\ f \in [Proc -> Nat] /\ b \in [Proc -> Nat]
          /\ \A q \in Proc : f[q] = Ahead(proc[q], c) /\ b[q] = Ahead(proc[q], c) + Behind(proc[q], c)
      BY <1>2, CountFunctions
    <3>2. \A q \in Proc : Ahead(proc'[q], c) \in Nat /\ Behind(proc'[q], c) \in {0, 1}
      BY <2>5, Counts DEF Fits
    <3>3. /\ g \in [Proc -> Nat] /\ d \in [Proc -> Nat]
          /\ \A q \in Proc : g[q] = Ahead(proc'[q], c) /\ d[q] = Ahead(proc'[q], c) + Behind(proc'[q], c)
      BY <3>2
    <3>4. f' = g /\ b' = d
      BY DEF aheads, boths, Ahead, Behind
    <3>5. /\ Pending(c) = Total(f) + Queued(c) /\ Chains(c) = Total(b) + Queued(c)
          /\ Pending(c)' = Total(g) + Queued(c)' /\ Chains(c)' = Total(d) + Queued(c)'
      BY <3>4 DEF Pending, Chains, Total, Pairs
    <3>6. /\ IsFiniteSet(Pairs(g)) => IsFiniteSet(Pairs(aheads(c)))'
          /\ IsFiniteSet(Pairs(d)) => IsFiniteSet(Pairs(boths(c)))'
      BY <3>4 DEF Pairs
    <3>7. e \in [Proc -> Nat] /\ e[p] = d[p] /\ \A q \in Proc : q /= p => e[q] = b[q]
      BY <3>1, <3>3
    <3>8. IsFiniteSet(Pairs(f)) /\ IsFiniteSet(Pairs(b))
      BY DEF AInv, Tallied
    <3>9. /\ Ahead(s, c) = 0 /\ Behind(s, c) = 0
          /\ Ahead(w, c) = 0 /\ Behind(w, c) = one
      <4>1. Ahead(s, c) = 0 /\ Ahead(w, c) = 0
        BY <1>1, <1>2, <2>2, <2>4, Counts DEF Carrying, Starting
      <4>2. Behind(s, c) = 0 /\ Behind(w, c) = one
        BY <1>1, <2>2 DEF Behind
      <4>3. QED
        BY <4>1, <4>2
    <3>10. /\ f[p] = one + g[p] /\ b[p] = one + d[p] /\ f[r] = 0 /\ b[r] = 0 /\ g[r] = 0 /\ d[r] = one
           /\ \A q \in Proc : q /= p /\ q /= r => f[q] = g[q] /\ b[q] = d[q]
           /\ g[p] \in Nat /\ d[p] \in Nat /\ one \in {0, 1}
      <4>1. proc'[p] = u /\ proc'[r] = w
        BY <1>1, <2>3
      <4>2. \A q \in Proc : q /= p /\ q /= r => proc'[q] = proc[q]
        BY <2>3
      <4>3. f[r] = 0 /\ b[r] = 0 /\ g[r] = 0 /\ d[r] = one
        BY <1>1, <3>1, <3>3, <3>9, <4>1
      <4>4. f[p] = one + g[p] /\ b[p] = one + d[p]
        <5>1. /\ g[p] = Occ(t.todo, c) /\ d[p] = Occ(t.todo, c) + IF t.own = c THEN 1 ELSE 0
          BY <2>1, <3>3, <4>1
        <5>2. /\ f[p] = one + Occ(t.todo, c)
              /\ b[p] = one + Occ(t.todo, c) + IF t.own = c THEN 1 ELSE 0
          BY <1>3, <3>1
        <5>3. QED
          BY <1>3, <5>1, <5>2
      <4>5. QED
        BY <3>1, <3>3, <4>2, <4>3, <4>4
    <3> HIDE DEF f, g, b, d, e, one
    <3>11. /\ IsFiniteSet(Pairs(g)) /\ Total(f) \in Nat /\ Total(g) \in Nat
           /\ Total(g) + f[p] = Total(f) + g[p]
      <4>1. \A q \in Proc : q /= p => g[q] = f[q]
        BY <3>10
      <4>2. QED
        BY <3>1, <3>3, <3>8, <4>1, TotalChanges
    <3>12. /\ IsFiniteSet(Pairs(e)) /\ Total(b) \in Nat /\ Total(e) \in Nat
           /\ Total(e) + b[p] = Total(b) + e[p]
      BY <3>1, <3>7, <3>8, TotalChanges
    <3>13. /\ IsFiniteSet(Pairs(d)) /\ Total(d) \in Nat
           /\ Total(d) + e[r] = Total(e) + d[r]
      <4>1. \A q \in Proc : q /= r => d[q] = e[q]
        BY <3>7, <3>10
      <4>2. QED
        BY <1>1, <3>3, <3>7, <3>12, <4>1, TotalChanges
    <3>14. e[r] = 0 /\ e[p] = d[p]
      BY <1>1, <3>7, <3>10
    <3>15. Total(g) + one = Total(f) /\ Total(d) = Total(b)
      <4>1. /\ Total(g) + (one + g[p]) = Total(f) + g[p]
            /\ g[p] \in Nat /\ d[p] \in Nat /\ one \in Nat
        BY <3>10, <3>11
      <4>2. Total(e) + (one + d[p]) = Total(b) + d[p] /\ Total(d) + 0 = Total(e) + one
        BY <3>10, <3>12, <3>13, <3>14
      <4>3. QED
        BY <3>11, <3>12, <3>13, <4>1, <4>2
    <3>16. QED
      BY <1>2, <3>5, <3>6, <3>10, <3>11, <3>12, <3>13, <3>15 DEF one
  <2>8. QED
    BY <1>2, <2>5, <2>6, <2>7 DEF AInv, Tallied, Spends, Key
<1>6. QED
  BY <1>4, <1>5 DEF Flip

LEMMA WorkSteps ==
    ASSUME AInv, NEW p \in Proc, Work(p) \/ Forget(p)
    PROVE  AInv' /\ Orderly
<1>1. /\ Pooled' /\ \A c \in Card : Queued(c)' <= Queued(c)
      /\ proc[p].pc \in {"work", "forget"}
      /\ Goes(p, "forget") \/ Goes(p, "release")
  BY QueueKept DEF Work, Forget, At, store, AInv, Pooled
<1>2. QED
  BY <1>1, GoesSteps DEF PC, Closers, Keyed, Holding, Carrying, Starting, Paired

LEMMA ReleaseSteps ==
    ASSUME AInv, NEW p \in Proc, Release(p)
    PROVE  AInv' /\ Orderly
<1> DEFINE t == proc[p]
           k == t.key
           s == ReleaseStarts(pool, k)
           v == [t EXCEPT !.todo = s \o @]
           u == Rest(v)
<1>1. /\ Fits /\ Fit(t) /\ t \in Thread /\ t.pc = "release" /\ k \in Card /\ t.todo \in Seq(Card)
      /\ policy' \in Nat
  BY DEF Release, At, store, AInv, Fits, Fit, Keyed, Holding, Thread, Pooled
<1>2. CASE pool = None
  <2>1. Continues(p) /\ UNCHANGED pool
    BY <1>2 DEF Release
  <2>2. Pooled' /\ \A c \in Card : Queued(c)' <= Queued(c)
    BY <1>1, <2>1, QueueKept DEF AInv
  <2>3. QED
    BY <1>1, <2>1, <2>2, ContinuesSteps DEF Closers
<1>3. CASE pool /= None
  <2>1. pool' = Released(pool, k) /\ proc' = [proc EXCEPT ![p] = u]
    <3>1. /\ pool' = Released(pool, Key(p))
          /\ proc' = [proc EXCEPT ![p] = Rest([proc[p] EXCEPT !.todo = ReleaseStarts(pool, Key(p)) \o @])]
      BY <1>3 DEF Release
    <3>2. QED
      BY <3>1, Zenon DEF Key
  <2>2. PoolOK(pool) /\ PoolOK(pool') /\ s \in Seq(Card)
    BY <1>1, <1>3, <2>1, ReleasedOK DEF AInv, Pooled
  <2>3. Pooled' /\ \A c \in Card : Queued(c)' = Occ(pool'.queue, c)
    BY <1>1, <2>2, PoolNow
  <2>4. \A c \in Card : Queued(c)' + Occ(s, c) = Queued(c)
    BY <1>1, <1>3, <2>1, <2>2, <2>3, ReleasedQueue DEF Queued
  <2> HIDE DEF s
  <2>5. /\ s \o t.todo \in Seq(Card)
        /\ \A c \in Card : Occ(s \o t.todo, c) = Occ(s, c) + Occ(t.todo, c)
    BY <1>1, <2>2, OccJoin
  <2>6. v \in Thread /\ v.todo = s \o t.todo /\ v.own = t.own
    BY <1>1, <2>5 DEF Thread
  <2> HIDE DEF v
  <2>7. /\ Fit(u) /\ u.pc \in {"promoted", "replan", "idle"}
        /\ \A c \in Card : /\ Ahead(u, c) = Occ(s \o t.todo, c)
                           /\ Behind(u, c) = IF t.own = c THEN 1 ELSE 0
    BY <2>6, RestFit
  <2> HIDE DEF u
  <2>8. OnlyMoves(p) /\ proc'[p] = u
    BY <1>1, <2>1, <2>7, OnlyThread
  <2>9. ASSUME NEW c \in Card
        PROVE  /\ Ahead(u, c) + Queued(c)' <= Ahead(t, c) + Queued(c)
               /\ Behind(u, c) <= Behind(t, c)
    <3>1. /\ Queued(c) \in Nat /\ Queued(c)' \in Nat /\ Occ(t.todo, c) \in Nat /\ Occ(s, c) \in Nat
      BY <1>1, <2>2, <2>3, Counts, PoolShape, OccNat DEF AInv, Pooled, Queued
    <3>2. Ahead(t, c) = Occ(t.todo, c) /\ Behind(t, c) = IF t.own = c THEN 1 ELSE 0
      BY <1>1, <3>1 DEF Ahead, Behind, Starting
    <3>3. Ahead(u, c) = Occ(s, c) + Occ(t.todo, c) /\ Behind(u, c) = Behind(t, c)
      BY <2>5, <2>7, <3>2
    <3>4. Behind(t, c) \in {0, 1}
      BY <3>2
    <3>5. QED
      BY <2>4, <3>1, <3>2, <3>3, <3>4
  <2>10. QED
    BY <1>1, <2>3, <2>7, <2>8, <2>9, OneSteps DEF Closers, Paired
<1>4. QED
  BY <1>2, <1>3

LEMMA ReboundSteps ==
    ASSUME AInv, NEW p \in Proc, Rebound(p)
    PROVE  AInv' /\ Orderly
<1> DEFINE t == proc[p]
           s == SetMaxStarts(pool, t.max)
           v == [t EXCEPT !.todo = s]
           u == Rest(v)
<1>1. /\ Fits /\ Fit(t) /\ t \in Thread /\ t.pc = "rebound" /\ t.max \in Nat
      /\ policy' \in Nat
  BY DEF Rebound, At, store, AInv, Fits, Fit, Thread, Pooled
<1>2. CASE pool = None
  <2>1. Continues(p) /\ pool' = NewPool(t.max)
    BY <1>2 DEF Rebound
  <2>2. PoolOK(pool') /\ pool'.queue = <<>>
    BY <1>1, <2>1, NewPoolOK, NewQueue
  <2>3. Pooled' /\ \A c \in Card : Queued(c)' <= Queued(c)
    <3>1. Pooled' /\ \A c \in Card : Queued(c)' = Occ(<<>>, c)
      BY <1>1, <2>2, PoolNow
    <3>2. \A c \in Card : Occ(<<>>, c) = 0 /\ Queued(c) = 0
      BY <1>2, OccNat, EmptySeq DEF Queued
    <3>3. QED
      BY <3>1, <3>2
  <2>4. QED
    BY <1>1, <2>1, <2>3, ContinuesSteps DEF Closers
<1>3. CASE pool /= None
  <2>1. pool' = Rebounded(pool, t.max) /\ proc' = [proc EXCEPT ![p] = u]
    BY <1>3 DEF Rebound
  <2>2. PoolOK(pool) /\ PoolOK(pool') /\ s \in Seq(Card)
    BY <1>1, <1>3, <2>1, ReboundedOK DEF AInv, Pooled
  <2>3. Pooled' /\ \A c \in Card : Queued(c)' = Occ(pool'.queue, c)
    BY <1>1, <2>2, PoolNow
  <2>4. \A c \in Card : Queued(c)' + Occ(s, c) = Queued(c)
    BY <1>1, <1>3, <2>1, <2>2, <2>3, ReboundedQueue DEF Queued
  <2> HIDE DEF s
  <2>5. v \in Thread /\ v.todo = s /\ v.own = t.own
    BY <1>1, <2>2 DEF Thread
  <2> HIDE DEF v
  <2>6. /\ Fit(u) /\ u.pc \in {"promoted", "replan", "idle"}
        /\ \A c \in Card : Ahead(u, c) = Occ(s, c) /\ Behind(u, c) = IF t.own = c THEN 1 ELSE 0
    BY <2>5, RestFit
  <2> HIDE DEF u
  <2>7. OnlyMoves(p) /\ proc'[p] = u
    BY <1>1, <2>1, <2>6, OnlyThread
  <2>8. ASSUME NEW c \in Card
        PROVE  /\ Ahead(u, c) + Queued(c)' <= Ahead(t, c) + Queued(c)
               /\ Behind(u, c) <= Behind(t, c)
    <3>1. /\ Queued(c) \in Nat /\ Queued(c)' \in Nat /\ Occ(s, c) \in Nat /\ Ahead(t, c) \in Nat
      BY <1>1, <2>2, <2>3, Counts, PoolShape, OccNat DEF AInv, Pooled, Queued
    <3>2. Behind(t, c) = IF t.own = c THEN 1 ELSE 0
      BY <1>1 DEF Behind
    <3>3. QED
      BY <2>4, <2>6, <3>1, <3>2
  <2>9. QED
    BY <1>1, <2>3, <2>6, <2>7, <2>8, OneSteps DEF Closers, Paired
<1>4. QED
  BY <1>2, <1>3

(* A re-plan that runs the card again turns the end of a chain into a      *)
(* start of it.                                                            *)
Retries(k) == \A c \in Card : /\ Chains(c)' <= Chains(c)
                              /\ c /= k => Pending(c)' <= Pending(c)
                              /\ Pending(c)' <= Chains(c)'

LEMMA PendingChains ==
    ASSUME Fits, Tallied, Pooled, NEW c \in Card
    PROVE  Pending(c) <= Chains(c) /\ Pending(c) \in Nat /\ Chains(c) \in Nat
<1> DEFINE f == aheads(c)
           b == boths(c)
<1>1. /\ f \in [Proc -> Nat] /\ b \in [Proc -> Nat]
      /\ \A q \in Proc : f[q] = Ahead(proc[q], c) /\ b[q] = Ahead(proc[q], c) + Behind(proc[q], c)
  BY CountFunctions
<1>2. \A q \in Proc : Ahead(proc[q], c) \in Nat /\ Behind(proc[q], c) \in {0, 1}
  BY Counts DEF Fits
<1>3. IsFiniteSet(Pairs(b)) /\ Queued(c) \in Nat
  BY PoolShape, OccNat DEF Tallied, Pooled, Queued
<1>4. Pending(c) = Total(f) + Queued(c) /\ Chains(c) = Total(b) + Queued(c)
  BY DEF Pending, Chains
<1> HIDE DEF f, b
<1>5. \A q \in Proc : f[q] <= b[q]
  BY <1>1, <1>2
<1>6. Total(f) \in Nat /\ Total(b) \in Nat /\ Total(f) <= Total(b)
  BY <1>1, <1>3, <1>5, TotalShrinks
<1>7. QED
  BY <1>3, <1>4, <1>6

Countable == \A c \in Card : Pending(c) <= Chains(c) /\ Pending(c) \in Nat /\ Chains(c) \in Nat

LEMMA PendingWithin == AInv => Countable
BY PendingChains DEF AInv, Countable

LEMMA PendingNext == (AInv => Countable)'
BY PendingWithin, PTL

LEMMA ReplanSteps ==
    ASSUME AInv, NEW p \in Proc, Replan(p)
    PROVE  /\ AInv' /\ SameClosers
           /\ \/ \A c \in Card : Fewer(c)
              \/ Retries(Key(p)) /\ team /\ ~OutOfRounds(card[Key(p)])
<1> DEFINE t == proc[p]
           k == t.key
           w == [Idle EXCEPT !.pc = "resolve", !.key = Key(p)]
<1>1. /\ Fits /\ Fit(t) /\ t.pc = "replan" /\ k \in Card
      /\ Pooled' /\ \A c \in Card : Queued(c)' = Queued(c) /\ Queued(c) \in Nat
  <2>1. Pooled' /\ \A c \in Card : Queued(c)' = Queued(c) /\ Queued(c) \in Nat
    BY PoolShape, OccNat DEF Replan, AInv, Pooled, Queued
  <2>2. QED
    BY <2>1 DEF Replan, At, AInv, Fits, Fit, Keyed
<1>2. \A c \in Card : /\ Ahead(t, c) = 0 /\ Behind(t, c) \in {0, 1}
                      /\ c = k => Behind(t, c) = 1
  BY <1>1, Counts DEF Carrying, Starting, Behind
<1>3. CASE proc' = [proc EXCEPT ![p] = Idle]
  <2>1. OnlyMoves(p) /\ proc'[p] = Idle
    BY <1>1, <1>3, OnlyThread, IdleFit
  <2>2. \A c \in Card : /\ Ahead(Idle, c) + Queued(c)' <= Ahead(t, c) + Queued(c)
                        /\ Behind(Idle, c) <= Behind(t, c)
    BY <1>1, <1>2, IdleFit
  <2>3. AInv' /\ Orderly
    BY <1>1, <2>1, <2>2, OneSteps, IdleFit DEF Closers, Paired
  <2>4. QED
    BY <2>3 DEF Orderly
<1>4. CASE proc' = [proc EXCEPT ![p] = w] /\ team /\ ~OutOfRounds(card[Key(p)])
  <2>1. w \in Thread /\ w.pc = "resolve" /\ w.key = k /\ w.todo = <<>> /\ w.own = None
    BY <1>1, IdleFit DEF Thread, PC, Key
  <2> HIDE DEF w
  <2>2. Fit(w)
    BY <1>1, <2>1 DEF Fit
  <2>3. OnlyMoves(p) /\ proc'[p] = w
    BY <1>1, <1>4, <2>2, OnlyThread
  <2>4. Fits' /\ Pairing'
    BY <1>1, <2>1, <2>3, OneFits DEF AInv, Paired
  <2>5. /\ Tallied'
        /\ \A c \in Card :
            /\ Pending(c) \in Nat /\ Pending(c)' \in Nat /\ Chains(c) \in Nat /\ Chains(c)' \in Nat
            /\ Pending(c)' + Ahead(t, c) + Queued(c) = Pending(c) + Ahead(w, c) + Queued(c)'
            /\ Chains(c)' + Ahead(t, c) + Behind(t, c) + Queued(c)
                 = Chains(c) + Ahead(w, c) + Behind(w, c) + Queued(c)'
    BY <1>1, <2>3, <2>4, OneCounts DEF AInv
  <2>6. \A c \in Card : /\ Ahead(w, c) = (IF c = k THEN 1 ELSE 0) /\ Behind(w, c) = 0
    <3>1. \A c \in Card : Occ(w.todo, c) = 0 /\ c /= None
      BY <2>1, OccNat, EmptySeq, RunsAssumption
    <3>2. QED
      BY <2>1, <3>1 DEF Ahead, Behind, Starting
  <2>7. ASSUME NEW c \in Card
        PROVE  Chains(c)' <= Chains(c) /\ (c /= k => Pending(c)' <= Pending(c))
    BY <1>1, <1>2, <2>5, <2>6
  <2>8. \A c \in Card : Pending(c)' <= Chains(c)'
    BY <1>1, <2>4, <2>5, PendingNext DEF AInv, Countable
  <2>9. SameClosers
    BY <1>1, <2>1, <2>3 DEF SameClosers, Closers, OnlyMoves, Alike
  <2>10. QED
    BY <1>1, <1>4, <2>4, <2>5, <2>7, <2>8, <2>9 DEF AInv, Retries, Key
<1>5. QED
  BY <1>3, <1>4 DEF Replan

(* Runs are told to stop: the others go on as they are.                    *)
LEMMA ToldAlike ==
    ASSUME Fits, NEW q \in Proc
    PROVE  Alike([proc[q] EXCEPT !.cancelled = TRUE], proc[q])
BY DEF Fits, Thread, Alike

LEMMA IdleTold ==
    ASSUME NEW u, u = Idle \/ u = [Idle EXCEPT !.cancelled = TRUE]
    PROVE  Fit(u) /\ u.pc = "idle" /\ \A c \in Card : Ahead(u, c) = 0 /\ Behind(u, c) = 0
<1>1. /\ u \in Thread /\ u.pc = "idle" /\ u.key = Idle.key /\ u.todo = Idle.todo
      /\ u.own = Idle.own /\ u.sub = Idle.sub /\ u.doomed = Idle.doomed
  BY IdleFit DEF Thread
<1>2. Alike(u, Idle)
  BY <1>1, IdleFit DEF Alike
<1>3. QED
  BY <1>1, <1>2, AlikeCounts, IdleFit

LEMMA CancelRunSteps ==
    ASSUME AInv, NEW p \in Proc, CancelRun(p)
    PROVE  AInv' /\ Orderly
<1> DEFINE r == handle[Key(p)]
<1>1. /\ Pooled' /\ \A c \in Card : Queued(c)' <= Queued(c)
      /\ Fits /\ proc[p].pc = "cancel"
  BY QueueKept DEF CancelRun, At, store, AInv, Pooled
<1>2. proc' = [q \in Proc |-> IF q = p THEN Idle
                              ELSE IF q = r THEN [proc[q] EXCEPT !.cancelled = TRUE] ELSE proc[q]]
  BY DEF CancelRun
<1> HIDE DEF r
<1>3. \A q \in Proc : q /= p => Alike(proc'[q], proc[q])
  <2>1. ASSUME NEW q \in Proc, q /= p PROVE Alike(proc'[q], proc[q])
    <3>1. proc'[q] = [proc[q] EXCEPT !.cancelled = TRUE] \/ proc'[q] = proc[q]
      BY <1>2, <2>1
    <3>2. QED
      BY <1>1, <3>1, ToldAlike, AlikeSelf
  <2>2. QED
    BY <2>1
<1>4. proc'[p] = Idle
  BY <1>2
<1>5. proc' \in [Proc -> Thread]
  <2>1. \A q \in Proc : proc'[q] \in Thread
    BY <1>3, <1>4, IdleFit DEF Alike
  <2>2. QED
    BY <1>2, <2>1
<1>6. OnlyMoves(p)
  BY <1>3, <1>4, <1>5, IdleFit DEF OnlyMoves
<1>7. ASSUME NEW c \in Card
      PROVE  /\ Ahead(proc'[p], c) + Queued(c)' <= Ahead(proc[p], c) + Queued(c)
             /\ Behind(proc'[p], c) <= Behind(proc[p], c)
  <2>1. /\ Queued(c) \in Nat /\ Queued(c)' \in Nat
        /\ Ahead(proc[p], c) \in Nat /\ Behind(proc[p], c) \in {0, 1}
    BY <1>1, Counts, PoolShape, OccNat DEF AInv, Fits, Pooled, Queued
  <2>2. QED
    BY <1>1, <1>4, <2>1, IdleFit
<1>8. QED
  BY <1>1, <1>4, <1>6, <1>7, OneSteps, IdleFit DEF Closers, Paired

(* A deletion and the way out.                                             *)
LEMMA CancelRunsMoves ==
    ASSUME AInv, NEW p \in Proc, NEW S, CancelRuns(S, [proc EXCEPT ![p] = Idle])
    PROVE  /\ OnlyMoves(p) /\ proc'[p].pc = "idle"
           /\ \A c \in Card : Ahead(proc'[p], c) = 0 /\ Behind(proc'[p], c) = 0
           /\ \A q \in Proc : q /= p =>
                 proc'[q] = IF \E c \in S : handle[c] = q THEN [proc[q] EXCEPT !.cancelled = TRUE] ELSE proc[q]
<1> DEFINE t == [proc EXCEPT ![p] = Idle]
<1>1. proc' = [q \in Proc |-> IF \E c \in S : handle[c] = q THEN [t[q] EXCEPT !.cancelled = TRUE] ELSE t[q]]
  BY DEF CancelRuns
<1>2. Fits /\ t[p] = Idle /\ \A q \in Proc : q /= p => t[q] = proc[q]
  BY DEF AInv, Fits
<1> HIDE DEF t
<1>3. \A q \in Proc : q /= p =>
          proc'[q] = IF \E c \in S : handle[c] = q THEN [proc[q] EXCEPT !.cancelled = TRUE] ELSE proc[q]
  BY <1>1, <1>2
<1>4. proc'[p] = Idle \/ proc'[p] = [Idle EXCEPT !.cancelled = TRUE]
  BY <1>1, <1>2
<1>5. /\ Fit(proc'[p]) /\ proc'[p].pc = "idle"
      /\ \A c \in Card : Ahead(proc'[p], c) = 0 /\ Behind(proc'[p], c) = 0
  BY <1>4, IdleTold
<1>6. \A q \in Proc : q /= p => Alike(proc'[q], proc[q])
  <2>1. ASSUME NEW q \in Proc, q /= p PROVE Alike(proc'[q], proc[q])
    <3>1. proc'[q] = [proc[q] EXCEPT !.cancelled = TRUE] \/ proc'[q] = proc[q]
      BY <1>3, <2>1
    <3>2. QED
      BY <1>2, <3>1, ToldAlike, AlikeSelf
  <2>2. QED
    BY <2>1
<1>7. proc' \in [Proc -> Thread]
  <2>1. \A q \in Proc : proc'[q] \in Thread
    BY <1>5, <1>6 DEF Alike, Fit
  <2>2. QED
    BY <1>1, <2>1
<1>8. QED
  BY <1>3, <1>5, <1>6, <1>7 DEF OnlyMoves

Closes(p) == Drop(p) \/ Empty(p) \/ CancelDropped(p) \/ CancelAllRuns(p)
After(p)  == IF Drop(p) THEN "empty" ELSE IF Empty(p) THEN "dropped" ELSE "idle"

LEMMA CloserSteps ==
    ASSUME AInv, Pointers, NEW p \in Proc, Closes(p)
    PROVE  /\ AInv' /\ \A c \in Card : Fewer(c)
           /\ OnlyMoves(p) /\ proc'[p].pc = After(p)
<1> DEFINE t == proc[p]
<1>1. t.pc \in Closers /\ Fits /\ Fit(t) /\ t \in Thread
  BY DEF Closes, Drop, Empty, CancelDropped, CancelAllRuns, At, Closers, AInv, Fits, Fit
<1>2. \A c \in Card : Ahead(t, c) \in Nat /\ Behind(t, c) \in {0, 1} /\ Queued(c) \in Nat
  BY <1>1, Counts, PoolShape, OccNat DEF AInv, Pooled, Queued
<1>3. CASE Drop(p) \/ Empty(p)
  <2> DEFINE x == IF Drop(p) THEN "empty" ELSE "dropped"
             d == IF Drop(p) THEN t.doomed ELSE IF orphan = None THEN {} ELSE orphan.running
             u == [t EXCEPT !.pc = x, !.doomed = d]
  <2>1. d \subseteq Card
    BY <1>1, PoolShape DEF Pointers, Thread
  <2>2. /\ u \in Thread /\ u.pc = x /\ u.todo = t.todo /\ u.own = t.own
    BY <1>1, <2>1 DEF Thread, PC
  <2>3. ~(Drop(p) /\ Empty(p))
    BY DEF Drop, Empty, At
  <2>4. proc' = [proc EXCEPT ![p] = u] /\ x = After(p) /\ x \in {"empty", "dropped"}
    BY <1>1, <1>3, <2>3 DEF Drop, Empty, Goes, Fits, Thread, After
  <2> HIDE DEF u, x, d
  <2>5. Fit(u)
    BY <1>1, <2>2, <2>4 DEF Fit, Closers, Carrying, Keyed, Holding
  <2>6. OnlyMoves(p) /\ proc'[p] = u
    BY <1>1, <2>4, <2>5, OnlyThread
  <2>7. Pooled' /\ \A c \in Card : Queued(c)' <= Queued(c)
    <3>1. CASE Drop(p)
      BY <1>2, <3>1 DEF Drop, store, AInv, Pooled, Queued
    <3>2. CASE Empty(p)
      <4>1. UNCHANGED pool /\ policy' \in Nat
        BY <3>2 DEF Empty, store, AInv, Pooled
      <4>2. QED
        BY <4>1, QueueKept DEF AInv
    <3>3. QED
      BY <1>3, <3>1, <3>2
  <2>8. \A c \in Card : /\ Ahead(u, c) + Queued(c)' <= Ahead(t, c) + Queued(c)
                        /\ Behind(u, c) <= Behind(t, c)
    <3>1. \A c \in Card : Ahead(u, c) = 0
      BY <2>2, <2>4, <2>5, Counts DEF Carrying, Starting
    <3>2. \A c \in Card : Behind(u, c) = Behind(t, c)
      BY <1>1, <2>2, <2>4 DEF Behind, Closers
    <3>3. \A c \in Card : Queued(c)' \in Nat
      BY <2>7, PoolShape, OccNat DEF Pooled, Queued
    <3>4. QED
      BY <1>2, <2>7, <3>1, <3>2, <3>3
  <2>9. QED
    BY <1>1, <1>3, <2>2, <2>4, <2>6, <2>7, <2>8, OneMoves DEF Closers, Paired
<1>4. CASE CancelDropped(p) \/ CancelAllRuns(p)
  <2>1. /\ \E S : CancelRuns(S, [proc EXCEPT ![p] = Idle])
        /\ After(p) = "idle" /\ UNCHANGED <<pool, policy>>
    BY <1>4 DEF CancelDropped, CancelAllRuns, At, Drop, Empty, After, store
  <2>2. PICK S : CancelRuns(S, [proc EXCEPT ![p] = Idle])
    BY <2>1
  <2>3. /\ OnlyMoves(p) /\ proc'[p].pc = "idle"
        /\ \A c \in Card : Ahead(proc'[p], c) = 0 /\ Behind(proc'[p], c) = 0
    BY <2>2, CancelRunsMoves
  <2>4. Pooled' /\ \A c \in Card : Queued(c)' <= Queued(c)
    BY <2>1, QueueKept DEF AInv, Pooled
  <2>5. \A c \in Card : Queued(c)' \in Nat
    BY <2>4, PoolShape, OccNat DEF Pooled, Queued
  <2>6. \A c \in Card : /\ Ahead(proc'[p], c) + Queued(c)' <= Ahead(t, c) + Queued(c)
                        /\ Behind(proc'[p], c) <= Behind(t, c)
    BY <1>2, <2>3, <2>4, <2>5
  <2>7. AInv' /\ \A c \in Card : Fewer(c)
    BY <1>1, <2>3, <2>4, <2>6, OneMoves DEF Closers, Paired
  <2>8. QED
    BY <2>1, <2>3, <2>7
<1>5. QED
  BY <1>3, <1>4 DEF Closes

(* The user's calls.                                                       *)
More(c) == Pending(c)' <= Pending(c) + 1 /\ Chains(c)' <= Chains(c) + 1

LEMMA FewerIsMore ==
    ASSUME AInv, AInv', NEW c \in Card, Fewer(c)
    PROVE  More(c)
BY PendingWithin, PendingNext DEF Countable, Fewer, More

LEMMA BeginSteps ==
    ASSUME AInv, Pooled', NEW t \in Thread, t.todo = <<>>, t.own = None,
           t.pc \in {"admit", "resolve", "cancel", "rebound", "drop", "quit"},
           t.pc \in Keyed => t.key \in Card, NewThread(t),
           \A c \in Card : Queued(c)' <= Queued(c)
    PROVE  /\ AInv' /\ \A c \in Card : More(c)
           /\ \E f \in Proc : /\ proc[f].pc = "idle" /\ proc' = [proc EXCEPT ![f] = t]
                              /\ OnlyMoves(f) /\ proc'[f] = t
<1> DEFINE f == CHOOSE q \in Free : TRUE
<1>1. Free /= {}
  <2>1. Free /= {} \/ Cardinality(Free) >= 2
    BY DEF NewThread
  <2>2. Free = {} => Cardinality(Free) = 0
    BY FS_EmptySet
  <2>3. QED
    BY <2>1, <2>2
<1>2. /\ Fits /\ f \in Proc /\ proc[f].pc = "idle" /\ \A c \in Card : Ahead(proc[f], c) = 0
      /\ proc' = [proc EXCEPT ![f] = t]
  BY <1>1, FreeFit DEF NewThread, AInv
<1> HIDE DEF f
<1>3. Fit(t)
  BY DEF Fit
<1>4. OnlyMoves(f) /\ proc'[f] = t
  BY <1>2, <1>3, OnlyThread
<1>5. Fits' /\ Pairing'
  BY <1>2, <1>4, OneFits DEF AInv, Paired
<1>6. /\ Tallied'
      /\ \A c \in Card :
            /\ Pending(c) \in Nat /\ Pending(c)' \in Nat /\ Chains(c) \in Nat /\ Chains(c)' \in Nat
            /\ Pending(c)' + Ahead(proc[f], c) + Queued(c) = Pending(c) + Ahead(proc'[f], c) + Queued(c)'
            /\ Chains(c)' + Ahead(proc[f], c) + Behind(proc[f], c) + Queued(c)
                 = Chains(c) + Ahead(proc'[f], c) + Behind(proc'[f], c) + Queued(c)'
  BY <1>2, <1>4, <1>5, OneCounts DEF AInv
<1>7. ASSUME NEW c \in Card PROVE More(c)
  <2>1. /\ Behind(proc[f], c) \in {0, 1} /\ Queued(c) \in Nat /\ Queued(c)' \in Nat
    BY <1>2, Counts, PoolShape, OccNat DEF AInv, Fits, Pooled, Queued
  <2>2. Occ(t.todo, c) = 0 /\ c /= None
    BY EmptySeq, OccNat, RunsAssumption
  <2>3. Ahead(t, c) \in {0, 1} /\ Behind(t, c) = 0
    BY <2>2 DEF Ahead, Behind
  <2>4. QED
    BY <1>2, <1>4, <1>6, <2>1, <2>3 DEF More
<1>8. QED
  BY <1>2, <1>4, <1>5, <1>6, <1>7 DEF AInv

LEMMA StayingSteps ==
    ASSUME AInv, Pooled', UNCHANGED proc, \A c \in Card : Queued(c)' <= Queued(c)
    PROVE  AInv' /\ \A c \in Card : Fewer(c) /\ More(c)
<1>1. Fits' /\ Pairing'
  BY DEF AInv, Fits, Pairing
<1>2. \A q \in Proc : \A c \in Card : /\ Ahead(proc'[q], c) <= Ahead(proc[q], c)
                                      /\ Behind(proc'[q], c) <= Behind(proc[q], c)
  <2>1. \A q \in Proc : \A c \in Card : Ahead(proc[q], c) \in Nat /\ Behind(proc[q], c) \in {0, 1}
    BY Counts DEF AInv, Fits
  <2>2. QED
    BY <2>1
<1>3. Tallied' /\ \A c \in Card : Fewer(c)
  BY <1>1, <1>2, NoneGrows DEF AInv
<1>4. QED
  BY <1>1, <1>3, FewerIsMore DEF AInv

(* A call begins a thread, or ends at once.                                *)
Opens(t) == \E f \in Proc : /\ proc[f].pc = "idle" /\ proc' = [proc EXCEPT ![f] = t]
                            /\ OnlyMoves(f) /\ proc'[f] = t

LEMMA CallThreadSteps ==
    ASSUME AInv, UNCHANGED pool, policy' \in Nat, NEW t \in Thread, t.todo = <<>>, t.own = None,
           t.pc \in {"admit", "resolve", "cancel", "rebound", "drop", "quit"},
           t.pc \in Keyed => t.key \in Card, NewThread(t)
    PROVE  AInv' /\ (\A c \in Card : More(c)) /\ Opens(t)
<1>1. Pooled' /\ \A c \in Card : Queued(c)' <= Queued(c)
  BY QueueKept DEF AInv
<1>2. QED
  BY <1>1, BeginSteps DEF Opens

LEMMA RunTeamTaskSteps ==
    ASSUME AInv, NEW c \in Card, RunTeamTask(c)
    PROVE  /\ AInv' /\ \A d \in Card : More(d)
           /\ Opens([Idle EXCEPT !.pc = "admit", !.key = c, !.max = policy])
<1> DEFINE t == [Idle EXCEPT !.pc = "admit", !.key = c, !.max = policy]
<1>1. policy \in Nat /\ policy' = policy /\ pool' = pool /\ NewThread(t)
  BY DEF RunTeamTask, store, AInv, Pooled
<1>2. t \in Thread /\ t.pc = "admit" /\ t.key = c /\ t.todo = <<>> /\ t.own = None
  BY <1>1, IdleFit DEF Thread, PC
<1> HIDE DEF t
<1>3. AInv' /\ (\A d \in Card : More(d)) /\ Opens(t)
  BY <1>1, <1>2, CallThreadSteps
<1>4. QED
  BY <1>3 DEF t

LEMMA CancelTeamTaskSteps ==
    ASSUME AInv, NEW c \in Card, CancelTeamTask(c)
    PROVE  /\ AInv' /\ \A d \in Card : More(d)
           /\ Opens([Idle EXCEPT !.pc = "cancel", !.key = c]) \/ UNCHANGED proc
<1> DEFINE t == [Idle EXCEPT !.pc = "cancel", !.key = c]
<1>1. policy' = policy /\ policy \in Nat
  BY DEF CancelTeamTask, store, AInv, Pooled
<1>2. CASE ~Waits(c)
  <2>1. NewThread(t) /\ pool' = pool
    BY <1>2 DEF CancelTeamTask, CallThread
  <2>2. t \in Thread /\ t.pc = "cancel" /\ t.key = c /\ t.todo = <<>> /\ t.own = None
    BY IdleFit DEF Thread, PC
  <2> HIDE DEF t
  <2>3. AInv' /\ (\A d \in Card : More(d)) /\ Opens(t)
    BY <1>1, <2>1, <2>2, CallThreadSteps
  <2>4. QED
    BY <2>3 DEF t
<1>3. CASE Waits(c)
  <2>1. pool /= None /\ pool' = Dequeued(pool, c) /\ proc' = proc
    BY <1>3 DEF CancelTeamTask, Waits
  <2>2. PoolOK(pool)
    BY <2>1 DEF AInv, Pooled
  <2>3. PoolOK(pool') /\ \A d \in Card : Occ(pool'.queue, d) <= Occ(pool.queue, d)
    BY <2>1, <2>2, DequeuedOK, DequeuedQueue
  <2>4. Pooled' /\ \A d \in Card : Queued(d)' = Occ(pool'.queue, d)
    BY <1>1, <2>3, PoolNow
  <2>5. \A d \in Card : Queued(d)' <= Queued(d)
    BY <2>1, <2>3, <2>4 DEF Queued
  <2>6. QED
    BY <2>1, <2>4, <2>5, StayingSteps
<1>4. QED
  BY <1>2, <1>3

LEMMA ApproveTeamTaskSteps ==
    ASSUME AInv, NEW c \in Card, ApproveTeamTask(c)
    PROVE  /\ AInv' /\ \A d \in Card : More(d)
           /\ Opens([Idle EXCEPT !.pc = "resolve", !.key = c]) \/ UNCHANGED proc
<1> DEFINE t == [Idle EXCEPT !.pc = "resolve", !.key = c]
<1>1. policy' \in Nat /\ pool' = pool
  BY DEF ApproveTeamTask, AInv, Pooled
<1>2. CASE NewThread(t)
  <2>1. t \in Thread /\ t.pc = "resolve" /\ t.key = c /\ t.todo = <<>> /\ t.own = None
    BY IdleFit DEF Thread, PC
  <2> HIDE DEF t
  <2>2. AInv' /\ (\A d \in Card : More(d)) /\ Opens(t)
    BY <1>1, <1>2, <2>1, CallThreadSteps
  <2>3. QED
    BY <2>2 DEF t
<1>3. CASE UNCHANGED proc
  BY <1>1, <1>3, QueueKept, StayingSteps DEF AInv
<1>4. QED
  BY <1>2, <1>3 DEF ApproveTeamTask

LEMMA DecisionSteps ==
    ASSUME AInv, NEW c \in Card,
           RejectTeamTask(c) \/ (\E g : SetTeamTaskApproval(c, g)) \/ (\E col : MoveTeamTask(c, col))
    PROVE  AInv' /\ (\A d \in Card : Fewer(d)) /\ UNCHANGED proc
<1>1. policy' \in Nat /\ pool' = pool /\ proc' = proc
  BY DEF RejectTeamTask, SetTeamTaskApproval, MoveTeamTask, AInv, Pooled
<1>2. QED
  BY <1>1, QueueKept, StayingSteps DEF AInv

LEMMA UpdateTeamProjectSteps ==
    ASSUME AInv, NEW max \in Bound, UpdateTeamProject(max)
    PROVE  /\ AInv' /\ \A d \in Card : More(d)
           /\ Opens([Idle EXCEPT !.pc = "rebound", !.max = max]) \/ UNCHANGED proc
<1> DEFINE t == [Idle EXCEPT !.pc = "rebound", !.max = max]
<1>1. max \in Nat /\ policy' = max /\ pool' = pool
  BY RunsAssumption DEF UpdateTeamProject
<1>2. CASE NewThread(t)
  <2>1. t \in Thread /\ t.pc = "rebound" /\ t.todo = <<>> /\ t.own = None
    BY <1>1, IdleFit DEF Thread, PC
  <2> HIDE DEF t
  <2>2. AInv' /\ (\A d \in Card : More(d)) /\ Opens(t)
    BY <1>1, <1>2, <2>1, CallThreadSteps DEF Keyed, Holding
  <2>3. QED
    BY <2>2 DEF t
<1>3. CASE UNCHANGED proc
  BY <1>1, <1>3, QueueKept, StayingSteps DEF AInv
<1>4. QED
  BY <1>2, <1>3 DEF UpdateTeamProject, CallThread

LEMMA DeleteTeamProjectSteps ==
    ASSUME AInv, DeleteTeamProject
    PROVE  AInv' /\ (\A d \in Card : More(d)) /\ Opens([Idle EXCEPT !.pc = "drop"])
<1> DEFINE t == [Idle EXCEPT !.pc = "drop"]
<1>1. policy' \in Nat /\ pool' = pool /\ NewThread(t)
  BY DEF DeleteTeamProject, CallThread, AInv, Pooled
<1>2. t \in Thread /\ t.pc = "drop" /\ t.todo = <<>> /\ t.own = None
  BY IdleFit DEF Thread, PC
<1> HIDE DEF t
<1>3. AInv' /\ (\A d \in Card : More(d)) /\ Opens(t)
  BY <1>1, <1>2, CallThreadSteps DEF Keyed, Holding
<1>4. QED
  BY <1>3 DEF t

LEMMA CancelAllTeamRunsSteps ==
    ASSUME AInv, CancelAllTeamRuns
    PROVE  AInv' /\ (\A d \in Card : More(d)) /\ Opens([Idle EXCEPT !.pc = "quit"])
<1> DEFINE t == [Idle EXCEPT !.pc = "quit"]
<1>1. policy' \in Nat /\ NewThread(t) /\ pool' = IF pool = None THEN None ELSE Emptied(pool)
  BY DEF CancelAllTeamRuns, CallThread, store, AInv, Pooled
<1>2. t \in Thread /\ t.pc = "quit" /\ t.todo = <<>> /\ t.own = None
  BY IdleFit DEF Thread, PC
<1> HIDE DEF t
<1>3. Pooled' /\ \A c \in Card : Queued(c)' <= Queued(c)
  <2>1. CASE pool = None
    BY <1>1, <2>1, QueueKept DEF AInv
  <2>2. CASE pool /= None
    <3>1. pool \in Pool
      BY <2>2 DEF AInv, Pooled
    <3>3. PoolOK(pool') /\ pool'.queue = <<>>
      BY <1>1, <2>2, <3>1, EmptiedOK
    <3>4. Pooled' /\ \A c \in Card : Queued(c)' = Occ(<<>>, c)
      BY <1>1, <3>3, PoolNow
    <3>5. \A c \in Card : Occ(<<>>, c) = 0 /\ Queued(c) \in Nat
      BY PoolShape, OccNat, EmptySeq DEF AInv, Pooled, Queued
    <3>6. QED
      BY <3>4, <3>5
  <2>3. QED
    BY <2>1, <2>2
<1>4. AInv' /\ (\A d \in Card : More(d)) /\ Opens(t)
  BY <1>2, <1>1, <1>3, BeginSteps DEF Opens, Keyed, Holding
<1>5. QED
  BY <1>4 DEF t

-----------------------------------------------------------------------------
(* The account of a card: its chains are calls of the user, and a chain    *)
(* goes round once for every attempt that its rounds leave.                *)
Account(c) == card[c].attempts + Pending(c)

Budgets ==
    /\ runs \in 0 .. MaxRuns /\ calls \in 0 .. MaxCalls /\ fails \in 0 .. MaxSaveFails
    /\ team \in BOOLEAN /\ quit \in BOOLEAN
    /\ handle \in [Card -> Proc \cup {None}]

Counted == \A c \in Card : /\ Chains(c) <= runs + calls
                           /\ Account(c) <= MaxRounds - 1 + (runs + calls)

LEMMA ThreadAttempts ==
    ASSUME CInv, NEW p \in Proc, ThreadStep(p), NEW c \in Card
    PROVE  /\ ~Flip(p) => card'[c].attempts = card[c].attempts
           /\ Flip(p) => card'[c].attempts =
                  card[c].attempts + IF team /\ c = Key(p) THEN 1 ELSE 0
<1> DEFINE k == Key(p)
<1>1. card \in [Card -> Cards] /\ card[c] \in Cards /\ card[c].attempts \in Nat
  BY DEF CInv, Cards
<1>2. CASE UNCHANGED card /\ ~Flip(p)
  BY <1>2
<1>3. ASSUME NEW s, Update(k, [card[k] EXCEPT !.status = s])
      PROVE  card'[c].attempts = card[c].attempts
  <2>1. [card[c] EXCEPT !.status = s].attempts = card[c].attempts
    BY <1>1 DEF Cards
  <2>2. card' = card \/ card' = [card EXCEPT ![k] = [card[k] EXCEPT !.status = s]]
    BY <1>3 DEF Update
  <2> HIDE DEF k
  <2>3. QED
    BY <1>1, <2>1, <2>2
<1>4. CASE Park(p)
  BY <1>3, <1>4 DEF Park, Flip, At
<1>5. CASE Flip(p)
  <2>1. card' = IF team THEN [card EXCEPT ![k] = Started(card[k])] ELSE card
    BY <1>5 DEF Flip, Update
  <2>2. Started(card[c]).attempts = card[c].attempts + 1
    BY <1>1 DEF Started, Cards
  <2> HIDE DEF k
  <2>3. card'[c].attempts = card[c].attempts + IF team /\ c = k THEN 1 ELSE 0
    BY <1>1, <2>1, <2>2
  <2>4. QED
    BY <1>5, <2>3 DEF k
<1>6. CASE Work(p)
  <2>1. PICK out \in {"ok", "fail", "cancelled"} : Update(k, Finished(card[k], out))
    BY <1>6 DEF Work
  <2>2. Finished(card[c], out).attempts = card[c].attempts
    BY <1>1, FinishedCard DEF Finished, Cards
  <2>3. card' = card \/ card' = [card EXCEPT ![k] = Finished(card[k], out)]
    BY <2>1 DEF Update
  <2>4. ~Flip(p)
    BY <1>6 DEF Work, Flip, At
  <2> HIDE DEF k
  <2>5. QED
    BY <1>1, <2>2, <2>3, <2>4
<1>7. CASE Replan(p)
  BY <1>2, <1>3, <1>7 DEF Replan, Flip, At
<1>8. CASE ~(Park(p) \/ Flip(p) \/ Work(p) \/ Replan(p))
  BY <1>2, <1>8 DEF ThreadStep, Resolve, Ensure, AdmitCard, Unpark, StartPromoted, Register,
         Unlaunch, Forget, Release, CancelRun, Rebound, Drop, Empty, CancelDropped, CancelAllRuns, store
<1>9. QED
  BY <1>4, <1>5, <1>6, <1>7, <1>8

LEMMA ThreadCounts ==
    ASSUME AInv, Pointers, NEW p \in Proc, ThreadStep(p)
    PROVE  /\ AInv'
           /\ \/ Flip(p) /\ Spends(Key(p))
              \/ ~Flip(p) /\ \A c \in Card : Fewer(c)
              \/ ~Flip(p) /\ Retries(Key(p)) /\ team /\ ~OutOfRounds(card[Key(p)])
<1>1. CASE Flip(p)
  BY <1>1, FlipSteps
<1>2. CASE Replan(p)
  <2>1. ~Flip(p)
    BY <1>2 DEF Replan, Flip, At
  <2>2. QED
    BY <1>2, <2>1, ReplanSteps
<1>3. CASE Closes(p)
  <2>1. ~Flip(p)
    BY <1>3 DEF Closes, Drop, Empty, CancelDropped, CancelAllRuns, Flip, At
  <2>2. QED
    BY <1>3, <2>1, CloserSteps
<1>4. CASE ~(Flip(p) \/ Replan(p) \/ Closes(p))
  <2>1. AInv' /\ Orderly
    BY <1>4, ResolveSteps, EnsureSteps, AdmitCardSteps, ParkSteps, LaunchSteps, UnlaunchSteps,
       WorkSteps, ReleaseSteps, ReboundSteps, CancelRunSteps DEF ThreadStep, Closes
  <2>2. QED
    BY <1>4, <2>1 DEF Orderly
<1>5. QED
  BY <1>1, <1>2, <1>3, <1>4

LEMMA ThreadBudgets ==
    ASSUME AInv, Budgets, NEW p \in Proc, ThreadStep(p)
    PROVE  Budgets' /\ UNCHANGED <<team, quit, runs, calls>>
<1>1. UNCHANGED <<team, quit, runs, calls>>
  BY DEF ThreadStep, Resolve, Ensure, AdmitCard, Park, Unpark, StartPromoted, Register, Flip,
         Unlaunch, Work, Forget, Release, Replan, CancelRun, Rebound, Drop, Empty, CancelDropped,
         CancelAllRuns, store, budgets
<1>2. fails' \in 0 .. MaxSaveFails
  <2>1. fails' = fails \/ (UpdateFails /\ Failing)
    BY DEF ThreadStep, Resolve, Ensure, AdmitCard, Park, Unpark, StartPromoted, Register, Flip,
         Unlaunch, Work, Forget, Release, Replan, CancelRun, Rebound, Drop, Empty, CancelDropped,
         CancelAllRuns, store, budgets
  <2>2. fails \in 0 .. MaxSaveFails /\ MaxSaveFails \in Nat
    BY RunsAssumption DEF Budgets
  <2>3. QED
    BY <2>1, <2>2 DEF UpdateFails, Failing
<1>3. handle' \in [Card -> Proc \cup {None}]
  <2>1. handle \in [Card -> Proc \cup {None}]
    BY DEF Budgets
  <2>2. CASE UNCHANGED handle
    BY <2>1, <2>2
  <2>3. CASE Launch(p)
    <3>1. Free /= {} /\ Fits
      BY <2>3 DEF Launch, AInv
    <3>2. (CHOOSE f \in Free : TRUE) \in Proc
      BY <3>1, FreeFit
    <3>3. QED
      BY <2>1, <2>3, <3>2 DEF Launch
  <2>4. CASE handle' = [handle EXCEPT ![Key(p)] = None]
    BY <2>1, <2>4
  <2>5. CASE \E S, t : CancelRuns(S, t)
    BY <2>1, <2>5 DEF CancelRuns
  <2>6. QED
    BY <2>2, <2>3, <2>4, <2>5
       DEF ThreadStep, Resolve, Ensure, AdmitCard, Park, Unpark, StartPromoted, Register, Flip,
         Unlaunch, Work, Forget, Release, Replan, CancelRun, Rebound, Drop, Empty, CancelDropped,
         CancelAllRuns
<1>4. QED
  BY <1>1, <1>2, <1>3 DEF Budgets

LEMMA UserBudgets ==
    ASSUME Budgets, User
    PROVE  Budgets' /\ runs' + calls' = runs + calls + 1
<1>0. /\ runs \in 0 .. MaxRuns /\ calls \in 0 .. MaxCalls /\ MaxRuns \in Nat /\ MaxCalls \in Nat
  BY RunsAssumption DEF Budgets
<1>1. /\ UNCHANGED handle /\ team' \in BOOLEAN /\ quit' \in BOOLEAN
      /\ \/ runs < MaxRuns /\ runs' = runs + 1 /\ calls' = calls
         \/ calls < MaxCalls /\ calls' = calls + 1 /\ runs' = runs
  BY DEF Budgets, User, RunTeamTask, CancelTeamTask, ApproveTeamTask, RejectTeamTask,
         SetTeamTaskApproval, MoveTeamTask, UpdateTeamProject, DeleteTeamProject,
         CancelAllTeamRuns, CallThread, Call, store
<1>2. runs' \in 0 .. MaxRuns /\ calls' \in 0 .. MaxCalls /\ runs' + calls' = runs + calls + 1
  BY <1>0, <1>1
<1>3. fails' = fails \/ (UpdateFails /\ Failing)
  BY DEF User, RunTeamTask, CancelTeamTask, ApproveTeamTask, RejectTeamTask,
         SetTeamTaskApproval, MoveTeamTask, UpdateTeamProject, DeleteTeamProject,
         CancelAllTeamRuns
<1>4. fails' \in 0 .. MaxSaveFails
  <2>1. fails \in 0 .. MaxSaveFails /\ MaxSaveFails \in Nat
    BY RunsAssumption DEF Budgets
  <2>2. QED
    BY <1>3, <2>1 DEF UpdateFails, Failing
<1>5. QED
  BY <1>1, <1>2, <1>4 DEF Budgets

(* A card dragged to doing counts as started, by the user.                 *)
LEMMA MovedAttempts ==
    ASSUME NEW c \in Cards, NEW column \in Column
    PROVE  Moved(c, column).attempts <= c.attempts + 1
<1>1. c.attempts \in Nat
  BY DEF Cards
<1>2. Decided(c, column) \in Cards /\ Decided(c, column).attempts = c.attempts
  <2>1. LET d == [c EXCEPT !.decision = "approved"] IN d \in Cards /\ d.attempts = c.attempts
    BY SetDecision DEF Decision, Cards
  <2>2. QED
    BY <2>1 DEF Decided
<1>3. CASE column = "approval"
  <2> DEFINE g == IF c.gate = "none" THEN "after" ELSE c.gate
  <2>1. Moved(c, column) = [c EXCEPT !.gate = g, !.decision = "pending", !.status = "waiting"]
    BY <1>3 DEF Moved, Cards
  <2> HIDE DEF g
  <2>2. [c EXCEPT !.gate = g, !.decision = "pending", !.status = "waiting"].attempts = c.attempts
    BY DEF Cards
  <2>3. QED
    BY <1>1, <2>1, <2>2
<1>4. CASE column = "backlog"
  <2>1. Moved(c, column) = [c EXCEPT !.status = "queued", !.decision = "none"]
    BY <1>4 DEF Moved
  <2>2. [c EXCEPT !.status = "queued", !.decision = "none"].attempts = c.attempts
    BY DEF Cards
  <2>3. QED
    BY <1>1, <2>1, <2>2
<1>5. CASE column = "ready"
  <2> DEFINE d == Decided(c, column)
  <2>1. Moved(c, column) = [d EXCEPT !.status = "queued"] /\ d \in Cards /\ d.attempts = c.attempts
    BY <1>2, <1>5 DEF Moved
  <2> HIDE DEF d
  <2>2. QED
    BY <1>1, <2>1 DEF Cards
<1>6. CASE column \notin {"approval", "backlog", "ready"}
  <2> DEFINE d == Decided(c, column)
             to == StateFor[column]
             n == IF to = "running" THEN d.attempts + 1 ELSE d.attempts
             e == IF to = "succeeded" THEN "none" ELSE d.decision
             m == [d EXCEPT !.status = to, !.attempts = n, !.decision = e]
  <2>1. Moved(c, column) = c \/ Moved(c, column) = m
    BY <1>6 DEF Moved
  <2>2. d \in Cards /\ d.attempts = c.attempts
    BY <1>2
  <2> HIDE DEF d, to, e
  <2>3. n <= c.attempts + 1
    BY <1>1, <2>2
  <2> HIDE DEF n
  <2>4. m.attempts = n
    BY <2>2 DEF Cards
  <2> HIDE DEF m
  <2>5. QED
    BY <1>1, <2>1, <2>3, <2>4
<1>7. QED
  BY <1>3, <1>4, <1>5, <1>6

LEMMA UserCounts ==
    ASSUME AInv, CInv, User
    PROVE  /\ AInv' /\ \A c \in Card : More(c)
           /\ \/ \A c \in Card : card'[c].attempts = card[c].attempts
              \/ /\ \A c \in Card : card'[c].attempts <= card[c].attempts + 1
                 /\ \A c \in Card : Fewer(c)
<1>1. card \in [Card -> Cards] /\ \A c \in Card : card[c] \in Cards /\ card[c].attempts \in Nat
  BY DEF CInv, Cards
<1>2. ASSUME NEW k \in Card, NEW state, Update(k, state), state.attempts = card[k].attempts
      PROVE  \A c \in Card : card'[c].attempts = card[c].attempts
  BY <1>1, <1>2 DEF Update
<1>3. CASE \E c \in Card : RunTeamTask(c)
  BY <1>3, RunTeamTaskSteps DEF RunTeamTask, store
<1>4. CASE \E c \in Card : CancelTeamTask(c)
  BY <1>4, CancelTeamTaskSteps DEF CancelTeamTask, store
<1>5. ASSUME NEW k \in Card, NEW b \in BOOLEAN
      PROVE  ResolveApproval(card[k], b).attempts = card[k].attempts
  BY <1>1 DEF ResolveApproval, Cards
<1>6. CASE \E c \in Card : ApproveTeamTask(c)
  <2>1. PICK k \in Card : ApproveTeamTask(k)
    BY <1>6
  <2>2. Update(k, ResolveApproval(card[k], TRUE))
    BY <2>1 DEF ApproveTeamTask
  <2>3. \A c \in Card : card'[c].attempts = card[c].attempts
    BY <1>2, <1>5, <2>2
  <2>4. QED
    BY <2>1, <2>3, ApproveTeamTaskSteps
<1>7. CASE \E c \in Card : RejectTeamTask(c)
  <2>1. PICK k \in Card : RejectTeamTask(k)
    BY <1>7
  <2>2. Update(k, ResolveApproval(card[k], FALSE))
    BY <2>1 DEF RejectTeamTask
  <2>3. \A c \in Card : card'[c].attempts = card[c].attempts
    BY <1>2, <1>5, <2>2
  <2>4. AInv' /\ \A c \in Card : Fewer(c)
    BY <2>1, DecisionSteps
  <2>5. QED
    BY <2>3, <2>4, FewerIsMore
<1>8. CASE \E c \in Card : \E g \in Gate \ {card[c].gate} : SetTeamTaskApproval(c, g)
  <2>1. PICK k \in Card, g \in Gate : SetTeamTaskApproval(k, g)
    BY <1>8
  <2>2. /\ Update(k, [card[k] EXCEPT !.gate = g, !.decision = "none"])
        /\ [card[k] EXCEPT !.gate = g, !.decision = "none"].attempts = card[k].attempts
    BY <1>1, <2>1 DEF SetTeamTaskApproval, Cards
  <2>3. \A c \in Card : card'[c].attempts = card[c].attempts
    BY <1>2, <2>2
  <2>4. AInv' /\ \A c \in Card : Fewer(c)
    BY <2>1, DecisionSteps
  <2>5. QED
    BY <2>3, <2>4, FewerIsMore
<1>9. CASE \E c \in Card : \E col \in Column : MoveTeamTask(c, col)
  <2>1. PICK k \in Card, col \in Column : MoveTeamTask(k, col)
    BY <1>9
  <2>2. /\ Update(k, Moved(card[k], col))
        /\ Moved(card[k], col).attempts <= card[k].attempts + 1
    BY <1>1, <2>1, MovedAttempts DEF MoveTeamTask
  <2>3. \A c \in Card : card'[c].attempts <= card[c].attempts + 1
    BY <1>1, <2>2 DEF Update
  <2>4. AInv' /\ \A c \in Card : Fewer(c)
    BY <2>1, DecisionSteps
  <2>5. QED
    BY <2>3, <2>4, FewerIsMore
<1>10. CASE \E max \in Bound : UpdateTeamProject(max)
  BY <1>10, UpdateTeamProjectSteps DEF UpdateTeamProject
<1>11. CASE DeleteTeamProject
  BY <1>11, DeleteTeamProjectSteps DEF DeleteTeamProject
<1>12. CASE CancelAllTeamRuns
  BY <1>12, CancelAllTeamRunsSteps DEF CancelAllTeamRuns, store
<1>13. QED
  BY <1>3, <1>4, <1>6, <1>7, <1>8, <1>9, <1>10, <1>11, <1>12 DEF User

-----------------------------------------------------------------------------
(* The phases of a team.  It is open until its deletion takes the pool     *)
(* away, taken until that pool is emptied, and left from then on, unless a *)
(* call that came too late makes it a new pool or is admitted to the old   *)
(* one.  A program that quits has none of them.                            *)
Dropping == \E q \in Proc : At(q, "drop")
Emptying == \E q \in Proc : At(q, "empty")
Kept     == IF orphan = None THEN {} ELSE orphan.running
Open     == ~quit /\ (team \/ Dropping)
Taken    == ~quit /\ ~team /\ ~Dropping /\ Emptying /\ pool = None
Left     == ~quit /\ ~team /\ ~Dropping /\ ~Emptying /\ pool = None /\ Kept = {}

Deleting == {"drop", "empty", "dropped"}

OneDrop ==
    /\ \A p, q \in Proc : proc[p].pc \in Deleting /\ proc[q].pc \in Deleting => p = q
    /\ team => \A p \in Proc : proc[p].pc \notin Deleting
    /\ ~quit => \A p \in Proc : proc[p].pc /= "quit"
    /\ team \/ Dropping => orphan = None /\ strays = {}

LEMMA ThreadClosers ==
    ASSUME AInv, Pointers, NEW p \in Proc, ThreadStep(p)
    PROVE  \/ SameClosers /\ ~Closes(p)
           \/ Closes(p) /\ OnlyMoves(p) /\ proc'[p].pc = After(p)
<1>1. CASE Closes(p)
  BY <1>1, CloserSteps
<1>2. CASE ~Closes(p)
  BY <1>2, ResolveSteps, EnsureSteps, AdmitCardSteps, ParkSteps, LaunchSteps, FlipSteps,
     UnlaunchSteps, WorkSteps, ReleaseSteps, ReplanSteps, ReboundSteps, CancelRunSteps
     DEF ThreadStep, Orderly, Closes
<1>3. QED
  BY <1>1, <1>2

(* A call of the user begins a thread, or ends at once.                    *)
Calls(X) == \E t : Opens(t) /\ t.pc \in X /\ t.todo = <<>>

LEMMA CallBegins ==
    ASSUME NEW x, NEW k, NEW m,
           \/ Opens([Idle EXCEPT !.pc = x])
           \/ Opens([Idle EXCEPT !.pc = x, !.key = k])
           \/ Opens([Idle EXCEPT !.pc = x, !.max = m])
           \/ Opens([Idle EXCEPT !.pc = x, !.key = k, !.max = m])
    PROVE  Calls({x})
<1>1. CASE Opens([Idle EXCEPT !.pc = x])
  <2> DEFINE t == [Idle EXCEPT !.pc = x]
  <2>1. Opens(t) /\ t.pc = x /\ t.todo = <<>>
    BY <1>1 DEF Idle
  <2> HIDE DEF t
  <2>2. QED
    BY <2>1 DEF Calls
<1>2. CASE Opens([Idle EXCEPT !.pc = x, !.key = k])
  <2> DEFINE t == [Idle EXCEPT !.pc = x, !.key = k]
  <2>1. Opens(t) /\ t.pc = x /\ t.todo = <<>>
    BY <1>2 DEF Idle
  <2> HIDE DEF t
  <2>2. QED
    BY <2>1 DEF Calls
<1>3. CASE Opens([Idle EXCEPT !.pc = x, !.max = m])
  <2> DEFINE t == [Idle EXCEPT !.pc = x, !.max = m]
  <2>1. Opens(t) /\ t.pc = x /\ t.todo = <<>>
    BY <1>3 DEF Idle
  <2> HIDE DEF t
  <2>2. QED
    BY <2>1 DEF Calls
<1>4. CASE Opens([Idle EXCEPT !.pc = x, !.key = k, !.max = m])
  <2> DEFINE t == [Idle EXCEPT !.pc = x, !.key = k, !.max = m]
  <2>1. Opens(t) /\ t.pc = x /\ t.todo = <<>>
    BY <1>4 DEF Idle
  <2> HIDE DEF t
  <2>2. QED
    BY <2>1 DEF Calls
<1>5. QED
  BY <1>1, <1>2, <1>3, <1>4

LEMMA UserCalls ==
    ASSUME AInv, User
    PROVE  \/ /\ UNCHANGED proc \/ Calls({"admit", "resolve", "cancel", "rebound"})
              /\ ~DeleteTeamProject /\ ~CancelAllTeamRuns
           \/ DeleteTeamProject /\ Calls({"drop"})
           \/ CancelAllTeamRuns /\ Calls({"quit"})
<1> DEFINE Some == Calls({"admit", "resolve", "cancel", "rebound"})
<1>1. CASE DeleteTeamProject
  BY <1>1, DeleteTeamProjectSteps, CallBegins
<1>2. CASE CancelAllTeamRuns
  BY <1>2, CancelAllTeamRunsSteps, CallBegins
<1>3. \A x \in {"admit", "resolve", "cancel", "rebound"} : Calls({x}) => Some
  BY DEF Calls
<1> HIDE DEF Some
<1>4. ASSUME NEW c \in Card, RunTeamTask(c) PROVE Some
  BY <1>3, <1>4, RunTeamTaskSteps, CallBegins
<1>5. ASSUME NEW c \in Card, CancelTeamTask(c) PROVE Some \/ UNCHANGED proc
  BY <1>3, <1>5, CancelTeamTaskSteps, CallBegins
<1>6. ASSUME NEW c \in Card, ApproveTeamTask(c) PROVE Some \/ UNCHANGED proc
  BY <1>3, <1>6, ApproveTeamTaskSteps, CallBegins
<1>7. ASSUME NEW max \in Bound, UpdateTeamProject(max) PROVE Some \/ UNCHANGED proc
  BY <1>3, <1>7, UpdateTeamProjectSteps, CallBegins
<1>8. ASSUME NEW c \in Card,
             RejectTeamTask(c) \/ (\E g : SetTeamTaskApproval(c, g)) \/ (\E col : MoveTeamTask(c, col))
      PROVE  UNCHANGED proc
  BY <1>8, DecisionSteps
<1>9. CASE ~DeleteTeamProject /\ ~CancelAllTeamRuns
  <2>1. Some \/ UNCHANGED proc
    BY <1>4, <1>5, <1>6, <1>7, <1>8, <1>9 DEF User
  <2>2. QED
    BY <1>9, <2>1 DEF Some
<1>10. QED
  BY <1>1, <1>2, <1>9

LEMMA UserClosers ==
    ASSUME NEW X, X \cap Closers = {}, UNCHANGED proc \/ Calls(X)
    PROVE  SameClosers
<1>1. CASE UNCHANGED proc
  BY <1>1 DEF SameClosers
<1>2. CASE Calls(X)
  <2>1. PICK t : Opens(t) /\ t.pc \notin Closers
    BY <1>2 DEF Calls
  <2>2. QED
    BY <2>1 DEF Opens, OnlyMoves, Alike, SameClosers, Closers
<1>3. QED
  BY <1>1, <1>2

(* The team and the program are switched off by one call each.             *)
LEMMA UserPhase ==
    ASSUME Budgets, User
    PROVE  /\ team' <=> team /\ ~DeleteTeamProject
           /\ quit' <=> quit \/ CancelAllTeamRuns
<1> DEFINE Off == DeleteTeamProject
           Out == CancelAllTeamRuns
<1>1. /\ Off => team /\ ~team' /\ quit' = quit
      /\ Out => ~quit /\ quit' /\ team' = team
  BY DEF DeleteTeamProject, CancelAllTeamRuns, store
<1>2. ~Off /\ ~Out => team' = team /\ quit' = quit
  BY DEF User, RunTeamTask, CancelTeamTask, ApproveTeamTask, RejectTeamTask,
         SetTeamTaskApproval, MoveTeamTask, UpdateTeamProject, store
<1> HIDE DEF Off, Out
<1>3. (team' <=> team /\ ~Off) /\ (quit' <=> quit \/ Out)
  <2>1. Off => ~Out
    BY <1>1
  <2>2. CASE Off
    BY <1>1, <2>1, <2>2
  <2>3. CASE Out
    BY <1>1, <2>1, <2>3
  <2>4. CASE ~Off /\ ~Out
    BY <1>2, <2>4
  <2>5. QED
    BY <2>2, <2>3, <2>4
<1>4. QED
  BY <1>3 DEF Off, Out

(* A pool stays in the map, and a pool taken from it keeps its grants,     *)
(* until the deletion's two steps.                                         *)
LEMMA PoolStays ==
    ASSUME AInv, NEW p \in Proc, ThreadStep(p), ~Drop(p), pool /= None
    PROVE  pool' /= None
<1>1. PoolOK(pool) /\ Fit(proc[p])
  BY DEF AInv, Pooled, Fits
<1>2. CASE UNCHANGED pool
  BY <1>2
<1>3. CASE AdmitCard(p) /\ p \notin strays
  <2>1. Key(p) \in Card /\ pool' = Admitted(pool, Key(p))
    BY <1>1, <1>3 DEF AdmitCard, At, Key, Fit, Keyed
  <2>2. PoolOK(pool')
    BY <1>1, <2>1, AdmittedOK
  <2>3. QED
    BY <2>2, RunsAssumption DEF PoolOK
<1>4. CASE Unpark(p) /\ p \notin strays
  <2>1. Key(p) \in Card /\ pool' = Dequeued(pool, Key(p))
    BY <1>1, <1>4 DEF Unpark, At, Key, Fit, Keyed
  <2>2. PoolOK(pool')
    BY <1>1, <2>1, DequeuedOK
  <2>3. QED
    BY <2>2, RunsAssumption DEF PoolOK
<1>5. CASE Release(p)
  <2>1. Key(p) \in Card /\ pool' = Released(pool, Key(p))
    BY <1>1, <1>5 DEF Release, At, Key, Fit, Keyed, Holding
  <2>2. PoolOK(pool')
    BY <1>1, <2>1, ReleasedOK
  <2>3. QED
    BY <2>2, RunsAssumption DEF PoolOK
<1>6. CASE Rebound(p)
  <2>1. proc[p].max \in Nat /\ pool' = Rebounded(pool, proc[p].max)
    BY <1>1, <1>6 DEF Rebound, Fit, Thread
  <2>2. PoolOK(pool')
    BY <1>1, <2>1, ReboundedOK
  <2>3. QED
    BY <2>2, RunsAssumption DEF PoolOK
<1>7. (AdmitCard(p) \/ Unpark(p)) /\ p \in strays => UNCHANGED pool
  BY DEF AdmitCard, Unpark
<1>8. ~(AdmitCard(p) \/ Unpark(p) \/ Release(p) \/ Rebound(p)) => UNCHANGED pool
  BY DEF ThreadStep, Resolve, Ensure, Park, StartPromoted, Register, Flip, Unlaunch,
         Work, Forget, Replan, CancelRun, Empty, CancelDropped, CancelAllRuns
<1>9. QED
  BY <1>2, <1>3, <1>4, <1>5, <1>6, <1>7, <1>8

LEMMA OrphanSteps ==
    ASSUME AInv, Pointers, NEW p \in Proc, ThreadStep(p)
    PROVE  /\ ~Drop(p) /\ ~Empty(p) => Kept \subseteq Kept'
           /\ ~Drop(p) /\ orphan /= None => orphan' /= None
           /\ ~Drop(p) => (UNCHANGED orphan \/ Empty(p) \/ p \in strays)
           /\ orphan' \in Pool \cup {None} /\ (orphan' /= None => PoolOK(orphan'))
<1>1. Fit(proc[p]) /\ orphan \in Pool \cup {None} /\ (orphan /= None => PoolOK(orphan))
  BY DEF AInv, Fits, Pointers
<1>2. CASE UNCHANGED orphan
  BY <1>1, <1>2 DEF Kept
<1>3. CASE (AdmitCard(p) \/ Unpark(p)) /\ p \in strays
  <2>1. Key(p) \in Card /\ orphan /= None
    BY <1>1, <1>3 DEF AdmitCard, Unpark, At, Key, Fit, Keyed, Pointers, HasPool
  <2>2. orphan' = Admitted(orphan, Key(p)) \/ orphan' = Dequeued(orphan, Key(p))
    BY <1>3 DEF AdmitCard, Unpark
  <2>3. PoolOK(orphan') /\ orphan.running \subseteq orphan'.running
    BY <1>1, <2>1, <2>2, AdmittedOK, DequeuedOK
  <2>4. orphan' \in Pool /\ orphan' /= None
    BY <2>3, RunsAssumption DEF PoolOK
  <2>5. QED
    BY <1>3, <2>1, <2>3, <2>4 DEF Kept
<1>4. CASE Drop(p)
  BY <1>4 DEF Drop, AInv, Pooled
<1>5. CASE Empty(p)
  <2>1. CASE orphan = None
    BY <1>5, <2>1 DEF Empty
  <2>2. CASE orphan /= None
    <3>1. PoolOK(orphan')
      BY <1>1, <1>5, <2>2, EmptiedOK DEF Empty
    <3>2. orphan' \in Pool /\ orphan' /= None
      BY <3>1, RunsAssumption DEF PoolOK
    <3>3. QED
      BY <1>5, <3>1, <3>2
  <2>3. QED
    BY <2>1, <2>2
<1>6. (AdmitCard(p) \/ Unpark(p)) /\ p \notin strays => UNCHANGED orphan
  BY DEF AdmitCard, Unpark
<1>7. ~(AdmitCard(p) \/ Unpark(p) \/ Drop(p) \/ Empty(p)) => UNCHANGED orphan
  BY DEF ThreadStep, Resolve, Ensure, Park, StartPromoted, Register, Flip, Unlaunch,
         Work, Forget, Release, Replan, CancelRun, Rebound, CancelDropped, CancelAllRuns, dropped
<1>8. QED
  BY <1>2, <1>3, <1>4, <1>5, <1>6, <1>7

LEMMA StraysSteps ==
    ASSUME NEW p \in Proc, ThreadStep(p), ~Drop(p)
    PROVE  strays' = strays \/ (Ensure(p) /\ strays' = strays \ {p})
BY DEF ThreadStep, Resolve, Ensure, AdmitCard, Park, Unpark, StartPromoted, Register, Flip, Unlaunch,
       Work, Forget, Release, Replan, CancelRun, Rebound, Empty, CancelDropped, CancelAllRuns, dropped

(* Each phase follows the one before; only a drop ends an open team, and   *)
(* only its second step a taken one.                                       *)
LEMMA CloserPhase ==
    ASSUME OneDrop, team' = team, quit' = quit, NEW p \in Proc, Closes(p),
           \A q \in Proc : q /= p => proc'[q].pc = proc[q].pc, proc'[p].pc = After(p)
    PROVE  /\ Drop(p) => Dropping /\ ~Dropping' /\ ~team /\ Emptying' /\ ~Empty(p)
           /\ Empty(p) => ~Dropping /\ ~Dropping' /\ ~team /\ Emptying /\ ~Emptying'
           /\ ~Drop(p) /\ ~Empty(p) => (Dropping' <=> Dropping) /\ (Emptying' <=> Emptying)
           /\ CancelDropped(p) => ~Dropping /\ ~team /\ ~Emptying
           /\ CancelAllRuns(p) => quit
           /\ \A q, r \in Proc : proc'[q].pc \in Deleting /\ proc'[r].pc \in Deleting => q = r
           /\ team => \A q \in Proc : proc'[q].pc \notin Deleting
           /\ ~quit => \A q \in Proc : proc'[q].pc /= "quit"
<1>1. /\ Drop(p) => proc[p].pc = "drop" /\ proc'[p].pc = "empty"
      /\ Empty(p) => proc[p].pc = "empty" /\ proc'[p].pc = "dropped"
      /\ CancelDropped(p) => proc[p].pc = "dropped" /\ proc'[p].pc = "idle"
      /\ CancelAllRuns(p) => proc[p].pc = "quit" /\ proc'[p].pc = "idle"
      /\ Drop(p) \/ Empty(p) \/ CancelDropped(p) \/ CancelAllRuns(p)
  BY DEF Closes, After, Drop, Empty, CancelDropped, CancelAllRuns, At
<1>2. Drop(p) => Dropping /\ ~Dropping' /\ ~team /\ Emptying' /\ ~Empty(p)
  BY <1>1 DEF OneDrop, Dropping, Emptying, At, Deleting
<1>3. Empty(p) => ~Dropping /\ ~Dropping' /\ ~team /\ Emptying /\ ~Emptying'
  BY <1>1 DEF OneDrop, Dropping, Emptying, At, Deleting
<1>4. ~Drop(p) /\ ~Empty(p) => (Dropping' <=> Dropping) /\ (Emptying' <=> Emptying)
  BY <1>1 DEF Dropping, Emptying, At
<1>5. CancelDropped(p) => ~Dropping /\ ~team /\ ~Emptying
  BY <1>1 DEF OneDrop, Dropping, Emptying, At, Deleting
<1>6. CancelAllRuns(p) => quit
  BY <1>1 DEF OneDrop
<1>7. /\ \A q \in Proc : proc'[q].pc \in Deleting => proc[q].pc \in Deleting
      /\ \A q \in Proc : proc'[q].pc = "quit" => proc[q].pc = "quit"
  BY <1>1 DEF Deleting
<1>8. QED
  BY <1>2, <1>3, <1>4, <1>5, <1>6, <1>7 DEF OneDrop

LEMMA ThreadPhase ==
    ASSUME AInv, Pointers, Budgets, OneDrop, NEW p \in Proc, ThreadStep(p)
    PROVE  /\ OneDrop'
           /\ (Open' => Open) /\ (Taken' => Open \/ Taken) /\ (Left' => Taken \/ Left)
           /\ Open => ~Empty(p) /\ ~CancelDropped(p) /\ ~CancelAllRuns(p)
           /\ Open /\ Open' => ~Drop(p)
           /\ Open /\ Taken' => Drop(p)
           /\ Taken => ~Drop(p) /\ ~CancelDropped(p) /\ ~CancelAllRuns(p)
           /\ Taken /\ Taken' => ~Empty(p)
           /\ Taken /\ Left' => Empty(p)
           /\ Left => ~Drop(p) /\ ~Empty(p) /\ ~CancelAllRuns(p)
<1>1. UNCHANGED <<team, quit>>
  BY ThreadBudgets
<1>2. ~Drop(p) => (pool /= None => pool' /= None)
  BY PoolStays
<1>3. ~Drop(p) /\ ~Empty(p) => Kept \subseteq Kept'
  BY OrphanSteps
<1>4. (team \/ Dropping) /\ ~Drop(p) /\ ~Empty(p) => orphan' = None /\ strays' = {}
  BY OrphanSteps, StraysSteps DEF OneDrop
<1>5. CASE SameClosers /\ ~Closes(p)
  <2>1. \A q \in Proc : proc[q].pc \in Closers \/ proc'[q].pc \in Closers => proc'[q].pc = proc[q].pc
    BY <1>5 DEF SameClosers
  <2>2. (Dropping' <=> Dropping) /\ (Emptying' <=> Emptying)
    BY <2>1 DEF Dropping, Emptying, At, Closers
  <2>3. ~Drop(p) /\ ~Empty(p) /\ ~CancelDropped(p) /\ ~CancelAllRuns(p)
    BY <1>5 DEF Closes
  <2>4. OneDrop'
    <3>1. \A q \in Proc : /\ proc'[q].pc \in Deleting => proc[q].pc \in Deleting
                          /\ proc'[q].pc = "quit" => proc[q].pc = "quit"
      BY <2>1 DEF Closers, Deleting
    <3>2. QED
      BY <1>1, <1>4, <2>2, <2>3, <3>1 DEF OneDrop
  <2>5. QED
    BY <1>1, <1>2, <1>3, <2>2, <2>3, <2>4 DEF Open, Taken, Left
<1>6. CASE Closes(p) /\ OnlyMoves(p) /\ proc'[p].pc = After(p)
  <2>1. \A q \in Proc : q /= p => proc'[q].pc = proc[q].pc
    BY <1>6 DEF OnlyMoves, Alike
  <2>2. /\ Drop(p) => Dropping /\ ~Dropping' /\ ~team /\ Emptying' /\ ~Empty(p)
        /\ Empty(p) => ~Dropping /\ ~Dropping' /\ ~team /\ Emptying /\ ~Emptying'
        /\ ~Drop(p) /\ ~Empty(p) => (Dropping' <=> Dropping) /\ (Emptying' <=> Emptying)
        /\ CancelDropped(p) => ~Dropping /\ ~team /\ ~Emptying
        /\ CancelAllRuns(p) => quit
    BY <1>1, <1>6, <2>1, CloserPhase
  <2>3. /\ \A q, r \in Proc : proc'[q].pc \in Deleting /\ proc'[r].pc \in Deleting => q = r
        /\ team => \A q \in Proc : proc'[q].pc \notin Deleting
        /\ ~quit => \A q \in Proc : proc'[q].pc /= "quit"
    BY <1>1, <1>6, <2>1, CloserPhase
  <2>4. OneDrop'
    BY <1>1, <1>4, <2>2, <2>3 DEF OneDrop
  <2>5. CASE Drop(p)
    BY <1>1, <2>2, <2>4, <2>5 DEF Open, Taken, Left
  <2>6. CASE Empty(p)
    BY <1>1, <1>2, <2>2, <2>4, <2>6 DEF Open, Taken, Left
  <2>7. CASE ~Drop(p) /\ ~Empty(p)
    BY <1>1, <1>2, <1>3, <2>2, <2>4, <2>7 DEF Open, Taken, Left
  <2>8. QED
    BY <2>5, <2>6, <2>7
<1>7. QED
  BY <1>5, <1>6, ThreadClosers

LEMMA UserPoolStays ==
    ASSUME AInv, User, pool /= None
    PROVE  pool' /= None
<1>1. CASE UNCHANGED pool
  BY <1>1
<1>2. CASE \E c \in Card : pool' = Dequeued(pool, c)
  <2>1. PoolOK(pool')
    BY <1>2, DequeuedOK DEF AInv, Pooled
  <2>2. QED
    BY <2>1, RunsAssumption DEF PoolOK
<1>3. CASE pool' = Emptied(pool)
  <2>1. PoolOK(pool')
    BY <1>3, EmptiedOK DEF AInv, Pooled
  <2>2. QED
    BY <2>1, RunsAssumption DEF PoolOK
<1>4. QED
  BY <1>1, <1>2, <1>3
     DEF User, RunTeamTask, CancelTeamTask, ApproveTeamTask, RejectTeamTask, SetTeamTaskApproval,
         MoveTeamTask, UpdateTeamProject, DeleteTeamProject, CancelAllTeamRuns

(* A call of the user leaves the runs and the cancel functions alone.      *)
LEMMA UserShape ==
    ASSUME User
    PROVE  UNCHANGED <<handle, orphan, strays>>
BY DEF dropped, User, RunTeamTask, CancelTeamTask, ApproveTeamTask, RejectTeamTask,
       SetTeamTaskApproval, MoveTeamTask, UpdateTeamProject, DeleteTeamProject, CancelAllTeamRuns

LEMMA UserPhases ==
    ASSUME AInv, Budgets, OneDrop, User
    PROVE  /\ OneDrop'
           /\ (Open' => Open) /\ (Taken' => Taken) /\ (Left' => Left)
           /\ Taken' \/ Left' => UNCHANGED proc \/ Calls({"admit", "resolve", "cancel", "rebound"})
<1>0. orphan' = orphan /\ strays' = strays /\ Kept' = Kept
  BY UserShape DEF Kept
<1>1. CASE DeleteTeamProject /\ Calls({"drop"})
  <2>1. PICK t : Opens(t) /\ t.pc = "drop"
    BY <1>1 DEF Calls
  <2>2. PICK f \in Proc : /\ proc'[f].pc = "drop" /\ proc[f].pc = "idle"
                          /\ \A q \in Proc : q /= f => proc'[q].pc = proc[q].pc
    BY <2>1 DEF Opens, OnlyMoves, Alike
  <2>3. ~CancelAllTeamRuns /\ team
    BY <1>1 DEF DeleteTeamProject, CancelAllTeamRuns
  <2>4. Dropping'
    BY <2>2 DEF Dropping, At
  <2>5. OneDrop'
    BY <1>0, <1>1, <2>2, <2>3, UserPhase DEF OneDrop, Deleting
  <2>6. QED
    BY <1>1, <2>3, <2>4, <2>5, UserPhase DEF Open, Taken, Left
<1>2. CASE CancelAllTeamRuns /\ Calls({"quit"})
  <2>1. PICK t : Opens(t) /\ t.pc = "quit"
    BY <1>2 DEF Calls
  <2>2. PICK f \in Proc : /\ proc'[f].pc = "quit" /\ proc[f].pc = "idle"
                          /\ \A q \in Proc : q /= f => proc'[q].pc = proc[q].pc
    BY <2>1 DEF Opens, OnlyMoves, Alike
  <2>3. quit' /\ (team' => team)
    BY <1>2, UserPhase
  <2>4. Dropping' => Dropping
    BY <2>2 DEF Dropping, At
  <2>5. OneDrop'
    BY <1>0, <2>2, <2>3, <2>4 DEF OneDrop, Deleting
  <2>6. QED
    BY <2>3, <2>5 DEF Open, Taken, Left
<1>3. CASE /\ UNCHANGED proc \/ Calls({"admit", "resolve", "cancel", "rebound"})
           /\ ~DeleteTeamProject /\ ~CancelAllTeamRuns
  <2>1. (team' <=> team) /\ (quit' <=> quit)
    BY <1>3, UserPhase
  <2>2. SameClosers
    BY <1>3, UserClosers DEF Closers
  <2>3. \A q \in Proc : proc[q].pc \in Closers \/ proc'[q].pc \in Closers => proc'[q].pc = proc[q].pc
    BY <2>2 DEF SameClosers
  <2>4. (Dropping' <=> Dropping) /\ (Emptying' <=> Emptying)
    BY <2>3 DEF Dropping, Emptying, At, Closers
  <2>5. OneDrop'
    <3>1. \A q \in Proc : /\ proc'[q].pc \in Deleting => proc[q].pc \in Deleting
                          /\ proc'[q].pc = "quit" => proc[q].pc = "quit"
      BY <2>3 DEF Closers, Deleting
    <3>2. QED
      BY <1>0, <2>1, <2>4, <3>1 DEF OneDrop
  <2>6. pool /= None => pool' /= None
    BY UserPoolStays
  <2>7. QED
    BY <1>0, <1>3, <2>1, <2>4, <2>5, <2>6 DEF Open, Taken, Left
<1>4. QED
  BY <1>1, <1>2, <1>3, UserCalls

-----------------------------------------------------------------------------
(* What a step does to the cancel functions and to the runs: most steps    *)
(* move one thread and leave both alone.                                   *)
Others(p) == \A q \in Proc : q /= p => proc'[q] = proc[q]

Quiet(p) ==
    /\ handle' = handle /\ Others(p)
    /\ proc'[p].pc \notin {"work", "flip"} /\ proc[p].pc /= "reserved"
    /\ proc'[p].pc \in HasPool => proc[p].pc \in HasPool \cup {"admit"}
    /\ pool' = None => \/ Kept' = Kept /\ Held(proc'[p]) \subseteq Held(proc[p])
                       \/ \E c \in Card \ Kept : Kept' = Kept \cup {c} /\ Held(proc'[p]) \subseteq {c}

Launched(p, r) ==
    /\ r \in Proc \ {p} /\ proc[r].pc = "idle"
    /\ proc[p].pc \in {"register", "promoted"} /\ proc[p].key \in Card
    /\ handle' = [handle EXCEPT ![proc[p].key] = r]
    /\ proc'[p].pc = "flip" /\ proc'[p].key = proc[p].key /\ proc'[p].sub = r
    /\ proc'[r].pc = "reserved"
    /\ \A q \in Proc : q /= p /\ q /= r => proc'[q] = proc[q]
    /\ Held(proc'[p]) \subseteq Held(proc[p]) /\ Held(proc'[r]) = {}

Unlaunched(p, r) ==
    /\ proc[p].pc = "unlaunch" /\ proc[p].key \in Card /\ proc[p].sub = r /\ r \in Proc \ {p}
    /\ handle' = [handle EXCEPT ![proc[p].key] = None]
    /\ proc'[p].pc = "release" /\ proc'[r] = Idle
    /\ \A q \in Proc : q /= p /\ q /= r => proc'[q] = proc[q]
    /\ Held(proc'[p]) \subseteq Held(proc[p])

Begun(p, r) ==
    /\ team /\ proc[p].pc = "flip" /\ proc[p].sub = r /\ r \in Proc \ {p}
    /\ handle' = handle
    /\ proc'[p].pc \notin {"work", "flip"}
    /\ proc'[r].pc = "work" /\ proc'[r].key = proc[p].key /\ proc'[r].cancelled = proc[r].cancelled
    /\ \A q \in Proc : q /= p /\ q /= r => proc'[q] = proc[q]

Forgot(p) ==
    /\ proc[p].pc = "forget" /\ proc[p].key \in Card
    /\ handle' = [handle EXCEPT ![proc[p].key] = None]
    /\ proc'[p].pc = "release" /\ Others(p)
    /\ Held(proc'[p]) \subseteq Held(proc[p])

Stopped(p) ==
    /\ proc[p].pc = "cancel" /\ proc[p].key \in Card
    /\ handle' = [handle EXCEPT ![proc[p].key] = None]
    /\ proc'[p] = Idle
    /\ \A q \in Proc : q /= p =>
          proc'[q] = IF q = handle[proc[p].key] THEN [proc[q] EXCEPT !.cancelled = TRUE] ELSE proc[q]

LEMMA HeldParts ==
    ASSUME NEW t \in Thread
    PROVE  Held(Rest(t)) \subseteq Elems(t.todo) /\ Elems(t.todo) \subseteq Held(t)
<1>1. CASE t.todo /= <<>>
  <2>1. t.todo \in Seq(Card)
    BY DEF Thread
  <2>2. Elems(t.todo) = {Head(t.todo)} \cup Elems(Tail(t.todo))
    BY <1>1, <2>1, HeadOnce
  <2>3. Rest(t).key = Head(t.todo) /\ Rest(t).todo = Tail(t.todo)
    BY <1>1 DEF Rest, Idle
  <2>4. QED
    BY <2>2, <2>3 DEF Held
<1>2. CASE t.todo = <<>>
  <2>1. Rest(t).todo = <<>> /\ Rest(t).pc \notin Holding
    BY <1>2 DEF Rest, Idle, Holding
  <2>2. QED
    BY <2>1, EmptyOnce DEF Held
<1>3. QED
  BY <1>1, <1>2

LEMMA GoesHeld ==
    ASSUME AInv, NEW p \in Proc, NEW x, Goes(p, x), x \in Holding => proc[p].pc \in Holding
    PROVE  Others(p) /\ proc'[p].pc = x /\ Held(proc'[p]) \subseteq Held(proc[p])
<1>1. proc \in [Proc -> Thread] /\ proc[p] \in Thread
  BY DEF AInv, Fits
<1>2. proc'[p].pc = x /\ proc'[p].key = proc[p].key /\ proc'[p].todo = proc[p].todo /\ Others(p)
  BY <1>1 DEF Goes, Others, Thread
<1>3. QED
  BY <1>2 DEF Held

LEMMA ContinuesHeld ==
    ASSUME AInv, NEW p \in Proc, Continues(p)
    PROVE  /\ Others(p) /\ proc'[p].pc \in {"promoted", "replan", "idle"}
           /\ Held(proc'[p]) \subseteq Held(proc[p])
<1>1. proc \in [Proc -> Thread] /\ proc[p] \in Thread
  BY DEF AInv, Fits
<1>2. proc'[p] = Rest(proc[p]) /\ Others(p)
  BY <1>1 DEF Continues, Others
<1>3. QED
  BY <1>1, <1>2, HeldParts, RestFit

LEMMA QuietSteps ==
    ASSUME AInv, Pointers, NEW p \in Proc,
           \/ Resolve(p) \/ Park(p) \/ Unpark(p) \/ Work(p) \/ Replan(p)
           \/ Ensure(p) \/ AdmitCard(p) \/ Release(p) \/ Rebound(p)
    PROVE  Quiet(p)
<1>1. proc \in [Proc -> Thread] /\ proc[p] \in Thread /\ Fit(proc[p])
  BY DEF AInv, Fits
<1>2. CASE Resolve(p)
  <2>0. proc[p].pc = "resolve" /\ handle' = handle /\ Kept' = Kept
    BY <1>2 DEF Resolve, At, dropped, Kept
  <2>1. CASE Continues(p)
    BY <2>0, <2>1, ContinuesHeld DEF Quiet, HasPool
  <2>2. CASE proc' = [proc EXCEPT ![p].pc = "admit", ![p].max = policy]
    <3>1. /\ proc'[p].pc = "admit" /\ proc'[p].todo = proc[p].todo /\ Others(p)
      BY <1>1, <2>2 DEF Others, Thread
    <3>2. QED
      BY <2>0, <3>1 DEF Quiet, Held, Holding, HasPool
  <2>3. QED
    BY <1>2, <2>1, <2>2 DEF Resolve
<1>3. CASE Park(p)
  <2>0. proc[p].pc = "park" /\ handle' = handle /\ Kept' = Kept
    BY <1>3 DEF Park, At, dropped, Kept
  <2>1. /\ Others(p) /\ proc'[p].pc \in {"promoted", "replan", "idle", "unpark"}
        /\ Held(proc'[p]) \subseteq Held(proc[p])
    BY <1>3, ContinuesHeld, GoesHeld DEF Park, Holding
  <2>2. QED
    BY <2>0, <2>1 DEF Quiet, HasPool
<1>4. CASE Unpark(p)
  <2>0. proc[p].pc = "unpark" /\ handle' = handle
    BY <1>4 DEF Unpark, At
  <2>1. Kept' = Kept
    <3>1. CASE p \in strays
      <4>1. Key(p) \in Card /\ orphan /= None /\ PoolOK(orphan)
        BY <1>1, <2>0, <3>1 DEF Key, Fit, Keyed, Pointers, HasPool
      <4>2. orphan' = Dequeued(orphan, Key(p))
        BY <1>4, <3>1 DEF Unpark
      <4>3. PoolOK(orphan') /\ orphan'.running = orphan.running
        BY <4>1, <4>2, DequeuedOK
      <4>4. orphan' /= None
        BY <4>3, RunsAssumption DEF PoolOK
      <4>5. QED
        BY <4>1, <4>3, <4>4 DEF Kept
    <3>2. CASE p \notin strays
      BY <1>4, <3>2 DEF Unpark, Kept
    <3>3. QED
      BY <3>1, <3>2
  <2>2. /\ Others(p) /\ proc'[p].pc \in {"promoted", "replan", "idle"}
        /\ Held(proc'[p]) \subseteq Held(proc[p])
    BY <1>4, ContinuesHeld DEF Unpark
  <2>3. QED
    BY <2>0, <2>1, <2>2 DEF Quiet, HasPool
<1>5. CASE Work(p)
  <2>1. proc[p].pc = "work" /\ handle' = handle /\ Kept' = Kept
    BY <1>5 DEF Work, At, dropped, Kept
  <2>2. Others(p) /\ proc'[p].pc = "forget" /\ Held(proc'[p]) \subseteq Held(proc[p])
    BY <1>5, <2>1, GoesHeld DEF Work, Holding
  <2>3. QED
    BY <2>1, <2>2 DEF Quiet, HasPool
<1>6. CASE Replan(p)
  <2>0. proc[p].pc = "replan" /\ handle' = handle /\ Kept' = Kept
    BY <1>6 DEF Replan, At, dropped, Kept
  <2>1. \/ proc' = [proc EXCEPT ![p] = Idle]
        \/ proc' = [proc EXCEPT ![p] = [Idle EXCEPT !.pc = "resolve", !.key = Key(p)]]
    BY <1>6 DEF Replan
  <2>2. proc'[p].pc \in {"idle", "resolve"} /\ proc'[p].todo = <<>> /\ Others(p)
    <3> DEFINE u == [Idle EXCEPT !.pc = "resolve", !.key = Key(p)]
    <3>1. u.pc = "resolve" /\ u.todo = <<>> /\ Idle.pc = "idle" /\ Idle.todo = <<>>
      BY DEF Idle
    <3> HIDE DEF u
    <3>2. proc' = [proc EXCEPT ![p] = Idle] \/ proc' = [proc EXCEPT ![p] = u]
      BY <2>1 DEF u
    <3>3. QED
      BY <1>1, <3>1, <3>2 DEF Others
  <2>3. Held(proc'[p]) = {}
    BY <2>2, EmptyOnce DEF Held, Holding
  <2>4. QED
    BY <2>0, <2>2, <2>3 DEF Quiet, HasPool
<1>7. CASE Ensure(p)
  <2>0. proc[p].pc = "admit" /\ handle' = handle
    BY <1>7 DEF Ensure, At
  <2>1. pool' /= None
    <3>1. CASE pool = None
      <4>1. PoolOK(pool')
        BY <1>1, <1>7, <3>1, NewPoolOK DEF Ensure, Thread
      <4>2. QED
        BY <4>1, RunsAssumption DEF PoolOK
    <3>2. CASE pool /= None
      BY <1>7, <3>2 DEF Ensure
    <3>3. QED
      BY <3>1, <3>2
  <2>2. Others(p) /\ proc'[p].pc = "ask"
    BY <1>1, <1>7 DEF Ensure, Goes, Others, Thread
  <2>3. QED
    BY <2>0, <2>1, <2>2 DEF Quiet
<1>8. CASE AdmitCard(p)
  <2> DEFINE q == PoolOf(p)
             k == Key(p)
             a == Admit(q, k)
  <2>0. /\ proc[p].pc = "ask" /\ handle' = handle /\ k \in Card
        /\ proc[p].todo = <<>> /\ Held(proc[p]) = {}
    BY <1>1, <1>8, EmptyOnce DEF AdmitCard, At, Key, Fit, Keyed, Carrying, Held, Holding
  <2>1. PoolOK(q)
    BY <2>0, PoolGiven DEF AInv, HasPool
  <2>2. /\ p \in strays => q = orphan /\ orphan' = Admitted(q, k)
        /\ p \notin strays => pool' = Admitted(q, k)
        /\ a = "duplicate" => Continues(p)
        /\ a = "queued" => Goes(p, "park")
        /\ a = "running" => Goes(p, "register")
    BY <1>8 DEF AdmitCard, PoolOf
  <2> HIDE DEF q, k
  <2>3. /\ PoolOK(Admitted(q, k)) /\ a \in {"duplicate", "queued", "running"}
        /\ a = "running" => k \notin q.running /\ Admitted(q, k).running = q.running \cup {k}
        /\ a /= "running" => Admitted(q, k).running = q.running
    BY <2>0, <2>1, AdmittedOK
  <2>4. Admitted(q, k) /= None /\ q /= None
    BY <2>1, <2>3, RunsAssumption DEF PoolOK
  <2> HIDE DEF a
  <2>5. /\ Others(p) /\ proc'[p].pc \in {"promoted", "replan", "idle", "park", "register"}
        /\ a /= "running" => Held(proc'[p]) = {}
        /\ a = "running" => Held(proc'[p]) \subseteq {k}
    <3>1. CASE a = "duplicate"
      BY <2>0, <2>2, <3>1, ContinuesHeld
    <3>2. CASE a = "queued"
      BY <2>0, <2>2, <3>2, GoesHeld DEF Holding
    <3>3. CASE a = "running"
      <4>1. /\ Others(p) /\ proc'[p].pc = "register" /\ proc'[p].key = proc[p].key
            /\ proc'[p].todo = <<>>
        BY <1>1, <2>0, <2>2, <3>3 DEF Goes, Others, Thread
      <4>2. Held(proc'[p]) \subseteq {k}
        BY <4>1, EmptyOnce DEF Held, Key, k
      <4>3. QED
        BY <3>3, <4>1, <4>2
    <3>4. QED
      BY <2>3, <3>1, <3>2, <3>3
  <2>6. pool' = None => \/ Kept' = Kept /\ Held(proc'[p]) \subseteq Held(proc[p])
                        \/ \E c \in Card \ Kept : Kept' = Kept \cup {c} /\ Held(proc'[p]) \subseteq {c}
    <3>1. CASE p \in strays /\ a = "running"
      <4>1. Kept = q.running /\ Kept' = q.running \cup {k} /\ k \notin Kept
        BY <2>2, <2>3, <2>4, <3>1 DEF Kept
      <4>2. QED
        BY <2>0, <2>5, <3>1, <4>1
    <3>2. CASE p \in strays /\ a /= "running"
      <4>1. Kept = q.running /\ Kept' = q.running
        BY <2>2, <2>3, <2>4, <3>2 DEF Kept
      <4>2. QED
        BY <2>5, <3>2, <4>1
    <3>3. CASE p \notin strays
      BY <2>2, <2>4, <3>3
    <3>4. QED
      BY <3>1, <3>2, <3>3
  <2>7. QED
    BY <2>0, <2>5, <2>6 DEF Quiet, HasPool
<1>9. CASE Release(p)
  <2>0. proc[p].pc = "release" /\ handle' = handle /\ Kept' = Kept
    BY <1>9 DEF Release, At, dropped, Kept
  <2>1. CASE pool = None
    <3>1. /\ Others(p) /\ proc'[p].pc \in {"promoted", "replan", "idle"}
          /\ Held(proc'[p]) \subseteq Held(proc[p])
      BY <1>9, <2>1, ContinuesHeld DEF Release
    <3>2. QED
      BY <2>0, <3>1 DEF Quiet, HasPool
  <2>2. CASE pool /= None
    <3>1. pool' /= None
      BY <1>9, <2>2, PoolStays DEF ThreadStep, Release, Drop, At
    <3>2. \E t : proc'[p] = Rest(t) /\ Others(p)
      BY <1>1, <1>9, <2>2 DEF Release, Others
    <3>3. proc'[p].pc \in {"promoted", "replan", "idle"} /\ Others(p)
      BY <3>2 DEF Rest, Idle
    <3>4. QED
      BY <2>0, <3>1, <3>3 DEF Quiet, HasPool
  <2>3. QED
    BY <2>1, <2>2
<1>10. CASE Rebound(p)
  <2>0. proc[p].pc = "rebound" /\ handle' = handle
    BY <1>10 DEF Rebound, At
  <2>1. pool' /= None
    <3>1. proc[p].max \in Nat
      BY <1>1 DEF Thread
    <3>2. PoolOK(pool')
      <4>1. CASE pool = None
        BY <1>10, <3>1, <4>1, NewPoolOK DEF Rebound
      <4>2. CASE pool /= None
        BY <1>10, <3>1, <4>2, ReboundedOK DEF Rebound, AInv, Pooled
      <4>3. QED
        BY <4>1, <4>2
    <3>3. QED
      BY <3>2, RunsAssumption DEF PoolOK
  <2>2. \E t : proc'[p] = Rest(t) /\ Others(p)
    BY <1>1, <1>10 DEF Rebound, Continues, Others
  <2>3. proc'[p].pc \in {"promoted", "replan", "idle"} /\ Others(p)
    BY <2>2 DEF Rest, Idle
  <2>4. QED
    BY <2>0, <2>1, <2>3 DEF Quiet, HasPool
<1>11. QED
  BY <1>2, <1>3, <1>4, <1>5, <1>6, <1>7, <1>8, <1>9, <1>10

LEMMA LaunchShape ==
    ASSUME AInv, Budgets, NEW p \in Proc, Register(p) \/ StartPromoted(p)
    PROVE  Quiet(p) \/ \E r : Launched(p, r)
<1> DEFINE r == CHOOSE f \in Free : TRUE
           t == proc[p]
           u == [t EXCEPT !.pc = "flip", !.sub = r]
           w == [Idle EXCEPT !.pc = "reserved", !.key = Key(p), !.own = Key(p)]
<1>1. t.pc \in {"register", "promoted"}
  BY DEF Register, StartPromoted, At
<1>2. CASE Goes(p, "release") /\ UNCHANGED handle
  BY <1>1, <1>2, GoesHeld DEF Quiet, Holding, HasPool, Kept, Register, StartPromoted, dropped
<1>3. CASE Launch(p)
  <2>1. /\ Fits /\ t \in Thread /\ t.key \in Card
        /\ r \in Proc /\ proc[r].pc = "idle"
    BY <1>1, <1>3, FreeFit DEF Launch, AInv, Fits, Fit, Keyed, Holding
  <2>2. /\ proc' = [proc EXCEPT ![p].pc = "flip", ![p].sub = r, ![r] = w]
        /\ handle' = [handle EXCEPT ![t.key] = r]
    BY <1>3 DEF Launch, Key
  <2>3. p /= r
    BY <1>1, <2>1
  <2> HIDE DEF r
  <2>4. u.pc = "flip" /\ u.key = t.key /\ u.sub = r /\ u.todo = t.todo
    BY <2>1 DEF Thread
  <2>5. w.pc = "reserved" /\ w.todo = <<>>
    BY DEF Idle
  <2>6. \A q \in Proc : proc'[q] = IF q = p THEN u ELSE IF q = r THEN w ELSE proc[q]
    BY <2>1, <2>2, <2>3 DEF Fits
  <2> HIDE DEF u, w
  <2>7. Held(u) \subseteq Held(t) /\ Held(w) = {}
    BY <1>1, <2>4, <2>5, EmptyOnce DEF Held, Holding
  <2>8. Launched(p, r)
    BY <1>1, <2>1, <2>2, <2>3, <2>4, <2>5, <2>6, <2>7 DEF Launched
  <2>9. QED
    BY <2>8
<1>4. QED
  BY <1>2, <1>3 DEF Register, StartPromoted

LEMMA FlipShape ==
    ASSUME AInv, Budgets, NEW p \in Proc, Flip(p)
    PROVE  Quiet(p) \/ \E r : Begun(p, r)
<1> DEFINE t == proc[p]
           r == t.sub
<1>1. /\ t.pc = "flip" /\ r \in Proc /\ proc[r].pc = "reserved" /\ proc[r].key = t.key
      /\ Fits /\ t \in Thread /\ proc[r] \in Thread /\ handle' = handle
  BY DEF Flip, At, AInv, Pairing, Paired, Fits
<1>2. CASE Goes(p, "unlaunch")
  BY <1>1, <1>2, GoesHeld DEF Quiet, Holding, HasPool, Kept, Flip, dropped
<1>3. CASE team /\ proc' = [proc EXCEPT ![p] = Rest(@), ![proc[p].sub].pc = "work"]
  <2> DEFINE w == [proc[r] EXCEPT !.pc = "work"]
  <2>1. p /= r
    BY <1>1
  <2>2. \A q \in Proc : proc'[q] = IF q = p THEN Rest(t) ELSE IF q = r THEN w ELSE proc[q]
    BY <1>1, <1>3, <2>1 DEF Fits
  <2>3. w.pc = "work" /\ w.key = t.key /\ w.cancelled = proc[r].cancelled
    BY <1>1 DEF Thread
  <2>4. Rest(t).pc \in {"promoted", "replan", "idle"}
    BY <1>1, RestFit
  <2> HIDE DEF w
  <2>5. Begun(p, r)
    BY <1>1, <1>3, <2>1, <2>2, <2>3, <2>4 DEF Begun
  <2>6. QED
    BY <2>5
<1>4. QED
  BY <1>2, <1>3 DEF Flip

LEMMA UnlaunchShape ==
    ASSUME AInv, NEW p \in Proc, Unlaunch(p)
    PROVE  \E r : Unlaunched(p, r)
<1> DEFINE t == proc[p]
           r == t.sub
           u == [t EXCEPT !.sub = None, !.pc = "release"]
<1>1. /\ t.pc = "unlaunch" /\ r \in Proc /\ proc[r].pc = "reserved"
      /\ Fits /\ t \in Thread /\ t.key \in Card
  BY DEF Unlaunch, At, AInv, Pairing, Paired, Fits, Fit, Keyed, Holding
<1>2. /\ proc' = [proc EXCEPT ![r] = Idle, ![p].sub = None, ![p].pc = "release"]
      /\ handle' = [handle EXCEPT ![t.key] = None]
  BY DEF Unlaunch, Key
<1>3. p /= r
  BY <1>1
<1>4. \A q \in Proc : proc'[q] = IF q = p THEN u ELSE IF q = r THEN Idle ELSE proc[q]
  BY <1>1, <1>2, <1>3 DEF Fits
<1>5. u.pc = "release" /\ u.key = t.key /\ u.todo = t.todo
  BY <1>1 DEF Thread
<1> HIDE DEF u
<1>6. Held(u) \subseteq Held(t)
  BY <1>1, <1>5 DEF Held, Holding
<1>7. Unlaunched(p, r)
  BY <1>1, <1>2, <1>3, <1>4, <1>5, <1>6 DEF Unlaunched
<1>8. QED
  BY <1>7

LEMMA StopShape ==
    ASSUME AInv, NEW p \in Proc, Forget(p) \/ CancelRun(p)
    PROVE  Forgot(p) \/ Stopped(p)
<1>1. proc \in [Proc -> Thread] /\ Fit(proc[p])
  BY DEF AInv, Fits
<1>2. CASE Forget(p)
  BY <1>1, <1>2, GoesHeld DEF Forget, At, Key, Forgot, Fit, Keyed, Holding
<1>3. CASE CancelRun(p)
  BY <1>1, <1>3 DEF CancelRun, At, Key, Stopped, Fit, Keyed
<1>4. QED
  BY <1>2, <1>3

LEMMA ThreadShape ==
    ASSUME AInv, Pointers, Budgets, NEW p \in Proc, ThreadStep(p)
    PROVE  \/ Quiet(p) \/ Forgot(p) \/ Stopped(p)
           \/ \E r : Launched(p, r) \/ Unlaunched(p, r) \/ Begun(p, r)
           \/ Closes(p)
BY QuietSteps, LaunchShape, FlipShape, UnlaunchShape, StopShape DEF ThreadStep, Closes

LEMMA CallQuiet ==
    ASSUME AInv, UNCHANGED <<handle, orphan>>, NEW X, X \cap (Holding \cup HasPool \cup {"work", "flip"}) = {},
           Calls(X)
    PROVE  \E p \in Proc : Quiet(p)
<1>1. PICK t : Opens(t) /\ t.pc \in X /\ t.todo = <<>>
  BY DEF Calls
<1>2. PICK p \in Proc : proc[p].pc = "idle" /\ proc' = [proc EXCEPT ![p] = t] /\ proc'[p] = t
  BY <1>1 DEF Opens
<1>3. Held(t) = {}
  BY <1>1, EmptyOnce DEF Held
<1>4. Others(p)
  BY <1>2 DEF Others, AInv, Fits
<1>5. QED
  BY <1>1, <1>2, <1>3, <1>4 DEF Quiet, Kept

-----------------------------------------------------------------------------
(* Pointers, accounts and deletions, whatever the phase.                   *)
NInv == AInv /\ Pointers /\ OneDrop /\ CInv /\ Budgets /\ Counted

LEMMA StoppedThreads ==
    ASSUME Fits, NEW p \in Proc, Stopped(p), NEW q \in Proc, q /= p
    PROVE  /\ proc'[q].pc = proc[q].pc /\ proc'[q].key = proc[q].key /\ proc'[q].sub = proc[q].sub
           /\ proc'[q].todo = proc[q].todo /\ proc'[q].doomed = proc[q].doomed
           /\ Held(proc'[q]) = Held(proc[q])
           /\ proc[q].cancelled => proc'[q].cancelled
           /\ q = handle[proc[p].key] => proc'[q].cancelled
<1>1. proc[q] \in Thread
  BY DEF Fits
<1>2. \/ proc'[q] = proc[q] /\ q /= handle[proc[p].key]
      \/ proc'[q] = [proc[q] EXCEPT !.cancelled = TRUE]
  BY DEF Stopped
<1>3. /\ proc'[q].pc = proc[q].pc /\ proc'[q].key = proc[q].key /\ proc'[q].sub = proc[q].sub
      /\ proc'[q].todo = proc[q].todo /\ proc'[q].doomed = proc[q].doomed
      /\ proc[q].cancelled => proc'[q].cancelled
      /\ q = handle[proc[p].key] => proc'[q].cancelled
  BY <1>1, <1>2 DEF Thread
<1>4. QED
  BY <1>3 DEF Held

(* Only Ensure gives a thread a pointer to a pool.                         *)
LEMMA OnlyEnsure ==
    ASSUME AInv, Pointers, Budgets, NEW p \in Proc, ThreadStep(p), NEW q \in Proc, proc'[q].pc \in HasPool
    PROVE  proc[q].pc \in HasPool \/ (q = p /\ Ensure(p))
<1>1. proc[p].pc = "admit" => Ensure(p)
  BY DEF ThreadStep, Resolve, AdmitCard, Park, Unpark, StartPromoted, Register, Flip, Unlaunch, Work,
         Forget, Release, Replan, CancelRun, Rebound, Drop, Empty, CancelDropped, CancelAllRuns, At
<1>2. CASE Quiet(p)
  BY <1>1, <1>2 DEF Quiet, Others
<1>3. CASE Forgot(p) \/ \E r : Launched(p, r) \/ Unlaunched(p, r)
  BY <1>3, IdleFit DEF Forgot, Launched, Unlaunched, Others, HasPool, Idle
<1>4. CASE \E r : Begun(p, r)
  <2>1. PICK r : Begun(p, r)
    BY <1>4
  <2>2. proc'[p].pc \notin HasPool
    <3>1. Flip(p)
      BY <2>1 DEF Begun, ThreadStep, Resolve, Ensure, AdmitCard, Park, Unpark, StartPromoted, Register,
             Unlaunch, Work, Forget, Release, Replan, CancelRun, Rebound, Drop, Empty, CancelDropped,
             CancelAllRuns, At
    <3>2. proc'[p].pc \in {"promoted", "replan", "idle", "unlaunch"}
      <4>1. Fits /\ proc[p] \in Thread /\ proc[p].sub \in Proc \ {p}
        BY <2>1 DEF AInv, Fits, Begun
      <4>2. CASE Goes(p, "unlaunch")
        BY <4>1, <4>2 DEF Goes, Fits, Thread
      <4>3. CASE proc' = [proc EXCEPT ![p] = Rest(@), ![proc[p].sub].pc = "work"]
        <5>1. proc'[p] = Rest(proc[p])
          BY <4>1, <4>3 DEF Fits
        <5>2. QED
          BY <4>1, <5>1, RestFit DEF Fits
      <4>4. QED
        BY <3>1, <4>2, <4>3 DEF Flip
    <3>3. QED
      BY <3>2 DEF HasPool
  <2>3. QED
    BY <2>1, <2>2 DEF Begun, HasPool
<1>5. CASE Stopped(p)
  <2>1. q /= p
    BY <1>5 DEF Stopped, Idle, HasPool
  <2>2. QED
    BY <1>5, <2>1, StoppedThreads DEF AInv
<1>6. CASE Closes(p)
  <2>1. OnlyMoves(p) /\ proc'[p].pc \notin HasPool
    BY <1>6, CloserSteps DEF After, HasPool
  <2>2. QED
    BY <2>1 DEF OnlyMoves, Alike
<1>7. QED
  BY <1>2, <1>3, <1>4, <1>5, <1>6, ThreadShape

LEMMA ThreadPointers ==
    ASSUME AInv, Pointers, Budgets, OneDrop, NEW p \in Proc, ThreadStep(p)
    PROVE  Pointers'
<1>1. /\ orphan' \in Pool \cup {None} /\ (orphan' /= None => PoolOK(orphan'))
      /\ ~Drop(p) /\ orphan /= None => orphan' /= None
  BY OrphanSteps
<1>2. CASE Drop(p)
  <2>1. Dropping /\ strays = {} /\ ~Ensure(p)
    BY <1>2 DEF Drop, Ensure, Dropping, At, OneDrop
  <2>2. orphan' = pool /\ strays' = {q \in Proc : proc[q].pc \in HasPool}
    BY <1>2 DEF Drop
  <2>3. \A q \in Proc : proc'[q].pc \in HasPool => q \in strays' /\ pool /= None
    BY <2>1, <2>2, OnlyEnsure DEF Pointers
  <2>4. QED
    BY <1>1, <2>2, <2>3 DEF Pointers
<1>3. CASE ~Drop(p)
  <2>1. /\ pool /= None => pool' /= None
        /\ strays' = strays \/ (Ensure(p) /\ strays' = strays \ {p})
    BY <1>3, PoolStays, StraysSteps
  <2>2. Ensure(p) => pool' /= None /\ p \notin strays'
    <3> SUFFICES ASSUME Ensure(p) PROVE pool' /= None /\ p \notin strays'
      OBVIOUS
    <3>1. CASE pool = None
      <4>1. proc[p].max \in Nat
        BY DEF AInv, Fits, Thread
      <4>2. PoolOK(pool')
        BY <3>1, <4>1, NewPoolOK DEF Ensure
      <4>3. QED
        BY <4>2, RunsAssumption DEF PoolOK, Ensure
    <3>2. CASE pool /= None
      BY <3>2 DEF Ensure
    <3>3. QED
      BY <3>1, <3>2
  <2>3. ASSUME NEW q \in Proc, proc'[q].pc \in HasPool
        PROVE  IF q \in strays' THEN orphan' /= None ELSE pool' /= None
    <3>1. CASE q = p /\ Ensure(p)
      BY <2>2, <3>1
    <3>2. CASE ~(q = p /\ Ensure(p))
      <4>1. proc[q].pc \in HasPool
        BY <2>3, <3>2, OnlyEnsure
      <4>2. q \in strays' <=> q \in strays
        BY <2>1, <3>2
      <4>3. QED
        BY <1>1, <1>3, <2>1, <4>1, <4>2 DEF Pointers
    <3>3. QED
      BY <3>1, <3>2
  <2>4. QED
    BY <1>1, <2>1, <2>3 DEF Pointers
<1>4. QED
  BY <1>2, <1>3

LEMMA UserPointers ==
    ASSUME AInv, Pointers, User
    PROVE  Pointers'
<1>1. UNCHANGED <<orphan, strays>> /\ (pool /= None => pool' /= None)
  BY UserShape, UserPoolStays
<1>2. \A q \in Proc : proc'[q].pc \in HasPool => proc[q].pc \in HasPool
  <2>1. \/ UNCHANGED proc
        \/ \E t : Opens(t) /\ t.pc \in {"admit", "resolve", "cancel", "rebound", "drop", "quit"}
    BY UserCalls DEF Calls
  <2>2. QED
    BY <2>1 DEF Opens, OnlyMoves, Alike, HasPool
<1>3. QED
  BY <1>1, <1>2 DEF Pointers

LEMMA ThreadNInv ==
    ASSUME NInv, NEW p \in Proc, ThreadStep(p)
    PROVE  NInv'
<1>1. AInv /\ Pointers /\ OneDrop /\ CInv /\ Budgets /\ Counted
  BY DEF NInv
<1>2. /\ AInv' /\ Pointers' /\ OneDrop' /\ CInv' /\ Budgets'
      /\ runs' = runs /\ calls' = calls
  BY <1>1, ThreadCounts, ThreadPointers, ThreadPhase, ThreadCards, ThreadBudgets
<1>3. /\ runs \in Nat /\ calls \in Nat /\ MaxRounds \in Nat
      /\ Countable /\ Countable'
  <2>1. MaxRuns \in Nat /\ MaxCalls \in Nat
    BY RunsAssumption
  <2>2. QED
    BY <1>1, <1>2, <2>1, PendingWithin, PendingNext, RunsAssumption DEF Budgets
<1>4. ASSUME NEW c \in Card
      PROVE  Chains(c)' <= runs + calls /\ Account(c)' <= MaxRounds - 1 + (runs + calls)
  <2> DEFINE a == card[c].attempts
             b == card'[c].attempts
  <2>1. /\ Chains(c) <= runs + calls /\ a + Pending(c) <= MaxRounds - 1 + (runs + calls)
        /\ a \in Nat /\ Account(c)' = b + Pending(c)'
    BY <1>1 DEF Counted, Account, CInv, Cards
  <2>2. /\ ~Flip(p) => b = a
        /\ Flip(p) => b = a + IF team /\ c = Key(p) THEN 1 ELSE 0
    BY <1>1, ThreadAttempts
  <2>3. /\ Pending(c) \in Nat /\ Chains(c) \in Nat
        /\ Pending(c)' \in Nat /\ Chains(c)' \in Nat /\ Pending(c)' <= Chains(c)'
    BY <1>3 DEF Countable
  <2> HIDE DEF a, b
  <2>4. CASE Flip(p) /\ Spends(Key(p))
    BY <1>3, <2>1, <2>2, <2>3, <2>4 DEF Spends
  <2>5. CASE ~Flip(p) /\ \A d \in Card : Fewer(d)
    BY <1>3, <2>1, <2>2, <2>3, <2>5 DEF Fewer
  <2>6. CASE ~Flip(p) /\ Retries(Key(p)) /\ team /\ ~OutOfRounds(card[Key(p)])
    <3>1. CASE c /= Key(p)
      BY <1>3, <2>1, <2>2, <2>3, <2>6, <3>1 DEF Retries
    <3>2. CASE c = Key(p)
      <4>1. a + 1 <= MaxRounds
        BY <1>3, <2>1, <2>6, <3>2 DEF OutOfRounds, a
      <4>2. Chains(c)' <= runs + calls
        BY <1>3, <2>1, <2>3, <2>6 DEF Retries
      <4>3. QED
        BY <1>3, <2>1, <2>2, <2>3, <2>6, <4>1, <4>2
    <3>3. QED
      BY <3>1, <3>2
  <2>7. QED
    BY <1>1, <2>4, <2>5, <2>6, ThreadCounts
<1>5. QED
  BY <1>2, <1>4 DEF NInv, Counted

LEMMA UserNInv ==
    ASSUME NInv, User
    PROVE  NInv'
<1>1. AInv /\ Pointers /\ OneDrop /\ CInv /\ Budgets /\ Counted
  BY DEF NInv
<1>2. /\ AInv' /\ Pointers' /\ OneDrop' /\ CInv' /\ Budgets'
      /\ runs' + calls' = runs + calls + 1
  BY <1>1, UserCounts, UserPointers, UserPhases, UserCards, UserBudgets
<1>3. /\ runs \in Nat /\ calls \in Nat /\ MaxRounds \in Nat /\ Countable /\ Countable'
  BY <1>1, <1>2, PendingWithin, PendingNext, RunsAssumption DEF Budgets
<1>4. ASSUME NEW c \in Card
      PROVE  Chains(c)' <= runs' + calls' /\ Account(c)' <= MaxRounds - 1 + (runs' + calls')
  <2> DEFINE a == card[c].attempts
             b == card'[c].attempts
  <2>1. /\ Chains(c) <= runs + calls /\ a + Pending(c) <= MaxRounds - 1 + (runs + calls)
        /\ a \in Nat /\ Account(c)' = b + Pending(c)' /\ b \in Nat
    BY <1>1, <1>2 DEF Counted, Account, CInv, Cards
  <2>2. More(c) /\ \/ b = a
                   \/ b <= a + 1 /\ Fewer(c)
    BY <1>1, UserCounts
  <2>3. /\ Pending(c) \in Nat /\ Chains(c) \in Nat
        /\ Pending(c)' \in Nat /\ Chains(c)' \in Nat
    BY <1>3 DEF Countable
  <2> HIDE DEF a, b
  <2>4. QED
    BY <1>2, <1>3, <2>1, <2>2, <2>3 DEF More, Fewer
<1>5. QED
  BY <1>2, <1>4 DEF NInv, Counted

LEMMA InitNInv == Init => NInv
<1> SUFFICES ASSUME Init PROVE NInv
  OBVIOUS
<1>1. /\ Fits /\ Pairing /\ \A q \in Proc : proc[q] = Idle
  BY IdleFit DEF Init, Fits, Pairing, Paired
<1>2. Pooled /\ \A c : Queued(c) = 0
  BY RunsAssumption DEF Init, Pooled, Queued
<1>3. ASSUME NEW c \in Card
      PROVE  /\ IsFiniteSet(Pairs(aheads(c))) /\ Total(aheads(c)) = 0
             /\ IsFiniteSet(Pairs(boths(c))) /\ Total(boths(c)) = 0
  <2>1. /\ aheads(c) \in [Proc -> Nat] /\ boths(c) \in [Proc -> Nat]
        /\ \A q \in Proc : aheads(c)[q] = 0 /\ boths(c)[q] = 0
    BY <1>1, CountFunctions, IdleFit
  <2>2. QED
    BY <2>1, TotalNone
<1>4. AInv
  BY <1>1, <1>2, <1>3 DEF AInv, Tallied
<1>5. CInv
  BY RunsAssumption DEF Init, CInv, Cards, Status, Gate, Decision
<1>6. Budgets
  <2>1. MaxRuns \in Nat /\ MaxCalls \in Nat /\ MaxSaveFails \in Nat
    BY RunsAssumption
  <2>2. runs \in 0 .. MaxRuns /\ calls \in 0 .. MaxCalls /\ fails \in 0 .. MaxSaveFails
    BY <2>1 DEF Init
  <2>3. QED
    BY <2>2 DEF Init, Budgets
<1>7. Counted
  <2>1. \A c \in Card : card[c].attempts = 0
    BY DEF Init
  <2>2. \A c \in Card : Pending(c) = 0 /\ Chains(c) = 0
    BY <1>2, <1>3 DEF Pending, Chains
  <2>3. MaxRounds \in Nat \ {0} /\ runs = 0 /\ calls = 0
    BY RunsAssumption DEF Init
  <2>4. QED
    BY <2>1, <2>2, <2>3 DEF Counted, Account
<1>8. Pointers /\ OneDrop
  BY <1>1, IdleFit DEF Init, Pointers, OneDrop, HasPool, Deleting
<1>9. QED
  BY <1>4, <1>5, <1>6, <1>7, <1>8 DEF NInv

LEMMA StutterNInv ==
    ASSUME NInv, UNCHANGED vars
    PROVE  NInv'
<1>1. UNCHANGED <<team, card, policy, pool, orphan, strays, handle, proc, quit, runs, calls, fails>>
  BY DEF vars, store, dropped, budgets
<1>2. AInv'
  BY <1>1, ZenonT(40) DEF NInv, AInv, Fits, Pairing, Pooled, Tallied, aheads, boths, Ahead, Behind, Pairs
<1>3. CInv' /\ Budgets'
  BY <1>1 DEF NInv, CInv, Budgets
<1>4. Counted'
  BY <1>1, ZenonT(40)
     DEF NInv, Counted, Account, Pending, Chains, aheads, boths, Ahead, Behind, Pairs, Total, Queued
<1>5. Pointers' /\ OneDrop'
  BY <1>1 DEF NInv, Pointers, OneDrop, Dropping, At
<1>6. QED
  BY <1>2, <1>3, <1>4, <1>5 DEF NInv

LEMMA SpecNInv == Spec => []NInv
<1>1. NInv /\ [Next]_vars => NInv'
  BY ThreadNInv, UserNInv, StutterNInv DEF Next
<1>2. QED
  BY <1>1, InitNInv, PTL DEF Spec

-----------------------------------------------------------------------------
(* The cancel functions.  A run that was not told to stop is the one its   *)
(* card's cancel function stops, and so is one about to start, because no  *)
(* two threads hold the slot of a card.  Once its pool is taken, the slots *)
(* the threads hold are those of that pool, to which calls that came too   *)
(* late may add; once the team is left, each such run is on the list of    *)
(* the deletion that has yet to stop it.                                   *)
Reached ==
    \A p \in Proc : proc[p].pc = "work" /\ ~proc[p].cancelled => handle[proc[p].key] = p

Prepared ==
    \A p \in Proc : proc[p].pc = "flip" =>
        handle[proc[p].key] = proc[p].sub \/ proc[proc[p].sub].cancelled

Unshared == \A p, q \in Proc : p /= q => Held(proc[p]) \cap Held(proc[q]) = {}

Booked == \A p \in Proc : Held(proc[p]) \subseteq Kept

Leaving ==
    \A p \in Proc : proc[p].pc = "work" /\ ~proc[p].cancelled =>
        \E q \in Proc : proc[q].pc = "dropped" /\ proc[p].key \in proc[q].doomed

HInv ==
    /\ Open  => OpenInv /\ Reached /\ Prepared
    /\ Taken => Unshared /\ Reached /\ Booked
    /\ Left  => Unshared /\ Reached /\ Leaving

IInv == NInv /\ HInv

LEMMA KeysDiffer ==
    ASSUME Unshared, NEW p \in Proc, NEW q \in Proc, p /= q,
           proc[p].pc \in Holding, proc[q].pc \in Holding
    PROVE  proc[p].key /= proc[q].key
BY DEF Unshared, Held

LEMMA QuietReached ==
    ASSUME Reached, NEW p \in Proc, Quiet(p)
    PROVE  Reached'
BY DEF Reached, Quiet, Others

LEMMA QuietPrepared ==
    ASSUME Pairing, Prepared, NEW p \in Proc, Quiet(p)
    PROVE  Prepared'
<1> SUFFICES ASSUME NEW q \in Proc, proc'[q].pc = "flip"
             PROVE  handle'[proc'[q].key] = proc'[q].sub \/ proc'[proc'[q].sub].cancelled
  BY DEF Prepared
<1>1. q /= p /\ proc'[q] = proc[q] /\ handle' = handle
  BY DEF Quiet, Others
<1>2. proc[q].sub \in Proc /\ proc[proc[q].sub].pc = "reserved"
  BY <1>1 DEF Pairing, Paired
<1>3. proc[q].sub /= p
  BY <1>2 DEF Quiet
<1>4. QED
  BY <1>1, <1>2, <1>3 DEF Quiet, Others, Prepared

LEMMA QuietUnshared ==
    ASSUME Unshared, NEW p \in Proc, Quiet(p), pool' = None, Kept' = Kept
    PROVE  Unshared' /\ \A q \in Proc : Held(proc'[q]) \subseteq Held(proc[q])
<1>1. \A q \in Proc : Held(proc'[q]) \subseteq Held(proc[q])
  BY DEF Quiet, Others
<1>2. \A q, r \in Proc : q /= r => Held(proc'[q]) \cap Held(proc'[r]) = {}
  BY <1>1 DEF Unshared
<1>3. QED
  BY <1>1, <1>2 DEF Unshared, Held

(* A run that goes on keeps the cancel function of its card, when no other *)
(* thread with that card touches it.                                       *)
LEMMA RunsReached ==
    ASSUME Reached, Unshared, Budgets, NEW p \in Proc,
           \/ Forgot(p)
           \/ \E r : Launched(p, r) \/ Unlaunched(p, r)
    PROVE  Reached'
<1> SUFFICES ASSUME NEW q \in Proc, proc'[q].pc = "work", ~proc'[q].cancelled
             PROVE  handle'[proc'[q].key] = q
  BY DEF Reached
<1>1. proc'[q] = proc[q] /\ q /= p /\ proc[p].pc \in Holding
  BY IdleFit DEF Forgot, Launched, Unlaunched, Others, Holding
<1>2. proc[q].key /= proc[p].key
  BY <1>1, KeysDiffer DEF Holding
<1>3. \E x : handle' = [handle EXCEPT ![proc[p].key] = x]
  BY DEF Forgot, Launched, Unlaunched
<1>4. handle'[proc[q].key] = handle[proc[q].key]
  BY <1>2, <1>3 DEF Budgets
<1>5. QED
  BY <1>1, <1>4 DEF Reached

LEMMA RunsPrepared ==
    ASSUME Prepared, Unshared, Budgets, Pairing, NEW p \in Proc,
           \/ Forgot(p)
           \/ \E r : Launched(p, r) \/ Unlaunched(p, r)
    PROVE  Prepared'
<1> SUFFICES ASSUME NEW q \in Proc, proc'[q].pc = "flip"
             PROVE  handle'[proc'[q].key] = proc'[q].sub \/ proc'[proc'[q].sub].cancelled
  BY DEF Prepared
<1>1. CASE q = p
  <2>1. PICK r : Launched(p, r)
    BY <1>1 DEF Forgot, Unlaunched
  <2>2. QED
    BY <1>1, <2>1 DEF Launched, Budgets
<1>2. CASE q /= p
  <2>1. proc'[q] = proc[q] /\ proc[p].pc \in Holding
    BY <1>2, IdleFit DEF Forgot, Launched, Unlaunched, Others, Holding
  <2>2. proc[q].key /= proc[p].key
    BY <1>2, <2>1, KeysDiffer DEF Holding
  <2>3. \E x : handle' = [handle EXCEPT ![proc[p].key] = x]
    BY DEF Forgot, Launched, Unlaunched
  <2>4. handle'[proc[q].key] = handle[proc[q].key]
    BY <2>2, <2>3 DEF Budgets
  <2>5. proc[q].sub \in Proc /\ proc[proc[q].sub].pc = "reserved"
    BY <2>1 DEF Pairing, Paired
  <2>6. \A r : Unlaunched(p, r) => proc[q].sub /= r
    BY <1>2, <2>1 DEF Unlaunched, Pairing, Paired
  <2>7. proc'[proc[q].sub] = proc[proc[q].sub]
    BY <2>1, <2>5, <2>6 DEF Forgot, Launched, Unlaunched, Others, Holding
  <2>8. QED
    BY <2>1, <2>4, <2>7 DEF Prepared
<1>3. QED
  BY <1>1, <1>2

LEMMA BegunHandled ==
    ASSUME Reached, Prepared, Pairing, NEW p \in Proc, NEW r, Begun(p, r)
    PROVE  Reached' /\ Prepared'
<1>1. ASSUME NEW q \in Proc, proc'[q].pc = "work", ~proc'[q].cancelled
      PROVE  handle'[proc'[q].key] = q
  BY <1>1 DEF Begun, Reached, Prepared
<1>2. ASSUME NEW q \in Proc, proc'[q].pc = "flip"
      PROVE  handle'[proc'[q].key] = proc'[q].sub \/ proc'[proc'[q].sub].cancelled
  <2>0. /\ proc'[p].pc /= "flip" /\ proc'[r].pc = "work"
        /\ \A o \in Proc : o /= p /\ o /= r => proc'[o] = proc[o]
        /\ handle' = handle /\ p /= r /\ proc[p].pc = "flip" /\ proc[p].sub = r
    BY DEF Begun
  <2>1. q /= p /\ q /= r /\ proc'[q] = proc[q]
    BY <1>2, <2>0
  <2>2. proc[q].sub \in Proc /\ proc[proc[q].sub].pc = "reserved" /\ proc[q].sub /= r
    BY <1>2, <2>0, <2>1 DEF Pairing, Paired
  <2>3. proc'[proc[q].sub] = proc[proc[q].sub] /\ handle' = handle
    <3>1. proc[q].sub /= p
      BY <2>0, <2>2
    <3>2. QED
      BY <2>0, <2>2, <3>1
  <2>4. QED
    BY <1>2, <2>1, <2>3 DEF Prepared
<1>3. QED
  BY <1>1, <1>2 DEF Reached, Prepared

LEMMA StoppedReached ==
    ASSUME Reached, Fits, Budgets, NEW p \in Proc, Stopped(p)
    PROVE  Reached'
<1> SUFFICES ASSUME NEW q \in Proc, proc'[q].pc = "work", ~proc'[q].cancelled
             PROVE  handle'[proc'[q].key] = q
  BY DEF Reached
<1>1. q /= p
  BY IdleFit DEF Stopped
<1>2. /\ proc[q].pc = "work" /\ ~proc[q].cancelled /\ proc'[q].key = proc[q].key
      /\ q /= handle[proc[p].key]
  BY <1>1, StoppedThreads
<1>3. handle[proc[q].key] = q
  BY <1>2 DEF Reached
<1>4. handle' = [handle EXCEPT ![proc[p].key] = None] /\ proc[q].key /= proc[p].key
  BY <1>2, <1>3 DEF Stopped
<1>5. QED
  BY <1>2, <1>3, <1>4 DEF Budgets

LEMMA StoppedPrepared ==
    ASSUME Prepared, Fits, Pairing, Budgets, NEW p \in Proc, Stopped(p)
    PROVE  Prepared'
<1> SUFFICES ASSUME NEW q \in Proc, proc'[q].pc = "flip"
             PROVE  handle'[proc'[q].key] = proc'[q].sub \/ proc'[proc'[q].sub].cancelled
  BY DEF Prepared
<1>1. q /= p
  BY IdleFit DEF Stopped
<1>2. proc[q].pc = "flip" /\ proc'[q].key = proc[q].key /\ proc'[q].sub = proc[q].sub
  BY <1>1, StoppedThreads
<1>3. proc[q].sub \in Proc /\ proc[q].sub /= p
  BY <1>2 DEF Pairing, Paired, Stopped
<1>4. /\ proc[proc[q].sub].cancelled => proc'[proc[q].sub].cancelled
      /\ proc[q].sub = handle[proc[p].key] => proc'[proc[q].sub].cancelled
  BY <1>3, StoppedThreads
<1>5. handle' = [handle EXCEPT ![proc[p].key] = None]
  BY DEF Stopped
<1>6. CASE proc[q].key = proc[p].key
  BY <1>2, <1>4, <1>6 DEF Prepared
<1>7. CASE proc[q].key /= proc[p].key
  BY <1>2, <1>4, <1>5, <1>7 DEF Prepared, Budgets
<1>8. QED
  BY <1>6, <1>7

-----------------------------------------------------------------------------
(* The phases, one after the other.                                        *)
Steady == AInv /\ Pointers /\ Budgets /\ OneDrop

LEMMA OpenThread ==
    ASSUME Steady, OpenInv, Reached, Prepared, Open, Open', NEW p \in Proc, ThreadStep(p)
    PROVE  OpenInv' /\ Reached' /\ Prepared' /\ (Regrant \/ Begins \/ Ends)
<1>1. AInv /\ Pointers /\ Budgets /\ OneDrop /\ Fits /\ Pairing
  BY DEF Steady, AInv
<1>2. ~Drop(p) /\ ~Closes(p) /\ strays = {}
  BY <1>1, ThreadPhase DEF Closes, OneDrop, Open
<1>3. OpenInv' /\ (Regrant \/ Begins \/ Ends)
  BY <1>1, <1>2, ThreadStepOK
<1>4. Unshared
  BY DEF OpenInv, Owners, Unshared
<1>5. CASE Quiet(p)
  BY <1>1, <1>3, <1>5, QuietReached, QuietPrepared
<1>6. CASE Forgot(p) \/ \E r : Launched(p, r) \/ Unlaunched(p, r)
  BY <1>1, <1>3, <1>4, <1>6, RunsReached, RunsPrepared
<1>7. CASE Stopped(p)
  BY <1>1, <1>3, <1>7, StoppedReached, StoppedPrepared
<1>8. CASE \E r : Begun(p, r)
  BY <1>1, <1>3, <1>8, BegunHandled
<1>9. QED
  BY <1>1, <1>2, <1>5, <1>6, <1>7, <1>8, ThreadShape

LEMMA UserQuiet ==
    ASSUME AInv, User
    PROVE  (UNCHANGED <<proc, handle>>) \/ \E p \in Proc : Quiet(p)
<1>1. UNCHANGED <<handle, orphan>>
  BY UserShape
<1>2. \/ UNCHANGED proc
      \/ Calls({"admit", "resolve", "cancel", "rebound"}) \/ Calls({"drop"}) \/ Calls({"quit"})
  BY UserCalls
<1>3. CASE Calls({"admit", "resolve", "cancel", "rebound"})
  BY <1>1, <1>3, CallQuiet DEF Holding, HasPool
<1>4. CASE Calls({"drop"})
  BY <1>1, <1>4, CallQuiet DEF Holding, HasPool
<1>5. CASE Calls({"quit"})
  BY <1>1, <1>5, CallQuiet DEF Holding, HasPool
<1>6. QED
  BY <1>1, <1>2, <1>3, <1>4, <1>5

LEMMA OpenUser ==
    ASSUME Steady, OpenInv, Reached, Prepared, Open', User
    PROVE  OpenInv' /\ Reached' /\ Prepared' /\ Regrant
<1>1. AInv /\ Pairing
  BY DEF Steady, AInv
<1>2. OpenInv' /\ Regrant
  BY UserOK DEF Open
<1>3. CASE UNCHANGED <<proc, handle>>
  BY <1>2, <1>3 DEF Reached, Prepared
<1>4. CASE \E p \in Proc : Quiet(p)
  BY <1>1, <1>2, <1>4, QuietReached, QuietPrepared
<1>5. QED
  BY <1>1, <1>3, <1>4, UserQuiet

(* The deletion takes the pool away: who ran then held a slot of it.       *)
LEMMA DropTakes ==
    ASSUME Steady, OpenInv, Reached, NEW p \in Proc, Drop(p)
    PROVE  Unshared' /\ Reached' /\ Booked'
<1> DEFINE u == [proc[p] EXCEPT !.pc = "empty"]
<1>1. /\ proc \in [Proc -> Thread] /\ proc[p] \in Thread /\ proc[p].pc = "drop"
      /\ handle' = handle /\ Kept' = Granted
      /\ proc' = [proc EXCEPT ![p].pc = "empty"]
  BY DEF Drop, Goes, At, Granted, Kept, OpenInv, Threads
<1>2. \A q \in Proc : proc'[q] = IF q = p THEN u ELSE proc[q]
  BY <1>1
<1>3. u.pc = "empty" /\ u.todo = proc[p].todo
  BY <1>1 DEF Thread
<1> HIDE DEF u
<1>4. \A q \in Proc : Held(proc'[q]) = Held(proc[q])
  BY <1>1, <1>2, <1>3 DEF Held, Holding
<1>5. Unshared'
  <2>1. \A q, r \in Proc : q /= r => Held(proc'[q]) \cap Held(proc'[r]) = {}
    BY <1>4 DEF OpenInv, Owners
  <2>2. QED
    BY <2>1 DEF Unshared, Held
<1>6. Reached'
  BY <1>1, <1>2, <1>3 DEF Reached
<1>7. Booked'
  <2>1. \A q \in Proc : Held(proc'[q]) \subseteq Kept'
    BY <1>1, <1>4 DEF OpenInv, Owners
  <2>2. QED
    BY <2>1 DEF Booked, Held
<1>8. QED
  BY <1>5, <1>6, <1>7

(* While it is taken, a call that came too late gets a slot of its own.    *)
LEMMA QuietTaken ==
    ASSUME Unshared, Reached, Booked, NEW p \in Proc, Quiet(p), pool' = None
    PROVE  Unshared' /\ Reached' /\ Booked'
<1>1. Reached'
  BY QuietReached
<1>2. CASE Kept' = Kept /\ Held(proc'[p]) \subseteq Held(proc[p])
  <2>1. Unshared' /\ \A q \in Proc : Held(proc'[q]) \subseteq Held(proc[q])
    BY <1>2, QuietUnshared
  <2>2. \A q \in Proc : Held(proc'[q]) \subseteq Kept'
    BY <1>2, <2>1 DEF Booked
  <2>3. QED
    BY <1>1, <2>1, <2>2 DEF Booked, Held
<1>3. ASSUME NEW c \in Card \ Kept, Kept' = Kept \cup {c}, Held(proc'[p]) \subseteq {c}
      PROVE  Unshared' /\ Booked'
  <2>1. \A q \in Proc : q /= p => Held(proc'[q]) = Held(proc[q])
    BY DEF Quiet, Others
  <2>2. \A q \in Proc : Held(proc'[q]) \subseteq Kept'
    BY <1>3, <2>1 DEF Booked
  <2>3. \A q, r \in Proc : q /= r => Held(proc'[q]) \cap Held(proc'[r]) = {}
    BY <1>3, <2>1 DEF Unshared, Booked
  <2>4. QED
    BY <2>2, <2>3 DEF Unshared, Booked, Held
<1>4. QED
  BY <1>1, <1>2, <1>3 DEF Quiet

(* A step that adds to no thread's slots, nor to the pool's.               *)
LEMMA HeldShrinks ==
    ASSUME Unshared, \A q \in Proc : Held(proc'[q]) \subseteq Held(proc[q])
    PROVE  Unshared' /\ (Booked /\ Kept' = Kept => Booked')
<1>1. \A q, r \in Proc : q /= r => Held(proc'[q]) \cap Held(proc'[r]) = {}
  BY DEF Unshared
<1>2. Booked /\ Kept' = Kept => \A q \in Proc : Held(proc'[q]) \subseteq Kept'
  BY DEF Booked
<1>3. QED
  BY <1>1, <1>2 DEF Unshared, Booked, Held

LEMMA TakenThread ==
    ASSUME Steady, Unshared, Reached, Booked, Taken, Taken', NEW p \in Proc, ThreadStep(p)
    PROVE  Unshared' /\ Reached' /\ Booked'
<1>1. AInv /\ Pointers /\ Budgets /\ OneDrop /\ Fits /\ Pairing
  BY DEF Steady, AInv
<1>2. ~Closes(p) /\ ~(\E r : Begun(p, r)) /\ pool' = None
  BY <1>1, ThreadPhase DEF Closes, Begun, Taken
<1>3. CASE Quiet(p)
  BY <1>2, <1>3, QuietTaken
<1>4. ASSUME proc[p].pc \in {"forget", "register", "promoted", "unlaunch", "cancel"} PROVE Kept' = Kept
  BY <1>4 DEF ThreadStep, Resolve, Ensure, AdmitCard, Park, Unpark, StartPromoted, Register, Flip,
         Unlaunch, Work, Forget, Release, Replan, CancelRun, Rebound, Drop, Empty, CancelDropped,
         CancelAllRuns, At, dropped, Kept
<1>5. CASE Forgot(p) \/ \E r : Launched(p, r) \/ Unlaunched(p, r)
  <2>1. Reached' /\ Kept' = Kept
    BY <1>1, <1>4, <1>5, RunsReached DEF Forgot, Launched, Unlaunched
  <2>2. \A q \in Proc : Held(proc'[q]) \subseteq Held(proc[q])
    BY <1>5, IdleSound DEF Forgot, Launched, Unlaunched, Others
  <2>3. QED
    BY <2>1, <2>2, HeldShrinks
<1>6. CASE Stopped(p)
  <2>1. Reached' /\ Kept' = Kept
    BY <1>1, <1>4, <1>6, StoppedReached DEF Stopped
  <2>2. \A q \in Proc : Held(proc'[q]) \subseteq Held(proc[q])
    BY <1>1, <1>6, IdleSound, StoppedThreads DEF Stopped
  <2>3. QED
    BY <2>1, <2>2, HeldShrinks
<1>7. QED
  BY <1>1, <1>2, <1>3, <1>5, <1>6, ThreadShape

LEMMA TakenUser ==
    ASSUME Steady, Unshared, Reached, Booked, Taken', User
    PROVE  Unshared' /\ Reached' /\ Booked'
<1>1. AInv /\ pool' = None /\ UNCHANGED <<orphan, handle>>
  BY UserShape DEF Steady, Taken
<1>2. CASE UNCHANGED proc
  BY <1>1, <1>2 DEF Unshared, Reached, Booked, Held, Kept
<1>3. CASE \E p \in Proc : Quiet(p)
  BY <1>1, <1>3, QuietTaken
<1>4. QED
  BY <1>1, <1>2, <1>3, UserQuiet

(* The pool is emptied: the deletion takes down every card that holds one  *)
(* of its slots.                                                           *)
LEMMA EmptyLeaves ==
    ASSUME Steady, Unshared, Reached, Booked, NEW p \in Proc, Empty(p)
    PROVE  Unshared' /\ Reached' /\ Leaving'
<1> DEFINE u == [proc[p] EXCEPT !.pc = "dropped", !.doomed = Kept]
<1>1. /\ proc \in [Proc -> Thread] /\ proc[p] \in Thread /\ proc[p].pc = "empty"
      /\ handle' = handle
      /\ proc' = [proc EXCEPT ![p].pc = "dropped", ![p].doomed = Kept]
  BY DEF Empty, At, Kept, Steady, AInv, Fits
<1>2. \A q \in Proc : proc'[q] = IF q = p THEN u ELSE proc[q]
  BY <1>1
<1>3. u.pc = "dropped" /\ u.doomed = Kept /\ u.todo = proc[p].todo
  BY <1>1 DEF Thread
<1> HIDE DEF u
<1>4. \A q \in Proc : Held(proc'[q]) \subseteq Held(proc[q])
  BY <1>1, <1>2, <1>3 DEF Held, Holding
<1>5. Unshared'
  BY <1>4, HeldShrinks
<1>6. Reached'
  BY <1>1, <1>2, <1>3 DEF Reached
<1>7. ASSUME NEW q \in Proc, proc'[q].pc = "work", ~proc'[q].cancelled
      PROVE  proc'[p].pc = "dropped" /\ proc'[q].key \in proc'[p].doomed
  <2>1. q /= p /\ proc'[q] = proc[q]
    BY <1>2, <1>3, <1>7
  <2>2. proc[q].key \in Held(proc[q])
    BY <1>7, <2>1 DEF Held, Holding
  <2>3. proc[q].key \in Kept
    BY <2>2 DEF Booked
  <2>4. QED
    BY <1>2, <1>3, <2>1, <2>3
<1>8. QED
  BY <1>5, <1>6, <1>7 DEF Leaving

(* The list of a deletion stays until it is gone through.                  *)
LEMMA LeavingKept ==
    ASSUME Leaving, SameClosers,
           \A q \in Proc : proc'[q].pc = "work" /\ ~proc'[q].cancelled =>
               proc[q].pc = "work" /\ ~proc[q].cancelled /\ proc'[q].key = proc[q].key
    PROVE  Leaving'
<1> SUFFICES ASSUME NEW q \in Proc, proc'[q].pc = "work", ~proc'[q].cancelled
             PROVE  \E d \in Proc : proc'[d].pc = "dropped" /\ proc'[q].key \in proc'[d].doomed
  BY DEF Leaving
<1>1. PICK d \in Proc : proc[d].pc = "dropped" /\ proc'[q].key \in proc[d].doomed
  BY DEF Leaving
<1>2. proc'[d].pc = "dropped" /\ proc'[d].doomed = proc[d].doomed
  BY <1>1 DEF SameClosers, Closers
<1>3. QED
  BY <1>1, <1>2

LEMMA LeftThread ==
    ASSUME Steady, Unshared, Reached, Leaving, Left, Left', NEW p \in Proc, ThreadStep(p)
    PROVE  Unshared' /\ Reached' /\ Leaving'
<1>1. AInv /\ Pointers /\ Budgets /\ OneDrop /\ Fits /\ Pairing
  BY DEF Steady, AInv
<1>2. Closes(p) => CancelDropped(p)
  BY <1>1, ThreadPhase DEF Closes
<1>3. ~(\E r : Begun(p, r)) /\ pool' = None /\ Kept' = Kept
  BY DEF Begun, Left
<1>4. ~CancelDropped(p) => SameClosers
  BY <1>1, <1>2, ThreadClosers
<1>5. CASE Quiet(p) /\ ~CancelDropped(p)
  <2>1. Unshared' /\ Reached'
    BY <1>3, <1>5, QuietUnshared, QuietReached
  <2>2. \A q \in Proc : proc'[q].pc = "work" => proc'[q] = proc[q]
    BY <1>5 DEF Quiet, Others
  <2>3. QED
    BY <1>4, <1>5, <2>1, <2>2, LeavingKept
<1>6. CASE (Forgot(p) \/ \E r : Launched(p, r) \/ Unlaunched(p, r)) /\ ~CancelDropped(p)
  <2>1. Reached'
    BY <1>1, <1>6, RunsReached
  <2>2. \A q \in Proc : proc'[q].pc = "work" => proc'[q] = proc[q]
    BY <1>6, IdleFit DEF Forgot, Launched, Unlaunched, Others
  <2>3. \A q \in Proc : Held(proc'[q]) \subseteq Held(proc[q])
    BY <1>6, IdleSound DEF Forgot, Launched, Unlaunched, Others
  <2>4. Unshared'
    <3>1. \A q, r \in Proc : q /= r => Held(proc'[q]) \cap Held(proc'[r]) = {}
      BY <2>3 DEF Unshared
    <3>2. QED
      BY <3>1 DEF Unshared, Held
  <2>5. QED
    BY <1>4, <1>6, <2>1, <2>2, <2>4, LeavingKept
<1>7. CASE Stopped(p) /\ ~CancelDropped(p)
  <2>1. Reached'
    BY <1>1, <1>7, StoppedReached
  <2>2. /\ proc'[p].pc /= "work" /\ Held(proc'[p]) = {}
        /\ \A q \in Proc : q /= p => /\ Held(proc'[q]) = Held(proc[q])
                                     /\ proc'[q].pc = proc[q].pc /\ proc'[q].key = proc[q].key
                                     /\ proc[q].cancelled => proc'[q].cancelled
    BY <1>1, <1>7, IdleSound, StoppedThreads DEF Stopped
  <2>3. Unshared'
    <3>1. \A q, r \in Proc : q /= r => Held(proc'[q]) \cap Held(proc'[r]) = {}
      BY <2>2 DEF Unshared
    <3>2. QED
      BY <3>1 DEF Unshared, Held
  <2>4. QED
    BY <1>4, <1>7, <2>1, <2>2, <2>3, LeavingKept
<1>8. CASE CancelDropped(p)
  <2>1. /\ proc[p].pc = "dropped"
        /\ CancelRuns(proc[p].doomed, [proc EXCEPT ![p] = Idle])
    BY <1>8 DEF CancelDropped, At
  <2>2. /\ OnlyMoves(p) /\ proc'[p].pc = "idle"
        /\ \A q \in Proc : q /= p =>
              proc'[q] = IF \E c \in proc[p].doomed : handle[c] = q
                         THEN [proc[q] EXCEPT !.cancelled = TRUE] ELSE proc[q]
    BY <1>1, <2>1, CancelRunsMoves
  <2>3. Held(proc'[p]) = {}
    BY <2>2, EmptyOnce DEF OnlyMoves, Fit, Carrying, Held, Holding
  <2>4. \A q \in Proc : q /= p => Held(proc'[q]) = Held(proc[q])
    BY <2>2 DEF OnlyMoves, Alike, Held
  <2>5. Unshared'
    <3>1. \A q, r \in Proc : q /= r => Held(proc'[q]) \cap Held(proc'[r]) = {}
      BY <2>3, <2>4 DEF Unshared
    <3>2. QED
      BY <3>1 DEF Unshared, Held
  <2>6. \A q \in Proc : ~(proc'[q].pc = "work" /\ ~proc'[q].cancelled)
    <3> SUFFICES ASSUME NEW q \in Proc, proc'[q].pc = "work", ~proc'[q].cancelled
                 PROVE  FALSE
      OBVIOUS
    <3>1. q /= p /\ proc[q] \in Thread
      BY <1>1, <2>2 DEF Fits
    <3>2. ~\E c \in proc[p].doomed : handle[c] = q
      <4>1. [proc[q] EXCEPT !.cancelled = TRUE].cancelled
        BY <3>1 DEF Thread
      <4>2. QED
        BY <2>2, <3>1, <4>1
    <3>3. proc[q].pc = "work" /\ ~proc[q].cancelled
      BY <2>2, <3>1, <3>2
    <3>4. PICK d \in Proc : proc[d].pc = "dropped" /\ proc[q].key \in proc[d].doomed
      BY <3>3 DEF Leaving
    <3>5. d = p
      BY <1>1, <2>1, <3>4 DEF OneDrop, Deleting
    <3>6. handle[proc[q].key] = q
      BY <3>3 DEF Reached
    <3>7. QED
      BY <3>2, <3>4, <3>5, <3>6
  <2>7. QED
    BY <2>5, <2>6 DEF Reached, Leaving
<1>9. QED
  BY <1>1, <1>2, <1>3, <1>5, <1>6, <1>7, <1>8, ThreadShape

LEMMA LeftUser ==
    ASSUME Steady, Unshared, Reached, Leaving, Left', User
    PROVE  Unshared' /\ Reached' /\ Leaving'
<1>1. AInv /\ Budgets /\ OneDrop
  BY DEF Steady
<1>2. SameClosers /\ pool' = None /\ Kept' = Kept
  BY <1>1, UserPhases, UserClosers, UserShape DEF Left, Closers, Kept
<1>3. CASE UNCHANGED <<proc, handle>>
  BY <1>3 DEF Unshared, Reached, Leaving, Held
<1>4. CASE \E p \in Proc : Quiet(p)
  <2>1. PICK p \in Proc : Quiet(p)
    BY <1>4
  <2>2. Unshared' /\ Reached'
    BY <1>2, <2>1, QuietUnshared, QuietReached
  <2>3. \A q \in Proc : proc'[q].pc = "work" => proc'[q] = proc[q]
    BY <2>1 DEF Quiet, Others
  <2>4. QED
    BY <1>2, <2>2, <2>3, LeavingKept
<1>5. QED
  BY <1>1, <1>3, <1>4, UserQuiet

-----------------------------------------------------------------------------
(* The whole invariant of the team.                                        *)
LEMMA InitHInv == Init => HInv
<1> SUFFICES ASSUME Init PROVE HInv
  OBVIOUS
<1>1. \A p \in Proc : proc[p] = Idle
  BY DEF Init
<1>2. proc \in [Proc -> Thread] /\ team
  BY IdleSound DEF Init, Sound
<1>4. Reached /\ Prepared
  BY <1>1, IdleSound DEF Reached, Prepared
<1>5. Threads /\ Reserves
  BY <1>1, <1>2, IdleSound DEF Threads, Reserves
<1>6. Granted = {}
  BY DEF Init, Granted
<1>7. Owners
  BY <1>1, <1>6, IdleSound DEF Owners
<1>8. Pooled
  BY RunsAssumption DEF Init, Pooled
<1>9. QED
  BY <1>2, <1>4, <1>5, <1>7, <1>8 DEF HInv, OpenInv, Taken, Left

LEMMA NextHInv ==
    ASSUME IInv, Next
    PROVE  /\ HInv' /\ (Open' => Open)
           /\ Open /\ Open' => OpenInv' /\ (Regrant \/ Begins \/ Ends)
<1>1. Steady /\ AInv /\ Pointers /\ Budgets /\ OneDrop
  BY DEF IInv, NInv, Steady
<1>2. /\ Open => OpenInv /\ Reached /\ Prepared
      /\ Taken => Unshared /\ Reached /\ Booked
      /\ Left => Unshared /\ Reached /\ Leaving
  BY DEF IInv, HInv
<1>3. ASSUME NEW p \in Proc, ThreadStep(p)
      PROVE  /\ HInv' /\ (Open' => Open)
             /\ Open /\ Open' => OpenInv' /\ (Regrant \/ Begins \/ Ends)
  <2>1. /\ (Open' => Open) /\ (Taken' => Open \/ Taken) /\ (Left' => Taken \/ Left)
        /\ Open /\ Taken' => Drop(p)
        /\ Taken /\ Left' => Empty(p)
    BY <1>1, <1>3, ThreadPhase
  <2>2. ASSUME Open' PROVE OpenInv' /\ Reached' /\ Prepared' /\ (Regrant \/ Begins \/ Ends)
    BY <1>1, <1>2, <1>3, <2>1, <2>2, OpenThread
  <2>3. ASSUME Taken' PROVE Unshared' /\ Reached' /\ Booked'
    <3>1. CASE Open
      BY <1>1, <1>2, <2>1, <2>3, <3>1, DropTakes
    <3>2. CASE Taken
      BY <1>1, <1>2, <1>3, <2>3, <3>2, TakenThread
    <3>3. QED
      BY <2>1, <2>3, <3>1, <3>2
  <2>4. ASSUME Left' PROVE Unshared' /\ Reached' /\ Leaving'
    <3>1. CASE Taken
      BY <1>1, <1>2, <2>1, <2>4, <3>1, EmptyLeaves
    <3>2. CASE Left
      BY <1>1, <1>2, <1>3, <2>4, <3>2, LeftThread
    <3>3. QED
      BY <2>1, <2>4, <3>1, <3>2
  <2>5. QED
    BY <2>1, <2>2, <2>3, <2>4 DEF HInv
<1>4. ASSUME User
      PROVE  /\ HInv' /\ (Open' => Open)
             /\ Open /\ Open' => OpenInv' /\ (Regrant \/ Begins \/ Ends)
  <2>1. (Open' => Open) /\ (Taken' => Taken) /\ (Left' => Left)
    BY <1>1, <1>4, UserPhases
  <2>2. ASSUME Open' PROVE OpenInv' /\ Reached' /\ Prepared' /\ Regrant
    BY <1>1, <1>2, <1>4, <2>1, <2>2, OpenUser
  <2>3. ASSUME Taken' PROVE Unshared' /\ Reached' /\ Booked'
    BY <1>1, <1>2, <1>4, <2>1, <2>3, TakenUser
  <2>4. ASSUME Left' PROVE Unshared' /\ Reached' /\ Leaving'
    BY <1>1, <1>2, <1>4, <2>1, <2>4, LeftUser
  <2>5. QED
    BY <2>1, <2>2, <2>3, <2>4 DEF HInv
<1>5. QED
  BY <1>3, <1>4 DEF Next

LEMMA StutterHInv ==
    ASSUME HInv, UNCHANGED vars
    PROVE  HInv'
<1>1. UNCHANGED <<team, quit, pool, orphan, proc, handle, policy>>
  BY DEF vars, store, dropped
<1>2. (Dropping' <=> Dropping) /\ (Emptying' <=> Emptying) /\ Kept' = Kept
  BY <1>1 DEF Dropping, Emptying, At, Kept
<1>3. (Open' <=> Open) /\ (Taken' <=> Taken) /\ (Left' <=> Left)
  BY <1>1, <1>2 DEF Open, Taken, Left
<1>4. Reached' = Reached /\ Prepared' = Prepared /\ Leaving' = Leaving
  BY <1>1 DEF Reached, Prepared, Leaving
<1>5. Unshared' = Unshared /\ Booked' = Booked
  BY <1>1, <1>2 DEF Unshared, Booked, Held
<1>6. OpenInv => OpenInv'
  BY <1>1, QuietOK DEF OpenInv, Pooled
<1>7. QED
  BY <1>3, <1>4, <1>5, <1>6 DEF HInv

LEMMA StepHInv == NInv /\ HInv /\ [Next]_vars => HInv'
BY NextHInv, StutterHInv DEF IInv

LEMMA SpecIInv == Spec => []IInv
<1>1. IInv <=> NInv /\ HInv
  BY DEF IInv
<1>2. QED
  BY <1>1, InitHInv, StepHInv, SpecNInv, PTL DEF Spec

-----------------------------------------------------------------------------
(* The theorems about slots and runs.                                      *)

(* PoolsStaySound: nothing is booked twice and nobody waits beside a free  *)
(* slot, whatever Admit, Release, SetMax and Dequeue interleave, also      *)
(* after a deletion and on the way out (internal/team/pool.go).            *)
SoundPool == pool /= None => PoolOK(pool)

THEOREM PoolsStaySound == Spec => []SoundPool
<1>1. NInv => SoundPool
  BY DEF NInv, AInv, Pooled, SoundPool
<1>2. QED
  BY <1>1, SpecNInv, PTL

(* OneOwnerEach: each booked slot has exactly one thread that gives it     *)
(* back, and no thread holds a slot that is not booked (desktop/team_run.go*)
(* launches, releases and hands slots on).                                 *)
THEOREM OneOwnerEach == Spec => []SlotsAreOwned
<1>1. ASSUME IInv, team, ~quit, NEW c \in Card
      PROVE  Cardinality({p \in Proc : HoldsSlot(p, c)}) = IF pool /= None /\ c \in pool.running THEN 1 ELSE 0
  <2> DEFINE H == {p \in Proc : HoldsSlot(p, c)}
  <2>1. Owners
    BY <1>1 DEF IInv, HInv, Open, OpenInv
  <2>2. H = {p \in Proc : c \in Held(proc[p])}
    BY HoldsByThread
  <2> HIDE DEF H
  <2>3. CASE c \in Granted
    <3>1. PICK p \in Proc : c \in Held(proc[p])
      BY <2>1, <2>3 DEF Owners
    <3>2. H = {p}
      BY <2>1, <2>2, <3>1 DEF Owners
    <3>3. pool /= None /\ c \in pool.running
      BY <2>3 DEF Granted
    <3>4. QED
      BY <3>2, <3>3, FS_Singleton DEF H
  <2>4. CASE c \notin Granted
    <3>1. H = {}
      BY <2>1, <2>2, <2>4 DEF Owners
    <3>2. ~(pool /= None /\ c \in pool.running)
      BY <2>4 DEF Granted
    <3>3. QED
      BY <3>1, <3>2, FS_EmptySet DEF H
  <2>5. QED
    BY <2>3, <2>4
<1>2. IInv => SlotsAreOwned
  BY <1>1 DEF SlotsAreOwned
<1>3. QED
  BY <1>2, SpecIInv, PTL

(* BooksAreSound: the whole bookkeeping of the runs, also after a deletion *)
(* and on the way out: state has its types, the pool books nothing twice   *)
(* and lets nobody wait beside a free slot, every slot of an open team has *)
(* one owner, and retries on their own stay within a card's rounds.        *)
THEOREM BooksAreSound == Spec => []PoolIsSound
<1>1. ASSUME NInv PROVE TypeOK /\ (pool /= None => PoolOK(pool)) /\ RetriesWithinRounds
  <2>1. AInv /\ Pointers /\ CInv /\ Budgets /\ Counted
    BY <1>1 DEF NInv
  <2>2. ASSUME NEW c \in Card
        PROVE  /\ card[c].attempts \in 0 .. MaxRounds + MaxRuns + MaxCalls
               /\ card[c].attempts < MaxRounds + runs + calls
               /\ card[c] \in Cards
    <3>1. /\ card[c].attempts + Pending(c) <= MaxRounds - 1 + (runs + calls)
          /\ card[c].attempts \in Nat /\ Pending(c) \in Nat /\ card[c] \in Cards
      BY <2>1, PendingWithin DEF Counted, Account, CInv, Cards, Countable
    <3>2. /\ runs \in 0 .. MaxRuns /\ calls \in 0 .. MaxCalls
          /\ MaxRuns \in Nat /\ MaxCalls \in Nat /\ MaxRounds \in Nat
      BY <2>1, RunsAssumption DEF Budgets
    <3>3. QED
      BY <3>1, <3>2
  <2>3. card \in [Card -> CardState]
    BY <2>1, <2>2 DEF CInv, Cards, CardState
  <2>4. QED
    BY <2>1, <2>2, <2>3 DEF TypeOK, RetriesWithinRounds, AInv, Fits, Pooled, Pointers, Budgets
<1>2. NInv => TypeOK /\ (pool /= None => PoolOK(pool)) /\ RetriesWithinRounds
  BY <1>1
<1>3. NInv /\ SlotsAreOwned => PoolIsSound
  BY <1>2 DEF PoolIsSound
<1>4. QED
  BY <1>3, SpecNInv, OneOwnerEach, PTL

(* RunsCanBeStopped: a session that was not told to stop is the one its    *)
(* card's cancel function stops, so the user can always reach it, though   *)
(* every run that ends removes its card's function whoever stored it; and  *)
(* a deletion that has returned has told every session of the team to stop *)
(* (CancelTeamTask and DeleteTeamProject, desktop/team_run.go and          *)
(* team_app.go), unless a call came too late: one that made the team a new *)
(* pool, or was admitted to the old one after the deletion had emptied it. *)
THEOREM RunsCanBeStopped == Spec => []StopReachesTheRun
<1>1. ASSUME IInv, NEW p \in Proc, At(p, "work"), ~proc[p].cancelled, ~quit
      PROVE  IF team THEN handle[Key(p)] = p
             ELSE LateAdmission \/ \E q \in Proc : proc[q].pc \in {"drop", "empty", "dropped"}
  <2>1. HInv
    BY <1>1 DEF IInv
  <2>2. CASE team
    BY <1>1, <2>1, <2>2 DEF HInv, Open, Reached, At, Key
  <2>3. CASE Left
    BY <1>1, <2>1, <2>3 DEF HInv, Left, Leaving, At
  <2>4. CASE ~team /\ (Dropping \/ Emptying \/ pool /= None \/ Kept /= {})
    BY <2>4 DEF Dropping, Emptying, At, Kept, LateAdmission
  <2>5. QED
    BY <1>1, <2>2, <2>3, <2>4 DEF Left
<1>2. IInv => StopReachesTheRun
  BY <1>1 DEF StopReachesTheRun
<1>3. QED
  BY <1>2, SpecIInv, PTL

-----------------------------------------------------------------------------
(* The abstract bound of Slots.                                            *)
(* Slots counts as this module does.                                       *)
LEMMA SameCount == \A S : Limiter!Cardinality(S) = Cardinality(S)
BY DEF Limiter!Cardinality, Cardinality

LEMMA SessionsAreGranted ==
    ASSUME OpenInv
    PROVE  Sessions \subseteq Granted
<1>1. \A p \in Proc : proc[p].pc = "work" => proc[p].key \in Held(proc[p])
  BY DEF Held, Holding
<1>2. QED
  BY <1>1 DEF OpenInv, Owners, Sessions, At, Key

LEMMA InitLimiter == Init => Limiter!Init
<1> SUFFICES ASSUME Init PROVE Limiter!Init
  OBVIOUS
<1>1. Sessions = {}
  BY IdleSound DEF Init, Sessions, At
<1>2. QED
  BY <1>1 DEF Init, Limiter!Init

LEMMA NextLimiter == IInv /\ IInv' /\ [Next]_vars => [Limiter!Next]_(Limiter!vars)
<1> DEFINE Closed == ~team \/ quit
<1>1. CASE UNCHANGED vars
  <2>1. UNCHANGED <<Granted, Sessions, Limit, Closed>>
    BY <1>1 DEF vars, store, Granted, Sessions, At, Key, Limit
  <2>2. QED
    BY <2>1 DEF Limiter!vars, Granted, Limit
<1>2. ASSUME Closed' PROVE Limiter!Next
  BY <1>2 DEF Limiter!Next
<1>3. ASSUME IInv, IInv', Next, ~Closed' PROVE Limiter!Next
  <2>1. Open' /\ Open /\ UNCHANGED Closed
    <3>1. Budgets /\ (team' => team) /\ (quit => quit')
      BY <1>3, UserPhase, ThreadBudgets DEF Next, IInv, NInv
    <3>2. team' /\ ~quit' /\ team /\ ~quit
      BY <1>3, <3>1
    <3>3. QED
      BY <3>2 DEF Open
  <2>2. OpenInv /\ OpenInv' /\ (Regrant \/ Begins \/ Ends)
    BY <1>3, <2>1, NextHInv DEF IInv, HInv
  <2>3. CASE Regrant
    <3>1. Sessions \subseteq Granted'
      BY <2>2, <2>3, SessionsAreGranted DEF Regrant, OpenInv, Owners, Held, Sessions, At, Key, Holding
    <3>2. Limiter!Regrant
      BY <2>3, <3>1, SameCount, Zenon DEF Regrant, Limiter!Regrant, Granted, Limit
    <3>3. QED
      BY <2>1, <3>2 DEF Limiter!Next
  <2>4. CASE Begins
    <3>1. PICK c \in Granted \ Sessions : Sessions' = Sessions \cup {c} /\ UNCHANGED <<Granted, Limit>>
      BY <2>4 DEF Begins
    <3>2. Limiter!Begin(c)
      BY <3>1 DEF Limiter!Begin, Granted, Limit
    <3>3. c \in Card
      BY <2>2, GrantedShape DEF OpenInv
    <3>4. QED
      BY <2>1, <3>2, <3>3 DEF Limiter!Next
  <2>5. CASE Ends
    <3>1. PICK c \in Card : Sessions' = Sessions \ {c} /\ UNCHANGED <<Granted, Limit>>
      BY <2>5 DEF Ends
    <3>2. Limiter!End(c)
      BY <3>1 DEF Limiter!End, Granted, Limit
    <3>3. QED
      BY <2>1, <3>2 DEF Limiter!Next
  <2>6. QED
    BY <2>2, <2>3, <2>4, <2>5
<1>4. QED
  BY <1>1, <1>2, <1>3

(* BoundIsKept: every step of the team is a step of the abstract bound on  *)
(* parallel sessions, or none ("a bound, not a suggestion",                *)
(* internal/team/pool.go:7-9), for any number of cards, threads and calls. *)
THEOREM BoundIsKept == Spec => Bounded
BY InitLimiter, NextLimiter, SpecIInv, PTL DEF Spec, Bounded, Limiter!Spec
=============================================================================
