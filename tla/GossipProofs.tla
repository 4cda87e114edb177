---------------------------- MODULE GossipProofs ----------------------------
(***************************************************************************)
(* For any network of hosts, any proposals and any faults: what a host has *)
(* on disk never gives way to something worse, and when every admin must   *)
(* sign a checkpoint all checkpoints of module Gossip lie on one branch,   *)
(* as long as no process ends before its own checkpoint is on disk.        *)
(***************************************************************************)
EXTENDS Gossip, SequenceTheorems, FiniteSetTheorems, WellFoundedInduction, TLAPS

(* Two ledgers: a hash that is in both stands for the same branch.         *)
OneHash(c, d) ==
    \A i \in DOMAIN c, j \in DOMAIN d :
        c[i].id = d[j].id => i = j /\ Upto(c, i) = Upto(d, j)

(* The hashes of the blocks that were made.                                *)
Hashes == {p.id : p \in proposed} \cup (MaxBlocks + 1)..(MaxBlocks + made)

IsCkpt(c, i) == i \in DOMAIN c /\ c[i].kind = "checkpoint"

(* The lower one of two checkpoints is on the branch of the higher one.    *)
Agree(c, d) == \A i \in DOMAIN c, j \in DOMAIN d :
    IsCkpt(c, i) /\ IsCkpt(d, j) /\ i <= j => Upto(c, i - 1) = Upto(d, i - 1)

(* c holds what the checkpoint at j settled in d, under one as high.       *)
Holds(c, d, j) == HaveCkpt(c) /\ CkptHeight(c) >= j - 1 /\ Upto(c, j - 1) = Upto(d, j - 1)

Linear  == \A c \in Ledgers : \A i \in DOMAIN c : c[i].id \in Hashes
Unique  == \A c, d \in Ledgers : OneHash(c, d)
Saving  == \A h \in Host : NoWorse(chain[h], saved[h])

(* Every checkpoint is held by an admin, in memory and, unless the admin   *)
(* has one of its own to save, on disk; so that the next one, which that   *)
(* admin must sign, cannot pass it by.                                     *)
Agreeing == \A c, d \in Ledgers : Agree(c, d)
Held == \A d \in Ledgers : \A j \in DOMAIN d : IsCkpt(d, j) =>
            \E a \in Admins : Holds(chain[a], d, j) /\ (a \in unsaved \/ Holds(saved[a], d, j))
Checkpoints == Quorum = Cardinality(Admins) /\ ~forgot => Agreeing /\ Held

IInv == TypeOK /\ Linear /\ Unique /\ Saving /\ Checkpoints

-----------------------------------------------------------------------------
(* Numbers.                                                                *)

LEMMA Least ==
    ASSUME NEW T, T \subseteq Nat, T # {}
    PROVE  \E x \in T : \A y \in T : x <= y
<1> DEFINE R == OpToRel(<, Nat)
<1>1. \A x, y \in Nat : x < y => <<x, y>> \in R
  BY DEF OpToRel
<1>2. IsWellFoundedOn(R, Nat)
  BY NatLessThanWellFounded
<1> HIDE DEF R
<1>3. \E x \in T : \A y \in T : ~(<<y, x>> \in R)
  BY <1>2, WFMin
<1>4. PICK x \in T : \A y \in T : ~(<<y, x>> \in R)
  BY <1>3
<1>5. ASSUME NEW y \in T PROVE x <= y
  <2>1. x \in Nat /\ y \in Nat
    OBVIOUS
  <2>2. ~(y < x)
    BY <1>1, <1>4, <2>1, Zenon
  <2>3. QED
    BY <2>1, <2>2
<1>6. QED
  BY <1>5

LEMMA Greatest ==
    ASSUME NEW n \in Nat, NEW T, T \subseteq 1..n, T # {}
    PROVE  \E x \in T : \A y \in T : y <= x
<1> DEFINE U == {n - x : x \in T}
<1>1. U \subseteq Nat /\ U # {}
  <2>1. \A x \in T : n - x \in Nat
    OBVIOUS
  <2>2. PICK t \in T : TRUE
    OBVIOUS
  <2>3. n - t \in U
    OBVIOUS
  <2>4. QED
    BY <2>1, <2>3
<1> HIDE DEF U
<1>2. PICK u \in U : \A y \in U : u <= y
  BY <1>1, Least
<1>3. PICK x \in T : u = n - x
  BY DEF U
<1>4. ASSUME NEW y \in T PROVE y <= x
  <2>1. n - y \in U
    BY DEF U
  <2>2. n - x <= n - y /\ x \in Int /\ y \in Int
    BY <1>2, <1>3, <2>1
  <2>3. QED
    BY <2>2
<1>5. QED
  BY <1>4

-----------------------------------------------------------------------------
(* Chains and their beginnings.                                            *)

LEMMA ChainShape ==
    ASSUME NEW c \in Seq(Block)
    PROVE  /\ Len(c) \in Nat /\ DOMAIN c = 1..Len(c)
           /\ \A i \in 1..Len(c) : c[i] \in Block
           /\ c = <<>> <=> Len(c) = 0
<1>1. Len(c) \in Nat /\ DOMAIN c = 1..Len(c) /\ c \in [1..Len(c) -> Block]
  BY LenProperties
<1>2. c = <<>> <=> Len(c) = 0
  BY EmptySeq
<1>3. QED
  BY <1>1, <1>2

LEMMA UptoShape ==
    ASSUME NEW c \in Seq(Block), NEW n \in 0..Len(c)
    PROVE  /\ Upto(c, n) \in Seq(Block) /\ Len(Upto(c, n)) = n
           /\ DOMAIN Upto(c, n) = 1..n
           /\ \A i \in 1..n : Upto(c, n)[i] = c[i]
<1>1. Len(c) \in Nat /\ \A i \in 1..n : c[i] \in Block
  BY ChainShape
<1>2. /\ SubSeq(c, 1, n) \in Seq(Block)
      /\ Len(SubSeq(c, 1, n)) = IF 1 <= n THEN n - 1 + 1 ELSE 0
      /\ \A i \in 1..(n - 1 + 1) : SubSeq(c, 1, n)[i] = c[1 + i - 1]
  BY <1>1, SubSeqProperties
<1>3. Upto(c, n) \in Seq(Block) /\ Len(Upto(c, n)) = n
  BY <1>1, <1>2 DEF Upto
<1>4. \A i \in 1..n : Upto(c, n)[i] = c[i]
  BY <1>1, <1>2 DEF Upto
<1>5. QED
  BY <1>3, <1>4, ChainShape

LEMMA SameChain ==
    ASSUME NEW c \in Seq(Block), NEW d \in Seq(Block),
           Len(c) = Len(d), \A i \in 1..Len(c) : c[i] = d[i]
    PROVE  c = d
BY SeqEqual

LEMMA UptoAll ==
    ASSUME NEW c \in Seq(Block)
    PROVE  Upto(c, Len(c)) = c
BY SubSeqFull DEF Upto

LEMMA UptoUpto ==
    ASSUME NEW c \in Seq(Block), NEW n \in 0..Len(c), NEW m \in 0..n
    PROVE  Upto(Upto(c, n), m) = Upto(c, m)
<1>1. Len(c) \in Nat /\ m \in 0..Len(c)
  BY ChainShape
<1>2. /\ Upto(c, n) \in Seq(Block) /\ Len(Upto(c, n)) = n
      /\ \A i \in 1..n : Upto(c, n)[i] = c[i]
  BY UptoShape
<1>3. /\ Upto(c, m) \in Seq(Block) /\ Len(Upto(c, m)) = m
      /\ \A i \in 1..m : Upto(c, m)[i] = c[i]
  BY <1>1, UptoShape
<1>4. m \in 0..Len(Upto(c, n))
  BY <1>2
<1>5. /\ Upto(Upto(c, n), m) \in Seq(Block) /\ Len(Upto(Upto(c, n), m)) = m
      /\ \A i \in 1..m : Upto(Upto(c, n), m)[i] = Upto(c, n)[i]
  BY <1>2, <1>4, UptoShape
<1>6. \A i \in 1..m : Upto(Upto(c, n), m)[i] = Upto(c, m)[i]
  BY <1>2, <1>3, <1>5
<1>7. QED
  BY <1>3, <1>5, <1>6, SameChain

(* Equal up to a height is equal up to every lower one.                    *)
LEMMA UptoBelow ==
    ASSUME NEW c \in Seq(Block), NEW d \in Seq(Block),
           NEW n \in 0..Len(c), n <= Len(d), Upto(c, n) = Upto(d, n), NEW m \in 0..n
    PROVE  Upto(c, m) = Upto(d, m)
<1>1. n \in 0..Len(d)
  BY ChainShape
<1>2. QED
  BY <1>1, UptoUpto

LEMMA AppendShape ==
    ASSUME NEW c \in Seq(Block), NEW b \in Block
    PROVE  /\ Append(c, b) \in Seq(Block) /\ Len(Append(c, b)) = Len(c) + 1
           /\ DOMAIN Append(c, b) = 1..(Len(c) + 1)
           /\ Append(c, b)[Len(c) + 1] = b
           /\ \A i \in 1..Len(c) : Append(c, b)[i] = c[i]
           /\ \A n \in 0..Len(c) : Upto(Append(c, b), n) = Upto(c, n)
<1> DEFINE x == Append(c, b)
<1>1. /\ x \in Seq(Block) /\ Len(x) = Len(c) + 1
      /\ x[Len(c) + 1] = b /\ \A i \in 1..Len(c) : x[i] = c[i]
  BY AppendProperties
<1>2. Len(c) \in Nat /\ DOMAIN x = 1..(Len(c) + 1)
  BY <1>1, ChainShape
<1> HIDE DEF x
<1>3. ASSUME NEW n \in 0..Len(c) PROVE Upto(x, n) = Upto(c, n)
  <2>1. n \in 0..Len(x)
    BY <1>1, <1>2
  <2>2. /\ Upto(x, n) \in Seq(Block) /\ Len(Upto(x, n)) = n
        /\ \A i \in 1..n : Upto(x, n)[i] = x[i]
    BY <1>1, <2>1, UptoShape
  <2>3. /\ Upto(c, n) \in Seq(Block) /\ Len(Upto(c, n)) = n
        /\ \A i \in 1..n : Upto(c, n)[i] = c[i]
    BY UptoShape
  <2>4. \A i \in 1..n : Upto(x, n)[i] = Upto(c, n)[i]
    BY <1>1, <1>2, <2>2, <2>3, SMTT(30)
  <2>5. QED
    BY <2>2, <2>3, <2>4, SameChain
<1>4. QED
  BY <1>1, <1>2, <1>3 DEF x

LEMMA HeadHashes ==
    ASSUME NEW c \in Seq(Block), NEW n \in 0..Len(c)
    PROVE  /\ HeadHash(Upto(c, n)) = IF n = 0 THEN Genesis ELSE c[n].id
           /\ HeadHash(Upto(c, n)) \in BlockId \cup {Genesis}
           /\ n # 0 => HeadHash(Upto(c, n)) # Genesis
<1>1. Len(c) \in Nat /\ \A i \in 1..Len(c) : c[i] \in Block
  BY ChainShape
<1>2. /\ Upto(c, n) \in Seq(Block) /\ Len(Upto(c, n)) = n
      /\ \A i \in 1..n : Upto(c, n)[i] = c[i]
  BY UptoShape
<1>3. Upto(c, n) = <<>> <=> n = 0
  BY <1>2, ChainShape
<1>4. HeadHash(Upto(c, n)) = IF n = 0 THEN Genesis ELSE c[n].id
  BY <1>2, <1>3 DEF HeadHash
<1>5. n # 0 => c[n].id \in BlockId
  BY <1>1 DEF Block
<1>6. Genesis \notin BlockId
  BY ChainsAssumption DEF Genesis, BlockId
<1>7. QED
  BY <1>4, <1>5, <1>6

(* A common hash is a common branch.                                       *)
LEMMA CommonHash ==
    ASSUME NEW c \in Seq(Block), NEW d \in Seq(Block), OneHash(c, d),
           NEW i \in 0..Len(c), NEW j \in 0..Len(d),
           HeadHash(Upto(c, i)) = HeadHash(Upto(d, j))
    PROVE  i = j /\ Upto(c, i) = Upto(d, j)
<1>1. DOMAIN c = 1..Len(c) /\ DOMAIN d = 1..Len(d) /\ Len(c) \in Nat /\ Len(d) \in Nat
  BY ChainShape
<1>2. CASE i = 0 \/ j = 0
  <2>1. i = 0 /\ j = 0
    BY <1>2, HeadHashes
  <2>2. Upto(c, 0) = <<>> /\ Upto(d, 0) = <<>>
    BY SubSeqEmpty DEF Upto
  <2>3. QED
    BY <2>1, <2>2
<1>3. CASE i # 0 /\ j # 0
  <2>1. c[i].id = d[j].id
    BY <1>3, HeadHashes
  <2>2. QED
    BY <1>1, <1>3, <2>1 DEF OneHash
<1>4. QED
  BY <1>2, <1>3

-----------------------------------------------------------------------------
(* Checkpoints of one chain, and which of two chains is worse.             *)

LEMMA TopCheckpoint ==
    ASSUME NEW c \in Seq(Block)
    PROVE  /\ CkptHeight(c) \in Nat
           /\ HaveCkpt(c) => /\ CkptHeight(c) < Len(c)
                             /\ IsCkpt(c, CkptHeight(c) + 1)
                             /\ \A i \in DOMAIN c : IsCkpt(c, i) => i <= CkptHeight(c) + 1
           /\ ~HaveCkpt(c) => CkptHeight(c) = 0 /\ \A i \in DOMAIN c : ~IsCkpt(c, i)
<1>1. Len(c) \in Nat /\ DOMAIN c = 1..Len(c)
  BY ChainShape
<1>2. CASE ~HaveCkpt(c)
  BY <1>2 DEF CkptHeight, HaveCkpt, IsCkpt
<1>3. CASE HaveCkpt(c)
  <2> DEFINE T == {i \in DOMAIN c : c[i].kind = "checkpoint"}
             top == CHOOSE i \in DOMAIN c :
                        c[i].kind = "checkpoint" /\ \A j \in DOMAIN c : c[j].kind = "checkpoint" => j <= i
  <2>1. T \subseteq 1..Len(c) /\ T # {}
    BY <1>1, <1>3 DEF HaveCkpt
  <2>2. \E x \in T : \A y \in T : y <= x
    <3> HIDE DEF T
    <3>1. QED
      BY <1>1, <2>1, Greatest
  <2>3. top \in DOMAIN c /\ c[top].kind = "checkpoint"
        /\ \A j \in DOMAIN c : c[j].kind = "checkpoint" => j <= top
    BY <2>2
  <2>4. CkptHeight(c) = top - 1
    BY <1>3 DEF CkptHeight, Latest
  <2> HIDE DEF T, top
  <2>5. QED
    BY <1>1, <1>3, <2>3, <2>4 DEF IsCkpt
<1>4. QED
  BY <1>2, <1>3

LEMMA NoWorseMeans ==
    ASSUME NEW c, NEW d
    PROVE  /\ NoWorse(c, d) <=>
                \/ HaveCkpt(c) /\ ~HaveCkpt(d)
                \/ /\ HaveCkpt(c) <=> HaveCkpt(d)
                   /\ CkptHeight(c) > CkptHeight(d) \/ (CkptHeight(c) = CkptHeight(d) /\ Len(c) >= Len(d))
           /\ Prefers(c, d) <=>
                \/ HaveCkpt(c) /\ ~HaveCkpt(d)
                \/ /\ HaveCkpt(c) <=> HaveCkpt(d)
                   /\ IF HaveCkpt(c) /\ CkptHeight(c) # CkptHeight(d)
                      THEN CkptHeight(c) > CkptHeight(d) ELSE LongestWins(c, d)
<1>1. HaveCkpt(c) \in BOOLEAN /\ HaveCkpt(d) \in BOOLEAN
  BY DEF HaveCkpt
<1>2. HaveCkpt(c) # HaveCkpt(d) <=> ~(HaveCkpt(c) <=> HaveCkpt(d))
  BY <1>1
<1>3. CASE HaveCkpt(c) <=> HaveCkpt(d)
  BY <1>2, <1>3, Zenon DEF NoWorse, Prefers
<1>4. CASE ~(HaveCkpt(c) <=> HaveCkpt(d))
  BY <1>2, <1>4, Zenon DEF NoWorse, Prefers
<1>5. QED
  BY <1>3, <1>4

LEMMA NotWorseThanItself ==
    ASSUME NEW c \in Seq(Block)
    PROVE  NoWorse(c, c)
BY TopCheckpoint, ChainShape, NoWorseMeans

LEMMA NotWorseInTurn ==
    ASSUME NEW c \in Seq(Block), NEW d \in Seq(Block), NEW e \in Seq(Block),
           NoWorse(c, d), NoWorse(d, e)
    PROVE  NoWorse(c, e)
<1>1. /\ CkptHeight(c) \in Nat /\ CkptHeight(d) \in Nat /\ CkptHeight(e) \in Nat
      /\ Len(c) \in Nat /\ Len(d) \in Nat /\ Len(e) \in Nat
  BY TopCheckpoint, ChainShape
<1>2. QED
  BY <1>1, NoWorseMeans

LEMMA LongerNotWorse ==
    ASSUME NEW c \in Seq(Block), NEW n \in 0..Len(c)
    PROVE  NoWorse(c, Upto(c, n))
<1> DEFINE d == Upto(c, n)
<1>1. d \in Seq(Block) /\ Len(d) = n /\ DOMAIN d = 1..n /\ \A i \in 1..n : d[i] = c[i]
  BY UptoShape
<1>2. Len(c) \in Nat /\ DOMAIN c = 1..Len(c)
  BY ChainShape
<1> HIDE DEF d
<1>3. CkptHeight(c) \in Nat /\ CkptHeight(d) \in Nat
  BY <1>1, TopCheckpoint
<1>4. HaveCkpt(d) => HaveCkpt(c) /\ CkptHeight(d) <= CkptHeight(c)
  <2>1. SUFFICES ASSUME HaveCkpt(d) PROVE HaveCkpt(c) /\ CkptHeight(d) <= CkptHeight(c)
    OBVIOUS
  <2>2. IsCkpt(d, CkptHeight(d) + 1)
    BY <1>1, <2>1, TopCheckpoint
  <2>3. IsCkpt(c, CkptHeight(d) + 1)
    BY <1>1, <1>2, <2>2 DEF IsCkpt
  <2>4. HaveCkpt(c)
    BY <2>3 DEF IsCkpt, HaveCkpt
  <2>5. QED
    BY <1>3, <2>3, <2>4, TopCheckpoint DEF IsCkpt
<1>5. ~HaveCkpt(d) => CkptHeight(d) = 0
  BY <1>1, TopCheckpoint
<1>6. NoWorse(c, d)
  BY <1>1, <1>2, <1>3, <1>4, <1>5, NoWorseMeans
<1>7. QED
  BY <1>6 DEF d

LEMMA PreferredNotWorse ==
    ASSUME NEW c \in Seq(Block), NEW d \in Seq(Block), ~Prefers(c, d)
    PROVE  NoWorse(d, c)
<1>1. /\ CkptHeight(c) \in Nat /\ CkptHeight(d) \in Nat
      /\ Len(c) \in Nat /\ Len(d) \in Nat
      /\ ~HaveCkpt(c) => CkptHeight(c) = 0
      /\ ~HaveCkpt(d) => CkptHeight(d) = 0
  BY TopCheckpoint, ChainShape
<1>2. QED
  BY <1>1, NoWorseMeans DEF LongestWins

(* A chain no worse than one that holds a checkpoint holds it too, unless  *)
(* it disagrees with it.                                                   *)
LEMMA HoldsOn ==
    ASSUME NEW x \in Seq(Block), NEW c \in Seq(Block), NEW d \in Seq(Block),
           NEW j \in DOMAIN d, IsCkpt(d, j),
           Holds(c, d, j), NoWorse(x, c), Agree(d, x)
    PROVE  Holds(x, d, j)
<1>1. HaveCkpt(x) /\ CkptHeight(x) >= CkptHeight(c) /\ CkptHeight(c) >= j - 1
  BY TopCheckpoint, NoWorseMeans DEF Holds
<1>2. CkptHeight(x) \in Nat /\ CkptHeight(c) \in Nat /\ j \in Nat
  BY TopCheckpoint, ChainShape
<1>3. IsCkpt(x, CkptHeight(x) + 1) /\ j <= CkptHeight(x) + 1
  BY <1>1, <1>2, TopCheckpoint
<1>4. Upto(d, j - 1) = Upto(x, j - 1)
  BY <1>3 DEF Agree, IsCkpt
<1>5. QED
  BY <1>1, <1>2, <1>4 DEF Holds

-----------------------------------------------------------------------------
(* What is pulled from a peer.                                             *)

LEMMA AppliedFits ==
    ASSUME NEW c, NEW bs \in Seq(Block)
    PROVE  Applied(c, bs) \in 0..Len(bs) /\ Fits(c, bs, Applied(c, bs))
<1> DEFINE T == {n \in 0..Len(bs) : n < Len(bs) => ~Fits(c, bs, n + 1)}
<1>1. Len(bs) \in Nat
  BY ChainShape
<1>2. T \subseteq Nat /\ Len(bs) \in T
  BY <1>1
<1>3. PICK n \in T : \A m \in T : n <= m
  <2> HIDE DEF T
  <2>1. QED
    BY <1>2, Least
<1>4. n \in 0..Len(bs) /\ (n < Len(bs) => ~Fits(c, bs, n + 1))
  OBVIOUS
<1>5. Fits(c, bs, n)
  <2>1. CASE n = 0
    BY <2>1 DEF Fits
  <2>2. CASE n # 0
    <3>1. n - 1 \in 0..Len(bs) /\ n - 1 < Len(bs) /\ ~(n <= n - 1) /\ n - 1 + 1 = n
      BY <1>1, <1>4, <2>2
    <3>2. n - 1 \notin T
      BY <1>3, <3>1
    <3>3. QED
      BY <3>1, <3>2
  <2>3. QED
    BY <2>1, <2>2
<1> HIDE DEF T
<1>6. \E m \in 0..Len(bs) : Fits(c, bs, m) /\ (m < Len(bs) => ~Fits(c, bs, m + 1))
  BY <1>4, <1>5
<1>7. QED
  BY <1>6 DEF Applied

(* Blocks that extend a chain extend it along the chain they come from.    *)
LEMMA PulledBranch ==
    ASSUME NEW c \in Seq(Block), NEW d \in Seq(Block), OneBranch(d), OneHash(c, d),
           NEW from \in Nat \ {0}, NEW to \in Nat
    PROVE  LET x == TryExtend(c, Serve(d, from, to))
           IN  x = c \/ \E n \in 0..Len(d) : x = Upto(d, n) /\ Len(c) <= n /\ c = Upto(d, Len(c))
<1> DEFINE to1 == IF to > Len(d) THEN Len(d) ELSE to
           bs == Serve(d, from, to)
           n == Applied(c, bs)
<1>1. Len(d) \in Nat /\ DOMAIN d = 1..Len(d) /\ Len(c) \in Nat
      /\ to1 \in 0..Len(d) /\ bs = SubSeq(d, from, to1)
      /\ \A i \in 1..Len(d) : d[i] \in Block
  BY ChainShape DEF Serve
<1> HIDE DEF to1, bs, n
<1>2. /\ bs \in Seq(Block)
      /\ Len(bs) = IF from <= to1 THEN to1 - from + 1 ELSE 0
      /\ \A i \in 1..(to1 - from + 1) : bs[i] = d[from + i - 1]
  <2>1. \A i \in from..to1 : d[i] \in Block
    BY <1>1
  <2>2. QED
    BY <1>1, <2>1, SubSeqProperties
<1>3. n \in 0..Len(bs) /\ Fits(c, bs, n)
  BY <1>2, AppliedFits DEF n
<1>4. CASE n = 0
  <2>1. Upto(bs, 0) = <<>> /\ c \o <<>> = c
    BY SubSeqEmpty, ConcatEmptySeq DEF Upto
  <2>2. QED
    BY <1>4, <2>1 DEF TryExtend, n, bs
<1>5. CASE n # 0
  <2>1. from <= to1 /\ n <= to1 - from + 1 /\ n \in Nat \ {0} /\ 1 \in 1..n
    BY <1>1, <1>2, <1>3, <1>5
  <2>2. bs[1] = d[from] /\ from \in 1..Len(d)
    BY <1>1, <1>2, <2>1
  <2>3. bs[1].parent = HeadHash(c)
    <3>1. ValidateBlock(c \o Upto(bs, 1 - 1), bs[1])
      BY <1>3, <2>1 DEF Fits
    <3>2. Upto(bs, 1 - 1) = <<>> /\ c \o <<>> = c
      BY SubSeqEmpty, ConcatEmptySeq DEF Upto
    <3>3. QED
      BY <3>1, <3>2 DEF ValidateBlock
  <2>4. d[from].parent = HeadHash(Upto(d, from - 1))
    BY <1>1, <2>2 DEF OneBranch
  <2>5. Len(c) = from - 1 /\ c = Upto(d, from - 1)
    <3>1. HeadHash(Upto(c, Len(c))) = HeadHash(Upto(d, from - 1))
      BY <2>2, <2>3, <2>4, UptoAll
    <3>2. Len(c) \in 0..Len(c) /\ from - 1 \in 0..Len(d)
      BY <1>1, <2>2
    <3>3. QED
      BY <3>1, <3>2, CommonHash, UptoAll
  <2>6. c \o Upto(bs, n) = Upto(d, from - 1 + n)
    <3>1. /\ Upto(bs, n) \in Seq(Block) /\ Len(Upto(bs, n)) = n
          /\ \A i \in 1..n : Upto(bs, n)[i] = bs[i]
      BY <1>2, <1>3, UptoShape
    <3>2. from - 1 + n \in 0..Len(d) /\ from - 1 \in 0..Len(d)
      BY <1>1, <2>1, <2>2
    <3>3. /\ Upto(d, from - 1 + n) \in Seq(Block)
          /\ Len(Upto(d, from - 1 + n)) = from - 1 + n
          /\ \A i \in 1..(from - 1 + n) : Upto(d, from - 1 + n)[i] = d[i]
      BY <3>2, UptoShape
    <3>4. \A i \in 1..Len(c) : c[i] = d[i]
      BY <2>5, <3>2, UptoShape
    <3>5. /\ c \o Upto(bs, n) \in Seq(Block)
          /\ Len(c \o Upto(bs, n)) = Len(c) + n
          /\ \A i \in 1..(Len(c) + n) : (c \o Upto(bs, n))[i] =
                IF i <= Len(c) THEN c[i] ELSE Upto(bs, n)[i - Len(c)]
      BY <3>1, ConcatProperties
    <3>6. ASSUME NEW i \in 1..(Len(c) + n)
          PROVE  (c \o Upto(bs, n))[i] = Upto(d, from - 1 + n)[i]
      <4>1. CASE i <= Len(c)
        BY <1>1, <2>1, <2>5, <3>3, <3>4, <3>5, <4>1
      <4>2. CASE i > Len(c)
        <5>1. /\ i - Len(c) \in 1..n /\ i - Len(c) \in 1..(to1 - from + 1)
              /\ from + (i - Len(c)) - 1 = i /\ i \in 1..(from - 1 + n)
          BY <1>1, <2>1, <2>5, <4>2
        <5> DEFINE k == i - Len(c)
        <5>2. k \in 1..n /\ k \in 1..(to1 - from + 1) /\ d[from + k - 1] = d[i]
          BY <5>1
        <5>3. (c \o Upto(bs, n))[i] = Upto(bs, n)[k] /\ Upto(d, from - 1 + n)[i] = d[i]
          BY <1>1, <3>3, <3>5, <4>2, <5>1
        <5> HIDE DEF k
        <5>4. QED
          BY <1>2, <3>1, <5>2, <5>3
      <4>3. i <= Len(c) \/ i > Len(c)
        BY <1>1, <2>1
      <4>4. QED
        BY <4>1, <4>2, <4>3, ZenonT(30)
    <3>7. QED
      BY <2>5, <3>3, <3>5, <3>6, SameChain, ZenonT(40)
  <2>7. from - 1 + n \in 0..Len(d) /\ Len(c) <= from - 1 + n
    BY <1>1, <2>1, <2>2, <2>5
  <2>8. QED
    BY <2>5, <2>6, <2>7 DEF TryExtend, n, bs
<1>6. QED
  BY <1>4, <1>5

LEMMA ServedFromGenesis ==
    ASSUME NEW d \in Seq(Block), NEW to \in Nat
    PROVE  \E n \in 0..Len(d) : Serve(d, 1, to) = Upto(d, n)
BY ChainShape DEF Serve, Upto

-----------------------------------------------------------------------------
(* Whom a node gets to sign.                                               *)

LEMMA Signers ==
    ASSUME NEW h \in Host, NEW willing, NEW signed \in Gathered(h, willing)
    PROVE  /\ signed \subseteq Host
           /\ \A p \in signed : (IsAdmin(chain[h], p) /\ p = h) \/ p \in willing
           /\ willing \subseteq Admins => Cardinality(signed) = Quorum
<1> DEFINE own == {h} \cap {p \in Host : IsAdmin(chain[h], p)}
           peers == {p \in (Peers[h] \cap willing) \ {h} : Linked(h, p)}
<1>1. PICK s \in SUBSET peers : signed = own \cup s /\ Cardinality(own) + Cardinality(s) = Quorum
  BY DEF Gathered
<1>2. Peers[h] \subseteq Host
  BY GossipAssumption
<1>3. s \subseteq Host /\ s \subseteq willing /\ h \notin s
  BY <1>2
<1>4. IsFiniteSet(own) /\ IsFiniteSet(s)
  <2>1. IsFiniteSet(Host)
    BY ChainsAssumption
  <2>2. QED
    BY <1>3, <2>1, FS_Subset
<1>5. Cardinality(signed) = Quorum
  <2>1. own \cap s = {}
    BY <1>3
  <2>2. Cardinality(own \cup s) = Cardinality(own) + Cardinality(s) - Cardinality(own \cap s)
    BY <1>4, FS_Union
  <2>3. Cardinality(own \cap s) = 0 /\ Cardinality(own) \in Nat /\ Cardinality(s) \in Nat
    BY <1>4, <2>1, FS_EmptySet, FS_CardinalityType
  <2> HIDE DEF own, peers
  <2>4. QED
    BY <1>1, <2>2, <2>3
<1>6. QED
  BY <1>1, <1>3, <1>5

LEMMA FiniteAdmins ==
    /\ IsFiniteSet(Host) /\ IsFiniteSet(Admins) /\ Admins \subseteq Host
    /\ Cardinality(Admins) \in Nat /\ Quorum \in Nat \ {0} /\ Quorum <= Cardinality(Admins)
<1>1. IsFiniteSet(Host) /\ Admins \subseteq Host /\ Quorum \in 1..Cardinality(Admins)
  BY ChainsAssumption
<1>2. IsFiniteSet(Admins) /\ Cardinality(Admins) \in Nat
  BY <1>1, FS_Subset, FS_CardinalityType
<1>3. QED
  BY <1>1, <1>2

LEMMA CosignersAreAdmins ==
    ASSUME NEW h \in Host, NEW signed \in Cosigners(h)
    PROVE  /\ signed \subseteq Admins /\ Cardinality(signed) = Quorum
           /\ \A p \in signed : p = h \/ ApproveCheckpoint(p, chain[h])
<1> DEFINE willing == {p \in Host : ApproveCheckpoint(p, chain[h])}
<1>1. signed \in Gathered(h, willing)
  BY DEF Cosigners
<1>2. willing \subseteq Admins
  BY DEF ApproveCheckpoint, IsAdmin
<1> HIDE DEF willing
<1>3. /\ \A p \in signed : (IsAdmin(chain[h], p) /\ p = h) \/ p \in willing
      /\ Cardinality(signed) = Quorum
  BY <1>1, <1>2, Signers
<1>4. \A p \in signed : p \in Admins
  BY <1>2, <1>3 DEF IsAdmin
<1>5. \A p \in willing : ApproveCheckpoint(p, chain[h])
  BY DEF willing
<1>6. QED
  BY <1>3, <1>4, <1>5

(* A block that passes has the signatures it needs.                        *)
LEMMA ValidIsSigned ==
    ASSUME NEW c \in Seq(Block), NEW b \in Block, b.kind # "note", CheckQuorum(c, b.signed)
    PROVE  Cardinality(b.signed \cap Admins) >= Quorum
<1> DEFINE s == {h \in b.signed : IsAdmin(c, h)}
           t == b.signed \cap Admins
<1>1. s \subseteq t /\ t \subseteq Admins
  BY DEF IsAdmin
<1> HIDE DEF t
<1>2. IsFiniteSet(t) /\ Cardinality(t) \in Nat
  BY <1>1, FiniteAdmins, FS_Subset, FS_CardinalityType
<1>3. IsFiniteSet(s) /\ Cardinality(s) \in Nat /\ Cardinality(s) <= Cardinality(t)
  BY <1>1, <1>2, FS_Subset, FS_CardinalityType
<1>4. Cardinality(s) >= Quorum
  BY DEF CheckQuorum
<1> HIDE DEF s
<1>5. QED
  BY <1>2, <1>3, <1>4, FiniteAdmins DEF t

-----------------------------------------------------------------------------
(* What a step does to the ledgers: each of them is the beginning of one   *)
(* that was there, or one chain with a new block.                          *)

Beginning(x) == \E c \in Ledgers : \E n \in 0..Len(c) : x = Upto(c, n)

(* A chain with a block of its own hash, which is signed as it must be.    *)
NewHead(x, h) ==
    \E b \in Block :
        /\ x = Append(chain[h], b) /\ b.parent = HeadHash(chain[h])
        /\ b.kind # "note" => Cardinality(b.signed \cap Admins) >= Quorum
        /\ b.id \notin Hashes /\ b.id \in Hashes'
        /\ b.kind = "checkpoint" => /\ h \in Admins /\ h \in unsaved'
                                    /\ b.signed \subseteq Admins /\ Cardinality(b.signed) = Quorum
                                    /\ \A p \in b.signed : p = h \/ ApproveCheckpoint(p, chain[h])

Unforgotten == unsaved' = unsaved /\ forgot' = forgot

Stays == chain' = chain /\ saved' = saved /\ Hashes' = Hashes /\ Unforgotten

Learns(h) ==
    /\ \E x : /\ chain' = [chain EXCEPT ![h] = x] /\ NoWorse(x, chain[h]) /\ Beginning(x)
    /\ saved' = saved /\ Hashes' = Hashes /\ Unforgotten

Reloads(h) ==
    /\ chain' = [chain EXCEPT ![h] = saved[h]] /\ saved' = saved /\ Hashes' = Hashes
    /\ unsaved' = unsaved \ {h} /\ forgot' = (forgot \/ h \in unsaved)

Saves(h) ==
    /\ chain' = chain /\ saved' = [saved EXCEPT ![h] = chain[h]] /\ Hashes' = Hashes
    /\ unsaved' = unsaved \ {h} /\ forgot' = forgot

Makes(h) ==
    \E x : /\ chain' = [chain EXCEPT ![h] = x] /\ saved' = saved
           /\ NewHead(x, h) /\ Hashes \subseteq Hashes'
           /\ unsaved \subseteq unsaved' /\ forgot' = forgot

LEMMA LedgersAreChains ==
    ASSUME TypeOK
    PROVE  /\ \A h \in Host : /\ chain[h] \in Ledgers /\ saved[h] \in Ledgers
                              /\ chain[h] \in Seq(Block) /\ saved[h] \in Seq(Block)
           /\ \A c \in Ledgers : c \in Seq(Block) /\ OneBranch(c)
<1>1. \A h \in Host : /\ chain[h] \in Seq(Block) /\ OneBranch(chain[h])
                      /\ saved[h] \in Seq(Block) /\ OneBranch(saved[h])
  BY DEF TypeOK
<1>2. QED
  BY <1>1 DEF Ledgers

LEMMA IdleIsTick ==
    ASSUME NEW h \in Host
    PROVE  /\ Idle(h) \in Tick
           /\ \A todo \in SUBSET Host : [Idle(h) EXCEPT !.todo = todo] \in Tick
           /\ [Idle(h) EXCEPT !.at = "panicked"] \in Tick
           /\ [Idle(h) EXCEPT !.at = "save", !.todo = {}] \in Tick
BY GossipAssumption DEF Idle, Tick, Ats

LEMMA PlanInNat ==
    ASSUME NEW c \in Seq(Block), NEW d \in Seq(Block), PlanSync(c, d) # <<>>
    PROVE  PlanSync(c, d)[1] \in Nat /\ PlanSync(c, d)[2] \in Nat
<1>1. Len(c) \in Nat /\ Len(d) \in Nat /\ CkptHeight(c) \in Nat
  BY ChainShape, TopCheckpoint
<1> DEFINE shared == HaveCkpt(c) /\ HaveCkpt(d) /\ CkptHash(c) = CkptHash(d)
           from == IF shared THEN CkptHeight(c) + 1 ELSE 0
<1>2. from \in Nat
  BY <1>1
<1>3. \/ PlanSync(c, d) = <<>>
      \/ PlanSync(c, d) = <<Len(c) + 1, Len(d)>>
      \/ PlanSync(c, d) = <<from, Len(d)>>
  <2>1. CASE HeadHash(d) = HeadHash(c)
    BY <2>1 DEF PlanSync
  <2>2. CASE HeadHash(d) # HeadHash(c) /\ Len(d) > Len(c)
    BY <2>2, <1>1 DEF PlanSync
  <2>3. CASE HeadHash(d) # HeadHash(c) /\ Len(d) < Len(c)
    BY <2>3, <1>1 DEF PlanSync
  <2>4. CASE HeadHash(d) # HeadHash(c) /\ ~(Len(d) > Len(c)) /\ ~(Len(d) < Len(c))
    BY <2>4, <1>1 DEF PlanSync
  <2>5. QED
    BY <2>1, <2>2, <2>3, <2>4
<1> HIDE DEF from
<1>4. QED
  BY <1>1, <1>2, <1>3

LEMMA ProposeMakes ==
    ASSUME TypeOK, NEW h \in Host, Propose(h)
    PROVE  Makes(h)
<1>1. PICK p \in Proposals \ proposed : \E signed \in Signatures(h, p.kind) :
          /\ p.by = h
          /\ ValidateBlock(chain[h], NewBlock(h, p.id, p.kind, p.subject, signed))
          /\ chain' = [chain EXCEPT ![h] = Append(@, NewBlock(h, p.id, p.kind, p.subject, signed))]
          /\ proposed' = proposed \cup {p}
  BY DEF Propose
<1>2. PICK signed \in Signatures(h, p.kind) :
          /\ ValidateBlock(chain[h], NewBlock(h, p.id, p.kind, p.subject, signed))
          /\ chain' = [chain EXCEPT ![h] = Append(@, NewBlock(h, p.id, p.kind, p.subject, signed))]
  BY <1>1
<1> DEFINE b == NewBlock(h, p.id, p.kind, p.subject, signed)
           x == Append(chain[h], b)
<1>3. chain \in [Host -> Seq(Block)] /\ saved \in [Host -> Seq(Block)]
      /\ made \in Nat /\ proposed \subseteq Proposals /\ MaxBlocks \in Nat
  BY ChainsAssumption DEF TypeOK
<1>4. /\ p.id \in 1..MaxBlocks /\ p.kind \in Kinds \ {"checkpoint"} /\ p.subject \in Host
  BY GossipAssumption
<1>5. signed \subseteq Host
  BY Signers DEF Signatures
<1>6. HeadHash(chain[h]) \in BlockId \cup {Genesis}
  <2>1. chain[h] \in Seq(Block) /\ Len(chain[h]) \in 0..Len(chain[h])
    BY <1>3, ChainShape
  <2>2. QED
    BY <2>1, HeadHashes, UptoAll
<1>7. b \in Block /\ b.id = p.id /\ b.parent = HeadHash(chain[h]) /\ b.kind = p.kind /\ b.signed = signed
  BY <1>3, <1>4, <1>5, <1>6 DEF NewBlock, Block, BlockId
<1> HIDE DEF b
<1>8. b.kind # "note" => Cardinality(b.signed \cap Admins) >= Quorum
  BY <1>2, <1>3, <1>7, ValidIsSigned DEF ValidateBlock, b
<1>9. b.id \notin Hashes
  <2>1. \A q \in proposed : q.id # p.id
    BY <1>3, GossipAssumption
  <2>2. p.id \notin (MaxBlocks + 1)..(MaxBlocks + made)
    BY <1>3, <1>4
  <2>3. QED
    BY <1>7, <2>1, <2>2 DEF Hashes
<1>10. b.id \in Hashes' /\ Hashes \subseteq Hashes'
  <2>1. proposed' = proposed \cup {p} /\ made' = made + 1
    BY <1>1 DEF Propose
  <2>2. (MaxBlocks + 1)..(MaxBlocks + made) \subseteq (MaxBlocks + 1)..(MaxBlocks + made')
    BY <1>3, <2>1
  <2>3. QED
    BY <1>7, <2>1, <2>2 DEF Hashes
<1>11. /\ chain' = [chain EXCEPT ![h] = x] /\ saved' = saved
       /\ unsaved' = unsaved /\ forgot' = forgot
  BY <1>2, <1>3 DEF Propose, b
<1>12. NewHead(x, h)
  BY <1>4, <1>7, <1>8, <1>9, <1>10 DEF NewHead
<1>13. QED
  BY <1>10, <1>11, <1>12 DEF Makes

LEMMA CheckpointMakes ==
    ASSUME TypeOK, NEW h \in Host, NEW c \in Checkpointed(h),
           chain' = [chain EXCEPT ![h] = c], made' = made + 1,
           saved' = saved, proposed' = proposed,
           unsaved' = unsaved \cup {h}, forgot' = forgot
    PROVE  Makes(h)
<1>1. CheckpointDue(chain[h], h) /\ made # MaxBlocks
  BY DEF Checkpointed
<1>2. PICK signed \in Cosigners(h) :
          c = Append(chain[h], NewBlock(h, MaxBlocks + made + 1, "checkpoint", h, signed))
  BY <1>1 DEF Checkpointed
<1> DEFINE b == NewBlock(h, MaxBlocks + made + 1, "checkpoint", h, signed)
<1>3. /\ chain \in [Host -> Seq(Block)] /\ saved \in [Host -> Seq(Block)]
      /\ made \in Nat /\ made < MaxBlocks /\ MaxBlocks \in Nat
      /\ proposed \subseteq Proposals
  BY <1>1, ChainsAssumption DEF TypeOK
<1>4. /\ signed \subseteq Admins /\ Cardinality(signed) = Quorum
      /\ \A p \in signed : p = h \/ ApproveCheckpoint(p, chain[h])
  BY CosignersAreAdmins
<1>5. signed \subseteq Host /\ signed \cap Admins = signed
  BY <1>4, FiniteAdmins
<1>6. HeadHash(chain[h]) \in BlockId \cup {Genesis}
  <2>1. chain[h] \in Seq(Block) /\ Len(chain[h]) \in 0..Len(chain[h])
    BY <1>3, ChainShape
  <2>2. QED
    BY <2>1, HeadHashes, UptoAll
<1>7. MaxBlocks + made + 1 \in BlockId
  BY <1>3 DEF BlockId
<1>8. /\ b \in Block /\ b.id = MaxBlocks + made + 1 /\ b.parent = HeadHash(chain[h])
      /\ b.kind = "checkpoint" /\ b.signed = signed
  BY <1>5, <1>6, <1>7 DEF NewBlock, Block, Kinds
<1> HIDE DEF b
<1>9. Cardinality(b.signed \cap Admins) >= Quorum
  BY <1>4, <1>5, <1>8, FiniteAdmins
<1>10. b.id \notin Hashes
  <2>1. \A q \in proposed : q.id \in 1..MaxBlocks
    BY <1>3, GossipAssumption
  <2>2. \A q \in proposed : q.id # MaxBlocks + made + 1
    BY <1>3, <2>1
  <2>3. QED
    BY <1>3, <1>8, <2>2 DEF Hashes
<1>11. b.id \in Hashes' /\ Hashes \subseteq Hashes'
  <2>1. b.id \in (MaxBlocks + 1)..(MaxBlocks + made')
        /\ (MaxBlocks + 1)..(MaxBlocks + made) \subseteq (MaxBlocks + 1)..(MaxBlocks + made')
    BY <1>3, <1>8
  <2>2. QED
    BY <2>1 DEF Hashes
<1>12. h \in Admins /\ h \in unsaved'
  BY <1>1 DEF CheckpointDue, IsAdmin
<1>13. NewHead(c, h)
  BY <1>2, <1>4, <1>8, <1>9, <1>10, <1>11, <1>12 DEF NewHead, b
<1>14. QED
  BY <1>11, <1>13 DEF Makes

LEMMA ItsOwnBeginning ==
    ASSUME TypeOK, NEW c \in Ledgers
    PROVE  Beginning(c)
<1>1. c \in Seq(Block)
  BY LedgersAreChains
<1>2. Len(c) \in 0..Len(c) /\ c = Upto(c, Len(c))
  BY <1>1, ChainShape, UptoAll
<1>3. QED
  BY <1>2 DEF Beginning

LEMMA PullLearns ==
    ASSUME TypeOK, Unique, NEW h \in Host, Pull(h)
    PROVE  Stays \/ Learns(h)
<1> DEFINE p == tick[h].peer
           x == TryExtend(chain[h], Serve(chain[p], tick[h].from, tick[h].to))
<1>1. Hashes' = Hashes /\ saved' = saved /\ Unforgotten
  BY DEF Pull, Hashes, Unforgotten
<1>a. CASE chain' = chain
  BY <1>1, <1>a DEF Stays
<1>b. SUFFICES ASSUME chain' # chain PROVE Stays \/ Learns(h)
  BY <1>a
<1>2. chain' = [chain EXCEPT ![h] = x] /\ tick[h].from # 0
  BY <1>b DEF Pull
<1>3. tick[h] \in Tick /\ tick[h].from # 0
  BY <1>2 DEF TypeOK
<1>4. p \in Host /\ tick[h].from \in Nat \ {0} /\ tick[h].to \in Nat
  BY <1>3 DEF Tick
<1>5. /\ chain[h] \in Seq(Block) /\ chain[p] \in Seq(Block) /\ OneBranch(chain[p])
      /\ chain[h] \in Ledgers /\ chain[p] \in Ledgers
  BY <1>4, LedgersAreChains
<1>6. OneHash(chain[h], chain[p])
  BY <1>5 DEF Unique
<1>7. \/ x = chain[h]
      \/ \E n \in 0..Len(chain[p]) : /\ x = Upto(chain[p], n) /\ Len(chain[h]) <= n
                                     /\ chain[h] = Upto(chain[p], Len(chain[h]))
  BY <1>4, <1>5, <1>6, PulledBranch
<1> HIDE DEF x, p
<1>8. CASE x = chain[h]
  <2>1. NoWorse(x, chain[h]) /\ Beginning(x)
    BY <1>5, <1>8, NotWorseThanItself, ItsOwnBeginning
  <2>2. QED
    BY <1>1, <1>2, <2>1 DEF Stays, Learns
<1>9. ASSUME NEW n \in 0..Len(chain[p]), x = Upto(chain[p], n), Len(chain[h]) <= n,
             chain[h] = Upto(chain[p], Len(chain[h]))
      PROVE  Stays \/ Learns(h)
  <2>1. Beginning(x)
    BY <1>5, <1>9 DEF Beginning
  <2>2. x \in Seq(Block) /\ Len(x) = n
    BY <1>5, <1>9, UptoShape
  <2>3. Len(chain[h]) \in 0..n
    BY <1>5, <1>9, ChainShape
  <2>4. chain[h] = Upto(x, Len(chain[h]))
    BY <1>5, <1>9, <2>3, UptoUpto
  <2>5. NoWorse(x, Upto(x, Len(chain[h])))
    BY <2>2, <2>3, LongerNotWorse
  <2>6. NoWorse(x, chain[h])
    BY <2>4, <2>5
  <2>7. QED
    BY <1>1, <1>2, <2>1, <2>6 DEF Stays, Learns
<1>10. QED
  BY <1>7, <1>8, <1>9

LEMMA PullAllLearns ==
    ASSUME TypeOK, NEW h \in Host, PullAll(h)
    PROVE  Stays \/ Learns(h)
<1> DEFINE p == tick[h].peer
           d == Serve(chain[p], 1, tick[h].to)
           x == MergeFork(chain[h], d)
<1>1. Hashes' = Hashes /\ saved' = saved /\ Unforgotten
  BY DEF PullAll, Hashes, Unforgotten
<1>2. chain' = chain \/ chain' = [chain EXCEPT ![h] = x]
  BY DEF PullAll
<1>3. p \in Host /\ tick[h].to \in Nat
  <2>1. tick[h] \in Tick
    BY DEF TypeOK
  <2>2. QED
    BY <2>1 DEF Tick
<1>4. /\ chain[h] \in Seq(Block) /\ chain[p] \in Seq(Block)
      /\ chain[h] \in Ledgers /\ chain[p] \in Ledgers
  BY <1>3, LedgersAreChains
<1> HIDE DEF p
<1>5. PICK n \in 0..Len(chain[p]) : d = Upto(chain[p], n)
  BY <1>3, <1>4, ServedFromGenesis
<1>6. d \in Seq(Block) /\ Beginning(d)
  BY <1>4, <1>5, UptoShape DEF Beginning
<1> HIDE DEF d
<1>7. x = chain[h] \/ (x = d /\ ~Prefers(chain[h], d))
  BY DEF MergeFork, ForkChoice
<1> HIDE DEF x
<1>8. NoWorse(x, chain[h]) /\ Beginning(x)
  BY <1>4, <1>6, <1>7, NotWorseThanItself, ItsOwnBeginning, PreferredNotWorse
<1>9. QED
  BY <1>1, <1>2, <1>8 DEF Stays, Learns

LEMMA StepMoves ==
    ASSUME TypeOK, Unique, [Next]_vars
    PROVE  Stays \/ \E h \in Host : Learns(h) \/ Reloads(h) \/ Saves(h) \/ Makes(h)
<1>1. CASE UNCHANGED vars
  BY <1>1 DEF Stays, Hashes, vars, Unforgotten
<1>2. ASSUME NEW h \in Host, MaybeCheckpoint(h) PROVE Stays \/ Makes(h)
  <2>1. ASSUME NEW c \in Checkpointed(h), chain' = [chain EXCEPT ![h] = c], made' = made + 1,
               unsaved' = unsaved \cup {h}
        PROVE  Makes(h)
    <3>1. saved' = saved /\ proposed' = proposed /\ forgot' = forgot
      BY <1>2 DEF MaybeCheckpoint
    <3>2. QED
      BY <2>1, <3>1, CheckpointMakes
  <2>2. CASE UNCHANGED <<chain, made, unsaved>>
    BY <1>2, <2>2 DEF MaybeCheckpoint, Stays, Hashes, Unforgotten
  <2>3. QED
    BY <1>2, <2>1, <2>2 DEF MaybeCheckpoint
<1>3. ASSUME NEW h \in Host, Persist(h) PROVE Stays \/ Saves(h)
  BY <1>3 DEF Persist, Stays, Saves, Hashes, Unforgotten
<1>4. ASSUME NEW h \in Host, End(h) \/ Restart(h) PROVE Reloads(h)
  BY <1>4 DEF End, Restart, Start, Reloads, Hashes
<1>5. ASSUME NEW h \in Host, Ask(h) \/ AskHeight(h) PROVE Stays
  BY <1>5 DEF Ask, AskHeight, Stays, Hashes, Unforgotten
<1>6. QED
  BY <1>1, <1>2, <1>3, <1>4, <1>5, ProposeMakes, PullLearns, PullAllLearns DEF Next, Step

-----------------------------------------------------------------------------
(* The places of a tick.                                                   *)

LEMMA TickStep ==
    ASSUME TypeOK, [Next]_vars
    PROVE  /\ tick' \in [Host -> Tick]
           /\ made' \in 0..MaxBlocks /\ proposed' \subseteq Proposals /\ faults' \in 0..MaxFaults
           /\ unsaved' \subseteq Host /\ forgot' \in BOOLEAN
<1> DEFINE OK == tick' \in [Host -> Tick]
           Kept == made' \in 0..MaxBlocks /\ proposed' \subseteq Proposals
<1>1. /\ tick \in [Host -> Tick] /\ made \in 0..MaxBlocks /\ MaxBlocks \in Nat
      /\ proposed \subseteq Proposals /\ faults \in 0..MaxFaults /\ MaxFaults \in Nat
  BY ChainsAssumption, GossipAssumption DEF TypeOK
<1>2. ASSUME NEW h \in Host, NEW t \in Tick, tick' = [tick EXCEPT ![h] = t]
      PROVE  OK
  BY <1>1, <1>2
<1>3. ASSUME tick' = tick PROVE OK
  BY <1>1, <1>3
<1>4. ASSUME NEW h \in Host PROVE Idle(h) \in Tick
  BY IdleIsTick
<1>5. ASSUME NEW h \in Host, Onward(h) PROVE OK
  <2> DEFINE t == [Idle(h) EXCEPT !.todo = tick[h].todo \ {tick[h].peer}]
  <2>1. tick[h].todo \ {tick[h].peer} \subseteq Host
    BY <1>1 DEF Tick
  <2>2. t \in Tick
    BY <2>1, IdleIsTick
  <2>3. QED
    BY <1>2, <1>5, <2>2 DEF Onward
<1>6. ASSUME NEW h \in Host, Start(h) \/ Persist(h) \/ ToSave(h) PROVE OK
  BY <1>2, <1>4, <1>6, IdleIsTick DEF Start, Persist, ToSave
<1>7. ASSUME NEW h \in Host, Ask(h) PROVE OK
  <2> DEFINE p == CHOOSE p \in tick[h].todo : TRUE
             plan == PlanSync(chain[h], chain[p])
             dropped == [tick[h] EXCEPT !.todo = @ \ {p}]
             Pulls(from, to) ==
                [at |-> "pull", todo |-> tick[h].todo, peer |-> p, from |-> from, to |-> to]
  <2>1. tick[h] \in Tick /\ tick[h].at = "ask"
    BY <1>1, <1>7 DEF Ask
  <2>2. tick[h].todo \subseteq Host /\ p \in tick[h].todo
    BY <1>7, <2>1 DEF Ask, Tick
  <2>3. chain[h] \in Seq(Block) /\ chain[p] \in Seq(Block)
    BY <2>2, LedgersAreChains
  <2>4. dropped \in Tick
    BY <2>1, <2>2 DEF Tick
  <2>5. \/ tick' = [tick EXCEPT ![h].todo = @ \ {p}]
        \/ plan # <<>> /\ tick' = [tick EXCEPT ![h] = Pulls(plan[1], plan[2])]
        \/ tick' = [tick EXCEPT ![h] = Pulls(0, 0)]
    BY <1>7 DEF Ask
  <2>6. tick' = [tick EXCEPT ![h].todo = @ \ {p}] => tick' = [tick EXCEPT ![h] = dropped]
    BY <1>1
  <2> HIDE DEF p
  <2>7. ASSUME NEW from \in Nat, NEW to \in Nat PROVE Pulls(from, to) \in Tick
    BY <2>2 DEF Tick, Ats
  <2>8. plan # <<>> => plan[1] \in Nat /\ plan[2] \in Nat
    BY <2>3, PlanInNat
  <2> HIDE DEF Pulls, dropped, plan
  <2>9. QED
    BY <1>2, <2>4, <2>5, <2>6, <2>7, <2>8
<1>8. ASSUME NEW h \in Host, Pull(h) PROVE OK
  <2>1. Onward(h) \/ tick' = [tick EXCEPT ![h].at = "status"]
    BY <1>8 DEF Pull
  <2> DEFINE t == [tick[h] EXCEPT !.at = "status"]
  <2>2. t \in Tick
    BY <1>1 DEF Tick, Ats
  <2>3. tick' = [tick EXCEPT ![h].at = "status"] => tick' = [tick EXCEPT ![h] = t]
    BY <1>1
  <2> HIDE DEF t
  <2>4. QED
    BY <1>2, <1>5, <2>1, <2>2, <2>3
<1>9. ASSUME NEW h \in Host, AskHeight(h) PROVE OK
  <2>1. PICK n \in Nat : tick' = [tick EXCEPT ![h].at = "full", ![h].to = n]
    <3>1. Len(chain[tick[h].peer]) \in Nat
      BY <1>1, LedgersAreChains, ChainShape DEF Tick
    <3>2. QED
      BY <1>9, <3>1 DEF AskHeight
  <2> DEFINE t == [tick[h] EXCEPT !.at = "full", !.to = n]
  <2> DEFINE u == [tick[h] EXCEPT !.at = "full"]
  <2>2. t \in Tick
    <3>1. u \in Tick
      BY <1>1 DEF Tick, Ats
    <3>2. t = [u EXCEPT !.to = n]
      OBVIOUS
    <3> HIDE DEF u, t
    <3>3. QED
      BY <2>1, <3>1, <3>2 DEF Tick
  <2>3. tick' = [tick EXCEPT ![h] = t]
    BY <1>1, <2>1
  <2> HIDE DEF t
  <2>4. QED
    BY <1>2, <2>2, <2>3
<1>10. ASSUME NEW h \in Host, PullAll(h) PROVE OK
  <2>1. [Idle(h) EXCEPT !.at = "panicked"] \in Tick
    BY IdleIsTick
  <2>2. QED
    BY <1>2, <1>5, <1>10, <2>1 DEF PullAll
<1>11. ASSUME NEW h \in Host, Propose(h) \/ MaybeCheckpoint(h) PROVE OK
  BY <1>6, <1>11 DEF Propose, MaybeCheckpoint
<1>12. OK
  BY <1>3, <1>6, <1>7, <1>8, <1>9, <1>10, <1>11 DEF Next, Step, vars, End, Restart
<1>13. Kept
  <2>1. ASSUME NEW h \in Host, Propose(h) PROVE Kept
    BY <1>1, <2>1 DEF Propose
  <2>2. ASSUME NEW h \in Host, MaybeCheckpoint(h) PROVE Kept
    <3>1. made' = made \/ (made' = made + 1 /\ made # MaxBlocks)
      BY <2>2 DEF MaybeCheckpoint, Checkpointed
    <3>2. QED
      BY <1>1, <2>2, <3>1 DEF MaybeCheckpoint
  <2>3. CASE UNCHANGED <<made, proposed>>
    BY <1>1, <2>3
  <2>4. QED
    BY <2>1, <2>2, <2>3 DEF Next, Step, vars, Ask, Pull, AskHeight, PullAll, Persist,
           End, Restart, Start
<1>14. faults' \in 0..MaxFaults
  <2>1. faults' = faults \/ Fault
    BY DEF Next, Step, vars, Propose, Ask, Pull, AskHeight, PullAll, MaybeCheckpoint,
           Persist, End, Restart, Answered, Lost
  <2>2. QED
    BY <1>1, <2>1 DEF Fault
<1>15. unsaved' \subseteq Host /\ forgot' \in BOOLEAN
  <2>1. unsaved \subseteq Host /\ forgot \in BOOLEAN
    BY DEF TypeOK
  <2>2. /\ unsaved' = unsaved \/ \E h \in Host : unsaved' \in {unsaved \cup {h}, unsaved \ {h}}
        /\ forgot' = forgot \/ \E h \in Host : forgot' = (forgot \/ h \in unsaved)
    BY DEF Next, Step, vars, Propose, Ask, Pull, AskHeight, PullAll, MaybeCheckpoint,
           Persist, End, Restart, Start
  <2>3. QED
    BY <2>1, <2>2
<1>16. QED
  BY <1>12, <1>13, <1>14, <1>15

-----------------------------------------------------------------------------
(* The beginnings of ledgers are as good as the ledgers.                   *)

LEMMA BeginningsAreSound ==
    ASSUME TypeOK, Linear, NEW x, Beginning(x)
    PROVE  /\ x \in Seq(Block) /\ OneBranch(x)
           /\ \A i \in DOMAIN x : x[i].id \in Hashes
<1>1. PICK c \in Ledgers : \E n \in 0..Len(c) : x = Upto(c, n)
  BY DEF Beginning
<1>2. PICK n \in 0..Len(c) : x = Upto(c, n)
  BY <1>1
<1>3. c \in Seq(Block) /\ OneBranch(c) /\ \A i \in DOMAIN c : c[i].id \in Hashes
  BY LedgersAreChains DEF Linear
<1>4. Len(c) \in Nat /\ DOMAIN c = 1..Len(c)
  BY <1>3, ChainShape
<1>5. x \in Seq(Block) /\ Len(x) = n /\ DOMAIN x = 1..n /\ \A i \in 1..n : x[i] = c[i]
  BY <1>2, <1>3, UptoShape
<1>6. \A i \in 1..n : i \in DOMAIN c /\ i - 1 \in 0..n /\ Upto(x, i - 1) = Upto(c, i - 1)
  BY <1>2, <1>3, <1>4, UptoUpto
<1>7. OneBranch(x)
  BY <1>3, <1>5, <1>6 DEF OneBranch
<1>8. QED
  BY <1>3, <1>5, <1>6, <1>7

LEMMA BeginningsHaveOneHash ==
    ASSUME TypeOK, Unique, NEW x, NEW y, Beginning(x), Beginning(y)
    PROVE  OneHash(x, y)
<1>1. PICK c \in Ledgers : \E n \in 0..Len(c) : x = Upto(c, n)
  BY DEF Beginning
<1>2. PICK n \in 0..Len(c) : x = Upto(c, n)
  BY <1>1
<1>3. PICK d \in Ledgers : \E m \in 0..Len(d) : y = Upto(d, m)
  BY DEF Beginning
<1>4. PICK m \in 0..Len(d) : y = Upto(d, m)
  BY <1>3
<1>5. c \in Seq(Block) /\ d \in Seq(Block) /\ OneHash(c, d)
  BY LedgersAreChains DEF Unique
<1>6. Len(c) \in Nat /\ DOMAIN c = 1..Len(c) /\ Len(d) \in Nat /\ DOMAIN d = 1..Len(d)
  BY <1>5, ChainShape
<1>7. DOMAIN x = 1..n /\ DOMAIN y = 1..m
      /\ (\A i \in 1..n : x[i] = c[i]) /\ (\A i \in 1..m : y[i] = d[i])
  BY <1>2, <1>4, <1>5, UptoShape
<1>8. ASSUME NEW i \in 1..n, NEW j \in 1..m, x[i].id = y[j].id
      PROVE  i = j /\ Upto(x, i) = Upto(y, j)
  <2>1. i \in DOMAIN c /\ j \in DOMAIN d /\ c[i].id = d[j].id
    BY <1>6, <1>7, <1>8
  <2>2. i = j /\ Upto(c, i) = Upto(d, j)
    BY <1>5, <2>1 DEF OneHash
  <2>3. Upto(x, i) = Upto(c, i) /\ Upto(y, j) = Upto(d, j)
    BY <1>2, <1>4, <1>5, UptoUpto
  <2>4. QED
    BY <2>2, <2>3
<1>9. QED
  BY <1>7, <1>8 DEF OneHash

LEMMA NewHeadsAreSound ==
    ASSUME TypeOK, Linear, Hashes \subseteq Hashes', NEW h \in Host, NEW x, NewHead(x, h)
    PROVE  /\ x \in Seq(Block) /\ OneBranch(x)
           /\ \A i \in DOMAIN x : x[i].id \in Hashes'
<1>1. PICK b \in Block :
          /\ x = Append(chain[h], b) /\ b.parent = HeadHash(chain[h])
          /\ b.kind # "note" => Cardinality(b.signed \cap Admins) >= Quorum
          /\ b.id \in Hashes'
  BY DEF NewHead
<1> DEFINE c == chain[h]
<1>2. c \in Seq(Block) /\ OneBranch(c) /\ \A i \in DOMAIN c : c[i].id \in Hashes
  BY LedgersAreChains DEF Linear
<1>3. Len(c) \in Nat /\ DOMAIN c = 1..Len(c) /\ Upto(c, Len(c)) = c
  BY <1>2, ChainShape, UptoAll
<1> HIDE DEF c
<1>4. /\ x \in Seq(Block) /\ Len(x) = Len(c) + 1 /\ DOMAIN x = 1..(Len(c) + 1)
      /\ x[Len(c) + 1] = b /\ \A i \in 1..Len(c) : x[i] = c[i]
      /\ \A n \in 0..Len(c) : Upto(x, n) = Upto(c, n)
  BY <1>1, <1>2, AppendShape DEF c
<1>5. ASSUME NEW i \in DOMAIN x
      PROVE  /\ x[i].parent = HeadHash(Upto(x, i - 1))
             /\ x[i].kind # "note" => Cardinality(x[i].signed \cap Admins) >= Quorum
             /\ x[i].id \in Hashes'
  <2>1. CASE i = Len(c) + 1
    <3>1. Upto(x, i - 1) = c /\ x[i] = b
      BY <1>3, <1>4, <2>1
    <3>2. QED
      BY <1>1, <3>1 DEF c
  <2>2. CASE i # Len(c) + 1
    <3>1. i \in DOMAIN c /\ i - 1 \in 0..Len(c) /\ x[i] = c[i] /\ Upto(x, i - 1) = Upto(c, i - 1)
      BY <1>3, <1>4, <2>2
    <3>2. QED
      BY <1>2, <3>1 DEF OneBranch
  <2>3. QED
    BY <2>1, <2>2
<1>6. QED
  BY <1>4, <1>5 DEF OneBranch

LEMMA NewHeadsHaveOneHash ==
    ASSUME TypeOK, Linear, Unique, NEW h \in Host, NEW x, NewHead(x, h)
    PROVE  /\ OneHash(x, x)
           /\ \A y : Beginning(y) => OneHash(x, y) /\ OneHash(y, x)
<1>1. PICK b \in Block : x = Append(chain[h], b) /\ b.id \notin Hashes
  BY DEF NewHead
<1> DEFINE c == chain[h]
<1>2. c \in Seq(Block) /\ Beginning(c) /\ \A i \in DOMAIN c : c[i].id \in Hashes
  BY LedgersAreChains, ItsOwnBeginning DEF Linear
<1>3. Len(c) \in Nat /\ DOMAIN c = 1..Len(c)
  BY <1>2, ChainShape
<1> HIDE DEF c
<1>4. /\ DOMAIN x = 1..(Len(c) + 1)
      /\ x[Len(c) + 1] = b /\ \A i \in 1..Len(c) : x[i] = c[i]
      /\ \A n \in 0..Len(c) : Upto(x, n) = Upto(c, n)
  BY <1>1, <1>2, AppendShape DEF c
<1>5. ASSUME NEW i \in DOMAIN x, x[i].id \in Hashes
      PROVE  i \in DOMAIN c /\ i \in 1..Len(c) /\ x[i] = c[i] /\ Upto(x, i) = Upto(c, i)
  BY <1>1, <1>3, <1>4, <1>5
<1>6. OneHash(x, x)
  <2>1. OneHash(c, c)
    BY <1>2, BeginningsHaveOneHash
  <2>2. ASSUME NEW i \in DOMAIN x, NEW j \in DOMAIN x, x[i].id = x[j].id
        PROVE  i = j
    <3>1. CASE x[i].id \in Hashes
      BY <1>5, <2>1, <2>2, <3>1 DEF OneHash
    <3>2. CASE x[i].id \notin Hashes
      <4>1. i \notin 1..Len(c) /\ j \notin 1..Len(c)
        BY <1>2, <1>3, <1>4, <2>2, <3>2
      <4>2. QED
        BY <1>3, <1>4, <4>1
    <3>3. QED
      BY <3>1, <3>2
  <2>3. QED
    BY <2>2 DEF OneHash
<1>7. ASSUME NEW y, Beginning(y) PROVE OneHash(x, y) /\ OneHash(y, x)
  <2>1. OneHash(c, y) /\ OneHash(y, c) /\ \A j \in DOMAIN y : y[j].id \in Hashes
    BY <1>2, <1>7, BeginningsHaveOneHash, BeginningsAreSound
  <2>2. QED
    BY <1>5, <2>1 DEF OneHash
<1>8. QED
  BY <1>6, <1>7

-----------------------------------------------------------------------------
(* One branch to each hash.                                                *)

LEMMA NewLedgers ==
    ASSUME TypeOK, NEW h \in Host
    PROVE  /\ Stays \/ Learns(h) \/ Reloads(h) \/ Saves(h) => \A c \in Ledgers' : Beginning(c)
           /\ \A x : /\ chain' = [chain EXCEPT ![h] = x] /\ saved' = saved
                     => /\ \A c \in Ledgers' : c = x \/ Beginning(c)
                        /\ chain'[h] = x
<1>1. chain \in [Host -> Seq(Block)] /\ saved \in [Host -> Seq(Block)]
  BY DEF TypeOK
<1>2. \A k \in Host : /\ chain[k] \in Ledgers /\ saved[k] \in Ledgers
                      /\ Beginning(chain[k]) /\ Beginning(saved[k])
  BY LedgersAreChains, ItsOwnBeginning
<1>3. ASSUME NEW c \in Ledgers'
      PROVE  \E k \in Host : c = chain'[k] \/ c = saved'[k]
  BY DEF Ledgers
<1>4. ASSUME Stays \/ Learns(h) \/ Reloads(h) \/ Saves(h), NEW c \in Ledgers' PROVE Beginning(c)
  <2>1. PICK k \in Host : c = chain'[k] \/ c = saved'[k]
    BY <1>3
  <2>2. CASE Learns(h)
    <3>1. PICK x : chain' = [chain EXCEPT ![h] = x] /\ Beginning(x) /\ saved' = saved
      BY <2>2 DEF Learns
    <3>2. chain'[k] = (IF k = h THEN x ELSE chain[k]) /\ saved'[k] = saved[k]
      BY <1>1, <3>1
    <3>3. QED
      BY <1>2, <2>1, <3>1, <3>2
  <2>3. CASE Stays \/ Reloads(h) \/ Saves(h)
    <3>1. chain'[k] \in {chain[k], saved[k]} /\ saved'[k] \in {chain[k], saved[k]}
      BY <1>1, <2>3 DEF Stays, Reloads, Saves
    <3>2. QED
      BY <1>2, <2>1, <3>1
  <2>4. QED
    BY <1>4, <2>2, <2>3
<1>5. ASSUME NEW x, chain' = [chain EXCEPT ![h] = x], saved' = saved
      PROVE  /\ \A c \in Ledgers' : c = x \/ Beginning(c)
             /\ chain'[h] = x
  <2>1. \A k \in Host : /\ chain'[k] = (IF k = h THEN x ELSE chain[k])
                        /\ saved'[k] = saved[k]
    BY <1>1, <1>5
  <2>2. QED
    BY <1>2, <1>3, <2>1
<1>6. QED
  BY <1>4, <1>5

LEMMA BranchStep ==
    ASSUME TypeOK, Linear, Unique, [Next]_vars
    PROVE  TypeOK' /\ Linear' /\ Unique'
<1>1. chain \in [Host -> Seq(Block)] /\ saved \in [Host -> Seq(Block)]
  BY DEF TypeOK
<1>2. \A k \in Host : chain'[k] \in Ledgers' /\ saved'[k] \in Ledgers'
  BY DEF Ledgers
<1>3. ASSUME chain' \in [Host -> Seq(Block)], saved' \in [Host -> Seq(Block)],
             \A c \in Ledgers' : OneBranch(c)
      PROVE  TypeOK'
  BY <1>2, <1>3, TickStep DEF TypeOK
<1>4. ASSUME NEW h \in Host, Stays \/ Learns(h) \/ Reloads(h) \/ Saves(h)
      PROVE  TypeOK' /\ Linear' /\ Unique'
  <2>1. \A c \in Ledgers' : Beginning(c)
    BY <1>4, NewLedgers
  <2>2. Hashes' = Hashes
    BY <1>4 DEF Stays, Learns, Reloads, Saves
  <2>3. \A c \in Ledgers' : OneBranch(c) /\ \A i \in DOMAIN c : c[i].id \in Hashes'
    BY <2>1, <2>2, BeginningsAreSound
  <2>4. \A c, d \in Ledgers' : OneHash(c, d)
    BY <2>1, BeginningsHaveOneHash
  <2>5. chain' \in [Host -> Seq(Block)] /\ saved' \in [Host -> Seq(Block)]
    <3>1. CASE Learns(h)
      <4>1. PICK x : chain' = [chain EXCEPT ![h] = x] /\ Beginning(x) /\ saved' = saved
        BY <3>1 DEF Learns
      <4>2. x \in Seq(Block)
        BY <4>1, BeginningsAreSound
      <4>3. QED
        BY <1>1, <4>1, <4>2
    <3>2. CASE Stays \/ Reloads(h) \/ Saves(h)
      BY <1>1, <3>2 DEF Stays, Reloads, Saves
    <3>3. QED
      BY <1>4, <3>1, <3>2
  <2>6. QED
    BY <1>3, <2>3, <2>4, <2>5 DEF Linear, Unique
<1>5. ASSUME NEW h \in Host, Makes(h) PROVE TypeOK' /\ Linear' /\ Unique'
  <2>1. PICK x : /\ chain' = [chain EXCEPT ![h] = x] /\ saved' = saved
                 /\ NewHead(x, h) /\ Hashes \subseteq Hashes'
    BY <1>5 DEF Makes
  <2>2. \A c \in Ledgers' : c = x \/ Beginning(c)
    BY <2>1, NewLedgers
  <2>3. x \in Seq(Block) /\ OneBranch(x) /\ \A i \in DOMAIN x : x[i].id \in Hashes'
    BY <2>1, NewHeadsAreSound
  <2>4. \A c \in Ledgers' : OneBranch(c) /\ \A i \in DOMAIN c : c[i].id \in Hashes'
    BY <2>1, <2>2, <2>3, BeginningsAreSound
  <2>5. \A c, d \in Ledgers' : OneHash(c, d)
    BY <2>1, <2>2, NewHeadsHaveOneHash, BeginningsHaveOneHash
  <2>6. chain' \in [Host -> Seq(Block)] /\ saved' \in [Host -> Seq(Block)]
    BY <1>1, <2>1, <2>3
  <2>7. QED
    BY <1>3, <2>4, <2>5, <2>6 DEF Linear, Unique
<1>6. ASSUME Stays PROVE TypeOK' /\ Linear' /\ Unique'
  <2>1. \E h \in Host : TRUE
    BY FiniteAdmins, FS_EmptySet
  <2>2. QED
    BY <1>4, <1>6, <2>1
<1>7. QED
  BY <1>4, <1>5, <1>6, StepMoves

-----------------------------------------------------------------------------
(* Nothing gives way to something worse.                                   *)

LEMMA KeepingStep ==
    ASSUME TypeOK, Linear, Unique, [Next]_vars, NEW k \in Host
    PROVE  /\ \/ NoWorse(chain'[k], chain[k])
              \/ chain'[k] = saved[k] /\ (k \in unsaved => forgot')
           /\ \/ saved'[k] = saved[k] /\ (k \in unsaved => k \in unsaved' \/ forgot')
              \/ saved'[k] = chain'[k] /\ NoWorse(chain'[k], chain[k])
           /\ forgot => forgot'
<1>1. /\ chain \in [Host -> Seq(Block)] /\ saved \in [Host -> Seq(Block)]
  BY DEF TypeOK
<1>2. NoWorse(chain[k], chain[k])
  BY <1>1, NotWorseThanItself
<1>3. CASE Stays
  BY <1>2, <1>3 DEF Stays, Unforgotten
<1>4. ASSUME NEW h \in Host, Learns(h)
      PROVE  /\ NoWorse(chain'[k], chain[k]) /\ saved'[k] = saved[k]
             /\ unsaved' = unsaved /\ forgot' = forgot
  <2>1. PICK x : chain' = [chain EXCEPT ![h] = x] /\ NoWorse(x, chain[h])
    BY <1>4 DEF Learns
  <2>2. chain'[k] = IF k = h THEN x ELSE chain[k]
    BY <1>1, <2>1
  <2>3. QED
    BY <1>2, <1>4, <2>1, <2>2 DEF Learns, Unforgotten
<1>5. ASSUME NEW h \in Host, Reloads(h)
      PROVE  /\ chain'[k] = (IF k = h THEN saved[k] ELSE chain[k]) /\ saved'[k] = saved[k]
             /\ unsaved' = unsaved \ {h} /\ forgot' = (forgot \/ h \in unsaved)
  BY <1>1, <1>5 DEF Reloads
<1>6. ASSUME NEW h \in Host, Saves(h)
      PROVE  /\ chain'[k] = chain[k]
             /\ saved'[k] = IF k = h THEN chain'[k] ELSE saved[k]
             /\ unsaved' = unsaved \ {h} /\ forgot' = forgot
  BY <1>1, <1>6 DEF Saves
<1>7. ASSUME NEW h \in Host, Makes(h)
      PROVE  /\ NoWorse(chain'[k], chain[k]) /\ saved'[k] = saved[k]
             /\ unsaved \subseteq unsaved' /\ forgot' = forgot
  <2>1. PICK x : /\ chain' = [chain EXCEPT ![h] = x] /\ saved' = saved
                 /\ NewHead(x, h) /\ unsaved \subseteq unsaved' /\ forgot' = forgot
    BY <1>7 DEF Makes
  <2>2. PICK b \in Block : x = Append(chain[h], b)
    BY <2>1 DEF NewHead
  <2>3. chain[h] \in Seq(Block) /\ Len(chain[h]) \in Nat /\ Upto(chain[h], Len(chain[h])) = chain[h]
    BY <1>1, ChainShape, UptoAll
  <2>4. x \in Seq(Block) /\ Len(x) = Len(chain[h]) + 1 /\ Upto(x, Len(chain[h])) = chain[h]
    BY <2>2, <2>3, AppendShape
  <2>5. NoWorse(x, chain[h])
    <3>1. Len(chain[h]) \in 0..Len(x)
      BY <2>3, <2>4
    <3>2. NoWorse(x, Upto(x, Len(chain[h])))
      BY <2>4, <3>1, LongerNotWorse
    <3>3. QED
      BY <2>4, <3>2
  <2>6. chain'[k] = IF k = h THEN x ELSE chain[k]
    BY <1>1, <2>1
  <2>7. QED
    BY <1>2, <2>1, <2>5, <2>6
<1>8. ASSUME NEW h \in Host, Reloads(h) \/ Saves(h)
      PROVE  /\ \/ NoWorse(chain'[k], chain[k])
                \/ chain'[k] = saved[k] /\ (k \in unsaved => forgot')
             /\ \/ saved'[k] = saved[k] /\ (k \in unsaved => k \in unsaved' \/ forgot')
                \/ saved'[k] = chain'[k] /\ NoWorse(chain'[k], chain[k])
             /\ forgot => forgot'
  <2>1. CASE k = h
    BY <1>2, <1>5, <1>6, <1>8, <2>1
  <2>2. CASE k # h
    BY <1>2, <1>5, <1>6, <1>8, <2>2
  <2>3. QED
    BY <2>1, <2>2
<1>9. QED
  BY <1>3, <1>4, <1>7, <1>8, StepMoves

LEMMA SavingStep ==
    ASSUME TypeOK, Linear, Unique, Saving, [Next]_vars
    PROVE  /\ Saving'
           /\ \A h \in Host : NoWorse(saved'[h], saved[h])
<1> SUFFICES ASSUME NEW h \in Host
             PROVE  NoWorse(chain'[h], saved'[h]) /\ NoWorse(saved'[h], saved[h])
  BY DEF Saving
<1>1. chain[h] \in Seq(Block) /\ saved[h] \in Seq(Block) /\ NoWorse(chain[h], saved[h])
  BY DEF TypeOK, Saving
<1>2. chain'[h] \in Seq(Block) /\ saved'[h] \in Seq(Block)
  BY BranchStep DEF TypeOK
<1>3. NoWorse(chain'[h], saved[h])
  BY <1>1, <1>2, KeepingStep, NotWorseInTurn, NotWorseThanItself
<1>4. saved'[h] = saved[h] \/ saved'[h] = chain'[h]
  BY KeepingStep
<1>5. QED
  BY <1>1, <1>2, <1>3, <1>4, NotWorseThanItself

-----------------------------------------------------------------------------
(* Checkpoints.  One of a new ledger was one of an old ledger, on the same *)
(* branch, or it is the one that was just signed.                          *)

Old(x, i) == \E c \in Ledgers : i \in DOMAIN c /\ IsCkpt(c, i) /\ Upto(c, i - 1) = Upto(x, i - 1)

(* The admins who have all signed for the branch c.                        *)
Agreed(c) == \A a \in Admins : Len(c) <= Len(chain[a]) /\ Upto(chain[a], Len(c)) = c

LEMMA BeginningsAreOld ==
    ASSUME TypeOK, NEW x, Beginning(x), NEW i \in DOMAIN x, IsCkpt(x, i)
    PROVE  Old(x, i)
<1>1. PICK c \in Ledgers : \E n \in 0..Len(c) : x = Upto(c, n)
  BY DEF Beginning
<1>2. PICK n \in 0..Len(c) : x = Upto(c, n)
  BY <1>1
<1>3. c \in Seq(Block) /\ Len(c) \in Nat /\ DOMAIN c = 1..Len(c)
  BY LedgersAreChains, ChainShape
<1>4. i \in 1..n /\ x[i] = c[i] /\ i \in DOMAIN c
  BY <1>2, <1>3, UptoShape
<1>5. Upto(x, i - 1) = Upto(c, i - 1)
  BY <1>2, <1>3, <1>4, UptoUpto
<1>6. QED
  BY <1>4, <1>5 DEF Old, IsCkpt

LEMMA OldAgree ==
    ASSUME TypeOK, Agreeing, NEW x \in Seq(Block), NEW y \in Seq(Block),
           NEW i \in DOMAIN x, NEW j \in DOMAIN y, Old(x, i), Old(y, j), i <= j
    PROVE  Upto(x, i - 1) = Upto(y, i - 1)
<1>1. PICK c \in Ledgers : i \in DOMAIN c /\ IsCkpt(c, i) /\ Upto(c, i - 1) = Upto(x, i - 1)
  BY DEF Old
<1>2. PICK d \in Ledgers : j \in DOMAIN d /\ IsCkpt(d, j) /\ Upto(d, j - 1) = Upto(y, j - 1)
  BY DEF Old
<1>3. Upto(c, i - 1) = Upto(d, i - 1)
  BY <1>1, <1>2 DEF Agreeing, Agree
<1>4. d \in Seq(Block) /\ j \in 1..Len(d) /\ j \in 1..Len(y) /\ i \in 1..Len(x)
      /\ Len(d) \in Nat /\ Len(y) \in Nat /\ Len(x) \in Nat
  BY <1>2, LedgersAreChains, ChainShape
<1>5. Upto(d, i - 1) = Upto(y, i - 1)
  <2>1. j - 1 \in 0..Len(d) /\ j - 1 <= Len(y) /\ i - 1 \in 0..(j - 1)
    BY <1>4
  <2>2. QED
    BY <1>2, <1>4, <2>1, UptoBelow
<1>6. QED
  BY <1>1, <1>3, <1>5

(* What all the admins have signed for lies on the branch of every         *)
(* checkpoint: each is held by one of them.                                *)
LEMMA AgreedWithOld ==
    ASSUME TypeOK, Held, NEW c \in Seq(Block), Agreed(c),
           NEW y \in Seq(Block), NEW j \in DOMAIN y, Old(y, j)
    PROVE  /\ j - 1 <= Len(c) => Upto(y, j - 1) = Upto(c, j - 1)
           /\ Len(c) <= j - 1 => Upto(y, Len(c)) = c
<1>1. PICK d \in Ledgers : j \in DOMAIN d /\ IsCkpt(d, j) /\ Upto(d, j - 1) = Upto(y, j - 1)
  BY DEF Old
<1>2. PICK a \in Admins : Holds(chain[a], d, j)
  BY <1>1 DEF Held
<1>3. a \in Host /\ chain[a] \in Seq(Block) /\ Len(c) <= Len(chain[a]) /\ Upto(chain[a], Len(c)) = c
  BY FiniteAdmins, LedgersAreChains DEF Agreed
<1>4. /\ Len(c) \in Nat /\ Len(y) \in Nat /\ Len(chain[a]) \in Nat /\ j \in 1..Len(y)
      /\ Upto(c, Len(c)) = c
  BY <1>3, ChainShape, UptoAll
<1>5. /\ CkptHeight(chain[a]) \in Nat /\ CkptHeight(chain[a]) < Len(chain[a])
      /\ CkptHeight(chain[a]) >= j - 1 /\ Upto(chain[a], j - 1) = Upto(d, j - 1)
  BY <1>2, <1>3, TopCheckpoint DEF Holds
<1>6. Upto(chain[a], j - 1) = Upto(y, j - 1) /\ j - 1 \in 0..Len(chain[a]) /\ j - 1 \in 0..Len(y)
  BY <1>1, <1>4, <1>5
<1>7. ASSUME j - 1 <= Len(c) PROVE Upto(y, j - 1) = Upto(c, j - 1)
  <2>1. Len(c) \in 0..Len(chain[a]) /\ j - 1 \in 0..Len(c)
    BY <1>3, <1>4, <1>7
  <2>2. Upto(Upto(chain[a], Len(c)), j - 1) = Upto(chain[a], j - 1)
    BY <1>3, <2>1, UptoUpto
  <2>3. QED
    BY <1>3, <1>6, <2>2
<1>8. ASSUME Len(c) <= j - 1 PROVE Upto(y, Len(c)) = c
  <2>1. Len(c) \in 0..(j - 1) /\ j - 1 <= Len(y)
    BY <1>4, <1>8
  <2>2. Upto(chain[a], Len(c)) = Upto(y, Len(c))
    BY <1>3, <1>6, <2>1, UptoBelow
  <2>3. QED
    BY <1>3, <2>2
<1>9. QED
  BY <1>7, <1>8

Fresh(y, i, h) ==
    /\ h \in Admins /\ Agreed(chain[h])
    /\ i = Len(chain[h]) + 1 /\ Upto(y, i - 1) = chain[h]
    /\ chain'[h] = y /\ h \in unsaved'

LEMMA AllAdminsSign ==
    ASSUME TypeOK, Unique, Quorum = Cardinality(Admins), NEW h \in Host,
           NEW signed \in SUBSET Admins, Cardinality(signed) = Quorum,
           \A p \in signed : p = h \/ ApproveCheckpoint(p, chain[h])
    PROVE  Agreed(chain[h])
<1>1. signed = Admins
  BY FiniteAdmins, FS_Subset
<1>2. SUFFICES ASSUME NEW a \in Admins
               PROVE  Len(chain[h]) <= Len(chain[a]) /\ Upto(chain[a], Len(chain[h])) = chain[h]
  BY DEF Agreed
<1>3. /\ chain[h] \in Seq(Block) /\ chain[a] \in Seq(Block) /\ OneHash(chain[a], chain[h])
      /\ Len(chain[h]) \in Nat /\ Len(chain[a]) \in Nat /\ Upto(chain[h], Len(chain[h])) = chain[h]
  BY LedgersAreChains, FiniteAdmins, ChainShape, UptoAll DEF Unique
<1>4. CASE a = h
  BY <1>3, <1>4
<1>5. CASE a # h
  <2>1. /\ Len(chain[h]) <= Len(chain[a])
        /\ HeadHash(Upto(chain[a], Len(chain[h]))) = HeadHash(Upto(chain[h], Len(chain[h])))
    BY <1>1, <1>3, <1>5 DEF ApproveCheckpoint
  <2>2. Len(chain[h]) \in 0..Len(chain[a]) /\ Len(chain[h]) \in 0..Len(chain[h])
    BY <1>3, <2>1
  <2>3. QED
    BY <1>3, <2>1, <2>2, CommonHash
<1>6. QED
  BY <1>4, <1>5

LEMMA OldOrFresh ==
    ASSUME TypeOK, Linear, Unique, [Next]_vars, Quorum = Cardinality(Admins)
    PROVE  \E h \in Host : \A y \in Ledgers' : \A i \in DOMAIN y :
              IsCkpt(y, i) => Old(y, i) \/ Fresh(y, i, h)
<1>1. ASSUME NEW h \in Host, Stays \/ Learns(h) \/ Reloads(h) \/ Saves(h),
             NEW y \in Ledgers', NEW i \in DOMAIN y, IsCkpt(y, i)
      PROVE  Old(y, i)
  BY <1>1, NewLedgers, BeginningsAreOld
<1>2. ASSUME NEW h \in Host, Makes(h), NEW y \in Ledgers', NEW i \in DOMAIN y, IsCkpt(y, i)
      PROVE  Old(y, i) \/ Fresh(y, i, h)
  <2>1. PICK x : /\ chain' = [chain EXCEPT ![h] = x] /\ saved' = saved
                 /\ NewHead(x, h)
    BY <1>2 DEF Makes
  <2>2. PICK b \in Block :
            /\ x = Append(chain[h], b)
            /\ b.kind = "checkpoint" => /\ h \in Admins /\ h \in unsaved'
                                        /\ b.signed \subseteq Admins /\ Cardinality(b.signed) = Quorum
                                        /\ \A p \in b.signed : p = h \/ ApproveCheckpoint(p, chain[h])
    BY <2>1 DEF NewHead
  <2>3. y = x \/ Beginning(y)
    BY <2>1, NewLedgers
  <2>4. chain'[h] = x
    BY <2>1, NewLedgers
  <2> DEFINE c == chain[h]
  <2>5. c \in Ledgers /\ c \in Seq(Block) /\ Len(c) \in Nat /\ DOMAIN c = 1..Len(c) /\ Upto(c, Len(c)) = c
    BY LedgersAreChains, ChainShape, UptoAll
  <2>6. /\ DOMAIN x = 1..(Len(c) + 1) /\ x[Len(c) + 1] = b
        /\ \A k \in 1..Len(c) : x[k] = c[k]
        /\ \A n \in 0..Len(c) : Upto(x, n) = Upto(c, n)
    BY <2>2, <2>5, AppendShape
  <2>7. CASE Beginning(y)
    BY <1>2, <2>7, BeginningsAreOld
  <2>8. CASE y = x /\ i # Len(c) + 1
    <3>1. i \in DOMAIN c /\ x[i] = c[i] /\ i - 1 \in 0..Len(c) /\ Upto(x, i - 1) = Upto(c, i - 1)
      BY <2>5, <2>6, <2>8
    <3>2. QED
      BY <1>2, <2>5, <2>8, <3>1 DEF Old, IsCkpt
  <2>9. CASE y = x /\ i = Len(c) + 1
    <3>1. b.kind = "checkpoint"
      BY <1>2, <2>6, <2>9 DEF IsCkpt
    <3>2. Agreed(c)
      BY <2>2, <3>1, AllAdminsSign
    <3>3. Upto(y, i - 1) = c
      BY <2>5, <2>6, <2>9
    <3>4. QED
      BY <2>2, <2>4, <2>9, <3>1, <3>2, <3>3 DEF Fresh
  <2>10. QED
    BY <2>3, <2>7, <2>8, <2>9
<1>3. \E h \in Host : TRUE
  BY FiniteAdmins, FS_EmptySet
<1>4. QED
  BY <1>1, <1>2, <1>3, StepMoves

LEMMA CheckpointsStep ==
    ASSUME TypeOK, Linear, Unique, Saving, Checkpoints, [Next]_vars
    PROVE  Checkpoints'
<1>1. SUFFICES ASSUME Quorum = Cardinality(Admins), ~forgot', Agreeing, Held
               PROVE  Agreeing' /\ Held'
  <2>1. forgot => forgot'
    BY FiniteAdmins, KeepingStep, FS_EmptySet
  <2>2. QED
    BY <2>1 DEF Checkpoints
<1>2. PICK h \in Host : \A y \in Ledgers' : \A i \in DOMAIN y :
          IsCkpt(y, i) => Old(y, i) \/ Fresh(y, i, h)
  BY <1>1, OldOrFresh
<1>3. TypeOK'
  BY BranchStep
<1>4. \A y \in Ledgers' : y \in Seq(Block) /\ DOMAIN y = 1..Len(y) /\ Len(y) \in Nat
  <2>1. \A k \in Host : chain'[k] \in Seq(Block) /\ saved'[k] \in Seq(Block)
    BY <1>3 DEF TypeOK
  <2>2. QED
    BY <2>1, ChainShape DEF Ledgers
<1> DEFINE c == chain[h]
<1>5. c \in Seq(Block) /\ Len(c) \in Nat
  BY LedgersAreChains, ChainShape
<1>6. Agreeing'
  <2>1. SUFFICES ASSUME NEW x \in Ledgers', NEW y \in Ledgers', NEW i \in DOMAIN x, NEW j \in DOMAIN y,
                        IsCkpt(x, i), IsCkpt(y, j), i <= j
                 PROVE  Upto(x, i - 1) = Upto(y, i - 1)
    BY DEF Agreeing, Agree
  <2>2. /\ x \in Seq(Block) /\ y \in Seq(Block) /\ i \in 1..Len(x) /\ j \in 1..Len(y)
        /\ Len(x) \in Nat /\ Len(y) \in Nat
    BY <1>4
  <2>3. CASE Old(x, i) /\ Old(y, j)
    BY <1>1, <2>1, <2>2, <2>3, OldAgree
  <2>4. CASE Fresh(x, i, h) /\ Old(y, j)
    <3>1. Agreed(c) /\ Len(c) = i - 1 /\ Upto(x, i - 1) = c
      BY <1>5, <2>4 DEF Fresh
    <3>2. Len(c) <= j - 1
      BY <2>1, <2>2, <3>1
    <3>3. Upto(y, Len(c)) = c
      BY <1>1, <1>5, <2>2, <2>4, <3>1, <3>2, AgreedWithOld
    <3>4. QED
      BY <3>1, <3>3
  <2>5. CASE Old(x, i) /\ Fresh(y, j, h)
    <3>1. Agreed(c) /\ Len(c) = j - 1 /\ Upto(y, j - 1) = c
      BY <1>5, <2>5 DEF Fresh
    <3>2. i - 1 <= Len(c) /\ j - 1 \in 0..Len(y) /\ i - 1 \in 0..(j - 1)
      BY <2>1, <2>2, <3>1
    <3>3. Upto(x, i - 1) = Upto(c, i - 1)
      BY <1>1, <1>5, <2>2, <2>5, <3>1, <3>2, AgreedWithOld
    <3>4. Upto(y, i - 1) = Upto(c, i - 1)
      BY <2>2, <3>1, <3>2, UptoUpto
    <3>5. QED
      BY <3>3, <3>4
  <2>6. CASE Fresh(x, i, h) /\ Fresh(y, j, h)
    BY <2>6 DEF Fresh
  <2>7. QED
    BY <1>2, <2>1, <2>3, <2>4, <2>5, <2>6
<1>7. Held'
  <2>1. SUFFICES ASSUME NEW y \in Ledgers', NEW j \in DOMAIN y, IsCkpt(y, j)
                 PROVE  \E a \in Admins : Holds(chain'[a], y, j) /\ (a \in unsaved' \/ Holds(saved'[a], y, j))
    BY DEF Held
  <2>2. y \in Seq(Block) /\ j \in 1..Len(y) /\ Len(y) \in Nat
    BY <1>4
  <2>3. CASE Fresh(y, j, h)
    <3>1. HaveCkpt(y)
      BY <2>1 DEF IsCkpt, HaveCkpt
    <3>2. CkptHeight(y) \in Nat /\ j <= CkptHeight(y) + 1
      BY <2>1, <2>2, <3>1, TopCheckpoint
    <3>3. Holds(y, y, j)
      BY <2>2, <3>1, <3>2 DEF Holds
    <3>4. QED
      BY <2>3, <3>3 DEF Fresh
  <2>4. CASE Old(y, j)
    <3>1. PICK d \in Ledgers : j \in DOMAIN d /\ IsCkpt(d, j) /\ Upto(d, j - 1) = Upto(y, j - 1)
      BY <2>4 DEF Old
    <3>2. PICK a \in Admins : Holds(chain[a], d, j) /\ (a \in unsaved \/ Holds(saved[a], d, j))
      BY <1>1, <3>1 DEF Held
    <3>3. Holds(chain[a], y, j) /\ (a \in unsaved \/ Holds(saved[a], y, j))
      BY <3>1, <3>2 DEF Holds
    <3>4. /\ a \in Host /\ chain[a] \in Seq(Block) /\ chain'[a] \in Seq(Block)
          /\ chain'[a] \in Ledgers'
      BY <1>3, FiniteAdmins, LedgersAreChains DEF TypeOK, Ledgers
    <3>5. Agree(y, chain'[a])
      BY <1>6, <3>4 DEF Agreeing
    <3>6. NoWorse(chain'[a], chain[a]) => Holds(chain'[a], y, j)
      BY <2>1, <2>2, <3>3, <3>4, <3>5, HoldsOn
    <3>7. /\ \/ NoWorse(chain'[a], chain[a])
             \/ chain'[a] = saved[a] /\ a \notin unsaved
          /\ \/ saved'[a] = saved[a] /\ (a \in unsaved => a \in unsaved')
             \/ saved'[a] = chain'[a] /\ NoWorse(chain'[a], chain[a])
      BY <1>1, <3>4, KeepingStep
    <3>8. QED
      BY <3>3, <3>6, <3>7
  <2>5. QED
    BY <1>2, <2>1, <2>3, <2>4
<1>8. QED
  BY <1>6, <1>7

-----------------------------------------------------------------------------
(* The results.                                                            *)

LEMMA InitIInv == Init => IInv
<1> SUFFICES ASSUME Init PROVE IInv
  OBVIOUS
<1>1. /\ chain = [h \in Host |-> <<>>] /\ saved = [h \in Host |-> <<>>]
      /\ tick = [h \in Host |-> Idle(h)] /\ made = 0 /\ proposed = {} /\ faults = 0
      /\ unsaved = {} /\ forgot = FALSE
  BY DEF Init
<1>2. <<>> \in Seq(Block) /\ DOMAIN <<>> = {}
  <2>1. <<>> \in Seq(Block) /\ Len(<<>>) = 0
    BY EmptySeq
  <2>2. QED
    BY <2>1, ChainShape
<1>3. \A c \in Ledgers : c = <<>>
  BY <1>1 DEF Ledgers
<1>4. OneBranch(<<>>)
  BY <1>2 DEF OneBranch
<1>5. TypeOK
  <2>1. chain \in [Host -> Seq(Block)] /\ saved \in [Host -> Seq(Block)]
    BY <1>1, <1>2
  <2>2. \A h \in Host : OneBranch(chain[h]) /\ OneBranch(saved[h])
    BY <1>1, <1>4
  <2>3. tick \in [Host -> Tick]
    BY <1>1, IdleIsTick
  <2>4. MaxBlocks \in Nat /\ MaxFaults \in Nat
    BY ChainsAssumption, GossipAssumption
  <2>5. /\ made \in 0..MaxBlocks /\ proposed \subseteq Proposals /\ faults \in 0..MaxFaults
        /\ unsaved \subseteq Host
    BY <1>1, <2>4
  <2>6. forgot \in BOOLEAN
    BY <1>1
  <2>7. QED
    BY <2>1, <2>2, <2>3, <2>5, <2>6 DEF TypeOK
<1>6. Linear /\ Unique
  BY <1>2, <1>3 DEF Linear, Unique, OneHash
<1>7. Saving
  BY <1>1, <1>2, NotWorseThanItself DEF Saving
<1>8. Checkpoints
  BY <1>2, <1>3 DEF Checkpoints, Agreeing, Agree, Held
<1>9. QED
  BY <1>5, <1>6, <1>7, <1>8 DEF IInv

LEMMA IInvStep == IInv /\ [Next]_vars => IInv'
BY BranchStep, SavingStep, TickStep, CheckpointsStep DEF IInv

LEMMA IInvAgrees == IInv => CheckpointsAgree
<1> SUFFICES ASSUME IInv, Quorum = Cardinality(Admins), ~forgot, NEW c \in Ledgers, NEW d \in Ledgers,
                    HaveCkpt(c), HaveCkpt(d)
             PROVE  Prefixes(Settled(c), d) \/ Prefixes(Settled(d), c)
  BY DEF CheckpointsAgree, IInv
<1>1. ASSUME NEW x \in Ledgers, NEW y \in Ledgers, HaveCkpt(x), HaveCkpt(y),
             CkptHeight(x) <= CkptHeight(y)
      PROVE  Prefixes(Settled(x), y)
  <2>1. x \in Seq(Block) /\ y \in Seq(Block) /\ Len(x) \in Nat /\ Len(y) \in Nat
    BY LedgersAreChains, ChainShape DEF IInv
  <2> DEFINE i == CkptHeight(x)
             j == CkptHeight(y)
  <2>2. /\ i \in Nat /\ i < Len(x) /\ IsCkpt(x, i + 1)
        /\ j \in Nat /\ j < Len(y) /\ IsCkpt(y, j + 1)
    BY <1>1, <2>1, TopCheckpoint
  <2>3. Agree(x, y)
    BY DEF IInv, Checkpoints, Agreeing
  <2>4. Upto(x, i) = Upto(y, i)
    <3>1. i + 1 <= j + 1 /\ (i + 1) - 1 = i
      BY <1>1, <2>2
    <3>2. i + 1 \in DOMAIN x /\ j + 1 \in DOMAIN y
      BY <2>2 DEF IsCkpt
    <3>3. Upto(x, (i + 1) - 1) = Upto(y, (i + 1) - 1)
      BY <2>2, <2>3, <3>1, <3>2 DEF Agree
    <3>4. QED
      BY <3>1, <3>3
  <2>5. Len(Upto(x, i)) = i
    BY <2>1, <2>2, UptoShape
  <2>6. QED
    BY <1>1, <2>1, <2>2, <2>4, <2>5 DEF Prefixes, Settled
<1>2. CkptHeight(c) \in Nat /\ CkptHeight(d) \in Nat
  BY LedgersAreChains, TopCheckpoint DEF IInv
<1>3. QED
  BY <1>1, <1>2

(* When every admin must sign a checkpoint, what the checkpoints of any    *)
(* two ledgers settle lies on one branch, whatever calls are lost, writes  *)
(* fail and processes end, until one ends between the checkpoint it made   *)
(* and the write of it.                                                    *)
THEOREM OneSettledBranch == Spec => []CheckpointsAgree
<1>1. Spec => []IInv
  BY InitIInv, IInvStep, PTL DEF Spec
<1>2. QED
  BY <1>1, IInvAgrees, PTL

(* What a host has on disk is never replaced by something worse.           *)
THEOREM LedgersNeverWorsen == Spec => BranchesAreKept
<1>1. IInv /\ [Next]_vars => [\A h \in Host : NoWorse(saved'[h], saved[h])]_vars
  BY SavingStep DEF IInv
<1>2. Spec => []IInv
  BY InitIInv, IInvStep, PTL DEF Spec
<1>3. QED
  BY <1>1, <1>2, PTL DEF Spec, BranchesAreKept
=============================================================================
