---------------------------- MODULE LedgerProofs ----------------------------
(***************************************************************************)
(* For any number of commands, blocks and faults: outside of overlapping   *)
(* saves the chain of module Ledger stays on disk.                         *)
(***************************************************************************)
EXTENDS Ledger, TLAPS

(* Each process is at one of its own places.                               *)
Placed ==
    /\ at \in [Process -> DaemonAt \cup CommandAt]
    /\ \A p \in Process : at[p] \in (IF p = Daemon THEN DaemonAt ELSE CommandAt)

Counted ==
    /\ dirty \in BOOLEAN /\ changed \in BOOLEAN
    /\ onward \in {"persist", "idle"}
    /\ faults \in 0..MaxFaults /\ blocks \in 0..MaxBlocks
    /\ told \subseteq 1..blocks /\ dropped \subseteq 1..blocks
    /\ upset \subseteq {"overlap", "save", "command"}

(* What is in a chain is a block that was made.                            *)
BlocksExist ==
    /\ file \in Seq(1..blocks) \cup {None}
    /\ tmp \in Seq(1..blocks) \cup {None}
    /\ mem \in [Process -> Seq(1..blocks)]

(* As long as no two processes were between load and save at once, a save  *)
(* past its first step finds its temporary file.                           *)
SavesAreWhole ==
    "overlap" \notin upset =>
        /\ ~Overlap
        /\ \A p \in Process : at[p] \in {"remove", "rename"} => tmp /= None
        /\ file /= None \/ tmp /= None

IInv == Placed /\ Counted /\ BlocksExist /\ SavesAreWhole

-----------------------------------------------------------------------------
(* Chains.                                                                 *)

LEMMA ChainsGrow ==
    ASSUME NEW m \in Nat, NEW n \in Nat, m <= n
    PROVE  Seq(1..m) \subseteq Seq(1..n)
<1>1. 1..m \subseteq 1..n
  OBVIOUS
<1>2. QED
  BY <1>1

LEMMA AppendIsChain ==
    ASSUME NEW n \in Nat, NEW s \in Seq(1..n)
    PROVE  /\ Append(s, n + 1) \in Seq(1..(n + 1))
           /\ Append(s, n + 1) /= <<>>
<1>1. s \in Seq(1..(n + 1))
  BY ChainsGrow
<1>2. n + 1 \in 1..(n + 1)
  OBVIOUS
<1>3. QED
  BY <1>1, <1>2, SMTT(30)

LEMMA LastInChain ==
    ASSUME NEW n \in Nat, NEW s \in Seq(1..n), s /= <<>>
    PROVE  Len(s) \in Nat \ {0} /\ s[Len(s)] \in 1..n
<1>1. Len(s) \in Nat /\ Len(s) /= 0
  OBVIOUS
<1>2. Len(s) \in 1..Len(s)
  BY <1>1
<1>3. s[Len(s)] \in 1..n
  BY <1>2
<1>4. QED
  BY <1>1, <1>3

LEMMA FrontIsChain ==
    ASSUME NEW n \in Nat, NEW s \in Seq(1..n), NEW k \in 0..Len(s)
    PROVE  SubSeq(s, 1, k) \in Seq(1..n)
<1>1. \A i \in 1..k : s[i] \in 1..n
  OBVIOUS
<1>2. SubSeq(s, 1, k) = [i \in 1..k |-> s[i]]
  BY SMTT(30)
<1>3. [i \in 1..k |-> s[i]] \in Seq(1..n)
  BY <1>1
<1>4. QED
  BY <1>2, <1>3

LEMMA ElemsOfAppend ==
    ASSUME NEW n \in Nat, NEW s \in Seq(1..n), NEW x
    PROVE  /\ Elems(s) \subseteq Elems(Append(s, x))
           /\ Len(Append(s, x)) = Len(s) + 1
<1>1. Len(Append(s, x)) = Len(s) + 1 /\ \A i \in 1..Len(s) : Append(s, x)[i] = s[i]
  OBVIOUS
<1>2. DOMAIN s = 1..Len(s) /\ DOMAIN Append(s, x) = 1..(Len(s) + 1) /\ Len(s) \in Nat
  OBVIOUS
<1>3. QED
  BY <1>1, <1>2 DEF Elems

(* A branch that keeps all but the last block.                             *)
LEMMA ElemsOfBranch ==
    ASSUME NEW n \in Nat, NEW s \in Seq(1..n), s /= <<>>, NEW t \in Seq(Nat)
    PROVE  Elems(s) \ {s[Len(s)]} \subseteq Elems(SubSeq(s, 1, Len(s) - 1) \o t)
<1> DEFINE k == Len(s) - 1
           f == SubSeq(s, 1, k)
<1>1. Len(s) \in Nat \ {0} /\ k \in 0..Len(s) /\ DOMAIN s = 1..Len(s)
  BY LastInChain
<1>2. f \in Seq(1..n)
  BY <1>1, FrontIsChain
<1>3. Len(f) = k /\ \A i \in 1..k : f[i] = s[i]
  BY <1>1
<1> HIDE DEF f
<1>4. \A i \in 1..k : (f \o t)[i] = s[i] /\ i \in DOMAIN (f \o t)
  BY <1>1, <1>2, <1>3
<1>5. \A i \in 1..Len(s) : s[i] /= s[Len(s)] => i \in 1..k
  BY <1>1
<1> HIDE DEF k
<1>6. \A x \in Elems(s) : x /= s[Len(s)] => x \in Elems(f \o t)
  BY <1>1, <1>4, <1>5 DEF Elems
<1>7. QED
  BY <1>6 DEF f, k

LEMMA ElemsAreBlocks ==
    ASSUME NEW n \in Nat, NEW s \in Seq(1..n)
    PROVE  Elems(s) \subseteq 1..n
BY DEF Elems

LEMMA ChainIsNotNone ==
    ASSUME NEW n \in Nat
    PROVE  None \notin Seq(1..n)
<1>1. 1..n \subseteq Nat
  OBVIOUS
<1>2. QED
  BY <1>1, LedgerAssumption

(* The type invariant follows: no block is beyond the bound.               *)
LEMMA TypeFollows == IInv => TypeOK
<1> SUFFICES ASSUME IInv PROVE TypeOK
  OBVIOUS
<1> USE DEF IInv
<1>1. blocks \in Nat /\ blocks <= MaxBlocks
  BY LedgerAssumption DEF Counted
<1>2. Seq(1..blocks) \subseteq Chain
  BY <1>1, ChainsGrow, LedgerAssumption DEF Chain
<1>3. file \in Chain \cup {None} /\ tmp \in Chain \cup {None}
  BY <1>2 DEF BlocksExist
<1>4. mem \in [Process -> Chain]
  BY <1>2 DEF BlocksExist
<1>5. QED
  BY <1>3, <1>4 DEF TypeOK, Placed, Counted

LEMMA InitOK == Init => IInv
<1> SUFFICES ASSUME Init PROVE IInv
  OBVIOUS
<1> USE DEF Init
<1>1. Placed
  BY DEF Placed, DaemonAt, CommandAt, Saving, Process
<1>2. Counted
  <2>1. MaxFaults \in Nat /\ MaxBlocks \in Nat
    BY LedgerAssumption
  <2>2. faults \in 0..MaxFaults /\ blocks \in 0..MaxBlocks
    BY <2>1
  <2>3. QED
    BY <2>2 DEF Counted
<1>3. BlocksExist
  <2>1. <<>> \in Seq(1..blocks)
    OBVIOUS
  <2>2. QED
    BY <2>1 DEF BlocksExist
<1>4. ~Overlap /\ \A p \in Process : at[p] \notin {"remove", "rename"}
  BY DEF Overlap, Busy, Process
<1>5. <<>> \in Seq(1..0)
  OBVIOUS
<1>6. file /= None
  BY <1>5, ChainIsNotNone
<1>7. QED
  BY <1>1, <1>2, <1>3, <1>4, <1>6 DEF IInv, SavesAreWhole

-----------------------------------------------------------------------------
(* The steps.                                                              *)

(* While the processes take turns, and only then, the rest is claimed.     *)
LEMMA StillTakingTurns ==
    ASSUME SavesAreWhole, NEW p \in Process, NEW fails, Disturb(p, fails),
           "overlap" \notin upset'
    PROVE  /\ ~Overlap' /\ ~Overlap
           /\ \A q \in Process : at[q] \in {"remove", "rename"} => tmp /= None
           /\ file /= None \/ tmp /= None
BY DEF SavesAreWhole, Disturb

LEMMA UpsetStays ==
    ASSUME Counted, NEW p \in Process, NEW fails, Disturb(p, fails)
    PROVE  upset' \subseteq {"overlap", "save", "command"}
BY DEF Counted, Disturb

(* A step that only moves p, outside of the steps of a save, and leaves    *)
(* the disk alone.                                                         *)
LEMMA QuietStep ==
    ASSUME IInv, NEW p \in Process, NEW fails, Disturb(p, fails),
           NEW place, Go(p, place),
           place \in IF p = Daemon THEN DaemonAt ELSE CommandAt,
           place \in {"remove", "rename"} => at[p] \in {"remove", "rename"},
           UNCHANGED <<file, tmp>>
    PROVE  Placed' /\ SavesAreWhole'
<1> USE DEF IInv
<1>1. \A q \in Process : at'[q] = IF q = p THEN place ELSE at[q]
  BY DEF Go, Placed
<1>2. Placed'
  BY <1>1 DEF Placed, Go
<1>3. SavesAreWhole'
  <2> SUFFICES ASSUME "overlap" \notin upset'
               PROVE  /\ \A q \in Process : at'[q] \in {"remove", "rename"} => tmp' /= None
                      /\ file' /= None \/ tmp' /= None
    BY StillTakingTurns DEF SavesAreWhole
  <2>1. QED
    BY <1>1, StillTakingTurns
<1>4. QED
  BY <1>2, <1>3

LEMMA DaemonIsProcess == Daemon \in Process
BY DEF Process

(* A chain learnt from the disk, or from the chain p has, is a chain.      *)
LEMMA Learnt ==
    ASSUME IInv, NEW p \in Process, NEW c \in Seq(1..blocks), Learn(p, c)
    PROVE  mem' \in [Process -> Seq(1..blocks)]
BY DEF IInv, BlocksExist, Learn

(* p's chain gets new blocks, at its end or in the place of its last.      *)
LEMMA Grown ==
    ASSUME IInv, NEW p \in Process, NEW n \in Nat, blocks <= n,
           NEW c \in Seq(1..n), Learn(p, c), blocks' = n,
           UNCHANGED <<file, tmp>>
    PROVE  BlocksExist'
<1>0. blocks \in Nat
  BY LedgerAssumption DEF IInv, Counted
<1>1. Seq(1..blocks) \subseteq Seq(1..n)
  BY <1>0, ChainsGrow
<1>2. mem' \in [Process -> Seq(1..n)]
  BY <1>1 DEF IInv, BlocksExist, Learn
<1>3. QED
  BY <1>1, <1>2 DEF IInv, BlocksExist

(* The counters when a block or two are made within the bound.             *)
LEMMA CountsGrow ==
    ASSUME IInv, blocks <= blocks', blocks' \in 0..MaxBlocks,
           dirty' \in BOOLEAN, changed' \in BOOLEAN,
           onward' \in {"persist", "idle"}, faults' \in 0..MaxFaults,
           told' = told, dropped' \subseteq dropped \cup 1..blocks,
           NEW p \in Process, NEW fails, Disturb(p, fails)
    PROVE  Counted'
<1>0. blocks \in Nat /\ blocks' \in Nat
  BY LedgerAssumption DEF IInv, Counted
<1>1. 1..blocks \subseteq 1..blocks'
  BY <1>0
<1>2. upset' \subseteq {"overlap", "save", "command"}
  BY UpsetStays DEF IInv
<1>3. QED
  BY <1>1, <1>2 DEF IInv, Counted

LEMMA CountsStay ==
    ASSUME IInv, UNCHANGED past, dirty' \in BOOLEAN, changed' \in BOOLEAN,
           onward' \in {"persist", "idle"}, faults' \in 0..MaxFaults,
           NEW p \in Process, NEW fails, Disturb(p, fails)
    PROVE  Counted'
BY UpsetStays DEF IInv, Counted, past

LEMMA BlockCount == IInv => blocks \in Nat /\ MaxBlocks \in Nat
BY LedgerAssumption DEF IInv, Counted

(* Where the daemon and the commands go.                                   *)
LEMMA Moves ==
    ASSUME IInv, NEW p \in Process, NEW place, Go(p, place)
    PROVE  \A q \in Process : at'[q] = IF q = p THEN place ELSE at[q]
BY DEF Go, IInv, Placed

LEMMA CommandIsProcess ==
    \A c \in Command : c \in Process /\ c /= Daemon
BY LedgerAssumption DEF Process

-----------------------------------------------------------------------------
LEMMA WriteOK ==
    ASSUME IInv, NEW p \in Process, Write(p), Disturb(p, FALSE)
    PROVE  IInv'
<1> USE DEF Write
<1>1. \A q \in Process : at'[q] = IF q = p THEN "remove" ELSE at[q]
  BY Moves
<1>2. mem[p] \in Seq(1..blocks) /\ tmp' /= None
  BY BlockCount, ChainIsNotNone DEF IInv, BlocksExist
<1>3. Placed'
  BY <1>1 DEF IInv, Placed, Go, DaemonAt, CommandAt, Saving
<1>4. Counted'
  BY CountsStay DEF IInv, Counted, node
<1>5. BlocksExist'
  BY <1>2 DEF IInv, BlocksExist, past
<1>6. SavesAreWhole'
  BY <1>2, StillTakingTurns DEF IInv, SavesAreWhole
<1>7. QED
  BY <1>3, <1>4, <1>5, <1>6 DEF IInv

LEMMA RemoveOK ==
    ASSUME IInv, NEW p \in Process, Remove(p), Disturb(p, FALSE)
    PROVE  IInv'
<1> USE DEF Remove
<1>1. \A q \in Process : at'[q] = IF q = p THEN "rename" ELSE at[q]
  BY Moves
<1>3. Placed'
  BY <1>1 DEF IInv, Placed, Go, DaemonAt, CommandAt, Saving
<1>4. Counted'
  <2>1. changed' \in BOOLEAN
    BY DEF Restamp
  <2>2. QED
    BY <2>1, CountsStay DEF IInv, Counted, node
<1>5. BlocksExist'
  BY DEF IInv, BlocksExist, past
<1>6. SavesAreWhole'
  <2> SUFFICES ASSUME "overlap" \notin upset'
               PROVE  tmp' /= None
    BY StillTakingTurns DEF IInv, SavesAreWhole
  <2>1. QED
    BY StillTakingTurns DEF IInv
<1>7. QED
  BY <1>3, <1>4, <1>5, <1>6 DEF IInv

(* The rename is why turns matter: only then does it take its own file.    *)
LEMMA RenameOK ==
    ASSUME IInv, NEW p \in Process, Rename(p), Disturb(p, FALSE)
    PROVE  IInv'
<1> DEFINE place == IF p = Daemon THEN "stamp" ELSE "done"
<1> USE DEF Rename
<1>0. Go(p, place)
  OBVIOUS
<1>1. \A q \in Process : at'[q] = IF q = p THEN place ELSE at[q]
  BY <1>0, Moves
<1>2. blocks \in Nat /\ blocks' = blocks
  BY BlockCount
<1>3. Placed'
  BY <1>0, <1>1 DEF IInv, Placed, Go, DaemonAt, CommandAt, Saving
<1>4. Counted'
  <2>1. changed' \in BOOLEAN /\ dirty' \in BOOLEAN
    BY DEF Restamp, IInv, Counted
  <2>2. told' \subseteq 1..blocks
    <3>1. CASE p = Daemon
      BY <3>1 DEF IInv, Counted
    <3>2. CASE p /= Daemon
      <4>1. Elems(mem[p]) \subseteq 1..blocks
        BY <1>2, ElemsAreBlocks DEF IInv, BlocksExist
      <4>2. QED
        BY <3>2, <4>1 DEF IInv, Counted
    <3>3. QED
      BY <3>1, <3>2
  <2>3. upset' \subseteq {"overlap", "save", "command"}
    BY UpsetStays DEF IInv
  <2>4. QED
    BY <2>1, <2>2, <2>3 DEF IInv, Counted
<1>5. BlocksExist'
  <2>1. mem' \in [Process -> Seq(1..blocks)]
    BY <1>2, Learnt, <<>> \in Seq(1..blocks) DEF IInv, BlocksExist
  <2>2. QED
    BY <1>2, <2>1 DEF IInv, BlocksExist
<1>6. SavesAreWhole'
  <2> SUFFICES ASSUME "overlap" \notin upset'
               PROVE  /\ \A q \in Process : at'[q] \notin {"remove", "rename"}
                      /\ file' /= None
    BY StillTakingTurns DEF IInv, SavesAreWhole
  <2>1. \A q \in Process : q /= p => ~Busy(q)
    BY StillTakingTurns DEF IInv, Overlap, Busy
  <2>2. \A q \in Process : at'[q] \notin {"remove", "rename"}
    BY <1>1, <2>1 DEF Busy
  <2>3. QED
    BY <2>2
<1>7. QED
  BY <1>3, <1>4, <1>5, <1>6 DEF IInv

-----------------------------------------------------------------------------
LEMMA FailOK ==
    ASSUME IInv, NEW p \in Process, Fail(p), Disturb(p, TRUE)
    PROVE  IInv'
<1> DEFINE place == IF p = Daemon THEN onward ELSE "failed"
<1> USE DEF Fail, Failing
<1>1. Go(p, place) /\ UNCHANGED <<file, tmp, changed, mem, dirty, onward, blocks, told, dropped>>
  BY DEF disk, node, past
<1>2. place \in IF p = Daemon THEN DaemonAt ELSE CommandAt
  BY DEF IInv, Counted, DaemonAt, CommandAt
<1>3. place \notin Saving
  BY DEF IInv, Counted, Saving
<1>4. Placed' /\ SavesAreWhole'
  BY <1>1, <1>2, <1>3, QuietStep DEF Saving
<1>5. faults' \in 0..MaxFaults
  BY LedgerAssumption DEF IInv, Counted
<1>6. Counted'
  BY <1>1, <1>5, CountsStay DEF IInv, Counted, past
<1>7. BlocksExist'
  BY <1>1 DEF IInv, BlocksExist
<1>8. QED
  BY <1>4, <1>6, <1>7 DEF IInv

LEMMA EndOK ==
    ASSUME IInv, NEW p \in Process, End(p), NEW fails, Disturb(p, fails)
    PROVE  IInv'
<1> DEFINE place == IF p = Daemon THEN "down" ELSE "failed"
<1> USE DEF End
<1>1. Go(p, place) /\ Learn(p, <<>>) /\ UNCHANGED <<file, tmp, changed, onward, blocks, told, dropped>>
  BY DEF disk, past
<1>2. place \in IF p = Daemon THEN DaemonAt ELSE CommandAt
  BY DEF DaemonAt, CommandAt
<1>3. Placed' /\ SavesAreWhole'
  BY <1>1, <1>2, QuietStep
<1>4. faults' \in 0..MaxFaults
  BY LedgerAssumption DEF IInv, Counted
<1>5. Counted'
  BY <1>1, <1>4, CountsStay DEF IInv, Counted, past
<1>6. BlocksExist'
  <2>1. mem' \in [Process -> Seq(1..blocks)]
    BY <1>1, Learnt, <<>> \in Seq(1..blocks)
  <2>2. QED
    BY <1>1, <2>1 DEF IInv, BlocksExist
<1>7. QED
  BY <1>3, <1>5, <1>6 DEF IInv

(* A step of the daemon that may learn a chain from the file.              *)
LEMMA ReadingOK ==
    ASSUME IInv, NEW place \in {"wire", "idle", "sync", "seal", "persist", "write"},
           NEW was \in {"down", "wire", "idle", "sync", "seal", "persist", "stamp"},
           at[Daemon] = was, Go(Daemon, place),
           NEW c, Learn(Daemon, c), c \in {file, mem[Daemon]}, c /= None,
           UNCHANGED <<file, tmp, faults, past>>,
           dirty' \in BOOLEAN, changed' \in BOOLEAN, onward' \in {"persist", "idle"},
           Disturb(Daemon, FALSE)
    PROVE  IInv'
<1>1. Placed' /\ SavesAreWhole'
  <2>1. place \in DaemonAt /\ place \notin {"remove", "rename"}
    BY DEF DaemonAt, Saving
  <2>2. QED
    BY <2>1, QuietStep, DaemonIsProcess
<1>2. Counted'
  BY CountsStay, DaemonIsProcess DEF IInv, Counted
<1>3. BlocksExist'
  <2>1. c \in Seq(1..blocks)
    BY DaemonIsProcess DEF IInv, BlocksExist
  <2>2. mem' \in [Process -> Seq(1..blocks)]
    BY <2>1, DaemonIsProcess, Learnt
  <2>3. QED
    BY <2>2 DEF IInv, BlocksExist, past
<1>4. QED
  BY <1>1, <1>2, <1>3 DEF IInv

(* What a process has after a block more, or after a switch.               *)
LEMMA AfterGrowth ==
    ASSUME IInv, NEW p \in Process, Extended(p) \/ Switched(p)
    PROVE  \E n \in Nat : \E c \in Seq(1..n) :
               /\ blocks <= n /\ n <= MaxBlocks /\ blocks' = n /\ Learn(p, c)
               /\ Len(mem[p]) <= Len(c)
               /\ dropped \subseteq dropped' /\ dropped' \subseteq dropped \cup 1..blocks
               /\ Elems(mem[p]) \ dropped' \subseteq Elems(c)
<1>0. blocks \in Nat /\ mem[p] \in Seq(1..blocks)
  BY BlockCount DEF IInv, BlocksExist
<1>1. CASE Extended(p)
  <2> DEFINE c == Append(mem[p], blocks + 1)
  <2>1. blocks' = blocks + 1 /\ blocks + 1 <= MaxBlocks /\ Learn(p, c) /\ dropped' = dropped
    BY <1>0, <1>1, BlockCount DEF Extended, NewBlock, Fresh
  <2>2. c \in Seq(1..(blocks + 1))
    BY <1>0, AppendIsChain
  <2>3. Elems(mem[p]) \subseteq Elems(c) /\ Len(c) = Len(mem[p]) + 1 /\ Len(mem[p]) \in Nat
    BY <1>0, ElemsOfAppend
  <2> HIDE DEF c
  <2>4. blocks <= blocks + 1 /\ blocks + 1 \in Nat /\ Len(mem[p]) <= Len(c)
    BY <1>0, <2>3
  <2>5. QED
    BY <2>1, <2>2, <2>3, <2>4
<1>2. CASE Switched(p)
  <2>1. PICK n \in {1, 2} :
          /\ blocks + n <= MaxBlocks /\ blocks' = blocks + n
          /\ Learn(p, SubSeq(mem[p], 1, Len(mem[p]) - 1) \o Branch(n))
    BY <1>2 DEF Switched
  <2>2. mem[p] /= <<>> /\ dropped' = dropped \cup {mem[p][Len(mem[p])]}
    BY <1>2 DEF Switched
  <2> DEFINE kept == SubSeq(mem[p], 1, Len(mem[p]) - 1)
             c == kept \o Branch(n)
  <2>3. Len(mem[p]) \in Nat \ {0} /\ mem[p][Len(mem[p])] \in 1..blocks
    BY <1>0, <2>2, LastInChain
  <2>4. blocks + n \in Nat /\ blocks <= blocks + n
    BY <1>0
  <2>5. mem[p] \in Seq(1..(blocks + n))
    BY <1>0, <2>4, ChainsGrow
  <2>6. kept \in Seq(1..(blocks + n)) /\ Len(kept) = Len(mem[p]) - 1
    <3>1. Len(mem[p]) - 1 \in 0..Len(mem[p])
      BY <2>3
    <3>2. kept \in Seq(1..(blocks + n))
      BY <2>4, <2>5, <3>1, FrontIsChain
    <3>3. QED
      BY <1>0, <2>3, <3>2
  <2>7. Branch(n) \in Seq(1..(blocks + n)) /\ Len(Branch(n)) = n /\ Branch(n) \in Seq(Nat)
    <3>1. \A i \in 1..n : blocks + i \in 1..(blocks + n) /\ blocks + i \in Nat
      BY <1>0
    <3>2. n \in Nat
      OBVIOUS
    <3>3. QED
      BY <3>1, <3>2 DEF Branch
  <2>8. Elems(mem[p]) \ {mem[p][Len(mem[p])]} \subseteq Elems(c)
    BY <1>0, <2>2, <2>7, ElemsOfBranch
  <2> HIDE DEF kept
  <2>9. c \in Seq(1..(blocks + n)) /\ Len(c) = Len(kept) + n
    BY <2>6, <2>7
  <2>10. Learn(p, c)
    BY <2>1 DEF kept
  <2> HIDE DEF c
  <2>11. Len(mem[p]) <= Len(c)
    BY <2>3, <2>6, <2>9
  <2>12. QED
    BY <2>1, <2>2, <2>3, <2>4, <2>8, <2>9, <2>10, <2>11
<1>3. QED
  BY <1>1, <1>2

(* A step that changes the chain of a process and leaves the disk alone.   *)
LEMMA GrowingOK ==
    ASSUME IInv, NEW p \in Process, Extended(p) \/ Switched(p),
           NEW place \in {"seal", "write", "pulled"}, Go(p, place),
           place \in IF p = Daemon THEN DaemonAt ELSE CommandAt,
           UNCHANGED <<file, tmp, changed, faults, told>>,
           dirty' \in BOOLEAN, onward' \in {"persist", "idle"},
           Disturb(p, FALSE)
    PROVE  IInv'
<1>1. PICK n \in Nat : \E c \in Seq(1..n) :
        /\ blocks <= n /\ n <= MaxBlocks /\ blocks' = n /\ Learn(p, c)
        /\ dropped' \subseteq dropped \cup 1..blocks
  BY AfterGrowth
<1>2. PICK c \in Seq(1..n) :
        /\ blocks <= n /\ n <= MaxBlocks /\ blocks' = n /\ Learn(p, c)
        /\ dropped' \subseteq dropped \cup 1..blocks
  BY <1>1
<1>3. Placed' /\ SavesAreWhole'
  BY QuietStep
<1>4. Counted'
  <2>1. blocks' \in 0..MaxBlocks
    BY <1>2, BlockCount
  <2>2. QED
    BY <1>2, <2>1, CountsGrow DEF IInv, Counted
<1>5. BlocksExist'
  BY <1>2, Grown
<1>6. QED
  BY <1>3, <1>4, <1>5 DEF IInv

LEMMA DaemonOK ==
    ASSUME IInv, DaemonStep, Disturb(Daemon, FALSE)
    PROVE  IInv'
<1>0. mem[Daemon] \in Seq(1..blocks) /\ mem[Daemon] /= None
  BY DaemonIsProcess, BlockCount, ChainIsNotNone DEF IInv, BlocksExist
<1>1. UNCHANGED mem => Learn(Daemon, mem[Daemon])
  BY DaemonIsProcess DEF IInv, BlocksExist, Learn
<1>a. dirty \in BOOLEAN /\ changed \in BOOLEAN /\ onward \in {"persist", "idle"}
  BY DEF IInv, Counted
<1>2. CASE Load
  BY <1>2, <1>a, ReadingOK DEF Load, disk, node
<1>3. CASE Wire
  BY <1>0, <1>1, <1>3, <1>a, ReadingOK DEF Wire, node
<1>4. CASE Reload
  <2>1. CASE Adoptable
    BY <1>4, <1>a, <2>1, ReadingOK DEF Reload, Adoptable
  <2>2. CASE ~Adoptable
    BY <1>0, <1>1, <1>4, <1>a, <2>2, ReadingOK DEF Reload
  <2>3. QED
    BY <2>1, <2>2
<1>5. CASE Nothing
  BY <1>0, <1>1, <1>5, <1>a, ReadingOK DEF Nothing, disk, node
<1>b. "seal" \in DaemonAt /\ "write" \in DaemonAt
  BY DEF DaemonAt, Saving
<1>6. CASE Extend
  BY <1>6, <1>a, <1>b, DaemonIsProcess, GrowingOK DEF Extend, disk
<1>7. CASE Switch
  BY <1>7, <1>a, <1>b, DaemonIsProcess, GrowingOK DEF Switch, disk
<1>8. CASE Seal
  <2>1. CASE Go(Daemon, "persist") /\ UNCHANGED <<mem, node, blocks, dropped>>
    BY <1>0, <1>1, <1>8, <1>a, <2>1, ReadingOK DEF Seal, disk, node, past
  <2>2. CASE Extended(Daemon) /\ dirty' = TRUE /\ Go(Daemon, "write") /\ onward' = "persist"
    BY <1>8, <1>a, <1>b, <2>2, DaemonIsProcess, GrowingOK DEF Seal, disk
  <2>3. QED
    BY <1>8, <2>1, <2>2 DEF Seal
<1>9. CASE Persist
  BY <1>0, <1>1, <1>9, <1>a, ReadingOK DEF Persist, disk
<1>10. CASE Stamp
  BY <1>0, <1>1, <1>10, <1>a, ReadingOK DEF Stamp, node
<1>11. QED
  BY <1>2, <1>3, <1>4, <1>5, <1>6, <1>7, <1>8, <1>9, <1>10 DEF DaemonStep

LEMMA CommandOK ==
    ASSUME IInv, NEW c \in Command, CommandStep(c), Disturb(c, FALSE)
    PROVE  IInv'
<1>0. c \in Process /\ c /= Daemon
  BY CommandIsProcess
<1>a. dirty \in BOOLEAN /\ changed \in BOOLEAN /\ onward \in {"persist", "idle"} /\ faults \in 0..MaxFaults
  BY DEF IInv, Counted
<1>1. CASE Open(c)
  <2> DEFINE place == IF file = None THEN "failed" ELSE "loaded"
  <2>1. Go(c, place) /\ UNCHANGED <<file, tmp, changed, dirty, onward, faults, past>>
    BY <1>1 DEF Open, disk, node
  <2>2. place \in CommandAt /\ place \notin Saving
    BY DEF CommandAt, Saving
  <2>3. Placed' /\ SavesAreWhole'
    BY <1>0, <2>1, <2>2, QuietStep DEF Saving
  <2>4. Counted'
    BY <1>0, <1>a, <2>1, CountsStay
  <2>5. mem' \in [Process -> Seq(1..blocks)]
    BY <1>0, <1>1, Learnt DEF Open, IInv, BlocksExist
  <2>6. BlocksExist'
    BY <2>1, <2>5 DEF IInv, BlocksExist, past
  <2>7. QED
    BY <2>3, <2>4, <2>6 DEF IInv
<1>b. "write" \in CommandAt /\ "pulled" \in CommandAt
  BY DEF CommandAt, Saving
<1>2. CASE Propose(c)
  BY <1>0, <1>2, <1>a, <1>b, GrowingOK DEF Propose, disk, node
<1>3. CASE Sync(c)
  BY <1>0, <1>3, <1>a, <1>b, GrowingOK DEF Sync, disk, node
<1>4. CASE EndSync(c)
  <2> DEFINE place == IF at[c] = "loaded" THEN "done" ELSE "write"
  <2>1. Go(c, place) /\ UNCHANGED <<file, tmp, changed, dirty, onward, faults, past>>
    BY <1>4 DEF EndSync, disk, node
  <2>2. place \in CommandAt /\ place \notin {"remove", "rename"}
    BY DEF CommandAt, Saving
  <2>3. Placed' /\ SavesAreWhole'
    BY <1>0, <2>1, <2>2, QuietStep
  <2>4. Counted'
    BY <1>0, <1>a, <2>1, CountsStay
  <2>5. mem' \in [Process -> Seq(1..blocks)]
    <3>1. mem' = mem \/ Learn(c, <<>>)
      BY <1>4 DEF EndSync
    <3>2. <<>> \in Seq(1..blocks)
      OBVIOUS
    <3>3. QED
      BY <1>0, <3>1, <3>2, Learnt DEF IInv, BlocksExist
  <2>6. BlocksExist'
    BY <2>1, <2>5 DEF IInv, BlocksExist, past
  <2>7. QED
    BY <2>3, <2>4, <2>6 DEF IInv
<1>5. QED
  BY <1>1, <1>2, <1>3, <1>4 DEF CommandStep

-----------------------------------------------------------------------------
LEMMA NextOK == IInv /\ [Next]_vars => IInv'
<1> SUFFICES ASSUME IInv, [Next]_vars PROVE IInv'
  OBVIOUS
<1>1. CASE UNCHANGED vars
  BY <1>1 DEF vars, IInv, Placed, Counted, BlocksExist, SavesAreWhole, Overlap, Busy
<1>2. CASE Next
  <2>1. PICK p \in Process : Run(p) \/ (End(p) /\ Disturb(p, p /= Daemon))
    BY <1>2 DEF Next
  <2>2. CASE End(p) /\ Disturb(p, p /= Daemon)
    BY <2>2, EndOK
  <2>3. CASE p = Daemon /\ DaemonStep /\ Disturb(p, FALSE)
    BY <2>3, DaemonOK
  <2>4. CASE p /= Daemon /\ CommandStep(p) /\ Disturb(p, FALSE)
    BY <2>4, CommandOK DEF Process
  <2>5. CASE SaveStep(p) /\ Disturb(p, FALSE)
    BY <2>5, WriteOK, RemoveOK, RenameOK DEF SaveStep
  <2>6. CASE Fail(p) /\ Disturb(p, TRUE)
    BY <2>6, FailOK
  <2>7. QED
    BY <2>1, <2>2, <2>3, <2>4, <2>5, <2>6 DEF Run
<1>3. QED
  BY <1>1, <1>2

(* The state keeps its type: no chain holds a block that was never made.   *)
THEOREM TypeCorrect == Spec => []TypeOK
<1>1. Init => IInv
  BY InitOK
<1>2. IInv /\ [Next]_vars => IInv'
  BY NextOK
<1>3. IInv => TypeOK
  BY TypeFollows
<1>4. QED
  BY <1>1, <1>2, <1>3, PTL DEF Spec

(* Whenever processes end and whatever step of a save fails, the chain is  *)
(* on disk under one of its two names, outside of overlapping saves.       *)
THEOREM ChainSurvives == Spec => []LedgerKept
<1>1. Init => IInv
  BY InitOK
<1>2. IInv /\ [Next]_vars => IInv'
  BY NextOK
<1>3. IInv => LedgerKept
  BY TypeFollows DEF IInv, SavesAreWhole, LedgerKept
<1>4. QED
  BY <1>1, <1>2, <1>3, PTL DEF Spec

-----------------------------------------------------------------------------
(* As long as the processes take turns and no save fails: what is owed, a  *)
(* block reported as saved and not given up, is on disk, and whoever is    *)
(* between load and save has it in hand, so the save does not lose it; the *)
(* file a command has read is still there.                                 *)

Owed == told \ dropped

InHand ==
    \A p \in Process : Busy(p) =>
        /\ Owed \subseteq Elems(mem[p])
        /\ at[p] = "loaded" => file /= None

TmpIsTheSavers == \A p \in Process : at[p] \in {"remove", "rename"} => tmp = mem[p]

(* The daemon has what the file has, or is about to save more; while it is *)
(* idle a command may write, which it will notice: the stamp has changed   *)
(* and the file is no shorter.                                             *)
DaemonKnows ==
    /\ at[Daemon] \in {"wire", "sync", "stamp"} => file = mem[Daemon]
    /\ at[Daemon] \in {"seal", "persist"} /\ ~dirty => file = mem[Daemon]
    /\ at[Daemon] = "idle" =>
         /\ changed \/ file = mem[Daemon]
         /\ file = None => \E c \in Command : Busy(c)
         /\ file /= None => Len(file) >= Len(mem[Daemon])
         /\ \A c \in Command : Busy(c) => Len(mem[c]) >= Len(mem[Daemon])

InTurns == upset = {} => ToldIsKept /\ InHand /\ TmpIsTheSavers /\ DaemonKnows

(* What a step may count on while nothing has been disturbed.              *)
LEMMA Undisturbed ==
    ASSUME IInv, InTurns, NEW p \in Process, NEW fails \in BOOLEAN, Disturb(p, fails), upset' = {}
    PROVE  /\ ToldIsKept /\ InHand /\ TmpIsTheSavers /\ DaemonKnows
           /\ ~fails /\ upset = {}
           /\ Busy(p) => \A q \in Process : q /= p => ~Busy(q)
           /\ Busy(p)' => \A q \in Process : q /= p => ~Busy(q)'
<1>1. upset = {} /\ ~fails /\ ~Overlap'
  BY DEF Disturb
<1>2. ~Overlap
  BY <1>1 DEF IInv, SavesAreWhole
<1>3. QED
  BY <1>1, <1>2 DEF InTurns, Overlap

LEMMA SaveInTurn ==
    ASSUME IInv, InTurns, NEW p \in Process, SaveStep(p), Disturb(p, FALSE), upset' = {}
    PROVE  ToldIsKept' /\ InHand' /\ TmpIsTheSavers' /\ DaemonKnows'
<1>1. /\ ToldIsKept /\ InHand /\ TmpIsTheSavers /\ DaemonKnows /\ upset = {}
      /\ Busy(p) => \A q \in Process : q /= p => ~Busy(q)
  BY Undisturbed
<1>2. blocks \in Nat /\ mem[p] \in Seq(1..blocks) /\ mem[p] /= None /\ Daemon \in Process
      /\ \A c \in Command : c \in Process /\ c /= Daemon
  BY BlockCount, ChainIsNotNone, DaemonIsProcess, CommandIsProcess DEF IInv, BlocksExist
<1>3. Busy(p) /\ at[p] \in Saving
  BY DEF SaveStep, Write, Remove, Rename, Busy, Saving
<1>4. Owed \subseteq Elems(mem[p]) /\ Owed \subseteq Elems(OnDisk)
  BY <1>1, <1>3 DEF InHand, ToldIsKept, Owed
<1>5. \A q \in Process : q /= p => ~Busy(q)
  BY <1>1, <1>3
<1>6. CASE Write(p)
  <2>1. /\ \A q \in Process : at'[q] = IF q = p THEN "remove" ELSE at[q]
        /\ tmp' = mem[p] /\ UNCHANGED <<file, mem, changed, dirty, told, dropped>>
    BY <1>6, Moves DEF Write, node, past
  <2>2. OnDisk' \in {OnDisk, mem[p]}
    BY <1>2, <2>1 DEF OnDisk
  <2>3. ToldIsKept' /\ InHand'
    BY <1>4, <1>5, <2>1, <2>2 DEF ToldIsKept, InHand, Owed, Busy
  <2>4. TmpIsTheSavers'
    BY <1>5, <2>1 DEF TmpIsTheSavers, Busy
  <2>5. DaemonKnows'
    BY <1>1, <1>2, <1>3, <1>5, <2>1 DEF DaemonKnows, Busy, Process
  <2>6. QED
    BY <2>3, <2>4, <2>5
<1>7. CASE Remove(p)
  <2>1. /\ \A q \in Process : at'[q] = IF q = p THEN "rename" ELSE at[q]
        /\ file' = None /\ (p /= Daemon => changed') /\ (changed => changed')
        /\ UNCHANGED <<tmp, mem, dirty, told, dropped>> /\ at[p] = "remove"
    BY <1>7, Moves DEF Remove, node, past, Restamp
  <2>2. OnDisk' = mem[p]
    BY <1>1, <1>2, <2>1 DEF OnDisk, TmpIsTheSavers
  <2>3. ToldIsKept' /\ InHand'
    BY <1>4, <1>5, <2>1, <2>2 DEF ToldIsKept, InHand, Owed, Busy
  <2>4. TmpIsTheSavers'
    BY <1>1, <1>5, <2>1 DEF TmpIsTheSavers, Busy
  <2>5. DaemonKnows'
    BY <1>1, <1>2, <1>3, <1>5, <2>1 DEF DaemonKnows, Busy, Process
  <2>6. QED
    BY <2>3, <2>4, <2>5
<1>8. CASE Rename(p)
  <2> DEFINE place == IF p = Daemon THEN "stamp" ELSE "done"
  <2>1. /\ \A q \in Process : at'[q] = IF q = p THEN place ELSE at[q]
        /\ file' = mem[p] /\ tmp' = None /\ (p /= Daemon => changed')
        /\ dropped' = dropped /\ at[p] = "rename"
    <3>1. Go(p, place)
      BY <1>8 DEF Rename
    <3>2. QED
      BY <1>1, <1>8, <3>1, Moves DEF Rename, Restamp, TmpIsTheSavers
  <2>2. OnDisk' = mem[p]
    BY <1>2, <2>1 DEF OnDisk
  <2>3. CASE p = Daemon
    <3>1. told' = told /\ mem' = mem
      BY <1>8, <2>3 DEF Rename
    <3>2. ToldIsKept' /\ InHand'
      BY <1>4, <1>5, <2>1, <2>2, <3>1 DEF ToldIsKept, InHand, Owed, Busy
    <3>3. TmpIsTheSavers'
      BY <1>5, <2>1, <2>3 DEF TmpIsTheSavers, Busy
    <3>4. DaemonKnows'
      BY <2>1, <2>3, <3>1 DEF DaemonKnows
    <3>5. QED
      BY <3>2, <3>3, <3>4
  <2>4. CASE p /= Daemon
    <3>1. /\ told' = told \cup Elems(mem[p])
          /\ \A q \in Process : mem'[q] = IF q = p THEN <<>> ELSE mem[q]
      BY <1>8, <2>4 DEF Rename, Learn, IInv, BlocksExist
    <3>2. Owed' \subseteq Elems(mem[p])
      BY <1>4, <2>1, <3>1 DEF Owed
    <3>4. ToldIsKept' /\ InHand'
      <4>1. ToldIsKept'
        BY <2>2, <3>2 DEF ToldIsKept, Owed
      <4>2. \A q \in Process : ~Busy(q)'
        BY <1>5, <2>1, <2>4 DEF Busy
      <4>3. QED
        BY <4>1, <4>2 DEF InHand
    <3>5. TmpIsTheSavers'
      BY <1>5, <2>1, <2>4 DEF TmpIsTheSavers, Busy
    <3>6. DaemonKnows'
      <4>1. at'[Daemon] = at[Daemon] /\ mem'[Daemon] = mem[Daemon] /\ at[Daemon] \in {"down", "idle"}
        BY <1>2, <1>5, <2>1, <2>4, <3>1 DEF Busy, IInv, Placed, DaemonAt, Saving
      <4>2. at[Daemon] = "idle" => Len(mem[p]) >= Len(mem[Daemon])
        BY <1>1, <1>3, <2>4 DEF DaemonKnows, Process
      <4>3. \A c \in Command : ~Busy(c)'
        BY <1>2, <1>5, <2>1, <2>4 DEF Busy
      <4>4. QED
        BY <1>2, <2>1, <2>4, <4>1, <4>2, <4>3 DEF DaemonKnows
    <3>7. QED
      BY <3>4, <3>5, <3>6
  <2>5. QED
    BY <2>3, <2>4
<1>9. QED
  BY <1>6, <1>7, <1>8 DEF SaveStep

(* A step of the daemon that leaves the disk alone.                        *)
LEMMA DaemonInTurn ==
    ASSUME IInv, InTurns, DaemonStep, Disturb(Daemon, FALSE), upset' = {}
    PROVE  ToldIsKept' /\ InHand' /\ TmpIsTheSavers' /\ DaemonKnows'
<1>1. /\ ToldIsKept /\ InHand /\ TmpIsTheSavers /\ DaemonKnows /\ upset = {}
      /\ Busy(Daemon) => \A q \in Process : q /= Daemon => ~Busy(q)
      /\ Busy(Daemon)' => \A q \in Process : q /= Daemon => ~Busy(q)'
  BY Undisturbed, DaemonIsProcess
<1> DEFINE d == mem[Daemon]
<1>2. /\ blocks \in Nat /\ d \in Seq(1..blocks) /\ d /= None /\ Daemon \in Process
      /\ \A c \in Command : c \in Process /\ c /= Daemon
  BY BlockCount, ChainIsNotNone, DaemonIsProcess, CommandIsProcess DEF IInv, BlocksExist
<1>3. UNCHANGED <<file, tmp, told>> /\ \E place : Go(Daemon, place)
  BY DEF DaemonStep, Load, Wire, Reload, Nothing, Extend, Switch, Seal, Persist, Stamp, disk, past
<1>4. \A q \in Process : q /= Daemon => at'[q] = at[q] /\ mem'[q] = mem[q]
  <2>1. mem' = mem \/ \E c : Learn(Daemon, c)
    BY DEF DaemonStep, Load, Wire, Reload, Nothing, Extend, Switch, Seal, Persist, Stamp,
       Extended, Switched, node, past
  <2>2. QED
    BY <1>2, <1>3, <2>1 DEF Go, Learn, IInv, Placed, BlocksExist
<1>5. \A q \in Process : q /= Daemon => ~Busy(q) /\ ~Busy(q)'
  <2>1. Busy(Daemon) \/ Busy(Daemon)'
    <3>1. at'[Daemon] \in DaemonAt
      BY <1>2, DaemonOK DEF IInv, Placed
    <3>2. CASE at[Daemon] \notin {"down", "idle"}
      BY <3>2, <1>2 DEF IInv, Placed, Busy, DaemonAt, Saving
    <3>3. CASE at[Daemon] \in {"down", "idle"}
      <4>1. Go(Daemon, "wire") \/ Go(Daemon, "sync")
        BY <3>3 DEF DaemonStep, Load, Wire, Reload, Nothing, Extend, Switch, Seal, Persist, Stamp
      <4>2. QED
        BY <1>2, <4>1, Moves DEF Busy
    <3>4. QED
      BY <3>2, <3>3
  <2>2. QED
    BY <1>1, <1>4, <2>1 DEF Busy
<1>6. ASSUME NEW place, Go(Daemon, place), Owed' \subseteq Owed,
             place \in {"down", "idle"} \/ Owed' \subseteq Elems(mem'[Daemon]),
             place \notin {"remove", "rename", "loaded"},
             place \in {"wire", "sync", "stamp"} => file = mem'[Daemon],
             place \in {"seal", "persist"} => dirty' \/ file = mem'[Daemon],
             place = "idle" => file = mem'[Daemon] /\ mem'[Daemon] = d
      PROVE  ToldIsKept' /\ InHand' /\ TmpIsTheSavers' /\ DaemonKnows'
  <2>1. \A q \in Process : at'[q] = IF q = Daemon THEN place ELSE at[q]
    BY <1>2, <1>6, Moves
  <2>2. ToldIsKept'
    <3>1. OnDisk' = OnDisk
      BY <1>3 DEF OnDisk
    <3>2. QED
      BY <1>1, <1>6, <3>1 DEF ToldIsKept, Owed
  <2>3. InHand'
    BY <1>2, <1>5, <1>6, <2>1 DEF InHand, Busy
  <2>4. TmpIsTheSavers'
    BY <1>2, <1>5, <1>6, <2>1 DEF TmpIsTheSavers, Busy
  <2>5. DaemonKnows'
    BY <1>2, <1>3, <1>5, <1>6, <2>1 DEF DaemonKnows
  <2>6. QED
    BY <2>2, <2>3, <2>4, <2>5
<1>7. Busy(Daemon) => Owed \subseteq Elems(d)
  BY <1>1, <1>2 DEF InHand
<1>8. UNCHANGED dropped => Owed' = Owed
  BY <1>3 DEF Owed
<1>9. file /= None => Owed \subseteq Elems(file)
  BY <1>1 DEF ToldIsKept, OnDisk, Owed
<1>10. \A c : Learn(Daemon, c) => mem'[Daemon] = c
  BY <1>2 DEF Learn, IInv, BlocksExist
<1>11. CASE Load
  BY <1>6, <1>8, <1>9, <1>10, <1>11 DEF Load, past
<1>12. CASE Wire
  BY <1>1, <1>6, <1>7, <1>8, <1>12 DEF Wire, past, DaemonKnows, Busy
<1>13. CASE Reload
  <2>1. CASE Adoptable
    BY <1>6, <1>8, <1>9, <1>10, <1>13, <2>1 DEF Reload, past, Adoptable
  <2>2. CASE ~Adoptable
    <3>1. file = d
      BY <1>1, <1>2, <1>5, <1>13, <2>2 DEF DaemonKnows, Reload, Adoptable
    <3>2. QED
      BY <1>2, <1>6, <1>8, <1>9, <1>13, <2>2, <3>1 DEF Reload, past
  <2>3. QED
    BY <2>1, <2>2
<1>14. CASE Nothing
  BY <1>1, <1>6, <1>7, <1>8, <1>14 DEF Nothing, past, node, DaemonKnows, Busy
<1>15. ASSUME Extended(Daemon) \/ Switched(Daemon), Busy(Daemon)
       PROVE  Owed' \subseteq Owed /\ Owed' \subseteq Elems(mem'[Daemon])
  <2>1. PICK c : Learn(Daemon, c) /\ dropped \subseteq dropped' /\ Elems(d) \ dropped' \subseteq Elems(c)
    BY <1>2, <1>15, AfterGrowth
  <2>2. mem'[Daemon] = c
    BY <1>10, <2>1
  <2>3. QED
    BY <1>3, <1>7, <1>15, <2>1, <2>2 DEF Owed
<1>16. CASE Extend \/ Switch
  <2>1. at[Daemon] = "sync" /\ Go(Daemon, "seal") /\ dirty' = TRUE /\ (Extended(Daemon) \/ Switched(Daemon))
    BY <1>16 DEF Extend, Switch
  <2>2. Owed' \subseteq Owed /\ Owed' \subseteq Elems(mem'[Daemon])
    BY <1>15, <2>1 DEF Busy
  <2>3. QED
    BY <1>6, <2>1, <2>2
<1>17. CASE Seal
  <2>1. CASE Go(Daemon, "persist") /\ UNCHANGED <<mem, node, blocks, dropped>>
    BY <1>1, <1>6, <1>7, <1>8, <1>17, <2>1 DEF Seal, node, DaemonKnows, Busy
  <2>2. CASE Extended(Daemon) /\ Go(Daemon, "write")
    <3>1. Owed' \subseteq Owed /\ Owed' \subseteq Elems(mem'[Daemon])
      BY <1>15, <1>17, <2>2 DEF Seal, Busy
    <3>2. QED
      BY <1>6, <2>2, <3>1
  <2>3. QED
    BY <1>17, <2>1, <2>2 DEF Seal
<1>18. CASE Persist
  BY <1>1, <1>6, <1>7, <1>8, <1>18 DEF Persist, past, DaemonKnows, Busy
<1>19. CASE Stamp
  <2>1. onward \in {"persist", "idle"}
    BY DEF IInv, Counted
  <2>2. QED
    BY <1>1, <1>6, <1>7, <1>8, <1>19, <2>1 DEF Stamp, past, DaemonKnows, Busy
<1>20. QED
  BY <1>11, <1>12, <1>13, <1>14, <1>16, <1>17, <1>18, <1>19 DEF DaemonStep

LEMMA CommandInTurn ==
    ASSUME IInv, InTurns, NEW c \in Command, CommandStep(c), Disturb(c, FALSE), upset' = {}
    PROVE  ToldIsKept' /\ InHand' /\ TmpIsTheSavers' /\ DaemonKnows'
<1>0. c \in Process /\ c /= Daemon /\ Daemon \in Process /\ \A q \in Command : q \in Process /\ q /= Daemon
  BY CommandIsProcess, DaemonIsProcess
<1>1. /\ ToldIsKept /\ InHand /\ TmpIsTheSavers /\ DaemonKnows /\ upset = {}
      /\ Busy(c) => \A q \in Process : q /= c => ~Busy(q)
      /\ Busy(c)' => \A q \in Process : q /= c => ~Busy(q)'
  BY <1>0, Undisturbed
<1>2. blocks \in Nat /\ mem[c] \in Seq(1..blocks) /\ mem[Daemon] \in Seq(1..blocks)
  BY <1>0, BlockCount DEF IInv, BlocksExist
<1>3. UNCHANGED <<file, tmp, told, changed, dirty>>
  BY DEF CommandStep, Open, Propose, Sync, EndSync, disk, node, past
<1>4. (dropped \subseteq dropped') => ToldIsKept' /\ Owed' \subseteq Owed
  BY <1>1, <1>3 DEF ToldIsKept, OnDisk, Owed
<1>o. Open(c) \/ EndSync(c) => dropped' = dropped
  BY DEF Open, EndSync, past
<1>5. CASE Open(c) /\ file = None
  <2>1. mem' = mem /\ ~Busy(c) /\ \A q \in Process : at'[q] = IF q = c THEN "failed" ELSE at[q]
    BY <1>0, <1>5, Moves DEF Open, Busy
  <2>2. InHand'
    BY <1>1, <1>3, <1>4, <1>5, <1>o, <2>1 DEF InHand, Busy
  <2>3. TmpIsTheSavers'
    BY <1>1, <1>3, <2>1 DEF TmpIsTheSavers
  <2>4. DaemonKnows'
    BY <1>0, <1>1, <1>3, <2>1 DEF DaemonKnows, Busy
  <2>5. QED
    BY <1>4, <1>5, <1>o, <2>2, <2>3, <2>4
<1>6. CASE Open(c) /\ file /= None
  <2>1. /\ \A q \in Process : at'[q] = IF q = c THEN "loaded" ELSE at[q]
        /\ \A q \in Process : mem'[q] = IF q = c THEN file ELSE mem[q]
    BY <1>0, <1>6, Moves DEF Open, Learn, IInv, BlocksExist
  <2>2. \A q \in Process : q /= c => ~Busy(q)
    BY <1>0, <1>1, <2>1 DEF Busy
  <2>3. Owed \subseteq Elems(file)
    BY <1>1, <1>6 DEF ToldIsKept, OnDisk, Owed
  <2>4. InHand'
    BY <1>1, <1>3, <1>4, <1>6, <1>o, <2>1, <2>2, <2>3 DEF InHand, Busy
  <2>5. TmpIsTheSavers'
    BY <1>1, <1>3, <2>1 DEF TmpIsTheSavers
  <2>6. DaemonKnows'
    BY <1>0, <1>1, <1>3, <1>6, <2>1, <2>2 DEF DaemonKnows, Busy
  <2>7. QED
    BY <1>4, <1>6, <1>o, <2>4, <2>5, <2>6
<1>7. CASE Propose(c) \/ Sync(c)
  <2>1. PICK place \in {"write", "pulled"} :
          at[c] \in {"loaded", "pulled"} /\ Go(c, place) /\ (Extended(c) \/ Switched(c))
    BY <1>7 DEF Propose, Sync
  <2>2. PICK n \in Nat : \E s \in Seq(1..n) :
          /\ Learn(c, s) /\ Len(mem[c]) <= Len(s)
          /\ dropped \subseteq dropped' /\ Elems(mem[c]) \ dropped' \subseteq Elems(s)
    BY <1>0, <2>1, AfterGrowth
  <2>3. PICK s \in Seq(1..n) :
          /\ Learn(c, s) /\ Len(mem[c]) <= Len(s)
          /\ dropped \subseteq dropped' /\ Elems(mem[c]) \ dropped' \subseteq Elems(s)
    BY <2>2
  <2>4. /\ \A q \in Process : at'[q] = IF q = c THEN place ELSE at[q]
        /\ \A q \in Process : mem'[q] = IF q = c THEN s ELSE mem[q]
    BY <1>0, <2>1, <2>3, Moves DEF Learn, IInv, BlocksExist
  <2>5. Busy(c) /\ Busy(c)' /\ \A q \in Process : q /= c => ~Busy(q) /\ ~Busy(q)'
    BY <1>0, <1>1, <2>1, <2>4 DEF Busy
  <2>6. Owed' \subseteq Elems(s)
    <3>1. Owed \subseteq Elems(mem[c])
      BY <1>0, <1>1, <2>5 DEF InHand
    <3>2. QED
      BY <1>3, <2>3, <3>1 DEF Owed
  <2>7. InHand'
    BY <2>4, <2>5, <2>6 DEF InHand
  <2>8. TmpIsTheSavers'
    BY <1>1, <1>3, <2>1, <2>4 DEF TmpIsTheSavers
  <2>9. DaemonKnows'
    <3>1. at'[Daemon] = at[Daemon] /\ mem'[Daemon] = mem[Daemon] /\ ~Busy(Daemon)
      BY <1>0, <2>4, <2>5
    <3>2. at[Daemon] = "idle" => Len(s) >= Len(mem[Daemon])
      <4>1. Len(mem[c]) \in Nat /\ Len(mem[Daemon]) \in Nat /\ Len(s) \in Nat
        BY <1>2
      <4>2. at[Daemon] = "idle" => Len(mem[c]) >= Len(mem[Daemon])
        BY <1>1, <2>5 DEF DaemonKnows
      <4>3. QED
        BY <2>3, <4>1, <4>2
    <3>3. \A q \in Command : Busy(q)' => q = c
      BY <1>0, <2>5
    <3>4. mem'[c] = s
      BY <1>0, <2>4
    <3>5. QED
      BY <1>0, <1>1, <1>3, <2>5, <3>1, <3>2, <3>3, <3>4 DEF DaemonKnows, Busy
  <2>10. QED
    BY <1>4, <2>3, <2>7, <2>8, <2>9
<1>8. CASE EndSync(c)
  <2>1. Busy(c) /\ \A q \in Process : q /= c => ~Busy(q)
    BY <1>0, <1>1, <1>8 DEF EndSync, Busy
  <2>2. CASE at[c] = "loaded" /\ Go(c, "done") /\ Learn(c, <<>>)
    <3>1. \A q \in Process : q /= c => at'[q] = at[q] /\ mem'[q] = mem[q]
      BY <1>0, <2>2, Moves DEF Learn, IInv, BlocksExist
    <3>2. at'[c] = "done" /\ \A q \in Process : ~Busy(q)'
      BY <1>0, <2>1, <2>2, <3>1, Moves DEF Busy
    <3>3. InHand' /\ TmpIsTheSavers'
      BY <1>1, <1>3, <3>1, <3>2 DEF InHand, TmpIsTheSavers
    <3>4. file /= None
      BY <1>0, <1>1, <2>1, <2>2 DEF InHand
    <3>5. DaemonKnows'
      BY <1>0, <1>1, <1>3, <2>1, <3>1, <3>2, <3>4 DEF DaemonKnows, Busy
    <3>6. QED
      BY <1>4, <1>8, <1>o, <3>3, <3>5
  <2>3. CASE at[c] = "pulled" /\ Go(c, "write") /\ UNCHANGED mem
    <3>1. \A q \in Process : at'[q] = IF q = c THEN "write" ELSE at[q]
      BY <1>0, <2>3, Moves
    <3>2. ToldIsKept' /\ Owed' \subseteq Owed
      BY <1>4, <1>8, <1>o
    <3>3. InHand' /\ TmpIsTheSavers'
      BY <1>0, <1>1, <1>3, <2>1, <2>3, <3>1, <3>2 DEF InHand, TmpIsTheSavers, Busy
    <3>4. DaemonKnows'
      BY <1>0, <1>1, <1>3, <2>1, <2>3, <3>1 DEF DaemonKnows, Busy
    <3>5. QED
      BY <3>2, <3>3, <3>4
  <2>4. QED
    BY <1>8, <2>2, <2>3 DEF EndSync
<1>9. QED
  BY <1>5, <1>6, <1>7, <1>8 DEF CommandStep, Open

(* The daemon ends and what it had in memory is gone.                      *)
LEMMA EndInTurn ==
    ASSUME IInv, InTurns, End(Daemon), Disturb(Daemon, FALSE), upset' = {}
    PROVE  ToldIsKept' /\ InHand' /\ TmpIsTheSavers' /\ DaemonKnows'
<1>1. upset = {} /\ ToldIsKept /\ InHand /\ TmpIsTheSavers /\ DaemonKnows /\ Daemon \in Process
  BY Undisturbed, DaemonIsProcess
<1>2. /\ UNCHANGED <<file, tmp, told, dropped>>
      /\ \A q \in Process : at'[q] = IF q = Daemon THEN "down" ELSE at[q]
      /\ \A q \in Process : q /= Daemon => mem'[q] = mem[q]
  <2>1. Go(Daemon, "down") /\ Learn(Daemon, <<>>)
    BY DEF End
  <2>2. UNCHANGED <<file, tmp, told, dropped>>
    BY DEF End, disk, past
  <2>3. \A q \in Process : at'[q] = IF q = Daemon THEN "down" ELSE at[q]
    BY <1>1, <2>1, Moves
  <2>4. \A q \in Process : q /= Daemon => mem'[q] = mem[q]
    BY <2>1 DEF Learn, IInv, BlocksExist
  <2>5. QED
    BY <2>2, <2>3, <2>4
<1>3. ToldIsKept' /\ Owed' = Owed
  BY <1>1, <1>2 DEF ToldIsKept, OnDisk, Owed
<1>4. InHand' /\ TmpIsTheSavers' /\ DaemonKnows'
  BY <1>1, <1>2, <1>3 DEF InHand, TmpIsTheSavers, DaemonKnows, Busy
<1>5. QED
  BY <1>3, <1>4

LEMMA InTurnsStep == IInv /\ InTurns /\ [Next]_vars => InTurns'
<1> SUFFICES ASSUME IInv, InTurns, [Next]_vars, upset' = {}
             PROVE  ToldIsKept' /\ InHand' /\ TmpIsTheSavers' /\ DaemonKnows'
  BY DEF InTurns
<1>1. CASE UNCHANGED vars
  BY <1>1 DEF vars, InTurns, ToldIsKept, OnDisk, InHand, Owed, TmpIsTheSavers, DaemonKnows, Busy
<1>2. CASE Next
  <2>1. PICK p \in Process : Run(p) \/ (End(p) /\ Disturb(p, p /= Daemon))
    BY <1>2 DEF Next
  <2>2. CASE End(p) /\ Disturb(p, p /= Daemon)
    <3>1. p = Daemon
      BY <2>2, Undisturbed, (p /= Daemon) \in BOOLEAN
    <3>2. Disturb(Daemon, FALSE)
      BY <2>2, <3>1 DEF Disturb
    <3>3. QED
      BY <2>2, <3>1, <3>2, EndInTurn
  <2>3. CASE p = Daemon /\ DaemonStep /\ Disturb(p, FALSE)
    BY <2>3, DaemonInTurn
  <2>4. CASE p /= Daemon /\ CommandStep(p) /\ Disturb(p, FALSE)
    BY <2>4, CommandInTurn DEF Process
  <2>5. CASE SaveStep(p) /\ Disturb(p, FALSE)
    BY <2>5, SaveInTurn
  <2>6. CASE Fail(p) /\ Disturb(p, TRUE)
    BY <2>6, Undisturbed
  <2>7. QED
    BY <2>1, <2>2, <2>3, <2>4, <2>5, <2>6 DEF Run
<1>3. QED
  BY <1>1, <1>2

LEMMA InTurnsAtFirst == Init => InTurns
<1> SUFFICES ASSUME Init PROVE InTurns
  OBVIOUS
<1>1. told = {} /\ at[Daemon] = "down" /\ \A p \in Process : ~Busy(p) /\ at[p] \notin {"remove", "rename"}
  BY DaemonIsProcess DEF Init, Busy
<1>2. QED
  BY <1>1 DEF InTurns, ToldIsKept, InHand, Owed, TmpIsTheSavers, DaemonKnows

(* The blocks of a chain a command reported stay on disk until a process   *)
(* gives them up for a preferred branch, while the processes take turns    *)
(* and no save fails, for any commands, and wherever the daemon ends.      *)
THEOREM ReportedBlocksStay == Spec => []ToldIsKept
<1>1. Init => IInv /\ InTurns
  BY InitOK, InTurnsAtFirst
<1>2. IInv /\ InTurns /\ [Next]_vars => IInv' /\ InTurns'
  BY NextOK, InTurnsStep
<1>3. InTurns => ToldIsKept
  BY DEF InTurns, ToldIsKept
<1>4. QED
  BY <1>1, <1>2, <1>3, PTL DEF Spec
=============================================================================
