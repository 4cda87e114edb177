------------------------------- MODULE Chains -------------------------------
(***************************************************************************)
(* The ledger of a trust domain (internal/trustdomain/chain.go, state.go): *)
(* what a chain is, what the state after it is, which block may extend it  *)
(* and which of two chains is preferred.                                   *)
(*                                                                         *)
(* A chain is the sequence of the blocks after the common part every host  *)
(* joined with, so that its length is the height.  The hash of a block is  *)
(* its id, whose order is the order of the hashes; a signature is the name *)
(* of the signer.  A block holds one record or a checkpoint of its parent, *)
(* as the node service builds them.  The records one member may issue      *)
(* (attestations, anchors, tokens) are notes; policies, pauses and         *)
(* successions are left out, and so is the admission of a further admin.   *)
(***************************************************************************)
EXTENDS Naturals, Sequences, FiniteSets

CONSTANTS
    Host,       \* the members every host joined with, by their identity
    Admins,     \* the admins among them
    Quorum,     \* QuorumM
    MaxBlocks   \* bound: blocks ever made

ASSUME ChainsAssumption ==
    /\ IsFiniteSet(Host) /\ Admins \subseteq Host
    /\ Quorum \in 1..Cardinality(Admins)
    /\ MaxBlocks \in Nat

BlockId == 1..(2 * MaxBlocks)
Genesis == 0

QuorumKinds == {"admit", "revoke", "end"}
Kinds == QuorumKinds \cup {"note", "checkpoint"}

Block == [id : BlockId, parent : BlockId \cup {Genesis}, by : Host,
          kind : Kinds, subject : Host, signed : SUBSET Host]

HeadHash(c) == IF c = <<>> THEN Genesis ELSE c[Len(c)].id
Upto(c, n) == SubSeq(c, 1, n)
Prefixes(c, d) == Len(c) <= Len(d) /\ c = Upto(d, Len(c))

Latest(c, P(_)) == CHOOSE i \in DOMAIN c : P(c[i]) /\ \A j \in DOMAIN c : P(c[j]) => j <= i

(* The state after a chain: the last record about a host says whether it   *)
(* is a member; a host that was revoked is admitted as a plain member.     *)
IsMember(c, h) ==
    LET About(b) == b.kind \in {"admit", "revoke"} /\ b.subject = h
    IN  (\E i \in DOMAIN c : About(c[i])) => c[Latest(c, About)].kind = "admit"

IsAdmin(c, h) ==
    h \in Admins /\ ~\E i \in DOMAIN c : c[i].kind = "revoke" /\ c[i].subject = h

Terminal(c) == \E i \in DOMAIN c : c[i].kind = "end"

HaveCkpt(c) == \E i \in DOMAIN c : c[i].kind = "checkpoint"

CkptHeight(c) ==
    LET IsCkpt(b) == b.kind = "checkpoint"
    IN  IF HaveCkpt(c) THEN Latest(c, IsCkpt) - 1 ELSE 0

CkptHash(c) == HeadHash(Upto(c, CkptHeight(c)))

(* Distinct signers count, when they are admins at this point.             *)
CheckQuorum(c, signed) == Cardinality({h \in signed : IsAdmin(c, h)}) >= Quorum

ValidateBlock(c, b) ==
    /\ b.parent = HeadHash(c)
    /\ ~Terminal(c)
    /\ IsMember(c, b.by)
    /\ b.kind /= "note" => CheckQuorum(c, b.signed)

ValidateChain(c) == \A i \in DOMAIN c : ValidateBlock(Upto(c, i - 1), c[i])

(* ForkChoice: a checkpoint, the higher one, the longer chain, the higher  *)
(* hash; a when they are the same.                                         *)
LongestWins(a, b) ==
    IF Len(a) /= Len(b) THEN Len(a) > Len(b) ELSE HeadHash(a) >= HeadHash(b)

\* Mutant: the chain without a checkpoint wins over the one with it.
OpenWins(a, b) == IF HaveCkpt(a) /= HaveCkpt(b) THEN HaveCkpt(b) ELSE LongestWins(a, b)

Prefers(a, b) ==
    IF HaveCkpt(a) /= HaveCkpt(b) THEN HaveCkpt(a)
    ELSE IF HaveCkpt(a) /\ CkptHeight(a) /= CkptHeight(b) THEN CkptHeight(a) > CkptHeight(b)
    ELSE LongestWins(a, b)

ForkChoice(a, b) == IF Prefers(a, b) THEN a ELSE b

(* TryExtend: as many consecutive blocks as fit.                           *)
Fits(c, bs, n) == \A i \in 1..n : ValidateBlock(c \o Upto(bs, i - 1), bs[i])
Applied(c, bs) ==
    CHOOSE n \in 0..Len(bs) : Fits(c, bs, n) /\ (n < Len(bs) => ~Fits(c, bs, n + 1))
TryExtend(c, bs) == c \o Upto(bs, Applied(c, bs))

MergeFork(local, candidate) ==
    IF ValidateChain(candidate) THEN ForkChoice(local, candidate) ELSE local

(* What a node serves of an inclusive range of heights.                    *)
Serve(c, from, to) == SubSeq(c, from, IF to > Len(c) THEN Len(c) ELSE to)
=============================================================================
