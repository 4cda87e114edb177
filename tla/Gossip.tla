------------------------------- MODULE Gossip -------------------------------
(***************************************************************************)
(* The nodes of a trust domain (internal/trustdomain/node.go, sync.go,     *)
(* nettrans): each host runs one, which proposes blocks on its own chain   *)
(* and, at every tick, pulls from its peers, prefers one of two branches,  *)
(* and has a checkpoint of its head co-signed by the admins it reaches.    *)
(* A tick is a sequence of calls over the network, between which the other *)
(* nodes go on; any call may be lost, and a process may end at any step.   *)
(*                                                                         *)
(* The ledger file is read at the start of the process and written when a  *)
(* tick ends or a block is proposed, if the write does not fail; until     *)
(* then peers are served what may yet be lost.  Module Ledger shares the   *)
(* file with other processes.  The candidates kept for Sight, which no     *)
(* caller asks for, delegated work and the discovery of peers are left out.*)
(***************************************************************************)
EXTENDS Chains

CONSTANTS
    Peers,              \* the peers of each host, as configured
    CheckpointEvery,    \* NodeOptions.CheckpointEvery; 0 is never
    Proposals,          \* bound: what the hosts propose, each once
    MaxFaults           \* bound: calls lost and processes ended

ASSUME GossipAssumption ==
    /\ Peers \in [Host -> SUBSET Host]
    /\ CheckpointEvery \in Nat /\ MaxFaults \in Nat
    /\ Proposals \subseteq [id : 1..MaxBlocks, by : Host, kind : Kinds \ {"checkpoint"}, subject : Host]
    /\ \A p, q \in Proposals : p.id = q.id => p = q

VARIABLES
    chain,      \* Node.chain
    saved,      \* the ledger file
    tick,       \* where each node is in its tick
    made,       \* how many blocks were ever made
    proposed,   \* the proposals made
    faults,     \* faults that happened
    unsaved,    \* history: the nodes with a checkpoint of their own to save
    forgot      \* history: a process ended that had one

vars == <<chain, saved, tick, made, proposed, faults, unsaved, forgot>>

Ats == {"ask", "pull", "status", "full", "save", "panicked"}

Tick == [at : Ats, todo : SUBSET Host, peer : Host, from : Nat, to : Nat]

(* What a process knows and has on disk is one branch from the genesis,    *)
(* whose changes of power are signed by enough of the founding admins.     *)
OneBranch(c) ==
    \A i \in DOMAIN c :
        /\ c[i].parent = HeadHash(Upto(c, i - 1))
        /\ c[i].kind /= "note" => Cardinality(c[i].signed \cap Admins) >= Quorum

TypeOK ==
    /\ chain \in [Host -> Seq(Block)] /\ saved \in [Host -> Seq(Block)]
    /\ \A h \in Host : OneBranch(chain[h]) /\ OneBranch(saved[h])
    /\ tick \in [Host -> Tick]
    /\ made \in 0..MaxBlocks
    /\ proposed \subseteq Proposals /\ faults \in 0..MaxFaults
    /\ unsaved \subseteq Host /\ forgot \in BOOLEAN

\* Between two ticks, the peers of the next one before it.
Idle(h) == [at |-> "ask", todo |-> Peers[h] \ {h}, peer |-> h, from |-> 0, to |-> 0]

Init ==
    /\ chain = [h \in Host |-> <<>>]
    /\ saved = [h \in Host |-> <<>>]
    /\ tick = [h \in Host |-> Idle(h)]
    /\ made = 0
    /\ proposed = {} /\ faults = 0
    /\ unsaved = {} /\ forgot = FALSE

-----------------------------------------------------------------------------
(* Calls.  Both ends check that the other one is a member in their chain.  *)

Linked(h, p) ==
    /\ tick[p].at /= "panicked"
    /\ IsMember(chain[h], p) /\ IsMember(chain[p], h)

\* A call to p is answered, or it is not: for good reason, or by a fault.
Fault == faults < MaxFaults /\ faults' = faults + 1
Answered(h, p) == Linked(h, p) /\ UNCHANGED faults
Lost(h, p) == IF Linked(h, p) THEN Fault ELSE UNCHANGED faults

ApproveRecord(p) == IsAdmin(chain[p], p)

\* Mutant: an admin signs a target it cannot see.
ApproveUnseen(p, c) == IsAdmin(chain[p], p)
ApproveCheckpoint(p, c) ==
    /\ IsAdmin(chain[p], p)
    /\ Len(c) <= Len(chain[p]) /\ HeadHash(Upto(chain[p], Len(c))) = HeadHash(c)

(* The signers a node gathers: itself, then the willing peers it reaches   *)
(* until they are enough.                                                  *)
Gathered(h, willing) ==
    LET own == {h} \cap {p \in Host : IsAdmin(chain[h], p)}
        peers == {p \in (Peers[h] \cap willing) \ {h} : Linked(h, p)}
    IN  {own \cup s : s \in {s \in SUBSET peers :
            Cardinality(own) + Cardinality(s) = Quorum}}

NewBlock(h, i, kind, subject, signed) ==
    [id |-> i, parent |-> HeadHash(chain[h]), by |-> h,
     kind |-> kind, subject |-> subject, signed |-> signed]

(* A block of one's own is in memory, from which the peers are served, and *)
(* goes to the file next.                                                  *)
ToSave(h) == tick' = [tick EXCEPT ![h] = [Idle(h) EXCEPT !.at = "save", !.todo = {}]]

(* Propose and ProposeQuorum, between two ticks.                           *)
Signatures(h, kind) ==
    IF kind \in QuorumKinds THEN Gathered(h, {p \in Host : ApproveRecord(p)}) ELSE {{h}}

Propose(h) ==
    /\ tick[h] = Idle(h)
    /\ made < MaxBlocks
    /\ \E p \in Proposals \ proposed : \E signed \in Signatures(h, p.kind) :
          LET b == NewBlock(h, p.id, p.kind, p.subject, signed) IN
          /\ p.by = h
          /\ ValidateBlock(chain[h], b)
          /\ chain' = [chain EXCEPT ![h] = Append(@, b)]
          /\ proposed' = proposed \cup {p}
    /\ made' = made + 1
    /\ UNCHANGED <<saved, faults, unsaved, forgot>>
    /\ ToSave(h)

-----------------------------------------------------------------------------
(* A tick.                                                                 *)

\* Done with the peer of this moment.
Onward(h) ==
    tick' = [tick EXCEPT ![h] = [Idle(h) EXCEPT !.todo = tick[h].todo \ {tick[h].peer}]]

(* PlanSync: the range to ask for, or none.                                *)
\* Mutant: chains of one height are left alone.
PlanLonger(mine, theirs) ==
    IF Len(theirs) > Len(mine) THEN <<Len(mine) + 1, Len(theirs)>> ELSE <<>>

PlanSync(mine, theirs) ==
    CASE HeadHash(theirs) = HeadHash(mine) -> <<>>
      [] Len(theirs) > Len(mine) -> <<Len(mine) + 1, Len(theirs)>>
      [] Len(theirs) < Len(mine) -> <<>>
      [] OTHER ->
           LET shared == HaveCkpt(mine) /\ HaveCkpt(theirs) /\ CkptHash(mine) = CkptHash(theirs)
           IN  <<IF shared THEN CkptHeight(mine) + 1 ELSE 0, Len(theirs)>>

(* A lost status is one of no head at height 0.  It is below the own chain *)
(* and the peer is dropped, but for a chain that is the genesis alone: all *)
(* is asked for, down to the genesis.                                      *)
AsksBlindly(h) == Host = Admins /\ chain[h] = <<>>

Ask(h) ==
    /\ tick[h].at = "ask"
    /\ tick[h].todo /= {}
    /\ LET p == CHOOSE p \in tick[h].todo : TRUE
           plan == PlanSync(chain[h], chain[p])
           dropped == [tick EXCEPT ![h].todo = @ \ {p}]
           Pulls(from, to) == [tick EXCEPT ![h] = [at |-> "pull", todo |-> tick[h].todo,
                                  peer |-> p, from |-> from, to |-> to]]
       IN  \/ /\ Answered(h, p)
              /\ tick' = IF plan = <<>> THEN dropped ELSE Pulls(plan[1], plan[2])
           \/ /\ Lost(h, p)
              /\ tick' = IF AsksBlindly(h) THEN Pulls(0, 0) ELSE dropped
    /\ UNCHANGED <<chain, saved, made, proposed, unsaved, forgot>>

Pull(h) ==
    /\ tick[h].at = "pull"
    /\ LET p == tick[h].peer
           bs == Serve(chain[p], tick[h].from, tick[h].to)
       IN  \/ /\ Answered(h, p)                  \* the genesis first, which extends nothing
              /\ tick[h].from = 0
              /\ tick' = [tick EXCEPT ![h].at = "status"]
              /\ UNCHANGED chain
           \/ /\ Answered(h, p)
              /\ tick[h].from /= 0
              /\ chain' = [chain EXCEPT ![h] = TryExtend(@, bs)]
              /\ IF bs /= <<>> /\ Applied(chain[h], bs) = 0
                 THEN tick' = [tick EXCEPT ![h].at = "status"]
                 ELSE Onward(h)
           \/ Lost(h, p) /\ Onward(h) /\ UNCHANGED chain
    /\ UNCHANGED <<saved, made, proposed, unsaved, forgot>>

(* The blocks do not connect: the whole chain of the peer, whose height is *)
(* asked first.  An empty answer has no genesis to compare, and its hash   *)
(* is read all the same: the process ends by a panic.                      *)
AskHeight(h) ==
    /\ tick[h].at = "status"
    /\ LET p == tick[h].peer IN
       \/ Answered(h, p) /\ tick' = [tick EXCEPT ![h].at = "full", ![h].to = Len(chain[p])]
       \/ Lost(h, p)     /\ tick' = [tick EXCEPT ![h].at = "full", ![h].to = 0]
    /\ UNCHANGED <<chain, saved, made, proposed, unsaved, forgot>>

PullAll(h) ==
    /\ tick[h].at = "full"
    /\ LET p == tick[h].peer IN
       \/ /\ Answered(h, p)
          /\ chain' = [chain EXCEPT ![h] = MergeFork(@, Serve(chain[p], 1, tick[h].to))]
          /\ Onward(h)
       \/ /\ Lost(h, p)
          /\ tick' = [tick EXCEPT ![h] = [Idle(h) EXCEPT !.at = "panicked"]]
          /\ UNCHANGED chain
    /\ UNCHANGED <<saved, made, proposed, unsaved, forgot>>

(* maybeCheckpoint, once the peers were seen.                              *)
CheckpointDue(c, h) ==
    /\ CheckpointEvery > 0
    /\ IsAdmin(c, h) /\ ~Terminal(c)
    /\ ~(HaveCkpt(c) /\ CkptHeight(c) >= Len(c))
    /\ Len(c) - CkptHeight(c) >= CheckpointEvery

Cosigners(h) == Gathered(h, {p \in Host : ApproveCheckpoint(p, chain[h])})

\* The hash of a checkpoint lies above those of the proposed blocks.
Checkpointed(h) ==
    IF ~CheckpointDue(chain[h], h) \/ made = MaxBlocks THEN {}
    ELSE {Append(chain[h], NewBlock(h, MaxBlocks + made + 1, "checkpoint", h, signed)) :
              signed \in Cosigners(h)}

MaybeCheckpoint(h) ==
    /\ tick[h].at = "ask" /\ tick[h].todo = {}
    /\ ToSave(h)
    /\ \/ \E c \in Checkpointed(h) :
             /\ chain' = [chain EXCEPT ![h] = c]
             /\ made' = made + 1
             /\ unsaved' = unsaved \cup {h}
             /\ UNCHANGED faults
       \/ /\ Checkpointed(h) /= {} /\ Quorum > 1      \* the calls are lost
          /\ Fault
          /\ UNCHANGED <<chain, made, unsaved>>
    /\ UNCHANGED <<saved, proposed, forgot>>

(* commitPersist and persist, which does not wait where no checkpoint was  *)
(* made.  No tick asks whether the write succeeded; the next one writes    *)
(* again.                                                                  *)
Persist(h) ==
    /\ tick' = [tick EXCEPT ![h] = Idle(h)]
    /\ \/ tick[h].at = "save"
       \/ tick[h].at = "ask" /\ tick[h].todo = {} /\ Checkpointed(h) = {}
    /\ \/ /\ saved' = [saved EXCEPT ![h] = chain[h]]
          /\ unsaved' = unsaved \ {h}
          /\ UNCHANGED faults
       \/ chain[h] /= saved[h] /\ Fault /\ UNCHANGED <<saved, unsaved>>
    /\ UNCHANGED <<chain, made, proposed, forgot>>

-----------------------------------------------------------------------------
(* The process ends, and is started again over its file; that it is down   *)
(* in between is calls that are lost.                                      *)

Start(h) ==
    /\ chain' = [chain EXCEPT ![h] = saved[h]]
    /\ tick' = [tick EXCEPT ![h] = Idle(h)]
    /\ forgot' = (forgot \/ h \in unsaved)
    /\ unsaved' = unsaved \ {h}
    /\ UNCHANGED <<saved, made, proposed>>

Running(h) == tick[h].at /= "panicked" /\ (tick[h] /= Idle(h) \/ chain[h] /= saved[h])

End(h)     == Running(h) /\ Fault /\ Start(h)
Restart(h) == tick[h].at = "panicked" /\ Start(h) /\ UNCHANGED faults

Step(h) ==
    \/ Ask(h) \/ Pull(h) \/ AskHeight(h) \/ PullAll(h)
    \/ MaybeCheckpoint(h) \/ Persist(h) \/ Restart(h)

Next == \E h \in Host : Propose(h) \/ Step(h) \/ End(h)

Spec == Init /\ [][Next]_vars

(* The daemon ticks on a timer and is restarted by its operator.  A host   *)
(* sees each of its peers in turn within a tick.                           *)
FairSpec == Spec /\ \A h \in Host : WF_vars(Step(h))
-----------------------------------------------------------------------------
(* Properties.                                                             *)

Ledgers == {chain[h] : h \in Host} \cup {saved[h] : h \in Host}
Settled(c) == Upto(c, CkptHeight(c))

(* When every admin must sign, all checkpoints lie on one branch: an admin *)
(* signs only what its own chain holds, and a chain with a checkpoint is   *)
(* not given up for one without.  A failing write takes nothing from that; *)
(* an end does, of a process whose own checkpoint was served but not yet   *)
(* written: it is forgotten where it was made, and the one after it may    *)
(* pass it by.  Nothing is claimed from such an end on.                    *)
CheckpointsAgree ==
    /\ TypeOK
    /\ Quorum = Cardinality(Admins) /\ ~forgot =>
        \A c, d \in Ledgers : HaveCkpt(c) /\ HaveCkpt(d) =>
            Prefixes(Settled(c), d) \/ Prefixes(Settled(d), c)

(* What a host has on disk is never replaced by something worse, across    *)
(* forks, lost calls and restarts: a checkpoint gives way only to a higher *)
(* one, and without one to gain the chain does not shrink.                 *)
NoWorse(c, d) ==
    IF HaveCkpt(c) /= HaveCkpt(d) THEN HaveCkpt(c)
    ELSE CkptHeight(c) > CkptHeight(d) \/ (CkptHeight(c) = CkptHeight(d) /\ Len(c) >= Len(d))

BranchesAreKept == [][\A h \in Host : NoWorse(saved'[h], saved[h])]_vars

(* Peers that go on ticking come to one chain once nobody proposes.  Two   *)
(* kinds of pairs are excepted: hosts one of which has revoked the other,  *)
(* and a host whose chain is preferred although it is the shorter one,     *)
(* which the other never asks for it (sync.go, "the peer will request from *)
(* us").                                                                   *)
Estranged(h, k) == ~IsMember(chain[h], k) \/ ~IsMember(chain[k], h)
Stuck(h, k) == Len(chain[h]) < Len(chain[k]) /\ Prefers(chain[h], chain[k])

NodesAgree ==
    <>[](\A h \in Host : \A k \in {p \in Peers[h] : h \in Peers[p]} :
            chain[h] = chain[k] \/ Estranged(h, k) \/ Stuck(h, k) \/ Stuck(k, h))

(* peer.go: a flaky peer must look like a temporarily empty one, never a   *)
(* fatal one.                                                              *)
PeersAreNeverFatal == \A h \in Host : tick[h].at /= "panicked"
=============================================================================
