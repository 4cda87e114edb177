------------------------------- MODULE Ledger -------------------------------
(***************************************************************************)
(* The ledger file of one host (internal/trustdomain/store.go, node.go)    *)
(* and the processes that share it: the daemon, which ticks over a chain   *)
(* in memory, and the one-shot commands (cli/trustdomain.go), which load   *)
(* the file, append a block and save; one of them, sync, takes a whole     *)
(* round with the peers instead.  There is no lock.  The daemon tells from *)
(* the stamp of the file that another process wrote it, and reloads.       *)
(* A save writes a temporary file, removes the ledger and renames; any of  *)
(* these may fail, and a process may end between any two of them.          *)
(*                                                                         *)
(* A chain is the sequence of its blocks, which are numbers; what the      *)
(* peers have to give, module Gossip's part, is a block that extends the   *)
(* chain, or a preferred branch that is no shorter.  Two stamps of         *)
(* different contents differ.  Writing the temporary file is one step.     *)
(***************************************************************************)
EXTENDS Naturals, Sequences, FiniteSets

CONSTANTS
    Command,    \* one-shot commands, each run once
    Daemon,
    MaxBlocks,  \* bound: blocks made here or by peers
    MaxFaults,  \* bound: failed steps of saves and ended processes, together
    None

ASSUME LedgerAssumption ==
    /\ IsFiniteSet(Command) /\ Daemon \notin Command
    /\ MaxBlocks \in Nat /\ MaxFaults \in Nat
    /\ None \notin Seq(Nat)

Process == Command \cup {Daemon}

VARIABLES
    file,       \* ledger.json, or None
    tmp,        \* ledger.json.tmp, or None
    at,         \* where each process is
    mem,        \* the chain each process has in memory
    dirty,      \* Node.dirty of the daemon
    changed,    \* the stamp of the file is not Node.stamp of the daemon
    onward,     \* where the daemon goes on after a save
    faults,
    \* history:
    blocks,     \* how many blocks there ever were
    told,       \* blocks of the chains whose height a command reported
    dropped,    \* blocks given up for a preferred branch
    upset       \* what disturbed the processes so far

vars == <<file, tmp, at, mem, dirty, changed, onward, faults, blocks, told, dropped, upset>>
disk == <<file, tmp, changed>>
node == <<dirty, onward>>
past == <<blocks, told, dropped>>

Chain == Seq(1..MaxBlocks)
Elems(c) == {c[i] : i \in DOMAIN c}

Saving == {"write", "remove", "rename"}
DaemonAt == Saving \cup {"down", "wire", "idle", "sync", "seal", "persist", "stamp"}
CommandAt == Saving \cup {"new", "loaded", "pulled", "done", "failed"}

TypeOK ==
    /\ file \in Chain \cup {None} /\ tmp \in Chain \cup {None}
    /\ \A p \in Process : at[p] \in (IF p = Daemon THEN DaemonAt ELSE CommandAt)
    /\ mem \in [Process -> Chain]
    /\ dirty \in BOOLEAN /\ changed \in BOOLEAN
    /\ onward \in {"persist", "idle"}
    /\ faults \in 0..MaxFaults /\ blocks \in 0..MaxBlocks
    /\ told \subseteq 1..blocks /\ dropped \subseteq 1..blocks
    /\ upset \subseteq {"overlap", "save", "command"}

\* The host has joined: the file holds the genesis, and no more.
Init ==
    /\ file = <<>> /\ tmp = None
    /\ at = [p \in Process |-> IF p = Daemon THEN "down" ELSE "new"]
    /\ mem = [p \in Process |-> <<>>]
    /\ dirty = FALSE /\ changed = FALSE /\ onward = "idle"
    /\ faults = 0 /\ blocks = 0
    /\ told = {} /\ dropped = {} /\ upset = {}

Go(p, place) == at' = [at EXCEPT ![p] = place]
Learn(p, c)  == mem' = [mem EXCEPT ![p] = c]
Fresh == blocks + 1
NewBlock == blocks < MaxBlocks /\ blocks' = Fresh

\* A block of its own or of a peer's; a branch of n blocks in place of the last.
Extended(p) == NewBlock /\ Learn(p, Append(mem[p], Fresh)) /\ UNCHANGED dropped

Branch(n) == [i \in 1..n |-> blocks + i]
Switched(p) ==
    /\ mem[p] /= <<>>
    /\ \E n \in {1, 2} :
         /\ blocks + n <= MaxBlocks /\ blocks' = blocks + n
         /\ Learn(p, SubSeq(mem[p], 1, Len(mem[p]) - 1) \o Branch(n))
    /\ dropped' = dropped \cup {mem[p][Len(mem[p])]}

\* Another process's write changes the stamp the daemon remembers.
Restamp(p) == changed' = (changed \/ p /= Daemon)

\* From its load to the end of its save a process relies on what it read.
Busy(p) == at[p] \notin {"down", "idle", "new", "done", "failed"}
Overlap == \E p, q \in Process : p /= q /\ Busy(p) /\ Busy(q)

-----------------------------------------------------------------------------
(* Store.Save.                                                             *)

Write(p) ==
    /\ at[p] = "write" /\ Go(p, "remove")
    /\ tmp' = mem[p]
    /\ UNCHANGED <<file, mem, changed, node, faults, past>>

Remove(p) ==
    /\ at[p] = "remove" /\ Go(p, "rename")
    /\ file' = None /\ Restamp(p)
    /\ UNCHANGED <<tmp, mem, node, faults, past>>

\* The daemon reads the new stamp in a step of its own.
Rename(p) ==
    /\ at[p] = "rename" /\ tmp /= None
    /\ file' = tmp /\ tmp' = None /\ Restamp(p)
    /\ IF p = Daemon
       THEN Go(p, "stamp") /\ dirty' = FALSE /\ UNCHANGED <<told, mem>>
       ELSE /\ Go(p, "done") /\ Learn(p, <<>>)
            /\ told' = told \cup Elems(mem[p]) /\ UNCHANGED dirty
    /\ UNCHANGED <<onward, faults, blocks, dropped>>

Stamp ==
    /\ at[Daemon] = "stamp" /\ Go(Daemon, onward)
    /\ changed' = FALSE
    /\ UNCHANGED <<file, tmp, mem, node, faults, past>>

(* A step of a save fails: by a fault, or because another save has taken   *)
(* the temporary file.  The daemon stays dirty, the command gives up.      *)
Failing(p) ==
    /\ at[p] \in Saving
    /\ IF at[p] = "rename" /\ tmp = None
       THEN UNCHANGED faults
       ELSE faults < MaxFaults /\ faults' = faults + 1
    /\ Go(p, IF p = Daemon THEN onward ELSE "failed")

\* Mutants: the temporary file is tidied away; the chain passes for saved.
FailTidily(p) ==
    Failing(p) /\ tmp' = None /\ UNCHANGED <<file, changed, mem, node, past>>
FailClean(p) ==
    Failing(p) /\ dirty' = (dirty /\ p /= Daemon) /\ UNCHANGED <<disk, mem, onward, past>>
Fail(p) == Failing(p) /\ UNCHANGED <<disk, mem, node, past>>

-----------------------------------------------------------------------------
(* The daemon.                                                             *)

Load ==
    /\ at[Daemon] = "down" /\ file /= None
    /\ Go(Daemon, "wire") /\ Learn(Daemon, file)
    /\ UNCHANGED <<disk, node, faults, past>>

\* NewNode takes the stamp of the file, which may be another one by now.
Wire ==
    /\ at[Daemon] = "wire" /\ Go(Daemon, "idle")
    /\ changed' = FALSE
    /\ UNCHANGED <<file, tmp, mem, node, faults, past>>

(* reloadIfChanged, the start of a tick: a readable file that is no        *)
(* shorter replaces the chain.                                             *)
\* Mutant: the file is never looked at again.
ReloadNever ==
    /\ at[Daemon] = "idle" /\ Go(Daemon, "sync")
    /\ UNCHANGED <<disk, mem, node, faults, past>>

Adoptable == changed /\ IF file = None THEN FALSE ELSE Len(file) >= Len(mem[Daemon])

Reload ==
    /\ at[Daemon] = "idle" /\ Go(Daemon, "sync")
    /\ IF Adoptable
       THEN Learn(Daemon, file) /\ dirty' = FALSE /\ changed' = FALSE
       ELSE UNCHANGED <<mem, dirty, changed>>
    /\ UNCHANGED <<file, tmp, onward, faults, past>>

Nothing ==
    /\ at[Daemon] = "sync" /\ Go(Daemon, "seal")
    /\ UNCHANGED <<disk, mem, node, faults, past>>

Extend ==
    /\ at[Daemon] = "sync" /\ Go(Daemon, "seal")
    /\ Extended(Daemon) /\ dirty' = TRUE
    /\ UNCHANGED <<disk, onward, faults, told>>

Switch ==
    /\ at[Daemon] = "sync" /\ Go(Daemon, "seal")
    /\ Switched(Daemon) /\ dirty' = TRUE
    /\ UNCHANGED <<disk, onward, faults, told>>

\* maybeCheckpoint appends a block of its own and saves at once, or it does not.
Seal ==
    /\ at[Daemon] = "seal"
    /\ \/ /\ Extended(Daemon) /\ dirty' = TRUE
          /\ Go(Daemon, "write") /\ onward' = "persist"
       \/ Go(Daemon, "persist") /\ UNCHANGED <<mem, node, blocks, dropped>>
    /\ UNCHANGED <<disk, faults, told>>

Persist ==
    /\ at[Daemon] = "persist"
    /\ Go(Daemon, IF dirty THEN "write" ELSE "idle") /\ onward' = "idle"
    /\ UNCHANGED <<disk, mem, dirty, faults, past>>

-----------------------------------------------------------------------------
(* A command: tdChain, then Propose, or the Tick of tdSync.                *)

Open(c) ==
    /\ at[c] = "new"
    /\ IF file = None
       THEN Go(c, "failed") /\ UNCHANGED mem
       ELSE Go(c, "loaded") /\ Learn(c, file)
    /\ UNCHANGED <<disk, node, faults, past>>

Propose(c) ==
    /\ at[c] = "loaded" /\ Go(c, "write")
    /\ Extended(c)
    /\ UNCHANGED <<disk, node, faults, told>>

\* What one of the peers has, or a checkpoint.
Sync(c) ==
    /\ at[c] \in {"loaded", "pulled"} /\ Go(c, "pulled")
    /\ Extended(c) \/ Switched(c)
    /\ UNCHANGED <<disk, node, faults, told>>

\* The end of the round saves what is new, if anything is.
EndSync(c) ==
    /\ \/ at[c] = "loaded" /\ Go(c, "done") /\ Learn(c, <<>>)
       \/ at[c] = "pulled" /\ Go(c, "write") /\ UNCHANGED mem
    /\ UNCHANGED <<disk, node, faults, past>>

-----------------------------------------------------------------------------
End(p) ==
    /\ Busy(p) \/ at[p] = "idle"
    /\ faults < MaxFaults /\ faults' = faults + 1
    /\ Go(p, IF p = Daemon THEN "down" ELSE "failed")
    /\ dirty' = (dirty /\ p /= Daemon) /\ Learn(p, <<>>)
    /\ UNCHANGED <<disk, onward, past>>

\* History: what a step disturbs.
Disturb(p, fails) ==
    upset' = upset \cup (IF Overlap' THEN {"overlap"} ELSE {})
                   \cup (IF fails /\ p = Daemon THEN {"save"} ELSE {})
                   \cup (IF fails /\ p /= Daemon THEN {"command"} ELSE {})

DaemonStep == Load \/ Wire \/ Reload \/ Nothing \/ Extend \/ Switch \/ Seal \/ Persist \/ Stamp
CommandStep(c) == Open(c) \/ Propose(c) \/ Sync(c) \/ EndSync(c)
SaveStep(p) == Write(p) \/ Remove(p) \/ Rename(p)

Run(p) ==
    \/ p = Daemon /\ DaemonStep /\ Disturb(p, FALSE)
    \/ p /= Daemon /\ CommandStep(p) /\ Disturb(p, FALSE)
    \/ SaveStep(p) /\ Disturb(p, FALSE)
    \/ Fail(p) /\ Disturb(p, TRUE)

Next == \E p \in Process : Run(p) \/ (End(p) /\ Disturb(p, p /= Daemon))

Spec == Init /\ [][Next]_vars

(* The daemon ticks on a timer and its operator starts it again.           *)
FairSpec == Spec /\ \A p \in Process : WF_vars(Run(p))

-----------------------------------------------------------------------------
(* Properties.                                                             *)

(* Whenever processes end and whatever step of a save fails, the chain is  *)
(* still on disk, under its name or under the temporary one; unless two    *)
(* saves overlap, one of which may remove what the other has just renamed. *)
LedgerKept ==
    /\ TypeOK
    /\ "overlap" \in upset \/ file /= None \/ tmp /= None

(* The blocks of a chain a command reported stay on disk until a process   *)
(* gives them up for a preferred branch, as long as the processes take     *)
(* turns and no save fails: each sees what others wrote before it writes.  *)
OnDisk == IF file /= None THEN file ELSE IF tmp /= None THEN tmp ELSE <<>>
ToldIsKept == upset = {} => told \ dropped \subseteq Elems(OnDisk)

(* What a running daemon has in memory comes to be in the file, although   *)
(* its own saves may fail and it may end: the dirty mark outlives them.    *)
MemoryIsSaved ==
    <>[](\/ upset \cap {"overlap", "command"} /= {}
         \/ at[Daemon] = "down"
         \/ file = mem[Daemon])
=============================================================================
