------------------------------ MODULE TeamRuns ------------------------------
(***************************************************************************)
(* Member runs of one team (desktop/team_run.go, team_app.go and           *)
(* internal/team): a card asks the pool for a slot, is launched or waits,  *)
(* runs as a goroutine of its own, records its outcome on the board, gives *)
(* its slot back - which starts the next waiting card - and is re-planned  *)
(* when it failed.  Meanwhile the user runs and cancels cards, drags them, *)
(* confirms and rejects deliverables, changes the bound, deletes the team  *)
(* and quits.                                                              *)
(*                                                                         *)
(* A thread is a call of the frontend or the goroutine of a run.  One step *)
(* is one critical section: of the pool, of teamRuns (the cancel           *)
(* functions), or one Store.Update.  An Update whose save fails has        *)
(* changed the board in memory all the same.  Whether a card can run (its  *)
(* assignee exists, its dependencies are done) is a free choice each time  *)
(* it is asked, and so are the outcome of a session and whether another    *)
(* member fits a failed card.  Notes, progress lines and the blackboard    *)
(* are left out.                                                           *)
(***************************************************************************)
EXTENDS TeamPool

CONSTANTS
    Proc,           \* threads
    Bound,          \* bounds the user may choose for the team
    MaxRounds,      \* Policy.MaxRounds
    Column,         \* columns of the board the user drags cards to
    Gated,          \* cards whose deliverable is to be confirmed at first
    MaxRuns,        \* bound: runs the user asks for
    MaxCalls,       \* bound: other calls of the frontend
    MaxSaveFails,   \* bound: saves of the store that fail
    None

ASSUME RunsAssumption ==
    /\ Bound \subseteq Nat /\ Bound /= {}
    /\ MaxRounds \in Nat \ {0}
    /\ Gated \subseteq Card
    /\ Column \subseteq {"backlog", "approval", "ready", "doing", "blocked", "done", "failed", "cancelled"}
    /\ MaxRuns \in Nat /\ MaxCalls \in Nat /\ MaxSaveFails \in Nat
    /\ None \notin Card \cup Proc \cup Pool

VARIABLES
    team,       \* the store has the team
    card,       \* its cards
    policy,     \* Policy.MaxParallel
    pool,       \* the team's pool, or None
    orphan,     \* the pool a deletion took from the map, or None
    strays,     \* threads that got hold of it before
    handle,     \* teamRuns: the run whose cancel function a card has
    proc,       \* the threads
    quit,       \* CancelAllTeamRuns has begun
    runs, calls, fails  \* runs asked for, other calls made, saves failed

store   == <<team, card, policy>>
dropped == <<orphan, strays>>
budgets == <<runs, calls, fails>>
vars    == <<store, pool, dropped, handle, proc, quit, budgets>>

Status   == {"queued", "running", "waiting", "succeeded", "failed", "cancelled"}
Gate     == {"none", "before", "after"}
Decision == {"none", "pending", "approved", "rejected"}

CardState == [status : Status, attempts : 0 .. MaxRounds + MaxRuns + MaxCalls,
              gate : Gate, decision : Decision]

(* A thread: where it is, the card it works on, promoted cards it has to   *)
(* start, the card it re-plans at the end, the run it launches, the bound  *)
(* it read, the cards it has to cancel and what its context says.          *)
PC == {"idle", "resolve", "admit", "ask", "park", "unpark", "promoted", "register",
       "flip", "unlaunch", "reserved", "work", "forget", "release",
       "replan", "cancel", "rebound", "drop", "empty", "dropped", "quit"}
HasPool == {"ask", "park", "unpark"}    \* holds a pointer to a pool

Thread == [pc : PC, key : Card \cup {None}, todo : Seq(Card), own : Card \cup {None},
           sub : Proc \cup {None}, max : Nat, doomed : SUBSET Card, cancelled : BOOLEAN]

Idle == [pc |-> "idle", key |-> None, todo |-> <<>>, own |-> None, sub |-> None,
         max |-> 0, doomed |-> {}, cancelled |-> FALSE]

At(p, pc) == proc[p].pc = pc
Free == {p \in Proc : At(p, "idle")}
Key(p) == proc[p].key

TypeOK ==
    /\ team \in BOOLEAN /\ quit \in BOOLEAN
    /\ card \in [Card -> CardState]
    /\ policy \in Nat
    /\ {pool, orphan} \subseteq Pool \cup {None}
    /\ strays \subseteq Proc
    /\ handle \in [Card -> Proc \cup {None}]
    /\ proc \in [Proc -> Thread]
    /\ runs \in 0 .. MaxRuns /\ calls \in 0 .. MaxCalls /\ fails \in 0 .. MaxSaveFails

Init ==
    /\ team = TRUE /\ quit = FALSE
    /\ card = [c \in Card |-> [status |-> "queued", attempts |-> 0, decision |-> "none",
                                gate |-> IF c \in Gated THEN "after" ELSE "none"]]
    /\ policy \in Bound
    /\ pool = None /\ orphan = None /\ strays = {}
    /\ handle = [c \in Card |-> None]
    /\ proc = [p \in Proc |-> Idle]
    /\ runs = 0 /\ calls = 0 /\ fails = 0

Goes(p, pc) == proc' = [proc EXCEPT ![p].pc = pc]

(* The thread after a start: the next promoted card, then the re-plan.     *)
Rest(t) ==
    IF t.todo /= <<>>
    THEN [Idle EXCEPT !.pc = "promoted", !.key = Head(t.todo), !.todo = Tail(t.todo), !.own = t.own]
    ELSE IF t.own /= None THEN [Idle EXCEPT !.pc = "replan", !.key = t.own]
    ELSE Idle

Continues(p) == proc' = [proc EXCEPT ![p] = Rest(@)]

(* Store.Update: fails when the team is gone or the save fails; a save     *)
(* that fails leaves the change in memory.                                 *)
UpdateFails == ~team \/ (fails < MaxSaveFails)
Update(c, state) == card' = IF team THEN [card EXCEPT ![c] = state] ELSE card
Failing == fails' = IF team THEN fails + 1 ELSE fails
-----------------------------------------------------------------------------
(* RunTeamTask.                                                            *)

(* resolveTeamRunTarget, for a retry or an approved card.                  *)
Resolve(p) ==
    /\ At(p, "resolve")
    /\ \/ team /\ proc' = [proc EXCEPT ![p].pc = "admit", ![p].max = policy]
       \/ Continues(p)
    /\ UNCHANGED <<store, pool, dropped, handle, quit, budgets>>

(* Ensure: a pool created here has the bound read above.                   *)
Ensure(p) ==
    /\ At(p, "admit")
    /\ pool' = IF pool = None THEN NewPool(proc[p].max) ELSE pool
    /\ strays' = strays \ {p}
    /\ Goes(p, "ask")
    /\ UNCHANGED <<store, orphan, handle, quit, budgets>>

(* Admit, to the pool that Ensure gave, whatever has become of it since.   *)
AdmitCard(p) ==
    /\ At(p, "ask")
    /\ LET q == IF p \in strays THEN orphan ELSE pool
           a == Admit(q, Key(p))
       IN  /\ IF p \in strays
              THEN orphan' = Admitted(q, Key(p)) /\ UNCHANGED pool
              ELSE pool' = Admitted(q, Key(p)) /\ UNCHANGED orphan
           /\ CASE a = "duplicate" -> Continues(p)
                [] a = "queued"    -> Goes(p, "park")
                [] a = "running"   -> Goes(p, "register")
    /\ UNCHANGED <<store, strays, handle, quit, budgets>>

(* The board says the card waits.  The pool may have started it by now.    *)
Park(p) ==
    /\ At(p, "park")
    /\ Update(Key(p), [card[Key(p)] EXCEPT !.status = "queued"])
    /\ \/ team /\ Continues(p) /\ UNCHANGED fails
       \/ UpdateFails /\ Goes(p, "unpark") /\ Failing
    /\ UNCHANGED <<team, policy, pool, dropped, handle, quit, runs, calls>>

Unpark(p) ==
    /\ At(p, "unpark")
    /\ IF p \in strays
       THEN orphan' = Dequeued(orphan, Key(p)) /\ UNCHANGED pool
       ELSE pool' = Dequeued(pool, Key(p)) /\ UNCHANGED orphan
    /\ Continues(p)
    /\ UNCHANGED <<store, strays, handle, quit, budgets>>

\* Mutant: the cancel function is not stored.
LaunchUnregistered(p) ==
    /\ Free /= {}
    /\ LET r == CHOOSE f \in Free : TRUE
       IN  proc' = [proc EXCEPT
              ![p].pc = "flip", ![p].sub = r,
              ![r] = [Idle EXCEPT !.pc = "reserved", !.key = Key(p), !.own = Key(p)]]
    /\ UNCHANGED handle

(* launchTeamTask: the cancel function is stored before the card shows as  *)
(* running and the goroutine starts.                                       *)
Launch(p) ==
    /\ Free /= {}
    /\ LET r == CHOOSE f \in Free : TRUE
       IN  /\ handle' = [handle EXCEPT ![Key(p)] = r]
           /\ proc' = [proc EXCEPT
                 ![p].pc = "flip", ![p].sub = r,
                 ![r] = [Idle EXCEPT !.pc = "reserved", !.key = Key(p), !.own = Key(p)]]

Register(p) ==
    /\ At(p, "register") /\ Launch(p)
    /\ UNCHANGED <<store, pool, dropped, quit, budgets>>

(* startPromotedTeamRun: the card is read again and launched; one that     *)
(* cannot run any more gives its slot back.                                *)
StartPromoted(p) ==
    /\ At(p, "promoted")
    /\ \/ team /\ Launch(p)
       \/ Goes(p, "release") /\ UNCHANGED handle
    /\ UNCHANGED <<store, pool, dropped, quit, budgets>>

Started(c) == [c EXCEPT !.status = "running", !.attempts = @ + 1]

Flip(p) ==
    /\ At(p, "flip")
    /\ Update(Key(p), Started(card[Key(p)]))
    /\ \/ /\ team
          /\ proc' = [proc EXCEPT ![p] = Rest(@), ![proc[p].sub].pc = "work"]
          /\ UNCHANGED fails
       \/ UpdateFails /\ Goes(p, "unlaunch") /\ Failing
    /\ UNCHANGED <<team, policy, pool, dropped, handle, quit, runs, calls>>

\* Mutant: the slot of a launch that failed is not given back.
UnlaunchOnly(p) ==
    /\ At(p, "unlaunch")
    /\ handle' = [handle EXCEPT ![Key(p)] = None]
    /\ proc' = [proc EXCEPT ![proc[p].sub] = Idle, ![p] = Rest(@)]
    /\ UNCHANGED <<store, pool, dropped, quit, budgets>>

Unlaunch(p) ==
    /\ At(p, "unlaunch")
    /\ handle' = [handle EXCEPT ![Key(p)] = None]
    /\ proc' = [proc EXCEPT ![proc[p].sub] = Idle, ![p].sub = None, ![p].pc = "release"]
    /\ UNCHANGED <<store, pool, dropped, quit, budgets>>
-----------------------------------------------------------------------------
(* runTeamMember and the goroutine around it.                              *)

\* Mutant: the gate of the card is not looked at.
FinishedUngated(c, out) ==
    [c EXCEPT !.status = CASE out = "cancelled" -> "queued" [] out = "fail" -> "failed" [] OTHER -> "succeeded"]

(* finishTeamTask and finishTeamTaskCanceled, on the card as it is now.    *)
Finished(c, out) ==
    CASE out = "cancelled" -> [c EXCEPT !.status = "queued"]
      [] out = "fail"      -> [c EXCEPT !.status = "failed"]
      [] out = "ok" /\ c.gate /= "after" -> [c EXCEPT !.status = "succeeded"]
      [] out = "ok" /\ c.gate = "after"  -> [c EXCEPT !.status = "waiting", !.decision = "pending"]

(* The session ends and its outcome is recorded; a cancellation that comes *)
(* between the two is too late to matter.  A model that cannot be built    *)
(* fails the card even under a cancelled context.  A save that fails only  *)
(* skips the notice to the board.                                          *)
Work(p) ==
    /\ At(p, "work")
    /\ \E out \in {"fail", IF proc[p].cancelled THEN "cancelled" ELSE "ok"} :
          Update(Key(p), Finished(card[Key(p)], out))
    /\ Goes(p, "forget")
    /\ UNCHANGED <<team, policy, pool, dropped, handle, quit, budgets>>

Forget(p) ==
    /\ At(p, "forget")
    /\ handle' = [handle EXCEPT ![Key(p)] = None]
    /\ Goes(p, "release")
    /\ UNCHANGED <<store, pool, dropped, quit, budgets>>

(* releaseTeamSlot: the promoted card is started by this thread.           *)
Release(p) ==
    /\ At(p, "release")
    /\ IF pool = None THEN Continues(p) /\ UNCHANGED pool
       ELSE /\ pool' = Released(pool, Key(p))
            /\ proc' = [proc EXCEPT ![p] =
                  Rest([proc[p] EXCEPT !.todo = ReleaseStarts(pool, Key(p)) \o @])]
    /\ UNCHANGED <<store, dropped, handle, quit, budgets>>

(* replanFailedTeamTask: a failed card that nobody rejected goes to another *)
(* member and runs again, or waits for a human.  Only a saved decision is  *)
(* acted on.  Policy.AutoReplan is on.                                     *)
Replannable(c) == c.status = "failed" /\ c.decision /= "rejected"
OutOfRounds(c) == c.attempts >= MaxRounds

Replan(p) ==
    /\ At(p, "replan")
    /\ LET c == card[Key(p)]
           ends == proc' = [proc EXCEPT ![p] = Idle]
       IN  IF ~team \/ ~Replannable(c)
           THEN ends /\ UNCHANGED <<card, fails>>
           ELSE \/ /\ Update(Key(p), [c EXCEPT !.status = "waiting"])
                   /\ ends /\ UNCHANGED fails
                \/ /\ ~OutOfRounds(c)
                   /\ Update(Key(p), [c EXCEPT !.status = "queued"])
                   /\ \/ UNCHANGED fails /\ proc' = [proc EXCEPT ![p] = [Idle EXCEPT !.pc = "resolve", !.key = Key(p)]]
                      \/ UpdateFails /\ Failing /\ ends
    /\ UNCHANGED <<team, policy, pool, dropped, handle, quit, runs, calls>>
-----------------------------------------------------------------------------
(* Calls of the frontend.  None begins once the program quits.             *)
Call == ~quit /\ calls < MaxCalls /\ calls' = calls + 1

(* A call that takes several steps has a thread of its own; one that may   *)
(* launch a run begins while there is a thread left for it.                *)
NewThread(t) ==
    /\ IF t.pc \in {"cancel", "drop", "quit"} THEN Free /= {} ELSE Cardinality(Free) >= 2
    /\ LET p == CHOOSE f \in Free : TRUE IN proc' = [proc EXCEPT ![p] = t]

CallThread(t) == Call /\ NewThread(t)

(* A call that cannot resolve its card does nothing.                       *)
RunTeamTask(c) ==
    /\ team /\ ~quit /\ runs < MaxRuns /\ runs' = runs + 1
    /\ NewThread([Idle EXCEPT !.pc = "admit", !.key = c, !.max = policy])
    /\ UNCHANGED <<store, pool, dropped, handle, quit, calls, fails>>

(* CancelTeamTask: a waiting card leaves the queue; otherwise the run is   *)
(* looked for in a second step.                                            *)
Waits(c) == IF pool = None THEN FALSE ELSE c \in Elems(pool.queue)

CancelTeamTask(c) ==
    /\ IF Waits(c)
       THEN Call /\ pool' = Dequeued(pool, c) /\ UNCHANGED proc
       ELSE CallThread([Idle EXCEPT !.pc = "cancel", !.key = c]) /\ UNCHANGED pool
    /\ UNCHANGED <<store, dropped, handle, quit, runs, fails>>

CancelRun(p) ==
    /\ At(p, "cancel")
    /\ LET r == handle[Key(p)]
       IN  /\ handle' = [handle EXCEPT ![Key(p)] = None]
           /\ proc' = [q \in Proc |-> IF q = p THEN Idle
                                      ELSE IF q = r THEN [proc[q] EXCEPT !.cancelled = TRUE]
                                      ELSE proc[q]]
    /\ UNCHANGED <<store, pool, dropped, quit, budgets>>

(* UpdateTeamProject: the policy is stored, then the pool re-bounded.  A   *)
(* failing save ends the call; the policy has changed in memory.           *)
UpdateTeamProject(max) ==
    /\ team /\ policy' = max
    /\ \/ CallThread([Idle EXCEPT !.pc = "rebound", !.max = max]) /\ UNCHANGED fails
       \/ UpdateFails /\ Failing /\ Call /\ UNCHANGED proc
    /\ UNCHANGED <<team, card, pool, dropped, handle, quit, runs>>

Rebound(p) ==
    /\ At(p, "rebound")
    /\ IF pool = None THEN pool' = NewPool(proc[p].max) /\ Continues(p)
       ELSE /\ pool' = Rebounded(pool, proc[p].max)
            /\ proc' = [proc EXCEPT ![p] = Rest([@ EXCEPT !.todo = SetMaxStarts(pool, proc[p].max)])]
    /\ UNCHANGED <<store, dropped, handle, quit, budgets>>

(* DeleteTeamProject: out of the store, out of the map of pools (calls may *)
(* hold the pool still), then the pool is emptied, then the cancel         *)
(* functions of the cards that held slots are called.                      *)
DeleteTeamProject ==
    /\ team /\ team' = FALSE
    /\ CallThread([Idle EXCEPT !.pc = "drop"])
    /\ UNCHANGED <<card, policy, pool, dropped, handle, quit, runs, fails>>

Drop(p) ==
    /\ At(p, "drop")
    /\ pool' = None /\ orphan' = pool
    /\ strays' = {q \in Proc : proc[q].pc \in HasPool}
    /\ Goes(p, "empty")
    /\ UNCHANGED <<store, handle, quit, budgets>>

Empty(p) ==
    /\ At(p, "empty")
    /\ orphan' = IF orphan = None THEN None ELSE Emptied(orphan)
    /\ proc' = [proc EXCEPT ![p].pc = "dropped", ![p].doomed = IF orphan = None THEN {} ELSE orphan.running]
    /\ UNCHANGED <<store, pool, strays, handle, quit, budgets>>

(* The runs of the cards in S are cancelled, their entries removed.        *)
CancelRuns(S, t) ==
    /\ handle' = [c \in Card |-> IF c \in S THEN None ELSE handle[c]]
    /\ proc' = [q \in Proc |-> IF \E c \in S : handle[c] = q THEN [t[q] EXCEPT !.cancelled = TRUE] ELSE t[q]]

CancelDropped(p) ==
    /\ At(p, "dropped")
    /\ CancelRuns(proc[p].doomed, [proc EXCEPT ![p] = Idle])
    /\ UNCHANGED <<store, pool, dropped, quit, budgets>>

(* CancelAllTeamRuns, on the way out of the program.                       *)
CancelAllTeamRuns ==
    /\ ~quit /\ quit' = TRUE
    /\ pool' = IF pool = None THEN None ELSE Emptied(pool)
    /\ CallThread([Idle EXCEPT !.pc = "quit"])
    /\ UNCHANGED <<store, dropped, handle, runs, fails>>

CancelAllRuns(p) ==
    /\ At(p, "quit")
    /\ CancelRuns(Card, [proc EXCEPT ![p] = Idle])
    /\ UNCHANGED <<store, pool, dropped, quit, budgets>>
-----------------------------------------------------------------------------
(* The human's decisions: one Update each.                                 *)

ResolveApproval(c, approved) ==
    IF c.decision /= "pending" THEN c
    ELSE IF ~approved THEN [c EXCEPT !.decision = "rejected", !.status = "failed"]
    ELSE [c EXCEPT !.decision = "approved", !.status = IF c.gate = "after" THEN "succeeded" ELSE "queued"]

(* ApproveTeamTask runs a card that is ready after a decision that was     *)
(* saved.                                                                  *)
ApproveTeamTask(c) ==
    LET after == ResolveApproval(card[c], TRUE) IN
    /\ team /\ Call
    /\ Update(c, after)
    /\ \/ /\ IF after.status = "queued"
             THEN NewThread([Idle EXCEPT !.pc = "resolve", !.key = c])
             ELSE UNCHANGED proc
          /\ UNCHANGED fails
       \/ UpdateFails /\ Failing /\ UNCHANGED proc
    /\ UNCHANGED <<team, policy, pool, dropped, handle, quit, runs>>

RejectTeamTask(c) ==
    /\ team /\ Call
    /\ Update(c, ResolveApproval(card[c], FALSE))
    /\ UNCHANGED <<team, policy, pool, dropped, handle, proc, quit, runs, fails>>

(* SetTaskApproval: a new gate forgets the decision on the old one.        *)
SetTeamTaskApproval(c, gate) ==
    /\ team /\ Call
    /\ Update(c, [card[c] EXCEPT !.gate = gate, !.decision = "none"])
    /\ UNCHANGED <<team, policy, pool, dropped, handle, proc, quit, runs, fails>>

Terminal == {"succeeded", "failed", "cancelled"}
ValidTransition(from, to) ==
    /\ from /= to /\ from \notin Terminal
    /\ from = "queued" => to \in {"running", "cancelled"}
    /\ to /= "queued"

StateFor == [doing |-> "running", blocked |-> "waiting", done |-> "succeeded",
             failed |-> "failed", cancelled |-> "cancelled"]

(* MoveTaskToColumn: dragging a card out of the approval column decides,   *)
(* and back to the backlog forgets the decision.                           *)
Decided(c, column) ==
    IF column /= "approval" /\ c.decision = "pending" THEN [c EXCEPT !.decision = "approved"] ELSE c

Moved(c, column) ==
    CASE column = "approval" -> [c EXCEPT !.gate = IF @ = "none" THEN "after" ELSE @,
                                          !.decision = "pending", !.status = "waiting"]
      [] column = "backlog"  -> [c EXCEPT !.status = "queued", !.decision = "none"]
      [] column = "ready"    -> [Decided(c, column) EXCEPT !.status = "queued"]
      [] OTHER ->
           LET d == Decided(c, column)
               to == StateFor[column]
           IN  IF c.status /= to /\ c.status /= "failed" /\ ~ValidTransition(c.status, to) THEN c
               ELSE [d EXCEPT !.status = to,
                              !.attempts = IF to = "running" THEN @ + 1 ELSE @,
                              !.decision = IF to = "succeeded" THEN "none" ELSE @]

MoveTeamTask(c, column) ==
    /\ team /\ Call
    /\ Moved(card[c], column) /= card[c]
    /\ Update(c, Moved(card[c], column))
    /\ UNCHANGED <<team, policy, pool, dropped, handle, proc, quit, runs, fails>>
-----------------------------------------------------------------------------
ThreadStep(p) ==
    \/ Resolve(p) \/ Ensure(p) \/ AdmitCard(p) \/ Park(p) \/ Unpark(p)
    \/ StartPromoted(p) \/ Register(p) \/ Flip(p) \/ Unlaunch(p)
    \/ Work(p) \/ Forget(p) \/ Release(p) \/ Replan(p)
    \/ CancelRun(p) \/ Rebound(p) \/ Drop(p) \/ Empty(p) \/ CancelDropped(p)
    \/ CancelAllRuns(p)

User ==
    \/ \E c \in Card :
          \/ RunTeamTask(c) \/ CancelTeamTask(c)
          \/ ApproveTeamTask(c) \/ RejectTeamTask(c)
          \/ \E g \in Gate \ {card[c].gate} : SetTeamTaskApproval(c, g)
          \/ \E col \in Column : MoveTeamTask(c, col)
    \/ \E max \in Bound : UpdateTeamProject(max)
    \/ DeleteTeamProject
    \/ CancelAllTeamRuns

Next == (\E p \in Proc : ThreadStep(p)) \/ User

Spec == Init /\ [][Next]_vars

(* Threads go on, and a session ends.  The user owes nothing.              *)
FairSpec == Spec /\ \A p \in Proc : WF_vars(ThreadStep(p))
-----------------------------------------------------------------------------
(* The thread that has to give c's slot back, or pass it on.               *)
HoldsSlot(p, c) ==
    \/ Key(p) = c /\ proc[p].pc \in {"promoted", "register", "flip", "unlaunch", "work", "forget", "release"}
    \/ c \in Elems(proc[p].todo)

Sessions == {c \in Card : \E p \in Proc : At(p, "work") /\ Key(p) = c}

(* SlotsAreOwned: while the team exists and the program runs, each booked  *)
(* slot has exactly one thread that will give it back, and no thread holds *)
(* a slot that is not booked.  A slot nobody owns is lost for good; one    *)
(* with two owners is given back twice and the bound is exceeded.          *)
SlotsAreOwned ==
    team /\ ~quit =>
        \A c \in Card :
            Cardinality({p \in Proc : HoldsSlot(p, c)}) = IF pool /= None /\ c \in pool.running THEN 1 ELSE 0

(* RetriesWithinRounds: retries on their own never take a card past its    *)
(* rounds; what goes beyond them, the user asked for.                      *)
RetriesWithinRounds ==
    \A c \in Card : card[c].attempts > 0 => card[c].attempts < MaxRounds + runs + calls

(* PoolIsSound: the bookkeeping of the runs: nothing is booked twice,      *)
(* nobody waits beside a free slot, slots are owned, retries are counted.  *)
PoolIsSound ==
    /\ TypeOK
    /\ pool /= None => PoolOK(pool)
    /\ SlotsAreOwned
    /\ RetriesWithinRounds

(* StopReachesTheRun: a session that was not told to stop is the one the   *)
(* card's cancel function stops, so the user can always stop it (a run     *)
(* that ends removes its card's function whoever stored it).  And when a   *)
(* deletion has returned, every session of the team that is still          *)
(* unwinding has been told to stop ("a deleted team's runs must not keep   *)
(* holding slots"), but for calls that came too late: one that had read    *)
(* the team before and made it a new pool, and one that had got the old    *)
(* pool and was admitted after the deletion had emptied it.  Such a call   *)
(* can replace the cancel function of a running card just before the       *)
(* deletion looks for it.                                                  *)
LateAdmission == pool /= None \/ (orphan /= None /\ orphan.running /= {})

StopReachesTheRun ==
    \A p \in Proc : At(p, "work") /\ ~proc[p].cancelled /\ ~quit =>
        IF team THEN handle[Key(p)] = p
        ELSE LateAdmission \/ \E q \in Proc : proc[q].pc \in {"drop", "empty", "dropped"}

(* DeliverablesAwaitTheHuman: a card that is to be confirmed counts as     *)
(* done only by a call of the user.                                        *)
DeliverablesAwaitTheHuman ==
    [][\A c \in Card :
          card[c].gate = "after" /\ card[c].status /= "succeeded" /\ card'[c].status = "succeeded"
              => calls' /= calls]_vars

(* Settles: when the user stops, retries come to an end, the queue drains  *)
(* and no slot stays booked.                                               *)
Settles == <>[](Free = Proc /\ (pool /= None => pool.queue = <<>> /\ (team /\ ~quit => pool.running = {})))

(* Bounded: the team implements the abstract bound on parallel sessions.   *)
Limiter == INSTANCE Slots WITH
    granted <- IF pool = None THEN {} ELSE pool.running,
    live    <- Sessions,
    limit   <- IF pool = None THEN 0 ELSE pool.max,
    closed  <- ~team \/ quit
Bounded == Limiter!Spec
=============================================================================
