------------------------------- MODULE Deferred -------------------------------
(***************************************************************************)
(* Push delivery of background results into a session (internal/deferred,  *)
(* with the controller's half in internal/control/controller.go and the    *)
(* completion hook in internal/boot/boot.go).                              *)
(*                                                                         *)
(* A build is one run of boot.Build: a job table counting its jobs from 1, *)
(* a coordinator with its in-memory copy of the session's task table and a *)
(* controller.  The table on disk is shared by all builds of one session.  *)
(* A result is the pair of the build and the job that produced it; its     *)
(* task id is only "job:" plus the job's number.                           *)
(*                                                                         *)
(* One step is one critical section of Store.mu, Coordinator.mu or         *)
(* Controller.mu.  The only session modelled is the one the table belongs  *)
(* to; a controller is bound to it or to some other session.               *)
(***************************************************************************)
EXTENDS Naturals, FiniteSets

CONSTANTS
    MaxBuild,       \* bound on the builds: restarts and settings changes
    MaxJobs,        \* bound on the jobs of one build
    MaxAttempts,    \* Options.MaxAttempts
    MaxSaveFails,   \* bound on the saves that fail
    MaxLive,        \* bound on the builds that live at once
    Worker          \* goroutines that may be inside DeliverNow

ASSUME ParameterAssumption ==
    /\ MaxBuild \in Nat \ {0} /\ MaxJobs \in Nat \ {0}
    /\ MaxAttempts \in Nat \ {0} /\ MaxSaveFails \in Nat /\ MaxLive \in Nat

Build  == 1..MaxBuild
Id     == 1..MaxJobs
Result == [build : Build, id : Id]

(* deferred.Task: whose output the body is, and the delivery bookkeeping.  *)
Task == [of : Build, delivered : BOOLEAN, suppressed : BOOLEAN,
         attempts : Nat]
NoTask == [of |-> 0]

VARIABLES
    current,    \* the latest build
    phase,      \* [Build -> "unborn" | "open" | "closed" | "gone"]
    bound,      \* builds whose controller is bound to this session
    opened,     \* builds whose coordinator has opened the store
    finished,   \* [Build -> SUBSET Id], jobs that have completed
    table,      \* [Build -> [Id -> Task]], Store.tasks
    disk,       \* [Id -> Task], tasks.json
    saveFails,  \* saves that failed so far
    inflight,   \* Coordinator.inflight of every build
    worker,     \* [Worker -> record], the goroutines in DeliverNow
    pending,    \* [Build -> SUBSET Result], results in the controller's memory
    seen,       \* results a turn has put into this session's transcript
    leaked,     \* results a turn has put into another session's transcript
    recorded,   \* history: results whose Put was saved
    handed,     \* history: [Build -> [Result -> Nat]], hand-offs
    abandoned,  \* history: results suppressed
    stale,      \* history: builds whose copy lacks a save of another one
    overwrote   \* history: such a build has saved its copy

lifeVars  == <<current, phase, bound, opened>>
storeVars == <<table, disk, saveFails, stale, overwrote>>
workVars  == <<inflight, worker>>
sessVars  == <<pending, seen, leaked>>
histVars  == <<recorded, handed, abandoned>>
vars == <<lifeVars, finished, storeVars, workVars, sessVars, histVars>>

Idle == [pc |-> "idle", build |-> 0, id |-> 0, of |-> 0]

WorkerState ==
    [pc : {"query", "check", "deliver", "push", "mark", "bump", "suppress"},
     build : Build, id : Id, of : 0..MaxBuild]

TypeOK ==
    /\ current \in 0..MaxBuild
    /\ phase \in [Build -> {"unborn", "open", "closed", "gone"}]
    /\ bound \subseteq Build /\ opened \subseteq Build
    /\ finished \in [Build -> SUBSET Id]
    /\ table \in [Build -> [Id -> Task \cup {NoTask}]]
    /\ disk \in [Id -> Task \cup {NoTask}]
    /\ saveFails \in 0..MaxSaveFails
    /\ inflight \subseteq Result
    /\ worker \in [Worker -> WorkerState \cup {Idle}]
    /\ pending \in [Build -> SUBSET Result]
    /\ seen \subseteq Result /\ leaked \subseteq Result
    /\ recorded \subseteq Result
    /\ handed \in [Build -> [Result -> Nat]]
    /\ abandoned \subseteq Result
    /\ stale \subseteq Build /\ overwrote \in BOOLEAN

Init ==
    /\ current = 0
    /\ phase = [b \in Build |-> "unborn"]
    /\ bound = {} /\ opened = {}
    /\ finished = [b \in Build |-> {}]
    /\ table = [b \in Build |-> [i \in Id |-> NoTask]]
    /\ disk = [i \in Id |-> NoTask]
    /\ saveFails = 0
    /\ inflight = {}
    /\ worker = [w \in Worker |-> Idle]
    /\ pending = [b \in Build |-> {}]
    /\ seen = {} /\ leaked = {} /\ recorded = {} /\ abandoned = {}
    /\ handed = [b \in Build |-> [r \in Result |-> 0]]
    /\ stale = {} /\ overwrote = FALSE

Live(b)  == phase[b] \in {"open", "closed"}
Known(t) == t # NoTask

Deliverable(t) == Known(t) /\ ~t.delivered /\ ~t.suppressed

(* Controller.DeferredSessionRunnable                                      *)
Runnable(b) == phase[b] = "open" /\ b \in bound

-----------------------------------------------------------------------------
(* Builds, bindings and the end of the process.                            *)

(* boot.Build up to SetDeferred.  An older build goes on until the host    *)
(* closes its controller, as it does after a switch of the model.          *)
NewBuild ==
    /\ current < MaxBuild
    /\ Cardinality({b \in Build : Live(b)}) < MaxLive
    /\ current' = current + 1
    /\ phase' = [phase EXCEPT ![current + 1] = "open"]
    /\ bound' = bound \cup {current + 1}
    /\ UNCHANGED <<opened, finished, storeVars, workVars, sessVars, histVars>>

(* Mutant of OpenStore: the table on disk is not loaded.                   *)
OpenStoreEmpty(b) ==
    /\ Live(b) /\ b \notin opened
    /\ opened' = opened \cup {b}
    /\ UNCHANGED <<storeVars, current, phase, bound, finished,
                   workVars, sessVars, histVars>>

(* Coordinator.store, on the first flush or enqueue.                       *)
OpenStore(b) ==
    /\ Live(b) /\ b \notin opened
    /\ opened' = opened \cup {b}
    /\ table' = [table EXCEPT ![b] = disk]
    /\ UNCHANGED <<current, phase, bound, finished, disk, saveFails, stale,
                   overwrote, workVars, sessVars, histVars>>

(* NewSession, Resume, SetSessionPath: pendingDeferred is not touched.     *)
Rebind(b) ==
    /\ phase[b] = "open"
    /\ bound' = IF b \in bound THEN bound \ {b} ELSE bound \cup {b}
    /\ UNCHANGED <<current, phase, opened, finished, storeVars, workVars,
                   sessVars, histVars>>

CloseController(b) ==
    /\ phase[b] = "open"
    /\ phase' = [phase EXCEPT ![b] = "closed"]
    /\ UNCHANGED <<current, bound, opened, finished, storeVars, workVars,
                   sessVars, histVars>>

(* The process ends, by a crash or an exit; only the disk is left.         *)
ProcessEnds ==
    /\ \E b \in Build : Live(b)
    /\ phase' = [b \in Build |-> IF Live(b) THEN "gone" ELSE phase[b]]
    /\ bound' = {} /\ opened' = {} /\ inflight' = {} /\ stale' = {}
    /\ table' = [b \in Build |-> [i \in Id |-> NoTask]]
    /\ worker' = [w \in Worker |-> Idle]
    /\ pending' = [b \in Build |-> {}]
    /\ UNCHANGED <<current, finished, disk, saveFails, overwrote, seen, leaked,
                   histVars>>

-----------------------------------------------------------------------------
(* Store mutations: the copy in memory changes whether or not the save     *)
(* succeeds.  A save writes all of it, and no build looks at the disk      *)
(* again for what others have saved.                                       *)

SaveOK(b, t) ==
    /\ table' = [table EXCEPT ![b] = t]
    /\ disk' = t
    /\ saveFails' = saveFails
    /\ stale' = opened \ {b}
    /\ overwrote' = (overwrote \/ b \in stale)

SaveFails(b, t) ==
    /\ saveFails < MaxSaveFails
    /\ table' = [table EXCEPT ![b] = t]
    /\ disk' = disk
    /\ saveFails' = saveFails + 1
    /\ UNCHANGED <<stale, overwrote>>

Save(b, t) == SaveOK(b, t) \/ SaveFails(b, t)

NewTask(b) == [of |-> b, delivered |-> FALSE, suppressed |-> FALSE,
               attempts |-> 0]

(* A row already delivered keeps its bookkeeping, whoever puts it.         *)
PutTask(b, i) ==
    LET prev == table[b][i] IN
    [table[b] EXCEPT ![i] =
        IF Known(prev) /\ prev.delivered
          THEN [NewTask(b) EXCEPT !.delivered = TRUE,
                                  !.suppressed = prev.suppressed]
          ELSE NewTask(b)]

(* The completion hook and Enqueue.  The goroutine it starts is one of the *)
(* workers; the hook ignores an error.                                     *)
JobFinishes(b, i) ==
    /\ Live(b) /\ b \in opened /\ b \in bound
    /\ i \notin finished[b]
    /\ finished' = [finished EXCEPT ![b] = @ \cup {i}]
    /\ \/ SaveOK(b, PutTask(b, i))
          /\ recorded' = recorded \cup {[build |-> b, id |-> i]}
       \/ SaveFails(b, PutTask(b, i)) /\ recorded' = recorded
    /\ UNCHANGED <<lifeVars, workVars, sessVars, handed, abandoned>>

(* FlushSession's PruneDelivered: the settled rows that are old enough.    *)
Prune(b) ==
    /\ Live(b) /\ b \in opened
    /\ \E old \in SUBSET {i \in Id : Known(table[b][i])
                                       /\ ~Deliverable(table[b][i])} :
         /\ old # {}
         /\ Save(b, [i \in Id |-> IF i \in old THEN NoTask ELSE table[b][i]])
    /\ UNCHANGED <<lifeVars, finished, workVars, sessVars, histVars>>

-----------------------------------------------------------------------------
(* DeliverNow, called by Enqueue's goroutine, by the ticker and by a flush *)
(* for an id each of them saw in the table some time before.               *)

Step(w, pc) == worker' = [worker EXCEPT ![w].pc = pc]

Key(w) == [build |-> worker[w].build, id |-> worker[w].id]

(* Mutant of Release: the inflight entry is left behind.                   *)
ReleaseHeld(w) ==
    /\ worker' = [worker EXCEPT ![w] = Idle]
    /\ inflight' = inflight

Release(w) ==
    /\ worker' = [worker EXCEPT ![w] = Idle]
    /\ inflight' = inflight \ {Key(w)}

(* Mutant of Claim: no look at inflight.                                   *)
ClaimBusy(w, b, i) ==
    /\ worker[w] = Idle
    /\ Live(b) /\ b \in opened /\ Known(table[b][i])
    /\ inflight' = inflight \cup {[build |-> b, id |-> i]}
    /\ worker' = [worker EXCEPT ![w] =
                    [pc |-> "query", build |-> b, id |-> i, of |-> 0]]
    /\ UNCHANGED <<lifeVars, finished, storeVars, sessVars, histVars>>

Claim(w, b, i) ==
    /\ worker[w] = Idle
    /\ Live(b) /\ b \in opened /\ Known(table[b][i])
    /\ [build |-> b, id |-> i] \notin inflight
    /\ inflight' = inflight \cup {[build |-> b, id |-> i]}
    /\ worker' = [worker EXCEPT ![w] =
                    [pc |-> "query", build |-> b, id |-> i, of |-> 0]]
    /\ UNCHANGED <<lifeVars, finished, storeVars, sessVars, histVars>>

(* Store.Query and the early returns.                                      *)
Query(w) ==
    LET t == table[worker[w].build][worker[w].id] IN
    /\ worker[w].pc = "query"
    /\ IF Deliverable(t)
         THEN /\ worker' = [worker EXCEPT ![w].pc = "check", ![w].of = t.of]
              /\ inflight' = inflight
         ELSE Release(w)
    /\ UNCHANGED <<lifeVars, finished, storeVars, sessVars, histVars>>

(* DeferredSessionRunnable, asked by DeliverNow and again by               *)
(* DeliverDeferred; the best-effort notice in between changes nothing.     *)
Ask(w, from, to) ==
    /\ worker[w].pc = from
    /\ Step(w, IF Runnable(worker[w].build) THEN to ELSE "bump")
    /\ UNCHANGED <<lifeVars, finished, storeVars, inflight, sessVars, histVars>>

Check(w)   == Ask(w, "check", "deliver")
Deliver(w) == Ask(w, "deliver", "push")

(* DeliverDeferred past its check: the text goes into the controller's     *)
(* memory, as next-turn context or as a queued prompt.                     *)
Push(w) ==
    LET b == worker[w].build
        r == [build |-> worker[w].of, id |-> worker[w].id]
    IN
    /\ worker[w].pc = "push"
    /\ pending' = [pending EXCEPT ![b] = @ \cup {r}]
    /\ handed' = [handed EXCEPT ![b][r] = @ + 1]
    /\ Step(w, "mark")
    /\ UNCHANGED <<lifeVars, finished, storeVars, inflight, seen, leaked,
                   recorded, abandoned>>

(* Store.update of the worker's row.  The row may have been pruned.        *)
Updated(w, f) == [table[worker[w].build] EXCEPT ![worker[w].id] = f]
Row(w) == table[worker[w].build][worker[w].id]

Mark(w) ==
    /\ worker[w].pc = "mark"
    /\ IF Known(Row(w))
         THEN Save(worker[w].build,
                   Updated(w, [Row(w) EXCEPT !.delivered = TRUE,
                                             !.attempts = 0]))
         ELSE UNCHANGED storeVars
    /\ Release(w)
    /\ UNCHANGED <<lifeVars, finished, sessVars, histVars>>

(* BumpAttempts; Suppress follows only when the save went through.         *)
Bump(w) ==
    LET n == Row(w).attempts + 1
        bumped == Updated(w, [Row(w) EXCEPT !.attempts = n])
    IN
    /\ worker[w].pc = "bump"
    /\ \/ /\ Known(Row(w))
          /\ SaveOK(worker[w].build, bumped)
          /\ IF n >= MaxAttempts
               THEN Step(w, "suppress") /\ inflight' = inflight
               ELSE Release(w)
       \/ Known(Row(w)) /\ SaveFails(worker[w].build, bumped) /\ Release(w)
       \/ ~Known(Row(w)) /\ UNCHANGED storeVars /\ Release(w)
    /\ UNCHANGED <<lifeVars, finished, sessVars, histVars>>

Suppress(w) ==
    /\ worker[w].pc = "suppress"
    /\ IF Known(Row(w))
         THEN /\ Save(worker[w].build,
                      Updated(w, [Row(w) EXCEPT !.suppressed = TRUE]))
              /\ abandoned' = abandoned \cup
                    {[build |-> Row(w).of, id |-> worker[w].id]}
         ELSE UNCHANGED <<storeVars, abandoned>>
    /\ Release(w)
    /\ UNCHANGED <<lifeVars, finished, sessVars, recorded, handed>>

-----------------------------------------------------------------------------
(* Compose drains pendingDeferred into the turn of whatever session the    *)
(* controller is bound to by then.                                         *)
Turn(b) ==
    /\ phase[b] = "open" /\ pending[b] # {}
    /\ pending' = [pending EXCEPT ![b] = {}]
    /\ IF b \in bound
         THEN seen' = seen \cup pending[b] /\ leaked' = leaked
         ELSE leaked' = leaked \cup pending[b] /\ seen' = seen
    /\ UNCHANGED <<lifeVars, finished, storeVars, workVars, histVars>>

Deliverer(w) ==
    \/ Query(w) \/ Check(w) \/ Deliver(w) \/ Push(w)
    \/ Mark(w) \/ Bump(w) \/ Suppress(w)

Next ==
    \/ NewBuild
    \/ ProcessEnds
    \/ \E b \in Build : \/ OpenStore(b) \/ Rebind(b) \/ CloseController(b)
                        \/ Prune(b) \/ Turn(b)
                        \/ \E i \in Id : JobFinishes(b, i)
    \/ \E w \in Worker : \/ Deliverer(w)
                         \/ \E b \in Build, i \in Id : Claim(w, b, i)

Spec == Init /\ [][Next]_vars

(* Goroutines are scheduled.  Until it is closed, the coordinator's ticker *)
(* keeps walking every undelivered row (RetryInterval), waiting for each   *)
(* DeliverNow.  Nothing else is owed: not a turn, nor a rebind.            *)
Fairness ==
    /\ \A w \in Worker : WF_vars(Deliverer(w))
    /\ \A b \in Build, i \in Id :
         SF_vars(/\ phase[b] = "open" /\ Deliverable(table[b][i])
                 /\ \E w \in Worker : Claim(w, b, i))

FairSpec == Spec /\ Fairness

-----------------------------------------------------------------------------
(* Properties.                                                             *)

Reused(r) == \E b \in Build \ {r.build} : r.id \in finished[b]

(* A row marked delivered stands for a result that was handed over, in     *)
(* this build or before a restart.  Claimed only while the job number is   *)
(* not used again: a row that meets a delivered one of its id takes over   *)
(* the mark without ever being handed over.                                *)
DeliveredWasHanded ==
    \A b \in Build, i \in Id :
      LET t == table[b][i] IN
      Known(t) /\ t.delivered /\ ~Reused([build |-> t.of, id |-> i]) =>
        \E c \in Build : handed[c][[build |-> t.of, id |-> i]] > 0

(* A suppressed row has used up its attempts, and the build that holds it  *)
(* never handed it over; again while its number is not reused.             *)
SuppressedIsExhausted ==
    \A b \in Build, i \in Id :
      LET t == table[b][i]
          r == [build |-> t.of, id |-> i]
      IN  Known(t) /\ t.suppressed /\ ~Reused(r) =>
            t.attempts >= MaxAttempts /\ handed[b][r] = 0

(* A result whose record reached the disk stays there, undelivered, until  *)
(* it is handed over or given up, whatever crashes and failed saves come   *)
(* in between and whichever builds overlap, and every build that opens the *)
(* table finds it.  Holds while the job number is not used again, and      *)
(* until a build saves its copy over a save of another one that it never   *)
(* read.                                                                   *)
UnhandedStaysRecorded ==
    ~overwrote => \A r \in recorded \ abandoned :
      ~Reused(r) /\ (\A b \in Build : handed[b][r] = 0) =>
        \A t \in {disk[r.id]} \cup {table[b][r.id] : b \in opened \ stale} :
          t.of = r.build /\ Deliverable(t)

(* NothingLost: what the table says of a result is what became of it.      *)
NothingLost == DeliveredWasHanded /\ SuppressedIsExhausted /\ UnhandedStaysRecorded

(* A result that a build found undelivered on disk after a restart is      *)
(* handed over once more.                                                  *)
Again == {r \in Result : Cardinality({b \in Build : handed[b][r] > 0}) > 1}

(* DeliveredOnce: within one build a result is handed to the session at    *)
(* most once, however the enqueue goroutine, the ticker and flushes        *)
(* overlap and whichever saves fail (inflight, Store.Query and             *)
(* MarkDelivered together); and Compose puts it into one turn of one       *)
(* session: it never finds it again in pendingDeferred, nor is it in two   *)
(* transcripts.                                                            *)
DeliveredOnce ==
    /\ TypeOK
    /\ \A b \in Build, r \in Result : handed[b][r] <= 1
    /\ seen \cap leaked \subseteq Again
    /\ \A b \in Build : pending[b] \cap (seen \cup leaked) \subseteq Again

(* The retry path settles every row: in an open controller a deliverable   *)
(* row is in the end delivered or given up, however often the binding      *)
(* changes and although saves may fail.                                    *)
RowsSettle ==
    \A b \in Build, i \in Id :
      Deliverable(table[b][i]) ~>
        ~Deliverable(table[b][i]) \/ phase[b] # "open"
=============================================================================
