---------------------------- MODULE DeferredProofs ----------------------------
(***************************************************************************)
(* Proofs about the delivery of background results, for any number of      *)
(* builds, jobs, attempts, failed saves and delivering goroutines: nothing *)
(* is handed over twice within a build, and nothing recorded is lost.      *)
(***************************************************************************)
EXTENDS Deferred, FiniteSetTheorems, TLAPS

(* The result a row of the table at index i stands for.                    *)
Of(t, i) == [build |-> t.of, id |-> i]

Handed(r) == \E b \in Build : handed[b][r] > 0

-----------------------------------------------------------------------------
(* The inductive invariant.                                                *)

(* Builds are born in order, and a coordinator is open only in a live one. *)
Lives ==
    /\ \A b \in Build : b > current => phase[b] = "unborn"
    /\ \A b \in opened : Live(b)
    /\ \A b \in Build, r \in Result : handed[b][r] > 0 =>
          phase[b] # "unborn" /\ (Live(b) => b \in opened)

(* A row, in memory or on disk: its job has ended, its marks are earned,   *)
(* unless the number of the job is used again.                             *)
Earned(t, i) ==
    Known(t) =>
        /\ i \in finished[t.of]
        /\ ~Reused(Of(t, i)) => /\ t.delivered => Handed(Of(t, i))
                                /\ t.suppressed => t.attempts >= MaxAttempts

Rows == \A i \in Id : Earned(disk[i], i) /\ \A b \in Build : Earned(table[b][i], i)

(* What was handed over stays recognisable: its row is marked, or the      *)
(* goroutine that handed it over is about to mark it.                      *)
Marking(b, r) ==
    \E w \in Worker : worker[w] = [pc |-> "mark", build |-> b, id |-> r.id, of |-> r.build]

Recognised(b, r) ==
    handed[b][r] > 0 =>
        /\ handed[b][r] = 1
        /\ r.id \in finished[r.build]
        /\ LET t == table[b][r.id] IN
           Known(t) /\ t.of = r.build =>
               /\ t.delivered \/ Marking(b, r)
               /\ t.suppressed => Reused(r)

HandOvers == \A b \in Build, r \in Result : Recognised(b, r)

(* A goroutine in DeliverNow holds its key alone, and past its query it    *)
(* carries a result whose job has ended, not yet handed over before Mark.  *)
Busy(w) == worker[w] # Idle
Carried(w) == [build |-> worker[w].of, id |-> worker[w].id]

Alone ==
    /\ \A w \in Worker : Busy(w) => worker[w].build \in opened /\ Key(w) \in inflight
    /\ \A w, v \in Worker : Busy(w) /\ Busy(v) /\ w # v => Key(w) # Key(v)

Carries(w) ==
    Busy(w) /\ worker[w].pc # "query" =>
        /\ worker[w].of \in Build
        /\ worker[w].id \in finished[worker[w].of]
        /\ IF worker[w].pc = "mark" THEN handed[worker[w].build][Carried(w)] > 0
                                    ELSE handed[worker[w].build][Carried(w)] = 0
        /\ Known(Row(w)) /\ ~Reused(Of(Row(w), worker[w].id)) =>
               /\ ~Row(w).suppressed
               /\ worker[w].pc = "suppress" => Row(w).attempts >= MaxAttempts

Workers == Alone /\ \A w \in Worker : Carries(w)

(* A result that one build only has handed over is in one place.           *)
Twice(r) == \E b, c \in Build : b # c /\ handed[b][r] > 0 /\ handed[c][r] > 0

Places ==
    /\ \A b \in Build : \A r \in pending[b] : handed[b][r] > 0
    /\ \A r \in seen \cup leaked : Handed(r)
    /\ \A r \in seen \cup leaked : ~Twice(r) =>
          /\ r \notin seen \cap leaked
          /\ \A b \in Build : r \notin pending[b]

IInv == TypeOK /\ Lives /\ Rows /\ HandOvers /\ Workers /\ Places

(* What was recorded is of a job that has ended, and is found on disk and  *)
(* in every copy that lacks no save.                                       *)
Kept ==
    /\ \A r \in recorded : r.id \in finished[r.build]
    /\ UnhandedStaysRecorded

-----------------------------------------------------------------------------
(* The type.                                                               *)

LEMMA Bounds ==
    /\ MaxBuild \in Nat \ {0} /\ MaxJobs \in Nat \ {0}
    /\ MaxAttempts \in Nat \ {0} /\ MaxSaveFails \in Nat
    /\ Build \subseteq Nat \ {0}
BY ParameterAssumption DEF Build

LEMMA KnownRow ==
    ASSUME TypeOK, NEW b \in Build, NEW i \in Id
    PROVE  /\ table[b][i] \in Task \cup {NoTask}
           /\ Known(table[b][i]) => table[b][i] \in Task
BY DEF TypeOK, Known

LEMMA NewTaskType == ASSUME NEW b \in Build PROVE NewTask(b) \in Task
BY DEF NewTask, Task

(* The fields of the record at a busy goroutine.                           *)
LEMMA BusyWorker ==
    ASSUME TypeOK, NEW w \in Worker, Busy(w)
    PROVE  /\ worker[w] \in WorkerState
           /\ worker[w].build \in Build /\ worker[w].id \in Id
           /\ worker[w].of \in 0..MaxBuild
           /\ Key(w) \in Result
BY DEF TypeOK, Busy, WorkerState, Key, Result

LEMMA IdlePC == Idle.pc = "idle"
BY DEF Idle

LEMMA MarkedTask ==
    ASSUME NEW t \in Task
    PROVE  [t EXCEPT !.delivered = TRUE, !.attempts = 0] \in Task
BY DEF Task

LEMMA RowOf ==
    ASSUME TypeOK, NEW w \in Worker, Busy(w), Known(Row(w))
    PROVE  Row(w) \in Task
BY BusyWorker, KnownRow DEF Row

LEMMA SaveType ==
    ASSUME TypeOK, NEW b \in Build, NEW t \in [Id -> Task \cup {NoTask}], Save(b, t)
    PROVE  /\ table' \in [Build -> [Id -> Task \cup {NoTask}]]
           /\ disk' \in [Id -> Task \cup {NoTask}]
           /\ saveFails' \in 0..MaxSaveFails
           /\ stale' \subseteq Build /\ overwrote' \in BOOLEAN
<1>1. /\ table' \in [Build -> [Id -> Task \cup {NoTask}]]
      /\ disk' \in [Id -> Task \cup {NoTask}]
      /\ saveFails' \in 0..MaxSaveFails
  BY Bounds DEF TypeOK, Save, SaveOK, SaveFails
<1>2. stale' \subseteq Build
  BY DEF TypeOK, Save, SaveOK, SaveFails
<1>3. overwrote' \in BOOLEAN
  <2>1. CASE overwrote' = (overwrote \/ b \in stale)
    BY <2>1
  <2>2. CASE overwrote' = overwrote
    BY <2>2 DEF TypeOK
  <2>3. QED
    BY <2>1, <2>2 DEF Save, SaveOK, SaveFails
<1>4. QED
  BY <1>1, <1>2, <1>3

LEMMA PutType ==
    ASSUME TypeOK, NEW b \in Build, NEW i \in Id
    PROVE  PutTask(b, i) \in [Id -> Task \cup {NoTask}]
<1> DEFINE prev == table[b][i]
           row == IF Known(prev) /\ prev.delivered
                    THEN [NewTask(b) EXCEPT !.delivered = TRUE, !.suppressed = prev.suppressed]
                    ELSE NewTask(b)
<1>1. Known(prev) => prev.suppressed \in BOOLEAN
  BY KnownRow DEF Task
<1>2. row \in Task
  BY <1>1 DEF NewTask, Task
<1>3. table[b] \in [Id -> Task \cup {NoTask}]
  BY DEF TypeOK
<1>4. QED
  BY <1>2, <1>3 DEF PutTask

LEMMA UpdatedType ==
    ASSUME TypeOK, NEW w \in Worker, Busy(w), NEW t \in Task
    PROVE  Updated(w, t) \in [Id -> Task \cup {NoTask}]
BY BusyWorker DEF TypeOK, Updated

LEMMA StepType ==
    ASSUME TypeOK, NEW w \in Worker, Busy(w),
           NEW pc \in {"query", "check", "deliver", "push", "mark", "bump", "suppress"}, Step(w, pc)
    PROVE  worker' \in [Worker -> WorkerState \cup {Idle}]
<1>1. [worker[w] EXCEPT !.pc = pc] \in WorkerState
  BY BusyWorker DEF WorkerState
<1>2. QED
  BY <1>1 DEF TypeOK, Step

LEMMA ReleaseType ==
    ASSUME TypeOK, NEW w \in Worker, Release(w)
    PROVE  worker' \in [Worker -> WorkerState \cup {Idle}] /\ inflight' \subseteq Result
BY DEF TypeOK, Release

(* The pc of a step of a goroutine says that it is busy.                   *)
LEMMA AtBusy ==
    ASSUME NEW w \in Worker, worker[w].pc # "idle"
    PROVE  Busy(w)
BY IdlePC DEF Busy

LEMMA TypeStep == TypeOK /\ (\A w \in Worker : Carries(w)) /\ [Next]_vars => TypeOK'
<1> SUFFICES ASSUME TypeOK, \A w \in Worker : Carries(w), [Next]_vars PROVE TypeOK'
  OBVIOUS
<1> USE Bounds
<1>1. CASE UNCHANGED vars
  BY <1>1 DEF TypeOK, vars, lifeVars, storeVars, workVars, sessVars, histVars
<1>2. CASE NewBuild
  <2>1. current + 1 \in Build /\ current + 1 \in 0..MaxBuild
    BY <1>2 DEF NewBuild, TypeOK, Build
  <2>2. QED
    BY <1>2, <2>1 DEF NewBuild, TypeOK, storeVars, workVars, sessVars, histVars
<1>3. CASE ProcessEnds
  BY <1>3 DEF ProcessEnds, TypeOK, histVars
<1>4. ASSUME NEW b \in Build, OpenStore(b) PROVE TypeOK'
  BY <1>4 DEF OpenStore, TypeOK, workVars, sessVars, histVars
<1>5. ASSUME NEW b \in Build, Rebind(b) \/ CloseController(b) PROVE TypeOK'
  BY <1>5 DEF Rebind, CloseController, TypeOK, storeVars, workVars, sessVars, histVars
<1>6. ASSUME NEW b \in Build, Turn(b) PROVE TypeOK'
  <2>1. pending' \in [Build -> SUBSET Result]
    BY <1>6 DEF Turn, TypeOK
  <2>2. seen' \subseteq Result /\ leaked' \subseteq Result
    BY <1>6 DEF Turn, TypeOK
  <2>3. QED
    BY <1>6, <2>1, <2>2 DEF Turn, TypeOK, lifeVars, storeVars, workVars, histVars
<1>7. ASSUME NEW b \in Build, Prune(b) PROVE TypeOK'
  <2>1. PICK old \in SUBSET Id :
          Save(b, [i \in Id |-> IF i \in old THEN NoTask ELSE table[b][i]])
    BY <1>7 DEF Prune
  <2>2. [i \in Id |-> IF i \in old THEN NoTask ELSE table[b][i]] \in [Id -> Task \cup {NoTask}]
    <3>1. \A i \in Id : table[b][i] \in Task \cup {NoTask}
      BY KnownRow
    <3>2. QED
      BY <3>1
  <2>3. QED
    BY <1>7, <2>1, <2>2, SaveType DEF Prune, TypeOK, lifeVars, workVars, sessVars, histVars
<1>8. ASSUME NEW b \in Build, NEW i \in Id, JobFinishes(b, i) PROVE TypeOK'
  <2>1. Save(b, PutTask(b, i))
    BY <1>8 DEF JobFinishes, Save
  <2>2. [build |-> b, id |-> i] \in Result
    BY DEF Result
  <2>3. finished' \in [Build -> SUBSET Id] /\ recorded' \subseteq Result
    BY <1>8, <2>2 DEF JobFinishes, TypeOK
  <2>4. QED
    BY <1>8, <2>1, <2>3, PutType, SaveType DEF JobFinishes, TypeOK, lifeVars, workVars, sessVars
<1>9. ASSUME NEW w \in Worker, NEW b \in Build, NEW i \in Id, Claim(w, b, i) PROVE TypeOK'
  <2>1. /\ [pc |-> "query", build |-> b, id |-> i, of |-> 0] \in WorkerState
        /\ [build |-> b, id |-> i] \in Result
    BY DEF WorkerState, Result
  <2>2. QED
    BY <1>9, <2>1 DEF Claim, TypeOK, lifeVars, storeVars, sessVars, histVars
<1>10. ASSUME NEW w \in Worker, Deliverer(w) PROVE TypeOK'
  <2>1. Busy(w)
    BY <1>10, AtBusy DEF Deliverer, Query, Check, Deliver, Ask, Push, Mark, Bump, Suppress
  <2>2. CASE Query(w)
    <3>1. CASE Deliverable(Row(w))
      <4>1. Row(w).of \in 0..MaxBuild
        BY <2>1, <3>1, BusyWorker, KnownRow DEF Row, Deliverable, Task, Build
      <4>2. [worker[w] EXCEPT !.pc = "check", !.of = Row(w).of] \in WorkerState
        BY <2>1, <4>1, BusyWorker DEF WorkerState
      <4>3. QED
        BY <2>2, <3>1, <4>2 DEF Query, Row, TypeOK, lifeVars, storeVars, sessVars, histVars
    <3>2. CASE ~Deliverable(Row(w))
      BY <2>2, <3>2, ReleaseType DEF Query, Row, TypeOK, lifeVars, storeVars, sessVars, histVars
    <3>3. QED
      BY <3>1, <3>2
  <2>3. CASE Check(w) \/ Deliver(w)
    <3>1. PICK pc \in {"deliver", "push", "bump"} : Step(w, pc)
      BY <2>3 DEF Check, Deliver, Ask
    <3>2. QED
      BY <2>1, <2>3, <3>1, StepType DEF Check, Deliver, Ask, TypeOK, lifeVars, storeVars, sessVars, histVars
  <2>4. CASE Push(w)
    <3>1. Step(w, "mark")
      BY <2>4 DEF Push
    <3>2. worker' \in [Worker -> WorkerState \cup {Idle}]
      BY <2>1, <3>1, StepType
    <3> DEFINE c == worker[w].build
               r == Carried(w)
    <3>3. c \in Build /\ r \in Result
      BY <2>1, <2>4, BusyWorker DEF Carries, Push, Carried, Result
    <3>4. /\ pending' = [pending EXCEPT ![c] = @ \cup {r}]
          /\ handed' = [handed EXCEPT ![c][r] = @ + 1]
      BY <2>4 DEF Push, Carried
    <3> HIDE DEF c, r
    <3>5. handed' \in [Build -> [Result -> Nat]] /\ pending' \in [Build -> SUBSET Result]
      BY <3>3, <3>4 DEF TypeOK
    <3>6. QED
      BY <2>4, <3>2, <3>5 DEF Push, TypeOK, lifeVars, storeVars
  <2>5. CASE Mark(w)
    <3>1. CASE Known(Row(w))
      <4>1. [Row(w) EXCEPT !.delivered = TRUE, !.attempts = 0] \in Task
        BY <2>1, <3>1, RowOf, MarkedTask
      <4>2. Save(worker[w].build, Updated(w, [Row(w) EXCEPT !.delivered = TRUE, !.attempts = 0]))
        BY <2>5, <3>1 DEF Mark
      <4>3. QED
        BY <2>1, <2>5, <4>1, <4>2, UpdatedType, SaveType, ReleaseType, BusyWorker
           DEF Mark, TypeOK, lifeVars, sessVars, histVars
    <3>2. CASE ~Known(Row(w))
      BY <2>5, <3>2, ReleaseType DEF Mark, TypeOK, lifeVars, storeVars, sessVars, histVars
    <3>3. QED
      BY <3>1, <3>2
  <2>6. CASE Bump(w)
    <3>1. worker' \in [Worker -> WorkerState \cup {Idle}] /\ inflight' \subseteq Result
      <4>1. (Step(w, "suppress") /\ inflight' = inflight) \/ Release(w)
        BY <2>6 DEF Bump
      <4>2. QED
        BY <2>1, <4>1, StepType, ReleaseType DEF TypeOK
    <3>2. CASE Known(Row(w))
      <4>1. Row(w) \in Task /\ Row(w).attempts \in Nat
        BY <2>1, <3>2, BusyWorker, KnownRow DEF Row, Task
      <4>2. [Row(w) EXCEPT !.attempts = Row(w).attempts + 1] \in Task
        BY <4>1 DEF Task
      <4>3. Save(worker[w].build, Updated(w, [Row(w) EXCEPT !.attempts = Row(w).attempts + 1]))
        BY <2>6, <3>2 DEF Bump, Save
      <4>4. QED
        BY <2>1, <2>6, <3>1, <4>2, <4>3, UpdatedType, SaveType, BusyWorker
           DEF Bump, TypeOK, lifeVars, sessVars, histVars
    <3>3. CASE ~Known(Row(w))
      BY <2>6, <3>1, <3>3 DEF Bump, TypeOK, lifeVars, storeVars, sessVars, histVars
    <3>4. QED
      BY <3>2, <3>3
  <2>7. CASE Suppress(w)
    <3>1. CASE Known(Row(w))
      <4>1. Row(w) \in Task
        BY <2>1, <3>1, BusyWorker, KnownRow DEF Row
      <4>2. [Row(w) EXCEPT !.suppressed = TRUE] \in Task
        BY <4>1 DEF Task
      <4>3. [build |-> Row(w).of, id |-> worker[w].id] \in Result
        BY <2>1, <4>1, BusyWorker DEF Task, Result
      <4>4. Save(worker[w].build, Updated(w, [Row(w) EXCEPT !.suppressed = TRUE]))
        BY <2>7, <3>1 DEF Suppress
      <4>5. abandoned' \subseteq Result
        BY <2>7, <3>1, <4>3 DEF Suppress, TypeOK
      <4>6. QED
        BY <2>1, <2>7, <4>2, <4>4, <4>5, UpdatedType, SaveType, ReleaseType, BusyWorker
           DEF Suppress, TypeOK, lifeVars, sessVars
    <3>2. CASE ~Known(Row(w))
      BY <2>7, <3>2, ReleaseType DEF Suppress, TypeOK, lifeVars, storeVars, sessVars
    <3>3. QED
      BY <3>1, <3>2
  <2>8. QED
    BY <1>10, <2>2, <2>3, <2>4, <2>5, <2>6, <2>7 DEF Deliverer
<1>11. QED
  BY <1>1, <1>2, <1>3, <1>4, <1>5, <1>6, <1>7, <1>8, <1>9, <1>10 DEF Next

-----------------------------------------------------------------------------
(* What a step leaves alone, and what only grows.                          *)

LEMMA BusyStep ==
    ASSUME NEW w \in Worker, Deliverer(w)
    PROVE  Busy(w)
BY AtBusy DEF Deliverer, Query, Check, Deliver, Ask, Push, Mark, Bump, Suppress

(* Push and its result.                                                    *)
LEMMA PushStep ==
    ASSUME TypeOK, NEW w \in Worker, Carries(w), Push(w)
    PROVE  /\ worker[w].build \in Build /\ Carried(w) \in Result
           /\ handed[worker[w].build][Carried(w)] = 0
           /\ handed' \in [Build -> [Result -> Nat]]
           /\ \A b \in Build, r \in Result :
                 handed'[b][r] = IF b = worker[w].build /\ r = Carried(w) THEN 1 ELSE handed[b][r]
           /\ \A b \in Build :
                 pending'[b] = IF b = worker[w].build THEN pending[b] \cup {Carried(w)} ELSE pending[b]
<1>1. Busy(w)
  BY AtBusy DEF Push
<1> DEFINE c == worker[w].build
           r == Carried(w)
<1>2. c \in Build /\ r \in Result /\ handed[c][r] = 0
  BY <1>1, BusyWorker DEF Carries, Push, Carried, Result
<1>3. /\ pending' = [pending EXCEPT ![c] = @ \cup {r}]
      /\ handed' = [handed EXCEPT ![c][r] = @ + 1]
  BY DEF Push, Carried
<1> HIDE DEF c, r
<1>4. /\ handed' \in [Build -> [Result -> Nat]]
      /\ \A b \in Build, q \in Result : handed'[b][q] = IF b = c /\ q = r THEN 1 ELSE handed[b][q]
      /\ \A b \in Build : pending'[b] = IF b = c THEN pending[b] \cup {r} ELSE pending[b]
  <2>1. handed \in [Build -> [Result -> Nat]] /\ pending \in [Build -> SUBSET Result]
    BY DEF TypeOK
  <2>2. \A b \in Build : pending'[b] = IF b = c THEN pending[b] \cup {r} ELSE pending[b]
    BY <1>2, <1>3, <2>1
  <2> DEFINE h == [handed[c] EXCEPT ![r] = 1]
  <2>3. h \in [Result -> Nat] /\ \A q \in Result : h[q] = IF q = r THEN 1 ELSE handed[c][q]
    BY <1>2, <2>1
  <2>4. handed' = [handed EXCEPT ![c] = h]
    BY <1>2, <1>3, <2>1
  <2> HIDE DEF h
  <2>5. QED
    BY <1>2, <2>1, <2>2, <2>3, <2>4
<1>5. QED
  BY <1>2, <1>3, <1>4 DEF c, r

(* Ends of jobs and hand-overs are never taken back.                       *)
Grows ==
    /\ \A b \in Build : finished[b] \subseteq finished'[b]
    /\ \A b \in Build, r \in Result : handed[b][r] > 0 => handed'[b][r] > 0

LEMMA StepGrows == IInv /\ [Next]_vars => Grows
<1> SUFFICES ASSUME IInv, [Next]_vars PROVE Grows
  OBVIOUS
<1>1. CASE UNCHANGED <<finished, handed>>
  BY <1>1 DEF Grows
<1>2. ASSUME NEW b \in Build, NEW i \in Id, JobFinishes(b, i) PROVE Grows
  BY <1>2 DEF JobFinishes, Grows, IInv, TypeOK
<1>3. ASSUME NEW w \in Worker, Push(w) PROVE Grows
  <2>1. finished' = finished
    BY <1>3 DEF Push
  <2>2. TypeOK /\ Carries(w)
    BY DEF IInv, Workers
  <2>3. QED
    BY <1>3, <2>1, <2>2, PushStep DEF Grows, TypeOK
<1>4. QED
  BY <1>1, <1>2, <1>3 DEF Next, vars, histVars, NewBuild, ProcessEnds, OpenStore, Rebind, CloseController,
     Prune, Turn, Claim, Deliverer, Query, Check, Deliver, Ask, Mark, Bump, Suppress

LEMMA ReusedStays ==
    ASSUME Grows, NEW r \in Result, Reused(r)
    PROVE  \E b \in Build \ {r.build} : r.id \in finished'[b]
BY DEF Grows, Reused

LEMMA LivesStep == IInv /\ [Next]_vars => Lives'
<1> SUFFICES ASSUME IInv, [Next]_vars PROVE Lives'
  OBVIOUS
<1> USE DEF IInv, Lives, Live
<1>1. CASE UNCHANGED <<current, phase, opened, handed>>
  BY <1>1
<1>2. CASE NewBuild
  <2>1. current + 1 \in Build /\ current \in Nat /\ phase[current + 1] = "unborn"
    BY <1>2, Bounds DEF NewBuild, TypeOK, Build
  <2>2. /\ current' = current + 1 /\ opened' = opened /\ handed' = handed
        /\ phase' = [phase EXCEPT ![current + 1] = "open"]
    BY <1>2 DEF NewBuild, histVars
  <2>3. phase \in [Build -> {"unborn", "open", "closed", "gone"}]
    BY DEF TypeOK
  <2>4. \A b \in Build : b \in Nat
    BY Bounds
  <2>5. \A b \in Build : b > current' => phase'[b] = "unborn"
    BY <2>1, <2>2, <2>3, <2>4
  <2>6. \A b \in opened : b \in Build
    BY DEF TypeOK
  <2>7. QED
    BY <2>1, <2>2, <2>3, <2>5, <2>6
<1>3. CASE ProcessEnds
  <2>1. /\ current' = current /\ opened' = {} /\ handed' = handed
        /\ phase' = [b \in Build |-> IF Live(b) THEN "gone" ELSE phase[b]]
    BY <1>3 DEF ProcessEnds, histVars
  <2>2. QED
    BY <2>1
<1>4. ASSUME NEW b \in Build, OpenStore(b) PROVE Lives'
  BY <1>4 DEF OpenStore, histVars
<1>5. ASSUME NEW b \in Build, CloseController(b) PROVE Lives'
  <2>1. /\ current' = current /\ opened' = opened /\ handed' = handed
        /\ phase' = [phase EXCEPT ![b] = "closed"] /\ phase[b] = "open"
    BY <1>5 DEF CloseController, histVars
  <2>2. phase \in [Build -> {"unborn", "open", "closed", "gone"}] /\ opened \subseteq Build
    BY DEF TypeOK
  <2>3. b <= current
    BY <2>1, Bounds DEF TypeOK
  <2>4. QED
    BY <2>1, <2>2, <2>3, Bounds
<1>6. ASSUME NEW w \in Worker, Push(w) PROVE Lives'
  <2>1. current' = current /\ phase' = phase /\ opened' = opened
    BY <1>6 DEF Push, lifeVars
  <2>2. Carries(w) /\ Busy(w) /\ worker[w].build \in opened
    BY <1>6, AtBusy DEF Workers, Alone, Push
  <2>3. TypeOK
    BY DEF IInv
  <2>4. \A b \in Build, r \in Result :
           handed'[b][r] = IF b = worker[w].build /\ r = Carried(w) THEN 1 ELSE handed[b][r]
    BY <1>6, <2>2, <2>3, PushStep, ZenonT(20)
  <2>5. ASSUME NEW b \in Build, NEW r \in Result, handed'[b][r] > 0
        PROVE  phase[b] # "unborn" /\ (Live(b) => b \in opened)
    <3>1. CASE b = worker[w].build
      BY <2>2, <3>1
    <3>2. CASE b # worker[w].build
      BY <2>4, <2>5, <3>2
    <3>3. QED
      BY <3>1, <3>2
  <2>6. QED
    BY <2>1, <2>5
<1>7. QED
  BY <1>1, <1>2, <1>3, <1>4, <1>5, <1>6 DEF Next, vars, lifeVars, histVars, Rebind, JobFinishes,
     Prune, Turn, Claim, Deliverer, Query, Check, Deliver, Ask, Mark, Bump, Suppress

-----------------------------------------------------------------------------
(* The rows.                                                               *)

LEMMA SavedRows ==
    ASSUME TypeOK, NEW b \in Build, NEW t \in [Id -> Task \cup {NoTask}], Save(b, t)
    PROVE  /\ \A c \in Build, i \in Id : table'[c][i] = IF c = b THEN t[i] ELSE table[c][i]
           /\ disk' = table'[b] \/ disk' = disk
BY DEF TypeOK, Save, SaveOK, SaveFails

LEMMA SavedRow ==
    ASSUME TypeOK, NEW w \in Worker, Busy(w), NEW t \in Task,
           Save(worker[w].build, Updated(w, t))
    PROVE  /\ \A c \in Build, i \in Id :
                 table'[c][i] = IF c = worker[w].build /\ i = worker[w].id THEN t ELSE table[c][i]
           /\ disk' = table'[worker[w].build] \/ disk' = disk
<1>1. worker[w].build \in Build /\ worker[w].id \in Id
  BY BusyWorker
<1>2. Updated(w, t) \in [Id -> Task \cup {NoTask}]
  BY UpdatedType
<1>3. table[worker[w].build] \in [Id -> Task \cup {NoTask}]
  BY <1>1 DEF TypeOK
<1>4. \A i \in Id : Updated(w, t)[i] = IF i = worker[w].id THEN t ELSE table[worker[w].build][i]
  BY <1>1, <1>3 DEF Updated
<1>5. QED
  BY <1>1, <1>2, <1>4, SavedRows

(* Earned of a row, by what has ended and was handed over after the step.  *)
EarnedNext(t, i) ==
    Known(t) =>
        /\ i \in finished'[t.of]
        /\ (\A b \in Build \ {t.of} : i \notin finished'[b]) =>
               /\ t.delivered => \E b \in Build : handed'[b][Of(t, i)] > 0
               /\ t.suppressed => t.attempts >= MaxAttempts

LEMMA EarnedStays ==
    ASSUME Grows, NEW i \in Id, NEW t \in Task \cup {NoTask}, Earned(t, i)
    PROVE  EarnedNext(t, i)
<1>1. CASE t = NoTask
  BY <1>1 DEF EarnedNext, Known
<1>2. CASE t \in Task
  <2>1. t.of \in Build /\ Of(t, i) \in Result
    BY <1>2 DEF Task, Of, Result
  <2>2. QED
    BY <2>1 DEF Earned, EarnedNext, Grows, Reused, Handed, Of
<1>3. QED
  BY <1>1, <1>2

(* The table of a build, row by row, gives those of its file.              *)
LEMMA RowsFollow ==
    ASSUME TypeOK, Rows, Grows, NEW b \in Build,
           disk' = table'[b] \/ disk' = disk,
           \A c \in Build, i \in Id : table'[c][i] # table[c][i] => EarnedNext(table'[c][i], i)
    PROVE  Rows'
<1>1. ASSUME NEW c \in Build, NEW i \in Id PROVE EarnedNext(table'[c][i], i)
  <2>1. table[c][i] \in Task \cup {NoTask} /\ Earned(table[c][i], i)
    BY DEF TypeOK, Rows
  <2>2. EarnedNext(table[c][i], i)
    BY <2>1, EarnedStays
  <2>3. QED
    BY <2>2
<1>2. ASSUME NEW i \in Id PROVE EarnedNext(disk'[i], i)
  <2>1. disk[i] \in Task \cup {NoTask} /\ Earned(disk[i], i)
    BY DEF TypeOK, Rows
  <2>2. EarnedNext(disk[i], i)
    BY <2>1, EarnedStays
  <2>3. QED
    BY <1>1, <2>2
<1>3. QED
  BY <1>1, <1>2 DEF Rows, Earned, EarnedNext, Reused, Handed, Of

(* What a finished job puts: marks carried over from the row of another    *)
(* build, whose number is the same.                                        *)
LEMMA PutRow ==
    ASSUME TypeOK, Rows, NEW b \in Build, NEW i \in Id, i \notin finished[b]
    PROVE  /\ \A j \in Id \ {i} : PutTask(b, i)[j] = table[b][j]
           /\ PutTask(b, i)[i] \in Task
           /\ PutTask(b, i)[i].of = b
           /\ PutTask(b, i)[i].delivered \/ PutTask(b, i)[i].suppressed =>
                 \E c \in Build \ {b} : i \in finished[c]
<1> DEFINE prev == table[b][i]
           row == IF Known(prev) /\ prev.delivered
                    THEN [NewTask(b) EXCEPT !.delivered = TRUE, !.suppressed = prev.suppressed]
                    ELSE NewTask(b)
<1>1. Known(prev) => prev \in Task /\ prev.of \in Build /\ prev.suppressed \in BOOLEAN /\ i \in finished[prev.of]
  BY KnownRow DEF Rows, Earned, Task
<1>2. row \in Task /\ row.of = b
  BY <1>1 DEF NewTask, Task
<1>3. row.delivered \/ row.suppressed => Known(prev)
  BY DEF NewTask
<1>4. table[b] \in [Id -> Task \cup {NoTask}]
  BY DEF TypeOK
<1>5. PutTask(b, i) = [table[b] EXCEPT ![i] = row]
  BY DEF PutTask
<1> HIDE DEF row, prev
<1>6. QED
  BY <1>1, <1>2, <1>3, <1>4, <1>5

LEMMA RowsStep == IInv /\ [Next]_vars => Rows'
<1> SUFFICES ASSUME IInv, [Next]_vars PROVE Rows'
  OBVIOUS
<1>1. TypeOK /\ Rows /\ Grows
  BY StepGrows DEF IInv
<1>2. CASE UNCHANGED <<table, disk>>
  <2>1. 1 \in Build
    BY Bounds DEF Build
  <2>2. QED
    BY <1>1, <1>2, <2>1, RowsFollow
<1>3. CASE ProcessEnds
  <2>1. disk' = disk /\ \A b \in Build, i \in Id : table'[b][i] = NoTask
    BY <1>3 DEF ProcessEnds
  <2>2. EarnedNext(NoTask, 1) /\ 1 \in Build /\ \A i : EarnedNext(NoTask, i)
    BY Bounds DEF EarnedNext, Known, Build
  <2>3. QED
    BY <1>1, <2>1, <2>2, RowsFollow
<1>4. ASSUME NEW b \in Build, OpenStore(b) PROVE Rows'
  <2>1. disk' = disk /\ \A c \in Build : table'[c] = IF c = b THEN disk ELSE table[c]
    BY <1>1, <1>4 DEF OpenStore, TypeOK
  <2>2. \A i \in Id : EarnedNext(disk[i], i)
    <3>1. \A i \in Id : disk[i] \in Task \cup {NoTask} /\ Earned(disk[i], i)
      BY <1>1 DEF TypeOK, Rows
    <3>2. QED
      BY <1>1, <3>1, EarnedStays
  <2>3. QED
    BY <1>1, <2>1, <2>2, RowsFollow
<1>5. ASSUME NEW b \in Build, Prune(b) PROVE Rows'
  <2>1. PICK old \in SUBSET Id :
          Save(b, [i \in Id |-> IF i \in old THEN NoTask ELSE table[b][i]])
    BY <1>5 DEF Prune
  <2>2. [i \in Id |-> IF i \in old THEN NoTask ELSE table[b][i]] \in [Id -> Task \cup {NoTask}]
    BY <1>1, KnownRow
  <2>3. \A c \in Build, i \in Id : table'[c][i] \in {NoTask, table[c][i]}
    BY <1>1, <2>1, <2>2, SavedRows
  <2>4. disk' = table'[b] \/ disk' = disk
    BY <1>1, <2>1, <2>2, SavedRows
  <2>5. \A i : EarnedNext(NoTask, i)
    BY DEF EarnedNext, Known
  <2>6. QED
    BY <1>1, <2>3, <2>4, <2>5, RowsFollow
<1>6. ASSUME NEW b \in Build, NEW i \in Id, JobFinishes(b, i) PROVE Rows'
  <2>1. /\ Save(b, PutTask(b, i)) /\ i \notin finished[b]
        /\ finished' = [finished EXCEPT ![b] = @ \cup {i}]
    BY <1>6 DEF JobFinishes, Save
  <2>2. PutTask(b, i) \in [Id -> Task \cup {NoTask}]
    BY <1>1, PutType
  <2>3. /\ \A c \in Build, j \in Id : table'[c][j] = IF c = b /\ j = i THEN PutTask(b, i)[i] ELSE table[c][j]
        /\ disk' = table'[b] \/ disk' = disk
    BY <1>1, <2>1, <2>2, SavedRows, PutRow
  <2>4. EarnedNext(PutTask(b, i)[i], i)
    <3>1. i \in finished'[b]
      BY <1>1, <2>1 DEF TypeOK
    <3>2. \A c \in Build : i \in finished[c] => i \in finished'[c]
      BY <1>1 DEF Grows
    <3>3. QED
      BY <1>1, <2>1, <3>1, <3>2, PutRow DEF EarnedNext
  <2>5. QED
    BY <1>1, <2>3, <2>4, RowsFollow
<1>7. ASSUME NEW w \in Worker, Deliverer(w), ~UNCHANGED <<table, disk>> PROVE Rows'
  <2> DEFINE b == worker[w].build
             i == worker[w].id
  <2>1. Busy(w) /\ Carries(w)
    BY <1>7, BusyStep DEF IInv, Workers
  <2>2. Known(Row(w))
    BY <1>7 DEF Deliverer, Query, Check, Deliver, Ask, Push, Mark, Bump, Suppress, storeVars
  <2>3. Row(w) \in Task /\ Row(w).of \in Build /\ Row(w).attempts \in Nat /\ b \in Build /\ i \in Id
    BY <1>1, <2>1, <2>2, BusyWorker, RowOf DEF Task
  <2>4. Earned(Row(w), i) /\ EarnedNext(Row(w), i)
    BY <1>1, <2>3, EarnedStays DEF Rows, Row
  <2>5. ASSUME NEW t \in Task, Save(b, Updated(w, t)), EarnedNext(t, i) PROVE Rows'
    BY <1>1, <2>1, <2>3, <2>5, SavedRow, RowsFollow
  <2>6. /\ worker[w].of \in Build /\ i \in finished[worker[w].of]
        /\ worker[w].of # Row(w).of => Reused(Of(Row(w), i))
        /\ Row(w).suppressed => Reused(Of(Row(w), i))
        /\ worker[w].pc = "suppress" /\ ~Reused(Of(Row(w), i)) => Row(w).attempts >= MaxAttempts
        /\ worker[w].pc = "mark" => handed[b][Carried(w)] > 0
    <3>1. worker[w].pc # "query"
      BY <1>7 DEF Deliverer, Query, Check, Deliver, Ask, Push, Mark, Bump, Suppress, storeVars
    <3>2. QED
      BY <2>1, <2>2, <3>1 DEF Carries, Reused, Of
  <2>7. Reused(Of(Row(w), i)) => \E c \in Build \ {Row(w).of} : i \in finished'[c]
    BY <1>1 DEF Grows, Reused, Of
  <2>8. CASE Mark(w)
    <3> DEFINE t == [Row(w) EXCEPT !.delivered = TRUE, !.attempts = 0]
    <3>1. t \in Task /\ t.of = Row(w).of /\ t.suppressed = Row(w).suppressed
      BY <2>3, MarkedTask DEF Task
    <3>2. Save(b, Updated(w, t))
      BY <2>2, <2>8 DEF Mark
    <3>3. worker[w].of = Row(w).of => \E c \in Build : handed'[c][Of(t, i)] > 0
      <4>1. handed' = handed /\ worker[w].pc = "mark"
        BY <2>8 DEF Mark, histVars
      <4>2. QED
        BY <2>3, <2>6, <3>1, <4>1 DEF Carried, Of
    <3>4. EarnedNext(t, i)
      <4> HIDE DEF t
      <4>1. i \in finished'[t.of]
        BY <2>4, <2>2, <3>1 DEF EarnedNext
      <4>2. QED
        BY <2>6, <2>7, <3>1, <3>3, <4>1 DEF EarnedNext
    <3>5. QED
      BY <2>5, <3>1, <3>2, <3>4
  <2>9. CASE Bump(w)
    <3> DEFINE n == Row(w).attempts + 1
               t == [Row(w) EXCEPT !.attempts = n]
    <3>1. /\ t \in Task /\ t.of = Row(w).of /\ t.suppressed = Row(w).suppressed
          /\ t.delivered = Row(w).delivered
      BY <2>3 DEF Task
    <3>2. Save(b, Updated(w, t))
      BY <2>2, <2>9 DEF Bump, Save
    <3>3. Of(t, i) = Of(Row(w), i)
      BY <3>1 DEF Of
    <3>4. EarnedNext(t, i)
      <4> HIDE DEF t
      <4>1. QED
        BY <2>2, <2>4, <2>6, <2>7, <3>1, <3>3 DEF EarnedNext
    <3>5. QED
      BY <2>5, <3>1, <3>2, <3>4
  <2>10. CASE Suppress(w)
    <3> DEFINE t == [Row(w) EXCEPT !.suppressed = TRUE]
    <3>1. /\ t \in Task /\ t.of = Row(w).of /\ t.attempts = Row(w).attempts
          /\ t.delivered = Row(w).delivered
      BY <2>3 DEF Task
    <3>2. Save(b, Updated(w, t))
      BY <2>2, <2>10 DEF Suppress
    <3>3. Of(t, i) = Of(Row(w), i)
      BY <3>1 DEF Of
    <3>4. worker[w].pc = "suppress"
      BY <2>10 DEF Suppress
    <3>5. EarnedNext(t, i)
      <4> HIDE DEF t
      <4>1. QED
        BY <2>2, <2>4, <2>6, <2>7, <3>1, <3>3, <3>4 DEF EarnedNext
    <3>6. QED
      BY <2>5, <3>1, <3>2, <3>5
  <2>11. QED
    BY <1>7, <2>8, <2>9, <2>10 DEF Deliverer, Query, Check, Deliver, Ask, Push, storeVars
<1>8. QED
  BY <1>2, <1>3, <1>4, <1>5, <1>6, <1>7 DEF Next, vars, storeVars, NewBuild, Rebind, CloseController, Turn, Claim

-----------------------------------------------------------------------------
(* What was handed over stays recognisable.                                *)

(* The row a step leaves in the place of t, for the result r.              *)
Follows(t, u, r) ==
    Known(u) /\ u.of = r.build =>
        /\ Known(t) /\ t.of = r.build
        /\ t.delivered => u.delivered
        /\ u.suppressed => t.suppressed

LEMMA RecognisedStays ==
    ASSUME Grows, NEW b \in Build, NEW r \in Result, Recognised(b, r),
           handed'[b][r] = handed[b][r],
           Follows(table[b][r.id], table'[b][r.id], r),
           Marking(b, r) => Marking(b, r)'
    PROVE  Recognised(b, r)'
<1>1. r.build \in Build /\ r.id \in Id
  BY DEF Result
<1>2. Reused(r) => Reused(r)'
  BY <1>1 DEF Grows, Reused
<1>3. r.id \in finished[r.build] => r.id \in finished'[r.build]
  BY <1>1 DEF Grows
<1>4. QED
  BY <1>2, <1>3 DEF Recognised, Follows

LEMMA SameRowFollows == ASSUME NEW t, NEW r PROVE Follows(t, t, r) /\ Follows(t, NoTask, r)
BY DEF Follows, Known

(* A goroutine that was not about to mark the row takes nothing away.      *)
LEMMA OthersMark ==
    ASSUME TypeOK, NEW w \in Worker, NEW s, worker' = [worker EXCEPT ![w] = s], NEW b, NEW r,
           worker[w] # [pc |-> "mark", build |-> b, id |-> r.id, of |-> r.build],
           Marking(b, r)
    PROVE  Marking(b, r)'
BY DEF Marking, TypeOK

LEMMA WorkerMoves ==
    ASSUME TypeOK, NEW w \in Worker, Deliverer(w), ~Push(w)
    PROVE  /\ \E s : worker' = [worker EXCEPT ![w] = s]
           /\ handed' = handed /\ finished' = finished
BY DEF Deliverer, Query, Check, Deliver, Ask, Mark, Bump, Suppress, Step, Release, histVars

(* A goroutine writes no row but its own, and its own only if it is there. *)
LEMMA OwnRow ==
    ASSUME TypeOK, NEW w \in Worker, Deliverer(w)
    PROVE  \/ /\ Known(Row(w)) /\ Row(w) \in Task
              /\ \E t \in Task :
                   /\ Save(worker[w].build, Updated(w, t))
                   /\ t.of = Row(w).of
                   /\ \A c \in Build, i \in Id :
                        table'[c][i] = IF c = worker[w].build /\ i = worker[w].id THEN t ELSE table[c][i]
                   /\ \/ Mark(w) /\ t.delivered /\ t.suppressed = Row(w).suppressed
                      \/ Bump(w) /\ t.delivered = Row(w).delivered /\ t.suppressed = Row(w).suppressed
                                 /\ t.attempts = Row(w).attempts + 1
                      \/ Suppress(w) /\ t.delivered = Row(w).delivered /\ t.attempts = Row(w).attempts
                                     /\ t.suppressed
           \/ UNCHANGED <<table, disk, stale>> /\ (Mark(w) \/ Bump(w) \/ Suppress(w) => ~Known(Row(w)))
<1>1. Busy(w)
  BY BusyStep
<1>2. CASE ~Known(Row(w)) \/ Query(w) \/ Check(w) \/ Deliver(w) \/ Push(w)
  BY <1>2 DEF Deliverer, Query, Check, Deliver, Ask, Push, Mark, Bump, Suppress, storeVars
<1>3. ASSUME Known(Row(w)), NEW t \in Task, Save(worker[w].build, Updated(w, t))
      PROVE  \A c \in Build, i \in Id :
               table'[c][i] = IF c = worker[w].build /\ i = worker[w].id THEN t ELSE table[c][i]
  BY <1>1, <1>3, SavedRow
<1>4. CASE Known(Row(w)) /\ Mark(w)
  <2> DEFINE t == [Row(w) EXCEPT !.delivered = TRUE, !.attempts = 0]
  <2>1. Row(w) \in Task /\ t \in Task /\ t.of = Row(w).of /\ t.delivered /\ t.suppressed = Row(w).suppressed
    BY <1>1, <1>4, RowOf, MarkedTask DEF Task
  <2>2. Save(worker[w].build, Updated(w, t))
    BY <1>4 DEF Mark
  <2> HIDE DEF t
  <2>3. QED
    BY <1>3, <1>4, <2>1, <2>2
<1>5. CASE Known(Row(w)) /\ Bump(w)
  <2> DEFINE n == Row(w).attempts + 1
             t == [Row(w) EXCEPT !.attempts = n]
  <2>1. Row(w) \in Task
    BY <1>1, <1>5, RowOf
  <2>2. t \in Task /\ t.of = Row(w).of /\ t.delivered = Row(w).delivered /\ t.suppressed = Row(w).suppressed
        /\ t.attempts = Row(w).attempts + 1
    BY <2>1 DEF Task
  <2>3. Save(worker[w].build, Updated(w, t))
    BY <1>5 DEF Bump, Save
  <2> HIDE DEF t
  <2>4. QED
    BY <1>3, <1>5, <2>1, <2>2, <2>3
<1>6. CASE Known(Row(w)) /\ Suppress(w)
  <2> DEFINE t == [Row(w) EXCEPT !.suppressed = TRUE]
  <2>1. Row(w) \in Task
    BY <1>1, <1>6, RowOf
  <2>2. t \in Task /\ t.of = Row(w).of /\ t.delivered = Row(w).delivered /\ t.attempts = Row(w).attempts
        /\ t.suppressed
    BY <2>1 DEF Task
  <2>3. Save(worker[w].build, Updated(w, t))
    BY <1>6 DEF Suppress
  <2> HIDE DEF t
  <2>4. QED
    BY <1>3, <1>6, <2>1, <2>2, <2>3
<1>7. QED
  BY <1>2, <1>4, <1>5, <1>6 DEF Deliverer

LEMMA HandOversStep == IInv /\ [Next]_vars => HandOvers'
<1> SUFFICES ASSUME IInv, [Next]_vars, NEW b \in Build, NEW r \in Result
             PROVE  Recognised(b, r)'
  BY DEF HandOvers
<1>1. TypeOK /\ Recognised(b, r) /\ Grows /\ handed[b][r] \in Nat
  BY StepGrows DEF IInv, HandOvers, TypeOK
<1>2. r.build \in Build /\ r.id \in Id
  BY DEF Result
<1>3. CASE UNCHANGED <<table, worker, handed>>
  <2>1. Marking(b, r) => Marking(b, r)'
    BY <1>3 DEF Marking
  <2>2. QED
    BY <1>1, <1>3, <2>1, SameRowFollows, RecognisedStays
<1>4. CASE ProcessEnds
  <2>1. table'[b][r.id] = NoTask /\ handed' = handed
    BY <1>2, <1>4 DEF ProcessEnds, histVars
  <2>2. r.id \in finished[r.build] => r.id \in finished'[r.build]
    BY <1>1, <1>2 DEF Grows
  <2>3. QED
    BY <1>1, <2>1, <2>2 DEF Recognised, Known
<1>5. ASSUME NEW c \in Build, OpenStore(c) PROVE Recognised(b, r)'
  <2>1. handed' = handed /\ worker' = worker /\ table' = [table EXCEPT ![c] = disk]
    BY <1>5 DEF OpenStore, workVars, histVars
  <2>2. CASE b = c
    <3>1. handed[b][r] = 0
      BY <1>1, <1>5, <2>2 DEF IInv, Lives, OpenStore
    <3>2. QED
      BY <2>1, <3>1 DEF Recognised
  <2>3. CASE b # c
    <3>1. table'[b] = table[b]
      BY <1>1, <2>1, <2>3 DEF TypeOK
    <3>2. Marking(b, r) => Marking(b, r)'
      BY <2>1 DEF Marking
    <3>3. QED
      BY <1>1, <2>1, <3>1, <3>2, SameRowFollows, RecognisedStays
  <2>4. QED
    BY <2>2, <2>3
<1>6. ASSUME NEW c \in Build, Prune(c) PROVE Recognised(b, r)'
  <2>1. PICK old \in SUBSET Id :
          Save(c, [i \in Id |-> IF i \in old THEN NoTask ELSE table[c][i]])
    BY <1>6 DEF Prune
  <2>2. [i \in Id |-> IF i \in old THEN NoTask ELSE table[c][i]] \in [Id -> Task \cup {NoTask}]
    BY <1>1, KnownRow
  <2>3. table'[b][r.id] \in {NoTask, table[b][r.id]}
    BY <1>1, <1>2, <2>1, <2>2, SavedRows
  <2>4. handed' = handed /\ worker' = worker
    BY <1>6 DEF Prune, histVars, workVars
  <2>5. Marking(b, r) => Marking(b, r)'
    BY <2>4 DEF Marking
  <2>6. QED
    BY <1>1, <2>3, <2>4, <2>5, SameRowFollows, RecognisedStays
<1>7. ASSUME NEW c \in Build, NEW i \in Id, JobFinishes(c, i) PROVE Recognised(b, r)'
  <2>1. /\ Save(c, PutTask(c, i)) /\ i \notin finished[c]
        /\ handed' = handed /\ worker' = worker
    BY <1>7 DEF JobFinishes, Save, workVars
  <2>2. PutTask(c, i) \in [Id -> Task \cup {NoTask}]
    BY <1>1, PutType
  <2>3. table'[b][r.id] = IF b = c /\ r.id = i THEN PutTask(c, i)[i] ELSE table[b][r.id]
    BY <1>1, <1>2, <2>1, <2>2, SavedRows, PutRow DEF IInv
  <2>4. Marking(b, r) => Marking(b, r)'
    BY <2>1 DEF Marking
  <2>5. CASE handed[b][r] > 0
    <3>1. ~(r.build = c /\ r.id = i)
      BY <1>1, <2>1, <2>5 DEF Recognised
    <3>2. b = c /\ r.id = i => PutTask(c, i)[i].of # r.build
      BY <1>1, <2>1, <3>1, PutRow DEF IInv
    <3>3. Follows(table[b][r.id], table'[b][r.id], r)
      BY <2>3, <3>2, SameRowFollows DEF Follows
    <3>4. QED
      BY <1>1, <2>1, <2>4, <3>3, RecognisedStays
  <2>6. CASE ~(handed[b][r] > 0)
    BY <2>1, <2>6 DEF Recognised
  <2>7. QED
    BY <2>5, <2>6
<1>8. ASSUME NEW w \in Worker, NEW c \in Build, NEW i \in Id, Claim(w, c, i) PROVE Recognised(b, r)'
  <2>1. /\ worker' = [worker EXCEPT ![w] = [pc |-> "query", build |-> c, id |-> i, of |-> 0]]
        /\ worker[w] = Idle /\ table' = table /\ handed' = handed
    BY <1>8 DEF Claim, storeVars, histVars
  <2>2. worker[w] # [pc |-> "mark", build |-> b, id |-> r.id, of |-> r.build]
    BY <2>1 DEF Idle
  <2>3. Marking(b, r) => Marking(b, r)'
    BY <1>1, <2>1, <2>2, OthersMark
  <2>4. QED
    BY <1>1, <2>1, <2>3, SameRowFollows, RecognisedStays
<1>9. ASSUME NEW w \in Worker, Deliverer(w) PROVE Recognised(b, r)'
  <2>1. Busy(w) /\ Carries(w)
    BY <1>9, BusyStep DEF IInv, Workers
  <2>2. worker[w].build \in Build /\ worker[w].id \in Id
    BY <1>1, <2>1, BusyWorker
  <2> DEFINE marker == [pc |-> "mark", build |-> b, id |-> r.id, of |-> r.build]
  <2>3. CASE Push(w)
    <3>1. table' = table /\ worker' = [worker EXCEPT ![w].pc = "mark"] /\ worker[w].pc = "push"
      BY <2>3 DEF Push, Step, storeVars
    <3>2. CASE b = worker[w].build /\ r = Carried(w)
      <4>1. handed'[b][r] = 1
        BY <1>1, <2>1, <2>3, <3>2, PushStep
      <4>2. worker[w] \in WorkerState
        BY <1>1, <2>1, BusyWorker
      <4>3. worker'[w] = marker
        BY <1>1, <3>1, <3>2, <4>2 DEF Carried, WorkerState, TypeOK
      <4>4. Marking(b, r)'
        BY <4>3 DEF Marking
      <4>5. r.id \in finished'[r.build]
        BY <1>1, <1>2, <2>1, <3>1, <3>2 DEF Carries, Carried, Grows
      <4>6. Known(Row(w)) /\ Row(w).of = r.build /\ Row(w).suppressed => Reused(r)
        BY <2>1, <3>1, <3>2 DEF Carries, Carried, Of
      <4>7. Reused(r) => Reused(r)'
        BY <1>1, <1>2 DEF Grows, Reused
      <4>8. Row(w) = table'[b][r.id]
        BY <3>1, <3>2 DEF Row, Carried
      <4>9. QED
        BY <4>1, <4>4, <4>5, <4>6, <4>7, <4>8 DEF Recognised
    <3>3. CASE ~(b = worker[w].build /\ r = Carried(w))
      <4>1. handed'[b][r] = handed[b][r]
        BY <1>1, <2>1, <2>3, <3>3, PushStep
      <4>2. worker[w] # marker
        BY <3>1
      <4>3. Marking(b, r) => Marking(b, r)'
        BY <1>1, <3>1, <4>2, OthersMark
      <4>4. QED
        BY <1>1, <3>1, <4>1, <4>3, SameRowFollows, RecognisedStays
    <3>4. QED
      BY <3>2, <3>3
  <2>4. CASE Mark(w)
    <3>1. handed' = handed /\ \E s : worker' = [worker EXCEPT ![w] = s]
      BY <2>4 DEF Mark, Release, histVars
    <3>2. CASE Known(Row(w)) /\ b = worker[w].build /\ r.id = worker[w].id
      <4> DEFINE t == [Row(w) EXCEPT !.delivered = TRUE, !.attempts = 0]
      <4>1. Row(w) \in Task /\ t \in Task
        BY <1>1, <2>1, <3>2, RowOf, MarkedTask
      <4>2. t.delivered /\ t.suppressed = Row(w).suppressed /\ t.of = Row(w).of
        BY <4>1 DEF Task
      <4>3. Save(worker[w].build, Updated(w, t))
        BY <2>4, <3>2 DEF Mark
      <4>4. table'[b][r.id] = t /\ table[b][r.id] = Row(w)
        BY <1>1, <2>1, <2>2, <3>2, <4>1, <4>3, SavedRow DEF Row
      <4>5. (Reused(r) => Reused(r)') /\ (r.id \in finished[r.build] => r.id \in finished'[r.build])
        BY <1>1, <1>2 DEF Grows, Reused
      <4> HIDE DEF t
      <4>6. QED
        BY <1>1, <3>1, <3>2, <4>2, <4>4, <4>5 DEF Recognised
    <3>3. CASE ~(b = worker[w].build /\ r.id = worker[w].id)
      <4>1. worker[w] # marker
        BY <3>3
      <4>2. table'[b][r.id] = table[b][r.id]
        <5>1. CASE Known(Row(w))
          <6>1. [Row(w) EXCEPT !.delivered = TRUE, !.attempts = 0] \in Task
            BY <1>1, <2>1, <5>1, RowOf, MarkedTask
          <6>2. Save(worker[w].build, Updated(w, [Row(w) EXCEPT !.delivered = TRUE, !.attempts = 0]))
            BY <2>4, <5>1 DEF Mark
          <6>3. QED
            BY <1>1, <1>2, <2>1, <2>2, <3>3, <6>1, <6>2, SavedRow
        <5>2. CASE ~Known(Row(w))
          BY <2>4, <5>2 DEF Mark, storeVars
        <5>3. QED
          BY <5>1, <5>2
      <4>3. Marking(b, r) => Marking(b, r)'
        BY <1>1, <3>1, <4>1, OthersMark
      <4>4. QED
        BY <1>1, <3>1, <4>2, <4>3, SameRowFollows, RecognisedStays
    <3>4. CASE ~Known(Row(w)) /\ b = worker[w].build /\ r.id = worker[w].id
      <4>1. table'[b][r.id] = Row(w)
        BY <2>4, <3>4 DEF Mark, storeVars, Row
      <4>2. r.id \in finished[r.build] => r.id \in finished'[r.build]
        BY <1>1, <1>2 DEF Grows
      <4>3. QED
        BY <1>1, <3>1, <3>4, <4>1, <4>2 DEF Recognised
    <3>5. QED
      BY <3>2, <3>3, <3>4
  <2>5. CASE Bump(w) \/ Suppress(w) \/ Query(w) \/ Check(w) \/ Deliver(w)
    <3>1. worker[w] # marker
      BY <2>5 DEF Bump, Suppress, Query, Check, Deliver, Ask
    <3>2. handed' = handed /\ \E s : worker' = [worker EXCEPT ![w] = s]
      BY <1>1, <1>9, <2>5, WorkerMoves DEF Push, Bump, Suppress, Query, Check, Deliver, Ask
    <3>3. Marking(b, r) => Marking(b, r)'
      BY <1>1, <3>1, <3>2, OthersMark
    <3>4. CASE table' = table
      BY <1>1, <3>2, <3>3, <3>4, SameRowFollows, RecognisedStays
    <3>5. ASSUME NEW t \in Task, Row(w) \in Task, Known(Row(w)), t.of = Row(w).of,
                 table'[b][r.id] = t, b = worker[w].build, r.id = worker[w].id,
                 \/ t.delivered = Row(w).delivered /\ t.suppressed = Row(w).suppressed
                 \/ Suppress(w) /\ t.delivered = Row(w).delivered
          PROVE  Recognised(b, r)'
      <4>1. table[b][r.id] = Row(w)
        BY <3>5 DEF Row
      <4>2. CASE t.suppressed = Row(w).suppressed
        <5>1. Follows(Row(w), t, r)
          BY <3>5, <4>2 DEF Follows
        <5>2. QED
          BY <1>1, <3>2, <3>3, <3>5, <4>1, <5>1, RecognisedStays
      <4>3. CASE Suppress(w)
        <5>1. CASE handed[b][r] > 0
          <6>1. /\ handed[b][r] = 1 /\ r.id \in finished[r.build]
                /\ t.of = r.build => t.delivered \/ Marking(b, r)
            BY <1>1, <3>5, <4>1, <5>1 DEF Recognised
          <6>2. handed[b][Carried(w)] = 0 /\ worker[w].of \in Build /\ worker[w].id \in finished[worker[w].of]
            BY <2>1, <3>5, <4>3 DEF Carries, Suppress
          <6>3. r.build # worker[w].of
            <7>1. r = [build |-> r.build, id |-> r.id]
              BY DEF Result
            <7>2. QED
              BY <3>5, <5>1, <6>2, <7>1 DEF Carried
          <6>4. Reused(r)
            BY <3>5, <6>2, <6>3 DEF Reused
          <6>5. Reused(r)' /\ r.id \in finished'[r.build]
            BY <1>1, <1>2, <6>1, <6>4 DEF Grows, Reused
          <6>6. QED
            BY <3>2, <3>3, <3>5, <6>1, <6>5 DEF Recognised
        <5>2. CASE ~(handed[b][r] > 0)
          BY <3>2, <5>2 DEF Recognised
        <5>3. QED
          BY <5>1, <5>2
      <4>4. QED
        BY <3>5, <4>2, <4>3
    <3>6. CASE table'[b][r.id] = table[b][r.id]
      BY <1>1, <3>2, <3>3, <3>6, SameRowFollows, RecognisedStays
    <3>7. ~Mark(w)
      BY <2>5 DEF Mark, Bump, Suppress, Query, Check, Deliver, Ask
    <3>8. QED
      BY <1>1, <1>2, <1>9, <3>4, <3>5, <3>6, <3>7, OwnRow
  <2>6. QED
    BY <1>9, <2>3, <2>4, <2>5 DEF Deliverer
<1>10. QED
  BY <1>3, <1>4, <1>5, <1>6, <1>7, <1>8, <1>9 DEF Next, vars, storeVars, workVars, histVars, NewBuild,
     Rebind, CloseController, Turn

-----------------------------------------------------------------------------
(* The goroutines in DeliverNow.                                           *)

(* What a deliverer's step does to the goroutines: itself, and nobody else.*)
LEMMA OwnWorker ==
    ASSUME TypeOK, NEW w \in Worker, Deliverer(w)
    PROVE  /\ opened' = opened
           /\ \A v \in Worker : v # w => worker'[v] = worker[v]
           /\ \/ Release(w) /\ worker'[w] = Idle
              \/ /\ inflight' = inflight /\ worker'[w] \in WorkerState
                 /\ worker'[w].build = worker[w].build /\ worker'[w].id = worker[w].id
                 /\ worker'[w].of = IF Query(w) THEN Row(w).of ELSE worker[w].of
                 /\ Query(w) => Deliverable(Row(w)) /\ worker'[w].pc = "check"
                 /\ Push(w) => worker'[w].pc = "mark"
                 /\ Check(w) => worker'[w].pc \in {"deliver", "bump"}
                 /\ Deliver(w) => worker'[w].pc \in {"push", "bump"}
                 /\ Bump(w) => /\ worker'[w].pc = "suppress" /\ Known(Row(w))
                               /\ Row(w).attempts + 1 >= MaxAttempts
                 /\ ~Mark(w) /\ ~Suppress(w)
<1>1. opened' = opened
  BY DEF Deliverer, Query, Check, Deliver, Ask, Push, Mark, Bump, Suppress, lifeVars
<1>2. worker[w] \in WorkerState /\ worker \in [Worker -> WorkerState \cup {Idle}]
  BY BusyStep, BusyWorker DEF TypeOK
<1>3. CASE Release(w)
  BY <1>1, <1>2, <1>3 DEF Release
<1>4. CASE Query(w) /\ Deliverable(Row(w))
  <2>1. /\ worker' = [worker EXCEPT ![w].pc = "check", ![w].of = Row(w).of]
        /\ inflight' = inflight /\ worker[w].pc = "query"
    BY <1>4 DEF Query, Row
  <2>2. Row(w).of \in 0..MaxBuild
    BY <1>4, BusyStep, RowOf, Bounds DEF Deliverable, Task, Build
  <2>3. /\ worker'[w] = [worker[w] EXCEPT !.pc = "check", !.of = Row(w).of]
        /\ \A v \in Worker : v # w => worker'[v] = worker[v]
    BY <1>2, <2>1
  <2>4. QED
    BY <1>1, <1>2, <1>4, <2>1, <2>2, <2>3
       DEF WorkerState, Push, Check, Deliver, Ask, Bump, Mark, Suppress
<1>5. ASSUME NEW pc \in {"deliver", "bump", "push", "mark", "suppress"}, Step(w, pc)
      PROVE  /\ \A v \in Worker : v # w => worker'[v] = worker[v]
             /\ worker'[w] \in WorkerState /\ worker'[w].pc = pc
             /\ worker'[w].build = worker[w].build /\ worker'[w].id = worker[w].id
             /\ worker'[w].of = worker[w].of
  <2>1. /\ worker'[w] = [worker[w] EXCEPT !.pc = pc]
        /\ \A v \in Worker : v # w => worker'[v] = worker[v]
    BY <1>2, <1>5 DEF Step
  <2>2. QED
    BY <1>2, <2>1 DEF WorkerState
<1>6. CASE Check(w)
  BY <1>1, <1>5, <1>6 DEF Query, Check, Deliver, Ask, Push, Mark, Bump, Suppress
<1>7. CASE Deliver(w)
  BY <1>1, <1>5, <1>7 DEF Query, Check, Deliver, Ask, Push, Mark, Bump, Suppress
<1>8. CASE Push(w)
  BY <1>1, <1>5, <1>8 DEF Query, Check, Deliver, Ask, Push, Mark, Bump, Suppress
<1>9. CASE Bump(w) /\ ~Release(w)
  <2>1. /\ Known(Row(w)) /\ Row(w).attempts + 1 >= MaxAttempts
        /\ Step(w, "suppress") /\ inflight' = inflight
    BY <1>9 DEF Bump
  <2>2. QED
    BY <1>1, <1>5, <1>9, <2>1 DEF Query, Check, Deliver, Ask, Push, Mark, Bump, Suppress
<1>10. QED
  BY <1>3, <1>4, <1>6, <1>7, <1>8, <1>9 DEF Deliverer, Query, Row, Mark, Suppress

LEMMA AloneStep == IInv /\ [Next]_vars => Alone'
<1> SUFFICES ASSUME IInv, [Next]_vars PROVE Alone'
  OBVIOUS
<1>1. TypeOK /\ Alone
  BY DEF IInv, Workers
<1>2. CASE UNCHANGED <<worker, inflight, opened>>
  BY <1>1, <1>2 DEF Alone, Busy, Key
<1>3. CASE ProcessEnds
  BY <1>3 DEF ProcessEnds, Alone, Busy
<1>4. ASSUME NEW b \in Build, OpenStore(b) PROVE Alone'
  BY <1>1, <1>4 DEF OpenStore, workVars, Alone, Busy, Key
<1>5. ASSUME NEW w \in Worker, NEW b \in Build, NEW i \in Id, Claim(w, b, i) PROVE Alone'
  <2>1. /\ worker'[w] = [pc |-> "query", build |-> b, id |-> i, of |-> 0]
        /\ \A v \in Worker : v # w => worker'[v] = worker[v]
        /\ b \in opened /\ opened' = opened /\ inflight' = inflight \cup {[build |-> b, id |-> i]}
        /\ [build |-> b, id |-> i] \notin inflight
    BY <1>1, <1>5 DEF Claim, TypeOK, lifeVars
  <2>2. QED
    BY <1>1, <2>1 DEF Alone, Busy, Key
<1>6. ASSUME NEW w \in Worker, Deliverer(w) PROVE Alone'
  <2>1. Busy(w)
    BY <1>6, BusyStep
  <2>2. \A v \in Worker : v # w => worker'[v] = worker[v]
    BY <1>1, <1>6, OwnWorker
  <2>3. opened' = opened
    BY <1>1, <1>6, OwnWorker
  <2>4. CASE Release(w)
    <3>1. inflight' = inflight \ {Key(w)} /\ worker'[w] = Idle
      BY <1>1, <2>4 DEF Release, TypeOK
    <3>2. QED
      BY <1>1, <2>1, <2>2, <2>3, <3>1 DEF Alone, Busy, Key
  <2>5. CASE inflight' = inflight /\ worker'[w].build = worker[w].build /\ worker'[w].id = worker[w].id
    BY <1>1, <2>1, <2>2, <2>3, <2>5 DEF Alone, Busy, Key
  <2>6. QED
    BY <1>1, <1>6, <2>4, <2>5, OwnWorker
<1>7. QED
  BY <1>2, <1>3, <1>4, <1>5, <1>6 DEF Next, vars, lifeVars, workVars, NewBuild, Rebind, CloseController, JobFinishes,
     Prune, Turn

ReusedNext(r) == \E b \in Build \ {r.build} : r.id \in finished'[b]

(* A goroutine another one leaves alone, whatever becomes of its row.      *)
LEMMA CarriesStays ==
    ASSUME TypeOK, Grows, NEW v \in Worker, Carries(v), worker'[v] = worker[v],
           Busy(v) /\ worker[v].pc # "query" =>
              /\ handed'[worker[v].build][Carried(v)] = handed[worker[v].build][Carried(v)]
              /\ LET u == table'[worker[v].build][worker[v].id] IN
                 u = Row(v) \/ u = NoTask \/ ReusedNext(Of(u, worker[v].id))
    PROVE  Carries(v)'
<1> SUFFICES ASSUME Busy(v), worker[v].pc # "query" PROVE Carries(v)'
  BY DEF Carries, Busy
<1> DEFINE b == worker[v].build
           i == worker[v].id
           u == table'[b][i]
<1>1. b \in Build /\ i \in Id /\ worker[v].of \in Build /\ i \in finished'[worker[v].of]
  BY BusyWorker DEF Carries, Grows
<1>2. Row(v)' = u /\ Carried(v)' = Carried(v)
  BY DEF Row, Carried
<1>3. Known(Row(v)) => Row(v).of \in Build
  BY RowOf DEF Task
<1>4. Known(Row(v)) /\ Reused(Of(Row(v), i)) => ReusedNext(Of(Row(v), i))
  BY <1>1, <1>3 DEF Reused, ReusedNext, Grows, Of
<1>5. Known(u) /\ ~ReusedNext(Of(u, i)) =>
         ~u.suppressed /\ (worker[v].pc = "suppress" => u.attempts >= MaxAttempts)
  <2>1. CASE u = Row(v)
    BY <1>4, <2>1 DEF Carries
  <2>2. QED
    BY <2>1 DEF Known
<1> HIDE DEF u
<1>6. (Known(Row(v)) /\ ~Reused(Of(Row(v), worker[v].id)))' <=> Known(u) /\ ~ReusedNext(Of(u, i))
  BY <1>2 DEF Known, Reused, ReusedNext, Of
<1>7. QED
  BY <1>1, <1>2, <1>5, <1>6 DEF Carries

LEMMA CarriesStep == IInv /\ [Next]_vars => \A v \in Worker : Carries(v)'
<1> SUFFICES ASSUME IInv, [Next]_vars, NEW v \in Worker PROVE Carries(v)'
  OBVIOUS
<1>1. TypeOK /\ Grows /\ Carries(v) /\ Rows /\ HandOvers /\ Alone
  BY StepGrows DEF IInv, Workers
<1> DEFINE b == worker[v].build
           i == worker[v].id
<1>2. Busy(v) => b \in Build /\ i \in Id /\ b \in opened
  BY <1>1, BusyWorker DEF Alone
<1>3. CASE UNCHANGED <<table, worker, handed>>
  BY <1>1, <1>3, CarriesStays DEF Row
<1>4. CASE ProcessEnds
  BY <1>4 DEF ProcessEnds, Carries, Busy
<1>5. ASSUME NEW c \in Build, OpenStore(c) PROVE Carries(v)'
  <2>1. /\ worker' = worker /\ handed' = handed /\ c \notin opened
        /\ \A d \in Build : d # c => table'[d] = table[d]
    BY <1>1, <1>5 DEF OpenStore, TypeOK, workVars, histVars
  <2>2. QED
    BY <1>1, <1>2, <2>1, CarriesStays DEF Row
<1>6. ASSUME NEW c \in Build, Prune(c) PROVE Carries(v)'
  <2>1. PICK old \in SUBSET Id :
          Save(c, [j \in Id |-> IF j \in old THEN NoTask ELSE table[c][j]])
    BY <1>6 DEF Prune
  <2>2. [j \in Id |-> IF j \in old THEN NoTask ELSE table[c][j]] \in [Id -> Task \cup {NoTask}]
    BY <1>1, KnownRow
  <2>3. \A d \in Build, j \in Id : table'[d][j] \in {NoTask, table[d][j]}
    BY <1>1, <2>1, <2>2, SavedRows
  <2>4. handed' = handed /\ worker' = worker
    BY <1>6 DEF Prune, histVars, workVars
  <2>5. QED
    BY <1>1, <1>2, <2>3, <2>4, CarriesStays DEF Row
<1>7. ASSUME NEW c \in Build, NEW j \in Id, JobFinishes(c, j) PROVE Carries(v)'
  <2>1. /\ Save(c, PutTask(c, j)) /\ j \notin finished[c]
        /\ handed' = handed /\ worker' = worker
    BY <1>7 DEF JobFinishes, Save, workVars
  <2>2. PutTask(c, j) \in [Id -> Task \cup {NoTask}]
    BY <1>1, PutType
  <2>3. \A d \in Build, k \in Id : table'[d][k] = IF d = c /\ k = j THEN PutTask(c, j)[j] ELSE table[d][k]
    BY <1>1, <2>1, <2>2, SavedRows, PutRow
  <2>4. PutTask(c, j)[j].of = c
    BY <1>1, <2>1, PutRow
  <2>5. Busy(v) /\ worker[v].pc # "query" /\ i = j => ReusedNext(Of(PutTask(c, j)[j], i))
    <3>1. SUFFICES ASSUME Busy(v), worker[v].pc # "query", i = j
                   PROVE  ReusedNext(Of(PutTask(c, j)[j], i))
      OBVIOUS
    <3>2. worker[v].of \in Build /\ i \in finished[worker[v].of]
      BY <1>1, <3>1 DEF Carries
    <3>3. worker[v].of # c /\ i \in finished'[worker[v].of]
      BY <1>1, <2>1, <3>1, <3>2 DEF Grows
    <3>4. Of(PutTask(c, j)[j], i).build = c /\ Of(PutTask(c, j)[j], i).id = i
      BY <2>4 DEF Of
    <3>5. QED
      BY <3>2, <3>3, <3>4 DEF ReusedNext
  <2>6. QED
    BY <1>1, <1>2, <2>1, <2>3, <2>5, CarriesStays DEF Row
<1>8. ASSUME NEW w \in Worker, NEW c \in Build, NEW j \in Id, Claim(w, c, j) PROVE Carries(v)'
  <2>1. /\ worker'[w] = [pc |-> "query", build |-> c, id |-> j, of |-> 0]
        /\ v # w => worker'[v] = worker[v]
        /\ table' = table /\ handed' = handed
    BY <1>1, <1>8 DEF Claim, TypeOK, storeVars, histVars
  <2>2. CASE v = w
    BY <2>1, <2>2 DEF Carries
  <2>3. QED
    BY <1>1, <2>1, <2>2, CarriesStays DEF Row
<1>9. ASSUME NEW w \in Worker, Deliverer(w), v # w PROVE Carries(v)'
  <2>1. worker'[v] = worker[v] /\ Busy(w)
    BY <1>1, <1>9, OwnWorker, BusyStep
  <2>2. Busy(v) => Key(v) # Key(w)
    BY <1>1, <1>9, <2>1 DEF Alone
  <2>3. Busy(v) => table'[b][i] = Row(v)
    <3>1. Busy(v) => ~(b = worker[w].build /\ i = worker[w].id)
      BY <2>2 DEF Key
    <3>2. QED
      BY <1>1, <1>2, <1>9, <3>1, OwnRow DEF Row
  <2>4. Busy(v) /\ worker[v].pc # "query" => handed'[b][Carried(v)] = handed[b][Carried(v)]
    <3>1. CASE Push(w)
      <4>1. Busy(v) /\ worker[v].pc # "query" => Carried(v) \in Result
        BY <1>1, <1>2 DEF Carries, Carried, Result
      <4>2. Busy(v) => ~(b = worker[w].build /\ Carried(v) = Carried(w))
        BY <2>2 DEF Key, Carried
      <4>3. Carries(w)
        BY DEF IInv, Workers
      <4>4. QED
        BY <1>1, <1>2, <3>1, <4>1, <4>2, <4>3, PushStep
    <3>2. CASE ~Push(w)
      BY <1>1, <1>9, <3>2, WorkerMoves
    <3>3. QED
      BY <3>1, <3>2
  <2>5. QED
    BY <1>1, <2>1, <2>3, <2>4, CarriesStays
<1>10. ASSUME Deliverer(v), worker'[v] # Idle PROVE Carries(v)'
  <2>1. Busy(v) /\ b \in Build /\ i \in Id
    BY <1>2, <1>10, BusyStep
  <2>2. /\ worker'[v] \in WorkerState /\ worker'[v].build = b /\ worker'[v].id = i
        /\ worker'[v].of = IF Query(v) THEN Row(v).of ELSE worker[v].of
    BY <1>1, <1>10, OwnWorker
  <2>3. Row(v)' = table'[b][i] /\ Carried(v)' = [build |-> worker'[v].of, id |-> i]
    BY <2>2 DEF Row, Carried
  <2>4. CASE Query(v)
    <3>1. Deliverable(Row(v)) /\ worker'[v].pc = "check" /\ table' = table /\ handed' = handed
          /\ finished' = finished
      BY <1>1, <1>10, <2>4, OwnWorker DEF Query, storeVars, histVars
    <3>2. Row(v) \in Task /\ Row(v).of \in Build /\ Known(Row(v))
      BY <1>1, <2>1, <3>1, RowOf DEF Deliverable, Task
    <3>3. i \in finished[Row(v).of]
      BY <1>1, <2>1, <3>2 DEF Rows, Earned, Row
    <3>4. handed[b][Of(Row(v), i)] = 0
      <4> DEFINE r == Of(Row(v), i)
      <4>1. r \in Result /\ r.build = Row(v).of /\ r.id = i
        BY <2>1, <3>2 DEF Of, Result
      <4> HIDE DEF r
      <4>2. Recognised(b, r) /\ handed[b][r] \in Nat
        BY <1>1, <2>1, <4>1 DEF HandOvers, TypeOK
      <4>3. ~Marking(b, r)
        <5>1. SUFFICES ASSUME NEW u \in Worker,
                              worker[u] = [pc |-> "mark", build |-> b, id |-> r.id, of |-> r.build]
                       PROVE  FALSE
          BY DEF Marking
        <5>2. Busy(u) /\ Key(u) = Key(v) /\ u # v
          BY <2>4, <4>1, <5>1, AtBusy DEF Query, Key
        <5>3. QED
          BY <1>1, <2>1, <5>2 DEF Alone
      <4>4. QED
        BY <3>1, <3>2, <4>1, <4>2, <4>3, SMTT(30) DEF Recognised, Deliverable, Row, r
    <3>5. QED
      BY <2>2, <2>3, <2>4, <3>1, <3>2, <3>3, <3>4 DEF Carries, Of, Deliverable, Row
  <2>5. CASE ~Query(v)
    <3>1. /\ worker[v].pc # "query" /\ worker'[v].of = worker[v].of
          /\ Carried(v)' = Carried(v) /\ finished' = finished
      BY <1>10, <2>2, <2>3, <2>5 DEF Deliverer, Check, Deliver, Ask, Push, Mark, Bump, Suppress, Carried
    <3>2. worker[v].of \in Build /\ i \in finished[worker[v].of]
      BY <1>1, <2>1, <3>1 DEF Carries
    <3>3. CASE Check(v) \/ Deliver(v)
      <4>1. worker'[v].pc \in {"deliver", "push", "bump"} /\ table' = table /\ handed' = handed
            /\ worker[v].pc \in {"check", "deliver"}
        BY <1>1, <1>10, <3>3, OwnWorker DEF Check, Deliver, Ask, storeVars, histVars
      <4>2. Row(v)' = Row(v)
        BY <2>3, <4>1 DEF Row
      <4>3. QED
        BY <1>1, <2>1, <2>2, <3>1, <3>2, <4>1, <4>2 DEF Carries, Reused, Known, Of
    <3>4. CASE Push(v)
      <4>1. worker'[v].pc = "mark" /\ table' = table /\ worker[v].pc = "push"
        BY <1>1, <1>10, <3>4, OwnWorker DEF Push, storeVars
      <4>2. Row(v)' = Row(v)
        BY <2>3, <4>1 DEF Row
      <4>3. handed'[b][Carried(v)] > 0
        BY <1>1, <3>4, PushStep
      <4>4. QED
        BY <1>1, <2>1, <2>2, <3>1, <3>2, <4>1, <4>2, <4>3 DEF Carries, Reused, Known, Of
    <3>5. CASE Bump(v)
      <4>1. /\ worker'[v].pc = "suppress" /\ Known(Row(v)) /\ Row(v).attempts + 1 >= MaxAttempts
            /\ handed' = handed /\ worker[v].pc = "bump"
        BY <1>1, <1>10, <3>5, OwnWorker DEF Bump, histVars
      <4>2. PICK t \in Task : /\ t.of = Row(v).of /\ t.suppressed = Row(v).suppressed
                              /\ t.attempts = Row(v).attempts + 1 /\ table'[b][i] = t
        BY <1>1, <1>10, <2>1, <3>5, <4>1, OwnRow DEF Bump, Mark, Suppress
      <4>3. QED
        BY <1>1, <2>1, <2>2, <2>3, <3>1, <3>2, <4>1, <4>2 DEF Carries, Reused, Known, Of
    <3>6. QED
      BY <1>1, <1>10, <2>5, <3>3, <3>4, <3>5, OwnWorker DEF Deliverer
  <2>6. QED
    BY <2>4, <2>5
<1>11. QED
  <2>1. worker'[v] = Idle => Carries(v)'
    BY DEF Carries, Busy
  <2>2. QED
    BY <1>3, <1>4, <1>5, <1>6, <1>7, <1>8, <1>9, <1>10, <2>1 DEF Next, vars, storeVars, workVars, histVars, NewBuild,
       Rebind, CloseController, Turn

-----------------------------------------------------------------------------
(* Where a result is.                                                      *)

LEMMA PlacesStep == IInv /\ [Next]_vars => Places'
<1> SUFFICES ASSUME IInv, [Next]_vars PROVE Places'
  OBVIOUS
<1>1. TypeOK /\ Grows /\ Places
  BY StepGrows DEF IInv
<1>2. \A r \in Result : Twice(r) => Twice(r)'
  BY <1>1 DEF Grows, Twice
<1>3. \A r \in Result : Handed(r) => Handed(r)'
  BY <1>1 DEF Grows, Handed
<1>4. /\ \A b \in Build : pending[b] \subseteq Result
      /\ seen \cup leaked \subseteq Result
  BY <1>1 DEF TypeOK
<1>5. CASE UNCHANGED <<pending, seen, leaked>>
  <2>1. \A b \in Build : \A r \in pending[b] : handed'[b][r] > 0
    BY <1>1, <1>4 DEF Places, Grows
  <2>2. QED
    BY <1>1, <1>2, <1>3, <1>4, <1>5, <2>1 DEF Places
<1>6. CASE ProcessEnds
  <2>1. /\ \A b \in Build : pending'[b] = {}
        /\ seen' = seen /\ leaked' = leaked
    BY <1>6 DEF ProcessEnds
  <2>2. QED
    BY <1>1, <1>2, <1>3, <1>4, <2>1 DEF Places
<1>7. ASSUME NEW c \in Build, Turn(c) PROVE Places'
  <2>1. /\ \A b \in Build : pending'[b] = IF b = c THEN {} ELSE pending[b]
        /\ \/ seen' = seen \cup pending[c] /\ leaked' = leaked
           \/ leaked' = leaked \cup pending[c] /\ seen' = seen
        /\ handed' = handed
    BY <1>1, <1>7 DEF Turn, TypeOK, histVars
  <2>2. \A b \in Build : \A r \in pending'[b] : handed'[b][r] > 0
    BY <1>1, <2>1 DEF Places
  <2>3. \A r \in pending[c] : Handed(r)
    BY <1>1 DEF Places, Handed
  <2>4. \A r \in seen' \cup leaked' : Handed(r)'
    BY <1>1, <1>3, <1>4, <2>1, <2>3 DEF Places
  <2>5. ASSUME NEW r \in seen' \cup leaked', ~Twice(r)'
        PROVE  r \notin seen' \cap leaked' /\ \A b \in Build : r \notin pending'[b]
    <3>1. r \in Result /\ ~Twice(r)
      BY <1>2, <1>4, <2>1, <2>5
    <3>2. \A b \in Build : r \in pending[b] /\ r \in pending[c] => b = c
      BY <1>1, <3>1 DEF Places, Twice
    <3>3. QED
      BY <1>1, <2>1, <3>1, <3>2 DEF Places
  <2>6. QED
    BY <2>2, <2>4, <2>5 DEF Places
<1>8. ASSUME NEW w \in Worker, Push(w) PROVE Places'
  <2>1. PICK c \in Build, q \in Result :
        /\ handed[c][q] = 0
        /\ \A b \in Build : pending'[b] = IF b = c THEN pending[b] \cup {q} ELSE pending[b]
        /\ seen' = seen /\ leaked' = leaked /\ handed'[c][q] = 1
    <3>1. Carries(w) /\ seen' = seen /\ leaked' = leaked
      BY <1>8 DEF Push, IInv, Workers
    <3> DEFINE c == worker[w].build
               q == Carried(w)
    <3>2. /\ c \in Build /\ q \in Result /\ handed[c][q] = 0
          /\ \A b \in Build : pending'[b] = IF b = c THEN pending[b] \cup {q} ELSE pending[b]
          /\ handed'[c][q] = 1
      BY <1>1, <1>8, <3>1, PushStep
    <3> HIDE DEF c, q
    <3>3. QED
      BY <3>1, <3>2
  <2>2. ASSUME NEW b \in Build, NEW r \in pending'[b] PROVE handed'[b][r] > 0
    <3>1. CASE r \in pending[b]
      BY <1>1, <1>4, <3>1 DEF Places, Grows
    <3>2. CASE b = c /\ r = q
      BY <2>1, <3>2
    <3>3. QED
      BY <2>1, <2>2, <3>1, <3>2
  <2>3. \A r \in seen' \cup leaked' : Handed(r)'
    BY <1>1, <1>3, <1>4, <2>1 DEF Places
  <2>4. q \in seen \cup leaked => Twice(q)'
    <3>1. SUFFICES ASSUME q \in seen \cup leaked PROVE Twice(q)'
      OBVIOUS
    <3>2. PICK d \in Build : handed[d][q] > 0
      BY <1>1, <3>1 DEF Places, Handed
    <3>3. d # c /\ handed'[d][q] > 0 /\ handed'[c][q] > 0
      BY <1>1, <2>1, <3>2 DEF Grows
    <3>4. QED
      BY <2>1, <3>3 DEF Twice
  <2>5. ASSUME NEW r \in seen' \cup leaked', ~Twice(r)'
        PROVE  r \notin seen' \cap leaked' /\ \A b \in Build : r \notin pending'[b]
    <3>1. r \in Result /\ ~Twice(r) /\ r # q
      BY <1>2, <1>4, <2>1, <2>4, <2>5
    <3>2. QED
      BY <1>1, <2>1, <3>1 DEF Places
  <2>6. QED
    BY <2>2, <2>3, <2>5 DEF Places
<1>9. QED
  BY <1>5, <1>6, <1>7, <1>8 DEF Next, vars, sessVars, NewBuild, OpenStore, Rebind, CloseController, JobFinishes,
     Prune, Claim, Deliverer, Query, Check, Deliver, Ask, Mark, Bump, Suppress

-----------------------------------------------------------------------------
(* The invariant holds throughout.                                         *)

LEMMA InitIInv == Init => IInv
<1> SUFFICES ASSUME Init PROVE IInv
  OBVIOUS
<1>1. TypeOK
  <2>1. overwrote \in BOOLEAN
    BY DEF Init
  <2>2. QED
    BY <2>1, Bounds DEF Init, TypeOK
<1>2. Lives
  BY Bounds DEF Init, Lives
<1>3. Rows
  BY DEF Init, Rows, Earned, Known
<1>4. HandOvers
  BY DEF Init, HandOvers, Recognised
<1>5. Workers
  BY DEF Init, Workers, Alone, Carries, Busy
<1>6. Places
  BY DEF Init, Places
<1>7. QED
  BY <1>1, <1>2, <1>3, <1>4, <1>5, <1>6 DEF IInv

LEMMA NextIInv == IInv /\ [Next]_vars => IInv'
BY TypeStep, LivesStep, RowsStep, HandOversStep, AloneStep, CarriesStep, PlacesStep DEF IInv, Workers

LEMMA SpecIInv == Spec => []IInv
BY InitIInv, NextIInv, PTL DEF Spec

(* Two builds that handed a result over are more than one.                 *)
LEMMA TwiceIsAgain ==
    ASSUME NEW r \in Result, Twice(r)
    PROVE  r \in Again
<1> DEFINE S == {b \in Build : handed[b][r] > 0}
<1>1. PICK b \in Build, c \in Build : b # c /\ b \in S /\ c \in S
  BY DEF Twice
<1>2. IsFiniteSet(Build)
  BY Bounds, FS_Interval DEF Build
<1>3. IsFiniteSet(S)
  BY <1>2, FS_Subset
<1>4. Cardinality({b, c}) = 2
  <2>1. IsFiniteSet({c}) /\ Cardinality({c}) = 1
    BY FS_Singleton
  <2>2. Cardinality({c} \cup {b}) = 2
    BY <1>1, <2>1, FS_AddElement
  <2>3. {b, c} = {c} \cup {b}
    OBVIOUS
  <2>4. QED
    BY <2>2, <2>3
<1>5. {b, c} \subseteq S
  BY <1>1
<1>6. Cardinality({b, c}) <= Cardinality(S)
  BY <1>3, <1>5, FS_Subset
<1>7. Cardinality(S) \in Nat
  BY <1>3, FS_CardinalityType
<1>8. QED
  BY <1>4, <1>6, <1>7 DEF Again

(* Within a build no result is handed to the session twice, whatever the   *)
(* goroutines, saves, restarts and other builds do; and Compose puts it    *)
(* into one turn of one session, unless two builds handed it over.         *)
THEOREM EveryResultIsHandedOverOnce == Spec => []DeliveredOnce
<1>1. IInv => DeliveredOnce
  <2> SUFFICES ASSUME IInv PROVE DeliveredOnce
    OBVIOUS
  <2>1. TypeOK /\ HandOvers /\ Places
    BY DEF IInv
  <2>2. \A b \in Build, r \in Result : handed[b][r] <= 1
    BY <2>1 DEF HandOvers, Recognised, TypeOK
  <2>3. \A r \in seen \cup leaked : r \notin Again => ~Twice(r)
    BY <2>1, TwiceIsAgain DEF TypeOK
  <2>4. QED
    BY <2>1, <2>2, <2>3 DEF DeliveredOnce, Places
<1>2. QED
  BY <1>1, SpecIInv, PTL

-----------------------------------------------------------------------------
(* Nothing recorded is lost.                                               *)

(* Marks are earned: a delivered row stands for a result that was handed   *)
(* over, a suppressed one for a result that used up its attempts and was   *)
(* never handed over by this build, however builds and goroutines overlap. *)
THEOREM MarksAreEarned == Spec => [](DeliveredWasHanded /\ SuppressedIsExhausted)
<1>1. IInv => DeliveredWasHanded /\ SuppressedIsExhausted
  <2> SUFFICES ASSUME IInv, NEW b \in Build, NEW i \in Id, Known(table[b][i]),
                      ~Reused(Of(table[b][i], i))
               PROVE  /\ table[b][i].delivered => Handed(Of(table[b][i], i))
                      /\ table[b][i].suppressed => /\ table[b][i].attempts >= MaxAttempts
                                                   /\ handed[b][Of(table[b][i], i)] = 0
    BY DEF DeliveredWasHanded, SuppressedIsExhausted, Handed, Of
  <2> DEFINE t == table[b][i]
             r == Of(t, i)
  <2>1. TypeOK /\ Rows /\ HandOvers
    BY DEF IInv
  <2>2. t \in Task /\ Earned(t, i)
    BY <2>1, KnownRow DEF Rows
  <2>3. r \in Result /\ r.id = i /\ r.build = t.of
    BY <2>2 DEF Of, Result, Task
  <2> HIDE DEF r
  <2>4. Recognised(b, r) /\ handed[b][r] \in Nat
    BY <2>1, <2>3 DEF HandOvers, TypeOK
  <2>5. t.suppressed => ~(handed[b][r] > 0)
    BY <2>3, <2>4 DEF Recognised, r
  <2>6. QED
    BY <2>2, <2>4, <2>5 DEF Earned, r
<1>2. QED
  BY <1>1, SpecIInv, PTL

RowKept(t, r) == t.of = r.build /\ Deliverable(t)

Waiting(r) == /\ r \in recorded \ abandoned /\ ~Reused(r)
              /\ \A b \in Build : handed[b][r] = 0

LEMMA InitKept == Init => Kept
BY DEF Init, Kept, UnhandedStaysRecorded

(* A save leaves up to date the copy it wrote, and a save that fails none  *)
(* that was not.                                                           *)
Stored(c) ==
    \/ /\ disk' = table'[c] /\ stale' = opened \ {c}
       /\ c \in stale => overwrote'
    \/ UNCHANGED <<disk, stale>>

LEMMA SaveStores ==
    ASSUME TypeOK, NEW c \in Build, NEW t, Save(c, t)
    PROVE  Stored(c)
BY DEF TypeOK, Save, SaveOK, SaveFails, Stored

(* A stale copy that has been saved stays a matter of record.              *)
LEMMA OverwroteStays == TypeOK /\ [Next]_vars /\ ~overwrote' => ~overwrote
<1> SUFFICES ASSUME TypeOK, [Next]_vars, ~overwrote' PROVE ~overwrote
  OBVIOUS
<1>1. ASSUME NEW b, NEW t, Save(b, t) PROVE ~overwrote
  BY <1>1 DEF Save, SaveOK, SaveFails
<1>2. CASE overwrote' = overwrote
  BY <1>2
<1>3. QED
  BY <1>1, <1>2 DEF Next, vars, storeVars, NewBuild, ProcessEnds, OpenStore, Rebind, CloseController, Prune, Turn,
     JobFinishes, Save, Claim, Deliverer, Query, Check, Deliver, Ask, Push, Mark, Bump, Suppress

(* A waiting result keeps its rows, in every step.                         *)
LEMMA WaitingStays ==
    ASSUME IInv, Kept, [Next]_vars, ~overwrote', NEW r \in recorded, Waiting(r), Waiting(r)'
    PROVE  RowKept(disk'[r.id], r) /\ \A b \in opened' \ stale' : RowKept(table'[b][r.id], r)
<1>1. TypeOK /\ Lives /\ Grows /\ opened \subseteq Build /\ ~overwrote
  BY StepGrows, OverwroteStays DEF IInv, TypeOK
<1>2. r \in Result /\ r.build \in Build /\ r.id \in Id /\ r = [build |-> r.build, id |-> r.id]
  BY <1>1 DEF TypeOK, Result
<1>3. RowKept(disk[r.id], r) /\ \A b \in opened \ stale : RowKept(table[b][r.id], r)
  BY <1>1 DEF Kept, UnhandedStaysRecorded, Waiting, RowKept
<1>4. CASE UNCHANGED <<table, disk, opened, stale>>
  BY <1>3, <1>4
<1>5. CASE ProcessEnds
  BY <1>3, <1>5 DEF ProcessEnds
<1>6. ASSUME NEW c \in Build, OpenStore(c)
      PROVE  RowKept(disk'[r.id], r) /\ \A b \in opened' \ stale' : RowKept(table'[b][r.id], r)
  BY <1>1, <1>3, <1>6 DEF OpenStore, TypeOK
<1>7. ASSUME NEW c \in opened, opened' = opened, Stored(c),
             \A b \in opened \ stale : RowKept(table'[b][r.id], r)
      PROVE  RowKept(disk'[r.id], r) /\ \A b \in opened' \ stale' : RowKept(table'[b][r.id], r)
  BY <1>3, <1>7 DEF Stored
<1>8. ASSUME NEW c \in Build, Prune(c)
      PROVE  RowKept(disk'[r.id], r) /\ \A b \in opened' \ stale' : RowKept(table'[b][r.id], r)
  <2>1. PICK old \in SUBSET {i \in Id : Known(table[c][i]) /\ ~Deliverable(table[c][i])} :
          Save(c, [i \in Id |-> IF i \in old THEN NoTask ELSE table[c][i]])
    BY <1>8 DEF Prune
  <2>2. [i \in Id |-> IF i \in old THEN NoTask ELSE table[c][i]] \in [Id -> Task \cup {NoTask}]
    BY <1>1, KnownRow
  <2>3. c \in opened /\ opened' = opened
    BY <1>8 DEF Prune, lifeVars
  <2>4. c \notin stale => r.id \notin old
    BY <1>3, <2>3 DEF RowKept
  <2>5. \A b \in Build : b # c \/ c \notin stale => table'[b][r.id] = table[b][r.id]
    BY <1>1, <1>2, <2>1, <2>2, <2>4, SavedRows
  <2>6. Stored(c)
    BY <1>1, <2>1, SaveStores
  <2>7. QED
    BY <1>1, <1>3, <1>7, <2>3, <2>5, <2>6
<1>9. ASSUME NEW c \in Build, NEW i \in Id, JobFinishes(c, i)
      PROVE  RowKept(disk'[r.id], r) /\ \A b \in opened' \ stale' : RowKept(table'[b][r.id], r)
  <2>1. /\ Save(c, PutTask(c, i)) /\ i \notin finished[c] /\ c \in opened /\ opened' = opened
        /\ i \in finished'[c]
    BY <1>1, <1>9 DEF JobFinishes, Save, lifeVars, TypeOK
  <2>2. PutTask(c, i) \in [Id -> Task \cup {NoTask}]
    BY <1>1, PutType
  <2>3. i # r.id
    BY <1>2, <2>1 DEF Kept, Waiting, Reused
  <2>4. \A b \in Build : table'[b][r.id] = table[b][r.id]
    BY <1>1, <1>2, <2>1, <2>2, <2>3, SavedRows, PutRow DEF IInv
  <2>5. Stored(c)
    BY <1>1, <2>1, SaveStores
  <2>6. QED
    BY <1>1, <1>3, <1>7, <2>1, <2>4, <2>5
<1>10. ASSUME NEW w \in Worker, Deliverer(w), ~UNCHANGED <<table, disk, stale>>
       PROVE  RowKept(disk'[r.id], r) /\ \A b \in opened' \ stale' : RowKept(table'[b][r.id], r)
  <2> DEFINE c == worker[w].build
             i == worker[w].id
  <2>1. Busy(w) /\ Carries(w) /\ c \in opened /\ opened' = opened
    BY <1>1, <1>10, BusyStep, OwnWorker DEF IInv, Workers, Alone
  <2>2. PICK t \in Task :
          /\ Save(c, Updated(w, t)) /\ t.of = Row(w).of
          /\ \A d \in Build, j \in Id : table'[d][j] = IF d = c /\ j = i THEN t ELSE table[d][j]
          /\ \/ Mark(w)
             \/ Bump(w) /\ t.delivered = Row(w).delivered /\ t.suppressed = Row(w).suppressed
             \/ Suppress(w) /\ Known(Row(w))
    BY <1>1, <1>10, OwnRow
  <2>3. Stored(c)
    BY <1>1, <2>1, <2>2, SaveStores
  <2>4. CASE i # r.id
    BY <1>1, <1>2, <1>3, <1>7, <2>1, <2>2, <2>3, <2>4
  <2>5. CASE i = r.id /\ c \in stale
    BY <1>1, <1>2, <1>3, <1>7, <2>1, <2>2, <2>3, <2>5
  <2>6. CASE i = r.id /\ c \notin stale
    <3>1. RowKept(Row(w), r)
      BY <1>3, <2>1, <2>6 DEF Row
    <3>2. ~Mark(w)
      <4>1. SUFFICES ASSUME Mark(w) PROVE FALSE
        OBVIOUS
      <4>2. /\ worker[w].of \in Build /\ i \in finished[worker[w].of]
            /\ handed[c][Carried(w)] > 0
        BY <2>1, <4>1 DEF Mark, Carries
      <4>3. worker[w].of = r.build
        BY <2>6, <4>2 DEF Waiting, Reused
      <4>4. Carried(w) = r
        BY <1>2, <2>6, <4>3 DEF Carried
      <4>5. QED
        BY <1>1, <2>1, <4>2, <4>4 DEF Waiting
    <3>3. ~Suppress(w)
      <4>1. Suppress(w) /\ Known(Row(w)) => r \in abandoned'
        BY <1>2, <2>6, <3>1 DEF Suppress, RowKept
      <4>2. QED
        BY <3>1, <4>1 DEF Waiting, RowKept, Deliverable
    <3>4. RowKept(t, r)
      BY <2>2, <3>1, <3>2, <3>3 DEF RowKept, Deliverable, Known, NoTask, Task
    <3>5. QED
      BY <1>1, <1>2, <1>3, <1>7, <2>1, <2>2, <2>3, <2>6, <3>4
  <2>7. QED
    BY <2>4, <2>5, <2>6
<1>11. QED
  <2>1. ASSUME NEW w \in Worker, Deliverer(w) PROVE opened' = opened
    BY <1>1, <2>1, OwnWorker
  <2>2. QED
    BY <1>4, <1>5, <1>6, <1>8, <1>9, <1>10, <2>1 DEF Next, vars, lifeVars, storeVars, NewBuild, Rebind, CloseController,
       Turn, Claim

LEMMA KeptStep == IInv /\ Kept /\ [Next]_vars => Kept'
<1> SUFFICES ASSUME IInv, Kept, [Next]_vars PROVE Kept'
  OBVIOUS
<1>1. TypeOK /\ TypeOK' /\ Lives /\ Lives' /\ Grows
  BY NextIInv, StepGrows DEF IInv
<1>2. recorded' = recorded \/ \E b \in Build, i \in Id :
        /\ JobFinishes(b, i) /\ SaveOK(b, PutTask(b, i))
        /\ recorded' = recorded \cup {[build |-> b, id |-> i]}
  BY DEF Next, vars, histVars, NewBuild, ProcessEnds, OpenStore, Rebind, CloseController, Prune, Turn,
     JobFinishes, Claim, Deliverer, Query, Check, Deliver, Ask, Push, Mark, Bump, Suppress
<1>3. \A r \in recorded' : r.id \in finished'[r.build]
  <2>1. \A r \in recorded : r.id \in finished'[r.build]
    BY <1>1 DEF Kept, Grows, TypeOK, Result
  <2>2. \A b \in Build, i \in Id : JobFinishes(b, i) => i \in finished'[b]
    BY <1>1 DEF JobFinishes, TypeOK
  <2>3. QED
    BY <1>2, <2>1, <2>2
<1>4. ASSUME ~overwrote', NEW r \in recorded', Waiting(r)'
      PROVE  RowKept(disk'[r.id], r) /\ \A b \in opened' \ stale' : RowKept(table'[b][r.id], r)
  <2>1. r \in Result /\ r.build \in Build /\ r.id \in Id
    BY <1>1 DEF TypeOK, Result
  <2>2. ~Reused(r) /\ \A b \in Build : handed[b][r] = 0
    <3>1. Reused(r) => Reused(r)'
      BY <1>1, <2>1 DEF Reused, Grows
    <3>2. \A b \in Build : handed[b][r] \in Nat /\ ~(handed'[b][r] > 0)
      BY <1>1, <1>4, <2>1 DEF TypeOK, Waiting
    <3>3. QED
      BY <1>1, <1>4, <2>1, <3>1, <3>2 DEF Waiting, Grows
  <2>3. CASE r \in recorded
    <3>1. r \notin abandoned
      <4>1. abandoned \subseteq abandoned'
        BY DEF Next, vars, histVars, NewBuild, ProcessEnds, OpenStore, Rebind, CloseController, Prune, Turn,
           JobFinishes, Claim, Deliverer, Query, Check, Deliver, Ask, Push, Mark, Bump, Suppress
      <4>2. QED
        BY <1>4, <4>1 DEF Waiting
    <3>2. Waiting(r)
      BY <2>2, <2>3, <3>1 DEF Waiting
    <3>3. QED
      BY <1>4, <2>3, <3>2, WaitingStays
  <2>4. CASE r \notin recorded
    <3>1. PICK b \in Build, i \in Id :
            JobFinishes(b, i) /\ SaveOK(b, PutTask(b, i)) /\ r = [build |-> b, id |-> i]
      BY <1>2, <1>4, <2>4
    <3>2. PutTask(b, i) \in [Id -> Task \cup {NoTask}] /\ Save(b, PutTask(b, i))
      BY <1>1, <3>1, PutType DEF Save
    <3>3. table'[b][i] = PutTask(b, i)[i] /\ disk'[i] = PutTask(b, i)[i]
      BY <1>1, <3>1, <3>2, SavedRows DEF SaveOK
    <3>4. ~(\E c \in Build \ {b} : i \in finished[c])
      BY <2>2, <3>1 DEF Reused
    <3>5. RowKept(PutTask(b, i)[i], r)
      BY <1>1, <3>1, <3>4, PutRow DEF JobFinishes, IInv, RowKept, Deliverable, Known, NoTask, Task
    <3>6. opened' \ stale' \subseteq {b}
      BY <3>1 DEF JobFinishes, lifeVars, SaveOK
    <3>7. QED
      BY <3>1, <3>3, <3>5, <3>6
  <2>5. QED
    BY <2>3, <2>4
<1>5. UnhandedStaysRecorded'
  BY <1>4 DEF UnhandedStaysRecorded, Waiting, RowKept
<1>6. QED
  BY <1>3, <1>5 DEF Kept

(* A result whose record reached the disk stays there and in every table   *)
(* that lacks no save, undelivered, until it is handed over or given up,   *)
(* whatever saves fail, whenever the process ends and however many builds  *)
(* live at once: until a build saves its copy over a save of another one   *)
(* it never read.  And what a row says of its result is what became of it. *)
THEOREM NoResultIsLost == Spec => []NothingLost
<1>1. IInv /\ Kept /\ [Next]_vars => Kept'
  BY KeptStep
<1>2. Spec => []Kept
  BY <1>1, InitKept, SpecIInv, NextIInv, PTL DEF Spec
<1>3. Kept => UnhandedStaysRecorded
  BY DEF Kept
<1>4. DeliveredWasHanded /\ SuppressedIsExhausted /\ UnhandedStaysRecorded => NothingLost
  BY DEF NothingLost
<1>5. QED
  BY <1>2, <1>3, <1>4, MarksAreEarned, PTL
=============================================================================
