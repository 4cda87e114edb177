------------------------------ MODULE Scheduler ------------------------------
(***************************************************************************)
(* The scheduler of recurring prompts and one-shot reminders               *)
(* (internal/scheduler/scheduler.go, started by desktop/app.go): a table   *)
(* of tasks, a copy of it on disk, and one timer for the nearest task.  A  *)
(* timer that expires starts a callback goroutine, which collects the      *)
(* indices of the due tasks under the lock, runs the tasks one by one      *)
(* without it, and arms the timer again.  Meanwhile the user creates,      *)
(* changes, deletes and runs tasks, each of which saves and arms the timer *)
(* too, and the process may end.                                           *)
(*                                                                         *)
(* Time is a counter.  An expression is either the instant of a one-shot   *)
(* or a period; RunCount is kept as "has run".  Delivery, the history file *)
(* and Stop, which the program never calls, are left out.                  *)
(***************************************************************************)
EXTENDS Naturals, Sequences, FiniteSets

CONSTANTS
    Task,           \* ids; each is given out once
    Instants,       \* instants of the one-shots the user may enter
    Periods,        \* periods of the recurring tasks
    Worker,         \* goroutines: timer callbacks and RunNow calls
    MaxTime,        \* bound: the clock
    MaxCalls,       \* bound: calls of the user
    MaxFaults,      \* bound: ends of the process and saves that fail, together
    None

ASSUME SchedulerAssumption ==
    /\ Instants \subseteq Nat /\ Periods \subseteq Nat \ {0}
    /\ MaxTime \in Nat /\ MaxCalls \in Nat /\ MaxFaults \in Nat
    /\ None \notin Task \cup Worker \cup Nat

Expr == [once : {TRUE}, n : Instants] \cup [once : {FALSE}, n : Periods]

VARIABLES
    now,
    app,        \* the process: down, loaded, up (Start has run), drained
    tasks,      \* Scheduler.tasks
    disk,       \* the file of the Store
    timer,      \* when nextTimer expires, or None
    worker,
    missed,     \* Scheduler.missedReminders
    telling,    \* reminders drained, their notification is due
    spent,      \* budgets used
    \* history:
    made,       \* ids given out
    owed,       \* one-shots that must be run or told (see RemindersAreKept)
    told,       \* how often a missed reminder was told
    unarmed     \* a refused call changed an entry since the timer was armed

schedulerVars == <<now, app, tasks, disk, timer, worker, missed, telling, spent, made, owed, told, unarmed>>
alarm == <<timer, unarmed>>
table == <<tasks, disk, spent>>
past  == <<made, owed, told>>
boot  == <<app, missed, telling>>

Entry == [id : Task, expr : Expr, enabled : BOOLEAN, next : Nat \cup {None}, ran : BOOLEAN]

(* A worker: the indices it has still to run, the task that runs at the    *)
(* first of them, and the time it was started at.  History: calm says that nothing *)
(* changed the table since (see CalmCallbacksAreExact).                    *)
Work == [pc : {"idle", "collect", "pick", "run", "manual", "rearm"}, due : SUBSET Nat,
         cur : Task \cup {None}, at : Nat, calm : BOOLEAN]
IdleWork == [pc |-> "idle", due |-> {}, cur |-> None, at |-> 0, calm |-> TRUE]

Is(w, pc) == worker[w].pc = pc
Up == app \in {"up", "drained"}
(* Which of the idle workers starts next makes no difference.              *)
Spare(w) == Is(w, "idle") /\ w = CHOOSE v \in Worker : Is(v, "idle")
Callbacks == {w \in Worker : worker[w].pc \in {"collect", "pick", "run", "rearm"}}

SchedulerTypeOK ==
    /\ now \in 0 .. MaxTime
    /\ app \in {"down", "loaded", "up", "drained"}
    /\ tasks \in Seq(Entry) /\ disk \in Seq(Entry)
    /\ timer \in Nat \cup {None}
    /\ worker \in [Worker -> Work]
    /\ missed \subseteq Task /\ telling \subseteq Task
    /\ spent \in [calls : 0 .. MaxCalls, ends : 0 .. MaxFaults, fails : 0 .. MaxFaults]
    /\ made \subseteq Task /\ owed \subseteq made /\ unarmed \in BOOLEAN
    /\ told \in [Task -> Nat]
    \* one entry per id
    /\ \A i, j \in DOMAIN tasks : tasks[i].id = tasks[j].id => i = j

(* The program has started for the first time, with no file to load.       *)
SchedulerInit ==
    /\ now = 0 /\ app = "drained"
    /\ tasks = <<>> /\ disk = <<>> /\ timer = None
    /\ worker = [w \in Worker |-> IdleWork]
    /\ missed = {} /\ telling = {}
    /\ spent = [calls |-> 0, ends |-> 0, fails |-> 0]
    /\ made = {} /\ owed = {} /\ told = [t \in Task |-> 0] /\ unarmed = FALSE

(* nextRun: a one-shot has no next time once its instant has passed.       *)
NextRun(e) == IF ~e.once THEN now + e.n ELSE IF e.n > now THEN e.n ELSE None

Earliest(S) == CHOOSE n \in S : \A m \in S : n <= m
Nearest(list) ==
    LET times == {list[i].next : i \in {j \in DOMAIN list : list[j].enabled /\ list[j].next /= None}}
    IN  IF times = {} THEN None ELSE Earliest(times)

(* armNextTimerLocked: replaces the timer.                                 *)
Arm == timer' = Nearest(tasks') /\ unarmed' = FALSE

(* Store.save: the file is replaced, or stays as it is.                    *)
Save(sp) ==
    \/ disk' = tasks' /\ spent' = sp
    \/ sp.ends + sp.fails < MaxFaults /\ disk' = disk /\ spent' = [sp EXCEPT !.fails = @ + 1]
Saved == disk' = tasks'

Entries == {tasks[i] : i \in DOMAIN tasks}
Has(id) == \E e \in Entries : e.id = id
IndexOf(id) == CHOOSE i \in DOMAIN tasks : tasks[i].id = id
-----------------------------------------------------------------------------
(* The timer callback.                                                     *)

(* fireAndReschedule begins.                                               *)
Expire(w) ==
    /\ Up /\ timer /= None /\ Spare(w)
    /\ timer <= now
    /\ timer' = None
    /\ worker' = [worker EXCEPT ![w] =
          [IdleWork EXCEPT !.pc = "collect", !.at = now, !.calm = \A c \in Callbacks : worker[c].calm]]
    /\ UNCHANGED <<now, boot, table, past, unarmed>>

Due(e, at) == IF e.enabled /\ e.next /= None THEN e.next <= at ELSE FALSE

Onward(w, due) ==
    [worker[w] EXCEPT !.pc = IF due = {} THEN "rearm" ELSE "pick", !.due = due, !.cur = None]

(* fireDue: the indices of the due tasks, run in the order of the table.   *)
NextIndex(w) == Earliest(worker[w].due)

Collect(w) ==
    /\ Is(w, "collect")
    /\ worker' = [worker EXCEPT ![w] = Onward(w, {i \in DOMAIN tasks : Due(tasks[i], worker[w].at)})]
    /\ UNCHANGED <<now, boot, table, alarm, past>>

(* The process ends; a reminder about to be told is not owed any more.     *)
Ends ==
    /\ app' = "down" /\ tasks' = <<>> /\ timer' = None /\ unarmed' = FALSE
    /\ worker' = [w \in Worker |-> IdleWork]
    /\ missed' = {} /\ telling' = {}
    /\ owed' = owed \ (missed \cup telling)

\* Mutant: the timer is armed again when a run begins.
PickArms(w) ==
    /\ Is(w, "pick") /\ NextIndex(w) \in DOMAIN tasks
    /\ worker' = [worker EXCEPT ![w].pc = "run", ![w].cur = tasks[NextIndex(w)].id]
    /\ UNCHANGED tasks /\ Arm
    /\ UNCHANGED <<now, boot, disk, spent, past>>

(* The task at the next index, whatever is there by now.  An index past    *)
(* the end is a panic on the timer's goroutine, which ends the process.    *)
Pick(w) ==
    /\ Is(w, "pick")
    /\ LET i == NextIndex(w)
       IN  IF i \in DOMAIN tasks
           THEN /\ worker' = [worker EXCEPT ![w].pc = "run", ![w].cur = tasks[i].id]
                /\ UNCHANGED <<boot, tasks, alarm, owed>>
           ELSE Ends
    /\ UNCHANGED <<now, disk, spent, made, told>>

(* The run and its delivery are over.  An entry that is not where it was   *)
(* is left alone; otherwise it gets its next time from the expression it   *)
(* has now, and a one-shot is disabled.                                    *)
AfterRun(e) ==
    IF e.expr.once THEN [e EXCEPT !.ran = TRUE, !.enabled = FALSE, !.next = None]
    ELSE [e EXCEPT !.ran = TRUE, !.next = NextRun(e.expr)]

Finish(w) ==
    /\ Is(w, "run")
    /\ LET i == NextIndex(w)
           found == IF i \in DOMAIN tasks THEN tasks[i].id = worker[w].cur ELSE FALSE
       IN  /\ IF found THEN tasks' = [tasks EXCEPT ![i] = AfterRun(@)] /\ Save(spent)
                       ELSE UNCHANGED table
    /\ worker' = [worker EXCEPT ![w] = Onward(w, @.due \ {NextIndex(w)})]
    /\ owed' = owed \ {worker[w].cur}
    /\ UNCHANGED <<now, boot, alarm, made, told>>

\* Mutant: the timer is not armed after a callback.
RearmForgotten(w) ==
    /\ Is(w, "rearm")
    /\ worker' = [worker EXCEPT ![w] = IdleWork]
    /\ UNCHANGED <<now, boot, table, alarm, past>>

Rearm(w) ==
    /\ Is(w, "rearm")
    /\ worker' = [worker EXCEPT ![w] = IdleWork]
    /\ UNCHANGED tasks /\ Arm
    /\ UNCHANGED <<now, boot, disk, spent, past>>
-----------------------------------------------------------------------------
Calls == [spent EXCEPT !.calls = @ + 1]

(* RunNow: a run out of turn, which leaves the schedule alone.             *)
RunNow(w, id) ==
    /\ Up /\ Has(id) /\ Spare(w) /\ spent.calls < MaxCalls
    /\ worker' = [worker EXCEPT ![w] = [IdleWork EXCEPT !.pc = "manual", !.cur = id]]
    /\ spent' = Calls
    /\ UNCHANGED <<now, boot, tasks, disk, alarm, past>>

FinishNow(w) ==
    /\ Is(w, "manual")
    /\ LET id == worker[w].cur
       IN  IF Has(id)
           THEN tasks' = [tasks EXCEPT ![IndexOf(id)].ran = TRUE] /\ Save(spent) /\ owed' = owed \ {id}
           ELSE UNCHANGED <<table, owed>>
    /\ worker' = [worker EXCEPT ![w] = IdleWork]
    /\ UNCHANGED <<now, boot, alarm, made, told>>
-----------------------------------------------------------------------------
(* Calls that change the table: one critical section each.                 *)

(* History: callbacks in flight are disturbed.                             *)
Call ==
    /\ Up /\ spent.calls < MaxCalls
    /\ worker' = [w \in Worker |-> IF w \in Callbacks THEN [worker[w] EXCEPT !.calm = FALSE] ELSE worker[w]]

(* A past one-shot is refused.  A task whose save fails is in the table    *)
(* although the caller hears of an error.  Any id that is not used yet is  *)
(* as good as another.                                                     *)
Create(id, e) ==
    /\ Call
    /\ id \in Task \ made /\ id = CHOOSE t \in Task \ made : TRUE
    /\ NextRun(e) /= None
    /\ tasks' = Append(tasks, [id |-> id, expr |-> e, enabled |-> TRUE, next |-> NextRun(e), ran |-> FALSE])
    /\ Save(Calls) /\ Arm
    /\ made' = made \cup {id}
    /\ owed' = IF e.once /\ Saved THEN owed \cup {id} ELSE owed
    /\ UNCHANGED <<now, boot, told>>

Without(list, i) == SubSeq(list, 1, i - 1) \o SubSeq(list, i + 1, Len(list))

\* Mutant: the timer stays armed for the task that is gone.
DeleteUnarmed(id) ==
    /\ Call /\ Has(id)
    /\ tasks' = Without(tasks, IndexOf(id))
    /\ Save(Calls) /\ UNCHANGED alarm
    /\ owed' = owed \ {id}
    /\ UNCHANGED <<now, boot, made, told>>

Delete(id) ==
    /\ Call /\ Has(id)
    /\ tasks' = Without(tasks, IndexOf(id))
    /\ Save(Calls) /\ Arm
    /\ owed' = owed \ {id}
    /\ UNCHANGED <<now, boot, made, told>>

(* Update with what the user entered: an expression, or whether the task   *)
(* is enabled (UpdateScheduledTask, Pause- and ResumeScheduledTask of      *)
(* desktop/scheduler_app.go).  An enabled one-shot in the past is refused after the  *)
(* entry was changed, which neither saves nor arms the timer.              *)
Running(id) == \E w \in Worker : Is(w, "run") /\ worker[w].cur = id

Update(id, e, on) ==
    LET i == IndexOf(id)
        changed == [tasks[i] EXCEPT !.expr = e, !.enabled = on]
        refused == on /\ NextRun(e) = None
    IN
    /\ Call /\ Has(id)
    /\ tasks[i].expr = e \/ tasks[i].enabled = on
    /\ IF refused
       THEN /\ tasks' = [tasks EXCEPT ![i] = changed]
            /\ spent' = Calls /\ unarmed' = TRUE
            /\ UNCHANGED <<disk, timer, owed>>
       ELSE /\ tasks' = [tasks EXCEPT ![i] = [changed EXCEPT !.next = IF on THEN NextRun(e) ELSE None]]
            /\ Save(Calls) /\ Arm
            /\ owed' = IF ~(on /\ e.once) THEN owed \ {id}
                       ELSE IF Saved /\ ~tasks[i].ran /\ ~Running(id) THEN owed \cup {id}
                       ELSE owed
    /\ UNCHANGED <<now, boot, made, told>>
-----------------------------------------------------------------------------
(* The process ends, and starts again: Load, Start, DrainMissedReminders,  *)
(* and a notification for each reminder a little later.                    *)
ProcessEnds ==
    /\ app /= "down" /\ spent.ends + spent.fails < MaxFaults
    /\ Ends
    /\ spent' = [spent EXCEPT !.ends = @ + 1]
    /\ UNCHANGED <<now, disk, made, told>>

Passed(e) == e.enabled /\ e.expr.once /\ NextRun(e.expr) = None

Missed(e) == Passed(e) /\ ~e.ran

Loaded(e) ==
    IF ~e.enabled THEN e
    ELSE IF Passed(e) THEN [e EXCEPT !.enabled = FALSE, !.next = None]
    ELSE [e EXCEPT !.next = NextRun(e.expr)]

\* Mutant: what Load disables is not saved.
LoadUnsaved ==
    /\ app = "down" /\ app' = "loaded"
    /\ tasks' = [i \in DOMAIN disk |-> Loaded(disk[i])]
    /\ missed' = {disk[i].id : i \in {j \in DOMAIN disk : Missed(disk[j])}}
    /\ UNCHANGED <<now, disk, spent, alarm, worker, telling, past>>

Load ==
    /\ app = "down" /\ app' = "loaded"
    /\ tasks' = [i \in DOMAIN disk |-> Loaded(disk[i])]
    /\ missed' = {disk[i].id : i \in {j \in DOMAIN disk : Missed(disk[j])}}
    /\ Save(spent)
    /\ UNCHANGED <<now, alarm, worker, telling, past>>

Start ==
    /\ app = "loaded" /\ app' = "up"
    /\ UNCHANGED tasks /\ Arm
    /\ UNCHANGED <<now, disk, spent, worker, missed, telling, past>>

DrainMissedReminders ==
    /\ app = "up" /\ app' = "drained"
    /\ telling' = missed /\ missed' = {}
    /\ UNCHANGED <<now, table, alarm, worker, past>>

Tell(id) ==
    /\ app = "drained" /\ id \in telling
    /\ telling' = telling \ {id}
    /\ told' = [told EXCEPT ![id] = @ + 1]
    /\ owed' = owed \ {id}
    /\ UNCHANGED <<now, app, table, alarm, worker, missed, made>>

Tick ==
    /\ now < MaxTime /\ now' = now + 1
    /\ UNCHANGED <<boot, table, alarm, worker, past>>
-----------------------------------------------------------------------------
Callback(w) == Expire(w) \/ Collect(w) \/ Pick(w) \/ Finish(w) \/ Rearm(w) \/ FinishNow(w)
Boot == Load \/ Start \/ DrainMissedReminders \/ \E id \in Task : Tell(id)
User ==
    \E id \in Task :
        \/ Delete(id)
        \/ \E w \in Worker : RunNow(w, id)
        \/ \E e \in Expr : Create(id, e) \/ (\E on \in BOOLEAN : Update(id, e, on))

SchedulerNext == (\E w \in Worker : Callback(w)) \/ Boot \/ User \/ Tick \/ ProcessEnds

SchedulerSpec == SchedulerInit /\ [][SchedulerNext]_schedulerVars

(* Timers expire, goroutines go on, runs end (runOne and the deliveries    *)
(* have timeouts) and startup completes.  The clock, the user and the      *)
(* start of a process that is down owe nothing.                            *)
SchedulerFairSpec ==
    /\ SchedulerSpec
    /\ \A w \in Worker : WF_schedulerVars(Callback(w))
    /\ WF_schedulerVars(Start \/ DrainMissedReminders \/ \E id \in Task : Tell(id))
-----------------------------------------------------------------------------
(* TimerIsNearest: while no callback is in flight, the timer is armed for  *)
(* the task that is due next, and for none when there is none.  Calls and  *)
(* callbacks arm it by turns, each from the table it leaves behind.  Only  *)
(* a refused Update changes the table and arms nothing.                    *)
TimerIsNearest ==
    /\ SchedulerTypeOK
    /\ Up /\ Callbacks = {} /\ ~unarmed => timer = Nearest(tasks)

(* CalmCallbacksAreExact: in a callback that no call came across, what     *)
(* runs is enabled, due and still at its index, and nothing else runs on   *)
(* schedule ("sequentially").  A call in between breaks each of these: it  *)
(* arms the timer during the run, and a deletion moves the indices.        *)
CalmCallbacksAreExact ==
    \A w \in Worker :
        Is(w, "run") /\ worker[w].calm =>
            /\ Callbacks = {w}
            /\ LET i == NextIndex(w) IN
                  /\ i \in DOMAIN tasks /\ tasks[i].id = worker[w].cur
                  /\ tasks[i].enabled /\ tasks[i].next /= None /\ tasks[i].next <= worker[w].at

(* RemindersAreKept: a one-shot that was accepted and saved is waiting for *)
(* its instant, running, or about to be told as missed, until a run of it  *)
(* has ended or the user called it off - across ends of the process and    *)
(* refused changes.  Not covered, since the code loses them: a one-shot    *)
(* set for a task that has run before or runs now, and one whose           *)
(* notification the end of the process cuts off.  A missed reminder is     *)
(* told once however often the program starts: only a call that sets it    *)
(* again, or a save that failed, brings it back.                           *)
RemindersAreKept ==
    /\ \A id \in Task : told[id] <= spent.calls + spent.fails
    /\ \A id \in owed :
        /\ Up => (Has(id) /\ tasks[IndexOf(id)].enabled /\ tasks[IndexOf(id)].next /= None) \/ id \in missed \cup telling
        /\ app = "loaded" => Has(id)

(* DueTasksRun: a task that is due runs, or is changed, in the end, unless *)
(* a refused Update enabled it.                                            *)
IsDue(id) == Up /\ \E e \in Entries : e.id = id /\ Due(e, now)
DueTasksRun == \A id \in Task : IsDue(id) ~> ~IsDue(id) \/ unarmed
=============================================================================
