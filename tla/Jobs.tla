-------------------------------- MODULE Jobs --------------------------------
(***************************************************************************)
(* The session's background-job table (internal/jobs/jobs.go): the tool    *)
(* goroutines that Start, Kill and Wait for jobs, the goroutine each job   *)
(* runs on, the controller that drains completion notes and closes the     *)
(* table.                                                                  *)
(*                                                                         *)
(* One step is one critical section of Manager.mu or Job.mu, or one        *)
(* operation on a context, a channel or the WaitGroup.  Output bytes are   *)
(* in JobOutput; ids, labels and notices carry no control.                 *)
(***************************************************************************)
EXTENDS Naturals, FiniteSets

CONSTANTS
    Job,            \* the ids Start may hand out
    Waiter          \* tool calls that may sit in Wait

Running == "running"
Done    == "done"
Failed  == "failed"
Killed  == "killed"
Absent  == "absent"     \* no such id in the table yet

Terminal == {Done, Failed, Killed}

(* Where a job's goroutine is.  From "running" to "signalled" it is counted *)
(* in Manager.wg.                                                          *)
InWaitGroup == {"running", "returned", "classified", "recorded",
                "published", "signalled"}
PC == {Absent, "registered", "exited"} \cup InWaitGroup

Report == [job : Job, st : Terminal]    \* one "<id> -- <status>" summary

VARIABLES
    pc,         \* [Job -> PC], the position of the job's goroutine
    status,     \* [Job -> Status], Job.status
    failed,     \* jobs whose run function returned an error
    st,         \* [Job -> Status], the goroutine's local st
    killing,    \* jobs a Kill has flipped and not yet cancelled
    cancelled,  \* jobs whose own context was cancelled by Kill
    rootDone,   \* Manager.root was cancelled by Close
    hook,       \* SetCompletionHook was called, before the first Start
    closer,     \* where Close is: "open", "waiting" or "closed"
    completed,  \* Manager.completed, summaries awaiting the drain
    told,       \* history: summaries already drained, or given to the hook
    wait        \* [Waiter -> record], the calls of Wait

jobVars  == <<pc, status, failed, st>>
killVars == <<killing, cancelled>>
mgrVars  == <<rootDone, hook, closer>>
noteVars == <<completed, told>>
vars     == <<jobVars, killVars, mgrVars, noteVars, wait>>

(* One call of Wait: its targets, the results it returned and whether a    *)
(* timeout or the caller's context cut it short.                           *)
WaitState == [pc : {"idle", "blocked", "returned"},
              targets : SUBSET Job,
              seen : SUBSET [job : Job, st : Terminal \cup {Running}],
              cut : BOOLEAN]

NotWaiting == [pc |-> "idle", targets |-> {}, seen |-> {}, cut |-> FALSE]

TypeOK ==
    /\ pc \in [Job -> PC]
    /\ status \in [Job -> Terminal \cup {Running, Absent}]
    /\ failed \subseteq Job
    /\ st \in [Job -> Terminal \cup {Absent}]
    /\ killing \subseteq Job
    /\ cancelled \subseteq Job
    /\ rootDone \in BOOLEAN
    /\ hook \in BOOLEAN
    /\ closer \in {"open", "waiting", "closed"}
    /\ completed \subseteq Report
    /\ told \subseteq Report
    /\ wait \in [Waiter -> WaitState]

Init ==
    /\ pc = [j \in Job |-> Absent]
    /\ status = [j \in Job |-> Absent]
    /\ failed = {}
    /\ st = [j \in Job |-> Absent]
    /\ killing = {}
    /\ cancelled = {}
    /\ rootDone = FALSE
    /\ hook \in BOOLEAN
    /\ closer = "open"
    /\ completed = {}
    /\ told = {}
    /\ wait = [w \in Waiter |-> NotWaiting]

(* Mutant of ContextDone: jobs run under a fresh context, not under root.  *)
ContextDoneOwn(j) == j \in cancelled

ContextDone(j) == rootDone \/ j \in cancelled   \* ctx.Err() # nil

RunningJobs == {j \in Job : status[j] = Running}
Registered  == {j \in Job : pc[j] # Absent}

-----------------------------------------------------------------------------
(* Start: the table entry, then wg.Add and the goroutine.  Nothing makes a *)
(* Start fail after Close.                                                 *)

Register(j) ==
    /\ pc[j] = Absent
    /\ pc' = [pc EXCEPT ![j] = "registered"]
    /\ status' = [status EXCEPT ![j] = Running]
    /\ UNCHANGED <<failed, st, killVars, mgrVars, noteVars, wait>>

Launch(j) ==
    /\ pc[j] = "registered"
    /\ pc' = [pc EXCEPT ![j] = "running"]
    /\ UNCHANGED <<status, failed, st, killVars, mgrVars, noteVars, wait>>

-----------------------------------------------------------------------------
(* The job's goroutine.                                                    *)

RunReturn(j) ==
    /\ pc[j] = "running"
    /\ pc' = [pc EXCEPT ![j] = "returned"]
    /\ failed' \in {failed, failed \cup {j}}
    /\ UNCHANGED <<status, st, killVars, mgrVars, noteVars, wait>>

(* The context is looked at before the error.                              *)
Classify(j) ==
    /\ pc[j] = "returned"
    /\ pc' = [pc EXCEPT ![j] = "classified"]
    /\ st' = [st EXCEPT ![j] = IF ContextDone(j) THEN Killed
                               ELSE IF j \in failed THEN Failed ELSE Done]
    /\ UNCHANGED <<status, failed, killVars, mgrVars, noteVars, wait>>

(* Mutant of Record: the summary is queued with the status as published,   *)
(* which at this point is still Running or a Kill's.                       *)
RecordAsKilled(j) ==
    /\ pc[j] = "classified"
    /\ pc' = [pc EXCEPT ![j] = "recorded"]
    /\ completed' = completed \cup {[job |-> j, st |-> Killed]}
    /\ UNCHANGED <<told, status, failed, st, killVars, mgrVars, wait>>

(* recordCompletion: the hook when there is one, else the drain summary.   *)
Record(j) ==
    LET r == [job |-> j, st |-> st[j]] IN
    /\ pc[j] = "classified"
    /\ pc' = [pc EXCEPT ![j] = "recorded"]
    /\ IF hook
         THEN told' = told \cup {r} /\ completed' = completed
         ELSE completed' = completed \cup {r} /\ told' = told
    /\ UNCHANGED <<status, failed, st, killVars, mgrVars, wait>>

(* Mutant of Publish: the terminal status is stored unconditionally.       *)
PublishOverKill(j) ==
    /\ pc[j] = "recorded"
    /\ pc' = [pc EXCEPT ![j] = "published"]
    /\ status' = [status EXCEPT ![j] = st[j]]
    /\ UNCHANGED <<failed, st, killVars, mgrVars, noteVars, wait>>

(* A concurrent Kill already published Killed: keep it.                    *)
Publish(j) ==
    /\ pc[j] = "recorded"
    /\ pc' = [pc EXCEPT ![j] = "published"]
    /\ status' = [status EXCEPT ![j] = IF @ = Killed THEN @ ELSE st[j]]
    /\ UNCHANGED <<failed, st, killVars, mgrVars, noteVars, wait>>

(* close(j.done)                                                           *)
Signal(j) ==
    /\ pc[j] = "published"
    /\ pc' = [pc EXCEPT ![j] = "signalled"]
    /\ UNCHANGED <<status, failed, st, killVars, mgrVars, noteVars, wait>>

(* the deferred wg.Done                                                    *)
Exit(j) ==
    /\ pc[j] = "signalled"
    /\ pc' = [pc EXCEPT ![j] = "exited"]
    /\ UNCHANGED <<status, failed, st, killVars, mgrVars, noteVars, wait>>

(* Mutant of DoneClosed: done is closed as soon as run has returned, ahead *)
(* of the bookkeeping.                                                     *)
DoneClosedEarly(j) == pc[j] \notin {Absent, "registered", "running"}

DoneClosed(j) == pc[j] \in {"signalled", "exited"}

-----------------------------------------------------------------------------
(* Kill: the flip under Job.mu, then the cancel outside it.                *)

KillFlip(j) ==
    /\ status[j] = Running
    /\ status' = [status EXCEPT ![j] = Killed]
    /\ killing' = killing \cup {j}
    /\ UNCHANGED <<pc, failed, st, cancelled, mgrVars, noteVars, wait>>

(* Mutant of KillCancel: the flip is all there is.                         *)
KillWithoutCancel(j) ==
    /\ j \in killing
    /\ killing' = killing \ {j}
    /\ UNCHANGED <<cancelled, jobVars, mgrVars, noteVars, wait>>

KillCancel(j) ==
    /\ j \in killing
    /\ killing' = killing \ {j}
    /\ cancelled' = cancelled \cup {j}
    /\ UNCHANGED <<jobVars, mgrVars, noteVars, wait>>

-----------------------------------------------------------------------------
(* Wait: resolve the targets, block on their done channels, snapshot.      *)
(* Both loops over the jobs take each Job.mu in turn; a status only moves  *)
(* once, so one step stands for either loop.                               *)

Snapshot(T) == {[job |-> j, st |-> status[j]] : j \in T}

(* No ids: every job running now.  Ids: those of them the table knows.     *)
WaitCall(w) ==
    /\ wait[w].pc = "idle"
    /\ \E T \in {RunningJobs} \cup SUBSET Registered :
         /\ T # {}
         /\ wait' = [wait EXCEPT ![w].pc = "blocked", ![w].targets = T]
    /\ UNCHANGED <<jobVars, killVars, mgrVars, noteVars>>

WaitDone(w) ==
    /\ wait[w].pc = "blocked"
    /\ \A j \in wait[w].targets : DoneClosed(j)
    /\ wait' = [wait EXCEPT ![w].pc = "returned",
                            ![w].seen = Snapshot(wait[w].targets)]
    /\ UNCHANGED <<jobVars, killVars, mgrVars, noteVars>>

(* The timeout elapsed or the caller's context was cancelled.              *)
WaitCut(w) ==
    /\ wait[w].pc = "blocked"
    /\ wait' = [wait EXCEPT ![w].pc = "returned", ![w].cut = TRUE,
                            ![w].seen = Snapshot(wait[w].targets)]
    /\ UNCHANGED <<jobVars, killVars, mgrVars, noteVars>>

-----------------------------------------------------------------------------
(* The controller's side.                                                  *)

(* Mutant of DrainCompletedNote: returns the summaries, does not clear.    *)
DrainWithoutClearing ==
    /\ completed # {}
    /\ told' = told \cup completed
    /\ UNCHANGED <<completed, jobVars, killVars, mgrVars, wait>>

DrainCompletedNote ==
    /\ completed # {}
    /\ told' = told \cup completed
    /\ completed' = {}
    /\ UNCHANGED <<jobVars, killVars, mgrVars, wait>>

CloseCancel ==
    /\ closer = "open"
    /\ closer' = "waiting"
    /\ rootDone' = TRUE
    /\ UNCHANGED <<hook, jobVars, killVars, noteVars, wait>>

CloseReturn ==
    /\ closer = "waiting"
    /\ \A j \in Job : pc[j] \notin InWaitGroup
    /\ closer' = "closed"
    /\ UNCHANGED <<rootDone, hook, jobVars, killVars, noteVars, wait>>

-----------------------------------------------------------------------------
Goroutine(j) ==
    \/ Launch(j)
    \/ Classify(j)
    \/ Record(j)
    \/ Publish(j)
    \/ Signal(j)
    \/ Exit(j)

Next ==
    \/ \E j \in Job : Register(j) \/ RunReturn(j) \/ Goroutine(j)
                        \/ KillFlip(j) \/ KillCancel(j)
    \/ \E w \in Waiter : WaitCall(w) \/ WaitDone(w) \/ WaitCut(w)
    \/ DrainCompletedNote
    \/ CloseCancel
    \/ CloseReturn

Spec == Init /\ [][Next]_vars

(* Goroutines are scheduled; a run function returns once its context is    *)
(* cancelled (exec.CommandContext, ctx-aware model calls) and owes nothing *)
(* before that; a timeout is never owed.                                   *)
Fairness ==
    /\ \A j \in Job : /\ WF_vars(Goroutine(j))
                      /\ WF_vars(ContextDone(j) /\ RunReturn(j))
                      /\ WF_vars(KillCancel(j))
    /\ \A w \in Waiter : WF_vars(WaitDone(w))
    /\ WF_vars(CloseReturn)

FairSpec == Spec /\ Fairness

-----------------------------------------------------------------------------
(* Properties.                                                             *)

Reports == completed \cup told

(* A job's terminal status is published once: the goroutine's own verdict  *)
(* never replaces a concurrent Kill's, nor a Kill a verdict's (Publish     *)
(* against KillFlip; Output, Wait and the status bar all read it).         *)
TerminalIsFinal ==
    [][\A j \in Job : status[j] \in Terminal => status'[j] = status[j]]_vars

(* A finished job is reported to the model at most once, under one status: *)
(* a summary is never both still queued and already drained, and a job     *)
(* never has two (recordCompletion against DrainCompletedNote).            *)
ReportedOnce ==
    /\ completed \cap told = {}
    /\ \A r1, r2 \in Reports : r1.job = r2.job => r1 = r2

(* The reported status is the published one, except that a Kill may have   *)
(* published Killed first; and a job seen Done or Failed has been reported *)
(* so already (Record comes before Publish).                               *)
ReportMatchesStatus ==
    /\ \A r \in Reports : pc[r.job] \in {"published", "signalled", "exited"}
                           => status[r.job] \in {r.st, Killed}
    /\ \A j \in Job : status[j] \in {Done, Failed}
                        => [job |-> j, st |-> status[j]] \in Reports

(* A Wait that ran to completion returns final statuses only, and every    *)
(* job it returns has been reported by then, so that a drain after the     *)
(* Wait finds the summary (the race the comment in Start tells of).        *)
CompleteWaitIsFinal ==
    \A w \in Waiter :
      wait[w].pc = "returned" /\ ~wait[w].cut =>
        \A o \in wait[w].seen :
          /\ o.st \in Terminal
          /\ status[o.job] = o.st
          /\ \E r \in Reports : r.job = o.job

(* A job that slips past Close (Start after wg.Wait returned) still runs   *)
(* under the cancelled session context: it can end only as Killed.         *)
LateStartsAreKilled ==
    closer = "closed" =>
      \A j \in Job : pc[j] \in InWaitGroup => st[j] \in {Absent, Killed}

(* Everything that was told to end does: Close returns, its wait bounded   *)
(* by the jobs observing the cancel, and a killed job's done channel is    *)
(* closed, so that a Wait on it without a timeout does not hang.           *)
JobsEnd ==
    /\ closer = "waiting" ~> closer = "closed"
    /\ \A j \in Job : status[j] = Killed ~> DoneClosed(j)
=============================================================================
