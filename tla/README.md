# hiq: verification project

TLA+ models of the concurrent core of hiq, a coding agent that runs model turns,
tools and background jobs for several frontends (terminal, web server, desktop,
remote host), teams of agents on a board, scheduled prompts, and a ledger of the
devices that trust each other. The modules are translated from the Go source. TLC
checks them on small instances; TLAPS proves every safety property the runs check,
for every instance.

Source paths below are relative to the repository. "Controller" is
`internal/control/controller.go`, "Agent" is `internal/agent/agent.go`.

## 1. The system

A frontend goroutine calls methods of one Controller per open session. The
Controller starts a goroutine per turn; the turn runs the Agent's loop, which
calls the model and the tools. Tools may start background jobs, whose results
come back through the job table (a note on the next turn) or through the deferred
store (a durable row per result). Approval prompts block tool goroutines until a
frontend answers. A goal makes turns follow each other without the user.

```
 frontends --Send, Steer, FollowUp, Pause, Cancel--> Controller --turn goroutine--> Agent.Run
     |                                                   ^   ^                          |
     |--Approve, SetPlanMode, SetToolApprovalMode--------|   |        tools (gates) <---|
                                                         |   |             |
              goal loop (continueGoal) ------------------'   |             v
              deferred.Coordinator --Deliver-----------------'        jobs.Manager
                      ^-------------------- completion hook ----------------'
```

Beside the sessions, the desktop application keeps teams, whose cards are run by
member sessions within a bound, and a scheduler, whose timer starts prompts and
reminders. A daemon per device keeps the trust domain: a chain of signed blocks
that it exchanges with the daemons of other devices, in a file that commands of
the same program write too.

```
 desktop calls --> team.Pool, Store, teamRuns <-- goroutine of each member run
 desktop calls --> Scheduler table, file, timer --> callback goroutine --> run, notification
 commands --> ledger.json <-- daemon (Node.Tick) <--calls over the network--> daemons of other hosts
```

### Components

The components of the first table are modelled.

| component | source | state | operations | modules |
| --- | --- | --- | --- | --- |
| background jobs | internal/jobs/jobs.go | table of jobs, each with a status, a context and a done channel; completion summaries; the wait group | Start, Kill, Wait, Output, DrainCompletedNote, Close, and the goroutine of each job | Jobs, JobOutput |
| deferred results | internal/deferred, the Deliverer half of Controller, the hook in internal/boot/boot.go | rows in memory and in tasks.json, the inflight set, pendingDeferred of the controller | Enqueue, DeliverNow, DeliverPending, the ticker, Prune, MarkDelivered, BumpAttempt, Suppress, Compose's drain | Deferred |
| turn and queues | Controller, Agent | running, cancel, steer and follow-up queues, pause channels, the session pointer | runGuarded, RunTurn, Cancel, Steer, FollowUp, Pause, ResumeTurn, NewSession, ClearSession, Agent.Run | Turn |
| tool approval and plan gate | Controller, internal/permission, executeOne of Agent | approval mode, plan mode, policy, grants, pending prompts, the executor's gate | requestApproval, Ask, Approve, AnswerQuestion, SetPlanMode, SetMode, SetToolApprovalMode | Approval |
| goal loop | Controller, internal/agent/goal_judge.go | goal, status, three counters | SetGoal, ClearGoal, runGoalLoop, advanceGoalAfterTurn, the judge, stopGoal | Goal |
| team pools and board | internal/team, desktop/team_run.go, team_app.go | cards and policy in the store, a pool per team, the cancel functions of the runs | RunTeamTask, CancelTeamTask, MoveTeamTask, approvals, UpdateTeamProject, DeleteTeamProject, CancelAllTeamRuns, the goroutine of each run with its re-planning | TeamPool, TeamRuns, Slots |
| scheduler | internal/scheduler, its start in desktop/app.go | the table of tasks, its file, one timer, missed reminders | Create, Update, Delete, RunNow, Load, Start, DrainMissedReminders, the timer's callback | Scheduler |
| trust domain ledger | internal/trustdomain, its nettrans, internal/cli/trustdomain.go | a chain per host, checkpoints, the ledger file | Propose, ProposeQuorum, Tick (sync, fork choice, checkpoint, persist), reload, the one-shot commands | Chains, Gossip, Ledger |

| component, not modelled yet | what it keeps and does | what would make it correct |
| --- | --- | --- |
| goal domain machine (internal/goal) | a sequential state machine with revisions and a round limit | legal transitions only, revisions only grow |
| checkpoint and rewind (internal/checkpoint) | per-turn snapshots of files | a rewind restores what the files were before the turn, also after a crash in between |
| agent tool dispatch (Agent, op_gate.go) | parallel read-only batches, serial writers | writers never overlap, results keep the order of the calls |
| session branches, Resume, Rewind | replacement of the session | as NewSession in Turn |
| compaction, evidence, permission rules, memory | text and pure functions | left to unit tests |
| task monitor (internal/taskmonitor) | an observer of the job table | shows what the table holds |
| plugins, hooks, mobile bridge, link peer, network devices, providers, retrieval, sandbox, billing, frontends | external processes, transports, devices, I/O | outside the models: a call that returns, fails or is cancelled |
| sessioninbox, turnevent, workspacelease, taskcatalog, readcoord, persistentshell, sessiontemp, topicstate, guardian, runtimepolicy, plancontract, worktree | packages that no package of the program imports at this commit | not part of the running system |

### What is hard

- **Interleaving.** Frontends, the turn, tools, job goroutines, the deferred
  ticker and mode switches share one mutex and release it around every slow step.
  What was read before an unlock is used after it in FollowUp, Steer, Cancel,
  Pause, NewSession, SetPlanMode, SetToolApprovalMode, requestApproval and
  advanceGoalAfterTurn.
- **Ordering.** A job's summary must be queued before its done channel closes; a
  steer may arrive while the run accepts its answer; blocks and checkpoints reach
  the hosts of a domain in any order.
- **Failure.** A save of the deferred table may fail although its memory has
  changed; the process may end at any step, also between the two halves of the
  replacement of a file; a model call may fail or be stopped. Saves of the team
  store, the scheduler and the ledger fail after the memory has changed.
- **Unreliable delivery.** A host of a trust domain makes up to four calls to a
  peer within one synchronisation; each may be lost, and the peer's chain may
  change in between. The ledger file is written by several processes without a lock.
- **Retries.** The deferred ticker tries again what an enqueue or a flush may be
  delivering at that moment.
- **Liveness.** Close waits for jobs, a stop must end a paused turn, a goal loop
  must end whatever the model replies, a queue of cards must drain, a timer must
  stay armed, hosts must come to one chain.

`PROJECT.json` lists every hazard at its line with the properties that cover it.

## 2. Modules

One step of a module is one critical section, one channel operation, or one slow
call between two critical sections. History variables, marked so where they are
declared, record what the properties speak about and are read by no guard.

### Jobs

`pc[j]` is the position of job j's goroutine in Start's closure: run, classify
(the switch on ctx.Err and err), record (recordCompletion), publish (the locked
assignment of status), signal (close(done)), exit (wg.Done). `st` is its local
verdict, `status` what the table shows. Kill is two steps, the flip under the
lock and the cancel after it. Wait is called with some of the jobs and returns
when all done channels are closed, or is cut by its timeout or context. Close
cancels the session context and waits for the wait group. With the hook
installed, summaries go to the hook and never to the drain. Ids, labels,
start times and notices are left out; a job id is an element of `Job`.

`RecordAsKilled`, `PublishOverKill` and the other definitions that no action
uses are *mutants*: forms of an action with a plausible bug, which show that a
property notices it. Every module has some; their comments say so.

### JobOutput

The bytes of one job: `head`, `tail`, `full` and `truncated` are cappedBuffer's
fields, WriteDiscard, WriteHead and WriteSwitch the three branches of Write. The
n-th byte is the number n, so that lost, repeated and reordered bytes show. The
truncation marker keeps its length, which depends on the count it prints: a read
offset into the rendering is wrong when the length changes.

### Deferred

A *build* is one run of boot.Build (a start, a restart, a model switch): a job
table that counts from 1, a Coordinator with its copy of the task table, a
Controller. `disk` is tasks.json. A result is a pair of build and job number; its
task id is only the number, as in the code. A worker is a goroutine in
DeliverNow: `Claim` (inflight), `Query` (the row, re-read), the Deliverer's
`Ask` and `Push` with the unlock between them, `Mark`, `Bump`, `Suppress`, each
of which saves and may fail to. `Turn` is the Compose that drains
pendingDeferred into the transcript of the session bound at that moment.
`ProcessEnds` may come at any step and loses all memory. `MaxLive` bounds the
builds that are open at once: a model switch starts the new one before the old
controller closes. `stale` and `overwrote` are history: the builds whose copy lacks
what another one saved, and whether one of those has saved. What a follow-up hand-off
does to the turn is in Turn; here it is a hand-off like any other. Message
text, the follow-up policy and the corrupt-file path are left out. `NothingLost`
speaks of job numbers that are used once and of the time before a stale copy is
saved, see section 5.

### Turn

A turn is named by the message that opened it. `pc[t]` walks through the claim,
Agent.Run's loop (`top`, `paused`, `steps`, `stream`, `settled`, `closing`), the
ways out (`failed`, `between`, `over`) and runGuarded's epilogue (`ended`,
`resubmit`). `steps` is everything between the head of an iteration and the model
call: the steer is consumed and appended there. `settled` is the accepted final
answer before the check of the steer queue. `op[c]` is a frontend call that has read
`running` and not acted yet. `fate[m]` follows a message: sent, queued, steering,
and finally a turn, heard, or dropped in one of the ways the code has (`missed` for
a steer queued before the answer, `late` for one queued after it, `cut` when the run
was stopped or failed, `lost` for a prompt sent to a busy controller). `wrote[t]` is
the set of transcripts a turn appended to. Panics are recovered as in runGuarded.
`stuck` is a turn whose judge refused (`JudgeRefuses`, also by a cancelled call):
the turn keeps the controller's mutex and waits for itself, and the calls that need
the mutex wait with it (`MuFree`). `held` is history: a Pause taken within the run
that no Resume has answered.

### Approval

A call is a goroutine of a writer tool, of a tool with an ask rule, of a plan
approval, of a question, or of a revision of a plan that is being carried out
(`Replan`: compose asks, with the approved plan's window still open; a revision that
is approved goes on, one that is refused ends the run, `Refused`). Only a turn's
goroutine (`TurnLoop`) has a plan to approve. `PlanGate`, `Check`, `Request`,
`Register`, `Prompt` are the plan gate of executeOne, the gate's decision, the first
look of requestApproval, the wait for promptMu, and the second look with the
registration. `Receive` and `Abandon` are the two arms of its select. An answer
takes the prompt out of the map under the lock and sends after it, hence `owed`.
`setter` is the one mode switch in progress, stretched over its unlocked steps
(StorePlanMode, SetToolApprovalMode, NewInteractiveGate, SetGate, SendDrained);
prompts and answers run in between. Two switches at once are not modelled. `gate` is
the policy copy the executor holds. The rule grammar is reduced to what decides:
whether an ask rule or no rule matches, and whether HardDeny is in.

### Goal

`pc` is the goroutine that runs the loop. `TurnEnds` is runTurn with the reply
the model happened to give; `Advance` is the locked part of
advanceGoalAfterTurn, `Judge` the unlocked model call, `Recheck` the second
locked part, `Continue` the rest of continueGoal. `mu` shows who holds the lock
between two steps, because one path returns with it held. `hist` is the
sequence of replies counted since the goal was set. Strict goals are left out:
SetGoalStrict has no caller outside the tests.

### TeamPool, TeamRuns, Slots

TeamPool has the operations of team.Pool as operators on a record of bound, running
cards and queue: `Admit`/`Admitted`, `Released`/`ReleaseStarts`,
`Rebounded`/`SetMaxStarts`, `Dequeued`, `Emptied`, each a critical section. TeamRuns
has the threads around it: a thread is a call of the desktop frontend or the
goroutine of a member run, `proc[p].pc` its position, `todo` the promoted cards it
still has to start. `Ensure` gets the pool and `AdmitCard` asks it for a slot; a
deletion takes the pool from the map (`Drop`), empties it (`Empty`) and cancels the
runs it found there (`CancelDropped`), so a thread may be admitted to a pool that
nobody can reach any more: `orphan` is that pool, `strays` the threads that hold it.
Release, Rebound and CancelTeamTask look the pool up and use it in one step.
`Launch` books the cancel function, `Flip` writes the card, `Work` is the session,
`Forget` removes the cancel function, `Release` passes the slot on, `Replan` retries
a failed card. Store.Update is one step, which may fail after it changed the memory;
a call whose save fails ends there. Every other call of the frontend (cancel, drag,
confirm, reject, change the gate or the bound, delete, quit) is an action of its
own; those that unlock in between take several steps.

Slots is what the team promises, without pool, queue or thread: a session runs
only under a grant, grants stay within the bound in force when they are made.
`Bounded` says that TeamRuns implements it, with the running cards of the pool as
grants and the threads at `work` as sessions.

### Scheduler

`tasks` is the table, `disk` its file, `timer` when the one timer expires. A worker
is a goroutine of the timer's callback or of RunNow: `Expire`, `Collect` (the
indices of the due tasks, under the lock), then for each index `Pick`, the run
outside the lock, `Finish`; then `Rearm`. `Pick` past the end of the table is the
panic it is in the code, which ends the process. `ProcessEnds`, `Load`, `Start`,
`DrainMissedReminders` and `Tell` are the restart with its missed reminders. Time is
a counter, an expression an instant or a period. `calm` marks a callback no call
came across, `owed` the one-shots accepted and saved. The indices collected are a
set, of which the least is next. Scheduler's specification is called SchedulerSpec,
for its proofs share a module with Goal's.

### Chains, Gossip, MCGossip, Ledger

Chains has the pure part: what is a chain, the members and admins after it,
ValidateBlock, the quorum, ForkChoice (`Prefers`), TryExtend, MergeFork. Gossip has
a node per host: `Propose` gathers the signatures a record needs; a tick is, for
each peer, `Ask` (its status, PlanSync), `Pull`, and, when the blocks do not connect,
`AskHeight` and `PullAll`; then `MaybeCheckpoint`, which puts the block into memory,
from where peers are served, and `Persist`, whose write may fail without the tick
noticing. Any call may be lost and any process may end and start over its file (`End`,
`Restart`); `Fault` counts lost calls, failed writes and ends. `unsaved` and `forgot`
are history: the nodes with a checkpoint of their own still to write, and whether one
of them has ended. `AsksBlindly` is the lost status on a chain that is only the
genesis; it needs a domain whose hosts are all founders, and the instance's third
host is not. MCGossip holds the network of the instance.

Ledger opens the save up: the daemon and the one-shot commands share a file, a save
writes a temporary file, removes the ledger and renames, and a process may end or a
step fail between any two. A command proposes one block (`Propose`) or is `sync`,
which takes a round with the peers (`Sync`, `EndSync`). `changed` stands for the
stamp (time and size) by which the daemon sees that another process wrote. What the
peers give is a block that extends the chain or a preferred branch, no shorter
(`Switched`). `upset` is history: what disturbed the processes so far, which the
properties name as their conditions.

## 3. Runs

`tlc -config <cfg> <module>` in this directory; each run takes seconds to two
minutes (the largest are approval with 1.47 million states and team with 1.21
million). Deadlock is not an error in most runs because the system may come to
rest: all jobs ended, all messages sent, all calls returned. In job_output it is
checked: a reader may always read.

| run | cfg, module | instance | question |
| --- | --- | --- | --- |
| jobs | MCJobs, Jobs | 2 jobs, 1 waiter, with and without the hook | Is each finished job reported once, under the status that is published; does a complete Wait see final, reported jobs; do Close and killed jobs end? |
| job_output | MCJobOutput, JobOutput | half the cap is 3 bytes, writes of 1 to 5, 16 bytes in all | Is every byte kept or counted; do reads return the output exactly below the cap and the result once? |
| deferred | MCDeferred, Deferred | 2 builds one after the other, 1 job each, 2 workers, 2 attempts, 2 failing saves, process ends | Is a result handed over once, does a recorded one stay recorded until it is handed over or given up, and a row settle in the end, whatever fails, ends or is rebound? |
| turn | MCTurn, Turn | 2 messages, 2 callers, 1 rotation | Is there one turn, is a steer in time heard, does no message run twice, does a pause freeze and a stop end a turn that is not stuck on its own lock? |
| approval | MCApproval, Approval | a turn, which may have a plan approved and revise it, and a call of any other kind beside it | Is there one prompt, does yolo mode leave none, are plans and questions the user's, does each prompt get one reply and go on? |
| goal | MCGoal, Goal | 2 objectives, 2 reasons, 4 turns, 4 sets | Is a goal blocked only when its own replies say so (an idle turn and then one marked continue excepted), does a dead goal stay dead, does the loop end? |
| team | MCTeam, TeamRuns | 2 cards, 3 threads, bounds 1 and 2, 2 rounds, 2 runs and 1 other call of the user, 1 failing save | Is every booked slot owned, does a stop or a deletion reach the run, are deliverables confirmed by the user, does the queue drain, and is the bound on sessions implemented? |
| scheduler | MCScheduler, Scheduler | 2 tasks, 2 workers, instants 1 and 2, period 1, 3 calls, 2 faults | Is the timer armed for the nearest task, does a due task run, is no reminder lost or told twice? |
| gossip | MCGossip, MCGossip | 3 hosts in a line, 2 admins who must both sign, 2 proposals (one revokes a host), 4 blocks, checkpoint after every block, 1 fault | Do checkpoints agree, does no host fall back, do the hosts come to one chain? |
| ledger | MCLedger, Ledger | the daemon and 2 commands, 3 blocks, 1 fault | Does the chain survive on disk, does a reported block stay, is what the daemon has in memory saved? |
| goal_cancel | GoalCancel, Goal | 1 objective, 1 reason, 3 turns, 1 set | violated: CancelEndsLoop |
| gossip_peer_lost | GossipPeerLost, MCGossip | as gossip | violated: PeersAreNeverFatal |

Where a module's TypeOK is not named in a cfg it is the first conjunct of one of
the invariants that are (JobOutput, Deferred, Approval, Goal, TeamRuns,
Scheduler, Gossip, Ledger), or is proved (Jobs, Turn).

### Bounds and why they are enough

- *Jobs*: the properties relate one job with the drain, one waiter and Close, and
  two jobs with each other in a Wait of both; a third job adds no new pair. The
  theorems remove this bound.
- *JobOutput*: with half the cap at 3 and writes up to 5, one write may fill the
  head, cross it, and leave more than a tail behind. 16 bytes take the count to
  10, where the marker grows a digit.
- *Deferred*: two workers can meet on one row; a third would find the same
  inflight entry. Two attempts tell the first from the last. Two failing saves let
  the record and the mark of one result fail both. Rows do not touch each other
  except through the file, which is saved as a whole; so one job per build
  suffices, and two builds meet in the file, the later one after a process end. With
  both alive at once (MaxLive 2) and one failing save DeliveredOnce and NothingLost
  hold on 4.7 million states; RowsSettle takes too long there to be a run.
- *Turn*: two messages give a turn and a second prompt, steer or follow-up for
  it, and two callers let two frontends sit between their read and their act. A
  third message would allow a queue of two behind a turn; the theorems hold for
  any number.
- *Approval*: a third call would queue behind promptMu like the second. Answers
  to one prompt never depend on others, except through the grants, which two
  calls share. Mode switches are unlimited, and so are revisions of a plan. One
  of the calls is a turn, as a controller runs one at a time; with both as turns the
  properties hold on 2.1 million states.
- *Goal*: three equal reasons need a budget above three; four sets allow a goal to
  be set, replaced, cleared and set again under one loop.
- *TeamRuns*: two cards and the bounds 1 and 2 give a full pool, a queue and a
  change of the bound both ways. Three threads are two runs and a call across them,
  or a run and two calls. Two rounds tell a retry from the last one. The exception of
  StopReachesTheRun for a late admission takes a fourth thread to be needed; with four
  the safety properties hold on 5.5 million states.
- *Scheduler*: two tasks let a deletion move an index; two workers let a second
  callback or RunNow overlap the first. An instant of the past, the present or the
  future exists at each clock value.
- *Gossip*: on a line the ends only hear of each other through the middle, so
  blocks arrive late and forks have time to grow. Two proposals and two checkpoints
  are enough for two branches of different length, a revocation on one of them, and a
  checkpoint that its admin forgets while the member at the end of the line keeps it:
  without `~forgot` this instance violates CheckpointsAgree. With a third proposal, by
  that member, all three properties hold on 0.8 million states.
- *Ledger*: two commands can overlap each other and the daemon; three blocks allow a
  preferred branch after a reported block, or one in its place and a block on it. With
  four the safety properties hold on 5.5 million states. The theorems remove the bounds.

### Fairness and why the code justifies it

- *Jobs*: the Go scheduler runs a job's goroutine, a Kill past its flip, a waiter
  whose channels are closed, and a Close whose wait group is empty. A run function
  is owed to return only once its context is cancelled, which exec.CommandContext
  and the model calls honour. Timeouts are owed to nobody.
- *Deferred*: goroutines in DeliverNow go on. While the coordinator is open its
  ticker walks all deliverable rows, so a row that is again and again free to be
  claimed is claimed (strong fairness: other goroutines may hold its inflight entry
  in between). Neither a turn, a rebind nor a job is owed.
- *Turn*: the turn's goroutine runs and a provider call returns, as it does when its
  context is cancelled. No frontend call is owed. A turn stuck on its own lock, and
  whoever waits for that lock, is owed nothing: StopEndsTurn says that a stopped
  turn ends or is stuck.
- *Approval*: a waiting goroutine whose select can go on, a send to the buffered
  channel and an approval-mode switch under way are scheduled. The user may leave
  every prompt unanswered; AnswerReturns claims nothing of those.
- *Goal*: the loop's goroutine runs, the model call returns, the judge is cut after
  a minute. `Locked` is in the guards, so a loop that waits for a lock nobody will
  release is not owed a step.
- *TeamRuns*: threads go on and a session ends: its steps are capped by MaxSteps
  (team_run.go:535, DefaultMemberMaxSteps) and a provider call returns. The user
  owes nothing; Settles holds because his calls are bounded.
- *Scheduler*: an expired timer's goroutine runs, a run ends by its timeout, and a
  startup completes. The clock, the user and the operator owe nothing.
- *Gossip*: a daemon ticks, and sees each of its peers within a tick; one that
  panicked is started again. Calls and writes fail only finitely often.
- *Ledger*: the daemon ticks on its timer, and one that ended is started again.

### What the violated properties show

1. **goal_cancel** (Controller:1013). When the judge does not confirm,
   advanceGoalAfterTurn returns with the controller's mutex held, and the loop's
   next step waits for itself. A Stop during the judge's call is such a refusal.
2. **gossip_peer_lost** (internal/trustdomain/node.go:153). When the pulled blocks do
   not connect, syncFrom asks for the whole chain. A peer that is lost at that
   moment yields no blocks, ValidateChain makes an empty chain of them, and the
   comparison reads its first hash: the daemon panics. peer.go:13-14 says a flaky
   peer must look like an empty one, never a fatal one.

The passing properties are weaker there: LoopEnds allows the goal loop to hang with
the lock in hand, StopEndsTurn a stopped turn to do so, and NodesAgree holds with the
panic as one more end of a process.

A third disagreement is excepted by a passing property instead of having a run:
BlockedIsEarned claims nothing of a goal that is blocked by an idle turn and then one
marked continue, which controller.go:1062-1065 and 1077-1079 say counts as activity
(`MarkedIdle`; without it the property fails on this case).

## 4. Proofs

JobsProofs (which holds the proofs about JobOutput too), DeferredProofs, TurnProofs,
ApprovalProofs, LedgerProofs, GossipProofs, TeamProofs and UnattendedProofs (the
goal loop and the scheduler) are checked by `tlapm` (Z3, Zenon, LS4). They use the
modules' own assumptions only: finitely many builds and a bound on attempts that is
a positive number in Deferred; None is not a message and Rotations a natural number
in Turn; the daemon is not a command, the bounds are natural numbers and None is no
chain in Ledger; None is no call, tool or reply in Approval; the limits are natural
numbers and a block reason is neither a marker nor NoBlock in Goal; instants and
bounds are natural numbers, periods positive, and None no task, worker or number in
Scheduler; finitely many cards, bounds that are natural numbers, a None that is no
card, thread or pool in TeamRuns; finitely many hosts, a quorum of at least one and
at most all admins, and proposals whose hashes do not collide, with each other or
with those of checkpoints, in Gossip; the bounds are numbers in JobOutput; none at
all in Jobs. They hold for any sets of jobs, waiters, messages, callers, calls,
commands, objectives, reasons, tasks, cards and threads, any buffer capacity, and
any number of rotations, turns, blocks and faults. JobOutput alone keeps its bound
of 99 bytes: the marker's length is defined up to two digits. Where a property has
an exception in its statement (overwrote, forgot, upset, MarkedIdle, a late
admission), so has its theorem.

**Jobs.** The properties are not inductive: they speak of statuses and reports, and
what makes them true is where each goroutine is. `IInv` adds

- PositionInv: a goroutine past Classify has a terminal verdict; before Publish
  the shown status is running or Killed, after it the verdict or Killed;
- ReportInv: the summaries are exactly those of the goroutines past Record, each
  in the queue or told, never in both;
- WaitInv: a complete Wait saw jobs whose done channel is closed, and whose
  status has not changed since;
- CloseInv: a Close that has begun has cancelled the root context.

Each conjunct has one step lemma with one case per action. TypeCorrect,
UniqueReports, HonestReports, CompleteWaits and LateStarts follow from IInv.
FinalStatuses is an action property: PositionInv says that Publish only meets
running or Killed, and keeps the latter.

**Turn.** A message may be in an open call, in the steer queue, in the follow-up
queue, or carried by a turn about to resubmit it. `fate` names the place, and
`IInv` says that the places agree with it and hold no message twice: CallsInv,
SteerInv, FollowInv, CarryInv. LateInv says that past the accepted answer the
steer queue holds only steers that came after it, so EndRun drops none that came
before; PauseInv that the paused flag belongs to a turn frozen in awaitPause.
With OneTurn this is inductive. The theorems:

- OneTurnAtATime: `running` is set exactly while one turn is in flight and the
  stored cancel function is that turn's;
- SteersAreHeard: a normal end of a run drops no steer queued before the answer;
- NothingRunsTwice: a message taken up or dropped is never taken up again;
- PauseFreezes: while paused nothing is appended, taken from the steer queue or
  opened as a turn. It needs OneTurn: the frozen turn is the only one, so no
  other turn's step and no claim is possible;
- PauseHolds: a paused run takes no further step before it is resumed or stopped.
  Its invariant, HeldInv, says that a pause that holds has closed pauseCh.

**Job output.** Two conjuncts strengthen the type: Accounted, that head, tail and the
count add up to what was written, and ReadsAreExact, that before the cap is hit the
tail is empty, the head is the whole output and the offset is where the reads have
come to. A write past half the cap falls into one of three actions; only the one that
crosses it cuts, and its two pieces are the chunk.

- EveryByteIsAccounted: BytesAreExact;
- TheResultOnce: the result is read at most once, since a read that returns it has
  set resultRead.

**Approval.** `IInv` is about who waits and what is on its way: Prompts, that the call
that waits is the one that holds promptMu and only it may be registered; Replies,
that a call is owed at most one reply, none while it is registered and none once
one is in its channel (so the buffered send never blocks); Decided, that no "drain"
is owed to a plan or a question, which a later mode switch must keep; Quiet, that a
call without a prompt, an approved plan that may ask for a revision among them, has
no reply on its way.
YoloLeavesNoPrompt is itself a part: the second look behind promptMu and the drain
of SetToolApprovalMode each keep it.

- OneAtATime, YoloAsksNothing: the invariants for any number of calls;
- DecisionsStayTheUsers: a plan, its revision or a question goes on only by a reply of
  the user's.

**Goal.** The properties speak of the replies since the goal was set, the code counts.
`IInv` ties the counters of a running goal to the history: the turns are its length,
the last goalBlocks replies gave goalBlock, an idle turn is the last one, and no
limit is reached. It does not hold while a completion is claimed: Counted says that
a claim is then before the judge, or has left the lock with the loop, which never
gets past it. SetGoal resets history and counters together.

- BlocksAreEarned: BlockedIsEarned, for any limits; a blocked goal reached one of them,
  or an idle turn came before one marked continue, of which nothing more is claimed;
- DeadGoalsStayDead: no verdict or limit ends a goal that is not active;
- StopsStopGoals: a loop that ends after a Stop leaves no goal running.

**Deferred.** `IInv` has the same shape for any number of builds of the coordinator,
overlapping or not. Rows says that a mark is earned: a delivered row stands for a
result somebody handed over, a suppressed one for a result out of attempts.
HandOvers says when a build would recognise what it handed over: its own row says
delivered, or a goroutine is about to mark it. It is what keeps a second
goroutine, and a replay, from handing the same result over; the numbers of jobs that
a restart uses again (Reused) are its one exception, as in the code. Workers says
that a goroutine in DeliverNow holds its key alone, and what it may rely on at each
line: past the query its job has ended, and before Mark the result is not handed
over. Places says that a result only one build handed over is in one place, a queue,
a session, or lost with a closed one. The second invariant, Kept, is about what was
recorded and not handed over or given up: it is on disk, and in the copy of every
open build that lacks no save. A save by such a build makes the others stale; a save
by a stale one is where the claim ends (overwrote), and with builds one after the
other none is ever stale.

- EveryResultIsHandedOverOnce: DeliveredOnce, with overlapping builds too;
- MarksAreEarned: both kinds of marks, with overlapping builds too;
- NoResultIsLost: NothingLost, with overlapping builds until one of them saves a copy
  over what it never read.

**Ledger.** What makes a save safe is that it finds the temporary file it wrote when
it renames. `IInv` says so of the time before any overlap (SavesAreWhole: no two
processes are between load and save, a save past its first step has its temporary
file, one of the two files exists), and that every chain consists of blocks that
were made and a saving command has one to report (BlocksExist), from which the type
follows. The rename is the step that needs it: it takes the temporary file away, so
no other process may be about to rename. That a reported block stays is not a matter
of the file alone: the daemon writes the file again from memory, and a sync may give
blocks up. InTurns says, of the time before anything upset the turns, what the
daemon knows at each point of its round (DaemonKnows: past the reload its memory is
the file, and when idle the stamp shows every write since), that a command still has
its block in hand (InHand), and that the temporary file is the saver's.

- TypeCorrect: chains on disk and in memory hold only blocks that were made;
- ChainSurvives: LedgerKept, for any number of commands and faults;
- ReportedBlocksStay: ToldIsKept, wherever the daemon ends.

**Gossip.** Every step is one of five moves of the ledgers (StepMoves): they stay, one
is replaced by the beginning of a ledger that is no worse (Learns: a pull or a fork
choice), is read from the file (Reloads) or written to it (Saves), or gets a new block
(Makes). That a pull is such a beginning is PulledBranch: the served blocks fit
only where their parent is the head, and a hash stands for one branch (Unique), so
what TryExtend builds is a beginning of the peer's own chain. Unique needs Linear,
that every hash in a ledger was made, for a new block to have a hash of its own.
Saving, that memory is no worse than the file, gives LedgersNeverWorsen; NoWorse is a
lexicographic order, a chain is no worse than its beginnings (LongerNotWorse), and
what ForkChoice adopts is no worse than what it gives up (PreferredNotWorse).

CheckpointsAgree is not inductive: an admin that signs only looks at its own chain.
What is missing is that every checkpoint in any ledger is held by some admin, both in
memory and on disk, under a checkpoint as high (Held), so a restart forgets none. A
checkpoint its maker has yet to write (unsaved) is held in memory alone; if that process
ends first, the holder is gone and nothing is claimed any more (forgot). When all
admins must sign, the holder signs the next checkpoint too, whose branch is then in
its chain (Agreed), as is the older one. With a smaller quorum the argument fails where
the property does: the signers may all be others.

- OneSettledBranch: CheckpointsAgree, across lost calls, failed writes, and the ends
  of processes that forget no checkpoint of their own;
- LedgersNeverWorsen: BranchesAreKept, for any quorum.

**Scheduler.** `SchedulerInv` has a part for each property on top of what the table and
the process are at any time (TableInv: one entry per id in memory and on disk, every id
was given out, nothing runs before Start, no reminder is about to be told but where
DrainMissedReminders left it, a callback past Collect has an index to run). TimerInv
is inductive by itself: a step that leaves no callback in flight either arms, or leaves
alone what arming looks at, which for RunNow is SameSchedule. CalmInv needs the timer: a
callback that no call came across is alone *because* nothing armed the timer since it
expired, so no second one can start; and the entries it has still to run are due
because only it, or a call, changes them. KeptInv follows a reminder through the file:
while it is owed and not yet on the list to be told, an entry on disk promises it, and
while the process is up an entry in memory waits for the timer. A save that fails
leaves the old promise; a refused Update leaves both (it keeps the next time it found);
Load turns a promise into a missed reminder or plans it anew. ToldInv counts: told,
about to be told, missed and promised are each one time it may be told, and only a
call, or a save that fails, adds one. RemindersAreKept is not inductive without either.

- TheTimerIsNearest: TimerIsNearest;
- UndisturbedRunsAreDue: CalmCallbacksAreExact;
- NoReminderIsLost: RemindersAreKept, both its parts.

**Team.** The invariant speaks of the phases of a team, and the steps that lead from
one to the next (OneDrop: one deletion at most, one Drop, one Empty).

- *At any time* (NInv): the pool is sound, each thread carries what its position
  needs, a launch has a goroutine of its own, and the retries are counted. A run,
  from the call that asks for it to the end of its re-planning, is a chain; a chain
  is a thread's card, a promoted card, a queued card or a card to re-plan. Every chain
  was begun by one call of the user (Chains(c) <= runs + calls), and what a card has
  attempted and still has pending stays below its rounds plus those calls: Flip turns
  a pending start into an attempt, Replan turns a finished chain into a pending start
  only below MaxRounds. RetriesWithinRounds alone is not inductive, for it does not
  see the starts that are on their way. The counting is on sums over threads of
  occurrences in queues, so it rests on lemmas about what each pool operation does to
  a queue, and what the move of one thread does to a sum.
- *Open*, until Drop takes the pool away: the slots the threads hold are exactly the
  pool's running cards, and no two threads hold the same (OpenInv: Threads,
  Reserves, Owners, Pooled). Pooled rests on one lemma per operation of the pool
  (AdmittedOK, ReleasedOK, ReboundedOK, DequeuedOK), and these on what appending,
  splitting and counting do to a queue without repetitions. Owners is what the
  refinement needs: a session that begins must find a grant that no session uses. It
  is also what keeps one run from removing another's cancel function: Reached, that
  a run not told to stop is the one in its card's entry, and Prepared, that a
  goroutine about to start is in it or already told.
- *Taken*, from Drop until the pool is emptied, while no call made the team a new one:
  the slots the threads hold are among the running cards of the orphaned pool
  (Booked), into which strays may still be admitted.
- *Left*, from then on while besides no stray was admitted to the orphan: no thread
  gains a slot (Unshared), Reached still holds, and each run not told to stop has its
  card on the list of the deletion that is still going through it (Leaving).

Pointers says that only a thread before its admission, or about to leave a queue, holds
a pool. A program that quits is in none of the phases; only NInv speaks of it, for
CancelAllTeamRuns empties the pool under the threads, which is why Slots is closed
from then on. The theorems:

- PoolsStaySound: nothing booked or queued twice, nobody waits beside a free slot, in
  every phase;
- OneOwnerEach: SlotsAreOwned;
- BooksAreSound: PoolIsSound as a whole, retries included;
- RunsCanBeStopped: StopReachesTheRun. The step from Taken to Left is its core: a run
  holds its card's slot in the orphaned pool, so it is on the list that Empty takes;
- BoundIsKept: TeamRuns implements Slots;
- DeliverablesStayTheHumans: only a call of the user confirms a deliverable. Its
  invariant is the shape of the cards.

**Only model-checked**: every liveness property (JobsEnd, RowsSettle, StopEndsTurn,
AnswerReturns, LoopEnds, Settles, DueTasksRun, NodesAgree, MemoryIsSaved), since
temporal proofs under fairness need ENABLED, which the prover lacks.

## 5. Noticed while modelling, not stated as properties

These are what the code does; the models contain them unless marked otherwise.

*Jobs.* Kill may overwrite a status the run function has already earned but not
published (jobs.go:348-350 and 255). With a Kill, Killed is visible before the
note is queued. Start's wg.Add may race Close's wg.Wait (458-459). The comment
on cappedBuffer promises the first and the last half of the cap so that the final
error stays visible (100-104), but the tail is that of the write that crosses the
head: every later write is only counted (131-134), so the end of a long output is
lost. A read past the truncation repeats a byte when the count gains a digit.

*Deferred.* Two live builds of one session (a model switch before the old
controller is closed) each save their own copy of the table, and the later save
drops the other's rows (store.go:117; with MaxLive 2 and without `~overwrote`
UnhandedStaysRecorded fails). A task id is "job:" plus the job's number, and every
build counts from 1 (boot.go:371): after a restart the row of the new job 1 meets
the delivered row of the old job 1 and counts as delivered; nothing is handed over
and, with the hook installed, no drain note exists. The properties except the
numbers that are reused. A process that ends between the hand-off and
MarkDelivered hands over again after the restart, as doc.go:24 says. A result in
pendingDeferred is lost with the process, although its row is marked delivered.
Attempts are counted while the session is merely not bound
(coordinator.go:270-272), so a long visit to another session suppresses a row. A
result pushed for one session may be composed into another's turn
(Controller:672-699). The hook drops a result when the session path is blank
(outside the model).

*Turn.* A Stop while the judge is asked leaves the turn waiting for the mutex it
holds (Controller:1010-1013; `stuck`, see GoalCancel). A follow-up queued just after
the ending turn found the queue empty waits for the next turn; a drained prompt is
lost when another turn has started in between (Controller:592-603). RunTurn drains
no follow-ups. A steer during the closing compaction is dropped; one queued after
the turn has ended guides the next turn. A Pause before Run makes its channels is
forgotten. WaitTurn may return before the turn is counted and counts no RunTurn turn
(not modelled). Resume of another session does not look at `running` (not modelled).
Resume leaves both pause channels closed until the next Run: a Pause after a Resume
in the same run passes straight through, although the comments at Agent:616-628 say
it blocks. NewSession checks `running`, unlocks for the snapshot and swaps the
session without checking again (Controller:2021), so a turn that starts in between
appends to both transcripts; ClearSession has the same shape.

*Approval.* A switch of the approval mode while plan mode is on copies the HardDeny
rules into the executor's gate; SetPlanMode(false) clears them from the policy only
(Controller:1898, 1742), so writers stay denied until the next mode switch.
SetPlanMode(true) alone puts no HardDeny into the gate in use, and
SetMode never touches HardDeny. Two concurrent approval-mode switches may install
the older gate last, and newInteractiveGate reads the policy without the lock (not
modelled). Calls queued behind promptMu are asked although auto mode came
meanwhile, and do not return on a cancel until it is their turn. The frontends'
SetPlanMode(true) leaves a running goal (not modelled).

*Goal.* A goal replaced while the judge was asked is still Active, and the verdict
on the old one completes it. The final answer of a turn never carries tool
calls, so idle detection sees two unmarked turns as idle although they worked
with tools, and an unmarked turn followed by a continue marker blocks too: the count
is looked at before the marker resets it, contrary to the comments at
Controller:149-150, 257-260, 1062-1065 and 1077-1079. BlockedIsEarned excepts that
case. A Stop in the window before the loop looks at its context leaves the goal
running. Strict goals that refuse completion pass by the turn budget (not modelled).

*Teams.* The `before` gate is never enforced: NeedsGate and RequestApproval are
called by tests only, and a run looks at neither the gate nor the decision, contrary
to approval.go:17. A queued card that was dragged to approval and rejected still
runs when it is promoted. CancelTeamTask between the promotion of a card and the
storing of its cancel function finds nothing to cancel. A call that read the team
before its deletion makes it a new pool, and one that had got the old pool is
admitted after CancelAll emptied it (team_run.go:94-96, pool.go:327-336); either may
replace a cancel function the deletion is about to look for (team_app.go:296-305).
Parking a card writes its status after the slot was refused, over a newer one
(team_run.go:101-117). CancelAllTeamRuns misses launches in flight. Two changes of
the bound at once can leave the pool with another bound than the policy. A drag to
"doing" shows a card as running without a run.

*Scheduler.* The indices collected before a run are used after it: a deletion in
between makes the callback run another task or index past the end, which panics
(scheduler.go:464). Create and Update arm the timer while a callback runs, and a
second callback runs the same due tasks in parallel, contrary to "sequentially"
(445-446). A one-shot moved to a new instant during its run is disabled at the end
of it (contrary to 493-499); a recurring task paused during its run gets a next
time. The run count is not reset by Update, so a reminder that was moved after it
had run and whose instant passes while the program is down is not told (331-333). A
refused Update has changed the entry already, and neither saves nor arms. Load
saves the disabling before the reminder is told, and an end in between loses it. A
task paused after it was collected still runs. Load's save is outside the lock.

*Trust domain.* Of two hosts one of which has the shorter but preferred chain,
neither pulls from the other (`Stuck` in Gossip), until the shorter one grows. A
save overwrites blocks that other processes appended since the last reload
(node.go:222); a command proposes without one. Two saves that overlap share
ledger.json.tmp, and one may remove what the other renamed: the ledger is gone. An
end between the removal and the rename leaves the chain in the temporary file, which
nothing reads back (store.go:58-61). The stamp is taken after the load and after the
rename, so a write in between goes unseen. The reload compares heights only; a
shorter file a stale command wrote is not replaced by a daemon that is not dirty.
With a quorum below all admins, two checkpoints may conflict: CheckpointsAgree is
conditional on it. Revoking an admin may leave the quorum above the number of
admins. Of the one-shot commands only `sync` has peers (cli/trustdomain.go:651-691)
and runs a whole round; what the others propose by quorum only succeeds with a
quorum of one. Tick ignores a save that fails (node.go:126-127, 226-230), so `sync`
reports blocks that may not be on disk. A checkpoint is served before it is saved,
and an end in between forgets it where it was made, while a peer may hold it; the
admin may then co-sign another branch, which is the exception `forgot` of
CheckpointsAgree. A lost status counts as height 0, so a host that has only the
genesis asks for everything. Outside the models: in Ledger a preferred branch that
is shorter (Gossip has it), the reload at the start of `sync`'s round and its second
attempt at a failed save; on a switch of branch the own losing one is not
remembered, so its revocations leave Sight (node.go:57-58), whose result no
production code asks for; the goroutines that serve peers read the chain while Tick
replaces it.

## 6. Plan

1. Refinement: Turn implements a lock that one turn holds at a time; Deferred
   within one build implements "each result is handed over at most once, and a
   row leaves the table only handed over or given up"; Gossip a single growing
   chain of checkpoints. Then Turn composed with Goal, where Continue of the one is
   the loop of the other and `stuck` the lock that Goal's judge keeps.
2. Checkpoint and rewind, the parallel and serial batches of tool dispatch, and the
   goal domain machine, each as part of a run that exists or in the place of one.

### Not modelled

The second table of section 1 lists the parts without a model and why. They are
for the most part transports, frontends, providers and text, where the state is
outside the program or a unit test reaches every case. Of the modelled parts, the
components marked "partly" in PROJECT.json name what they leave out.
