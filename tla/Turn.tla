-------------------------------- MODULE Turn --------------------------------
(***************************************************************************)
(* One controller and its executor (internal/control/controller.go,        *)
(* internal/agent/agent.go): the goroutine that runs a turn, the follow-up *)
(* and steer queues, the stop and pause signals and the session rotation,  *)
(* called from any number of frontend goroutines.                          *)
(*                                                                         *)
(* One step is one critical section (Controller.mu, Agent.steerMu,         *)
(* Agent.followUpMu, Agent.pauseMu) or one receive.  A frontend call that  *)
(* reads Controller.running under the lock and acts after the unlock is    *)
(* two steps, "...Read" and the act.  The lock itself is visible in one    *)
(* case only: a goal judge's refusal leaves it locked for good.            *)
(***************************************************************************)
EXTENDS Naturals, Sequences, FiniteSets

CONSTANTS
    Msg,        \* what a user types: a prompt, a steer or a follow-up
    Caller,     \* frontend goroutines that may be inside a two-step call
    Rotations,  \* bound: how many times the session is replaced
    None

ASSUME NoneIsNoMsg == None \notin Msg
ASSUME RotationsIsNat == Rotations \in Nat

Session == 0 .. Rotations       \* the transcripts

(* A turn is named by the message that opened it.                          *)
Active == {"claimed", "top", "paused", "steps", "stream", "settled",
           "closing", "failed", "between", "over", "stuck"}
InRun  == {"top", "paused", "steps", "stream", "settled", "closing", "failed"}
PC     == {"none", "ended", "resubmit", "gone"} \cup Active

(* Where a message is, from the user's keyboard to its end.                *)
Final == {"turn", "heard", "missed", "late", "cut", "lost"}
Fate  == {"unsent", "sending", "steering", "steeringLate", "queued", "drained"}
           \cup Final

Kind == {"idle", "follow", "steer", "stop", "pause", "swap"}

VARIABLES
    running,    \* Controller.running
    cancel,     \* the turn whose context Controller.cancel cancels, or None
    pc,         \* [Msg -> PC], the goroutine of the turn this message opened
    via,        \* [Msg -> {"guarded", "sync"}], runGuarded or RunTurn
    carry,      \* [Msg -> Msg or None], the drained prompt the turn resubmits
    stopped,    \* turns whose context is cancelled
    steerQ,     \* Agent.steerQueue
    followQ,    \* Agent.followUpQueue
    chans,      \* Agent.pauseCh and resumeCh exist
    pauseReq,   \* pauseCh is closed
    resumeReq,  \* resumeCh is closed
    paused,     \* Agent.paused
    session,    \* Agent.session
    op,         \* [Caller -> the two-step call it is inside]
    fate,       \* history: [Msg -> Fate]
    wrote,      \* history: [Msg -> SUBSET Session], where a turn has appended
    held        \* history: a Pause no Resume has answered in this Run

ctlVars   == <<running, cancel>>
turnVars  == <<pc, via, carry>>
queueVars == <<steerQ, followQ>>
pauseVars == <<chans, pauseReq, resumeReq, paused, held>>
sessVars  == <<session, wrote>>
vars      == <<ctlVars, turnVars, stopped, queueVars, pauseVars, sessVars, op, fate>>

(* A turn that holds Controller.running.                                   *)
Busy == {t \in Msg : pc[t] \in Active}

(* Controller.mu can be taken: no turn went on with it after a refusal.    *)
MuFree == \A t \in Msg : pc[t] /= "stuck"

Call == [kind : Kind, arg : Msg \cup {None}, saw : BOOLEAN]
Idle == [kind |-> "idle", arg |-> None, saw |-> FALSE]

(* TypeOK: the shape of the controller's and the agent's fields.           *)
TypeOK ==
    /\ running \in BOOLEAN
    /\ cancel \in Msg \cup {None}
    /\ pc \in [Msg -> PC]
    /\ via \in [Msg -> {"guarded", "sync"}]
    /\ carry \in [Msg -> Msg \cup {None}]
    /\ stopped \subseteq Msg
    /\ steerQ \in Seq(Msg)
    /\ followQ \in Seq(Msg)
    /\ {chans, pauseReq, resumeReq, paused, held} \subseteq BOOLEAN
    /\ session \in Session
    /\ op \in [Caller -> Call]
    /\ fate \in [Msg -> Fate]
    /\ wrote \in [Msg -> SUBSET Session]

Init ==
    /\ running = FALSE
    /\ cancel = None
    /\ pc = [m \in Msg |-> "none"]
    /\ via = [m \in Msg |-> "guarded"]
    /\ carry = [m \in Msg |-> None]
    /\ stopped = {}
    /\ steerQ = <<>>
    /\ followQ = <<>>
    /\ chans = FALSE
    /\ pauseReq = FALSE
    /\ resumeReq = FALSE
    /\ paused = FALSE
    /\ held = FALSE
    /\ session = 0
    /\ op = [c \in Caller |-> Idle]
    /\ fate = [m \in Msg |-> "unsent"]
    /\ wrote = [m \in Msg |-> {}]

-----------------------------------------------------------------------------
(* Opening a turn.                                                         *)

(* The locked part of runGuarded and RunTurn, when no turn runs: m opens a *)
(* turn through v.  p is pc as the caller leaves it.                       *)
Claim(m, v, p) ==
    /\ running' = TRUE
    /\ cancel' = m
    /\ pc' = [p EXCEPT ![m] = "claimed"]
    /\ via' = [via EXCEPT ![m] = v]
    /\ fate' = [fate EXCEPT ![m] = "turn"]

(* submit of m from goroutine-local program counters p: runGuarded is a    *)
(* no-op when a turn is already in flight.                                 *)
SubmitFrom(m, p) ==
    /\ MuFree
    /\ \/ /\ ~running
          /\ Claim(m, "guarded", p)
       \/ /\ running
          /\ pc' = p
          /\ fate' = [fate EXCEPT ![m] = "lost"]
          /\ UNCHANGED <<ctlVars, via>>

(* A prompt typed at an idle controller.  At a busy one it is a no-op.     *)
Submit(m) ==
    /\ fate[m] = "unsent"
    /\ MuFree
    /\ ~running
    /\ Claim(m, "guarded", pc)
    /\ UNCHANGED <<carry, stopped, queueVars, pauseVars, sessVars, op>>

(* Mutant of RunTurn: the check and the claim are not one critical section. *)
RunTurnUnchecked(m) ==
    /\ fate[m] = "unsent"
    /\ MuFree
    /\ Claim(m, "sync", pc)
    /\ UNCHANGED <<carry, stopped, queueVars, pauseVars, sessVars, op>>

(* The blocking form used by bots and ACP.  When busy: ErrTurnRunning.     *)
RunTurn(m) ==
    /\ fate[m] = "unsent"
    /\ MuFree
    /\ ~running
    /\ Claim(m, "sync", pc)
    /\ UNCHANGED <<carry, stopped, queueVars, pauseVars, sessVars, op>>

-----------------------------------------------------------------------------
(* The agent's run loop.                                                   *)

Goto(t, l) == pc' = [pc EXCEPT ![t] = l]
Writes(t)  == wrote' = [wrote EXCEPT ![t] = @ \cup {session}]

(* Run: fresh pause channels, then the input joins the transcript.  The    *)
(* steer queue is kept.                                                    *)
StartRun(t) ==
    /\ pc[t] = "claimed"
    /\ Goto(t, "top")
    /\ Writes(t)
    /\ chans' = TRUE
    /\ pauseReq' = FALSE
    /\ resumeReq' = FALSE
    /\ paused' = FALSE
    /\ held' = FALSE
    /\ UNCHANGED <<ctlVars, via, carry, stopped, queueVars, session, op, fate>>

(* Mutant of AwaitPause: a queued steer goes before the pause.             *)
AwaitPauseUnlessSteered(t) ==
    /\ pc[t] = "top"
    /\ \/ /\ ~pauseReq \/ steerQ /= <<>>
          /\ t \notin stopped
          /\ Goto(t, "steps")
          /\ UNCHANGED paused
       \/ /\ t \in stopped
          /\ Goto(t, "failed")
          /\ UNCHANGED paused
       \/ /\ pauseReq
          /\ Goto(t, "paused")
          /\ paused' = TRUE
    /\ UNCHANGED <<ctlVars, via, carry, stopped, queueVars, chans, pauseReq,
                   resumeReq, held, sessVars, op, fate>>

(* awaitPause at the top of the loop: the select takes a ready channel,    *)
(* either one when both are, and its default when none is.                 *)
AwaitPause(t) ==
    /\ pc[t] = "top"
    /\ \/ /\ ~pauseReq
          /\ t \notin stopped
          /\ Goto(t, "steps")
          /\ UNCHANGED paused
       \/ /\ t \in stopped
          /\ Goto(t, "failed")
          /\ UNCHANGED paused
       \/ /\ pauseReq
          /\ Goto(t, "paused")
          /\ paused' = TRUE
    /\ UNCHANGED <<ctlVars, via, carry, stopped, queueVars, chans, pauseReq,
                   resumeReq, held, sessVars, op, fate>>

(* Mutant of Unpause: a stopped turn stays frozen until somebody resumes it. *)
UnpauseOnlyOnResume(t) ==
    /\ pc[t] = "paused"
    /\ resumeReq
    /\ Goto(t, "steps")
    /\ paused' = FALSE
    /\ UNCHANGED <<ctlVars, via, carry, stopped, queueVars, chans, pauseReq,
                   resumeReq, held, sessVars, op, fate>>

(* Mutant of Unpause: a stop leaves the flag that says the agent is paused. *)
UnpauseKeepsFlag(t) ==
    /\ pc[t] = "paused"
    /\ \/ /\ resumeReq
          /\ Goto(t, "steps")
          /\ paused' = FALSE
       \/ /\ t \in stopped
          /\ Goto(t, "failed")
          /\ UNCHANGED paused
    /\ UNCHANGED <<ctlVars, via, carry, stopped, queueVars, chans, pauseReq,
                   resumeReq, held, sessVars, op, fate>>

(* The second select of awaitPause: resumed, or cancelled while frozen.    *)
Unpause(t) ==
    /\ pc[t] = "paused"
    /\ \/ /\ resumeReq
          /\ Goto(t, "steps")
       \/ /\ t \in stopped
          /\ Goto(t, "failed")
    /\ paused' = FALSE
    /\ UNCHANGED <<ctlVars, via, carry, stopped, queueVars, chans, pauseReq,
                   resumeReq, held, sessVars, op, fate>>

(* The stop gate, then consumeSteer: one queued steer joins the transcript. *)
Step(t) ==
    /\ pc[t] = "steps"
    /\ \/ /\ t \in stopped
          /\ Goto(t, "failed")
          /\ UNCHANGED <<steerQ, wrote, fate>>
       \/ /\ t \notin stopped
          /\ Goto(t, "stream")
          /\ IF steerQ = <<>>
               THEN UNCHANGED <<steerQ, wrote, fate>>
               ELSE /\ steerQ' = Tail(steerQ)
                    /\ fate' = [fate EXCEPT ![Head(steerQ)] = "heard"]
                    /\ Writes(t)
    /\ UNCHANGED <<ctlVars, via, carry, stopped, followQ, pauseVars, session, op>>

(* The provider call and the tools it asks for.  A round of tools, a       *)
(* recovery, a truncation or a nudge loops; an answer settles; an error    *)
(* (a cancelled context among them) leaves the loop.                       *)
Stream(t) ==
    /\ pc[t] = "stream"
    /\ \/ /\ \/ Goto(t, "top")
             \/ Goto(t, "settled")
          /\ Writes(t)
       \/ /\ Goto(t, "failed")
          /\ UNCHANGED wrote
    /\ UNCHANGED <<ctlVars, via, carry, stopped, queueVars, pauseVars, session,
                   op, fate>>

(* Mutant of Settle: an answer ends the run whatever has been steered.     *)
SettleAtOnce(t) ==
    /\ pc[t] = "settled"
    /\ Goto(t, "closing")
    /\ UNCHANGED <<ctlVars, via, carry, stopped, queueVars, pauseVars, sessVars,
                   op, fate>>

(* An accepted answer: a waiting steer gets another round, else the run    *)
(* compacts (a model call, perhaps) and returns.                           *)
Settle(t) ==
    /\ pc[t] = "settled"
    /\ Goto(t, IF steerQ = <<>> THEN "closing" ELSE "top")
    /\ UNCHANGED <<ctlVars, via, carry, stopped, queueVars, pauseVars, sessVars,
                   op, fate>>

(* What becomes of a queued steer when the run that ends at l clears it.   *)
Dropped(m, l) ==
    CASE l = "failed"               -> "cut"
      [] fate[m] = "steeringLate"   -> "late"
      [] OTHER                      -> "missed"

(* The deferred clearSteerQueue of Run.                                    *)
ClearSteerQueue(t) ==
    /\ steerQ' = <<>>
    /\ fate' = [m \in Msg |-> IF \E i \in 1 .. Len(steerQ) : steerQ[i] = m
                                THEN Dropped(m, pc[t]) ELSE fate[m]]

EndRun(t) ==
    /\ pc[t] \in {"closing", "failed"}
    /\ ClearSteerQueue(t)
    /\ Goto(t, IF pc[t] = "closing" THEN "between" ELSE "over")
    /\ held' = FALSE
    /\ UNCHANGED <<ctlVars, via, carry, stopped, followQ, chans, pauseReq,
                   resumeReq, paused, sessVars, op>>

-----------------------------------------------------------------------------
(* Around the run: the controller's turn goroutine.                        *)

(* The goal loop or an approved plan runs the agent again in the same turn. *)
Continue(t) ==
    /\ pc[t] = "between"
    /\ t \notin stopped
    /\ Goto(t, "claimed")
    /\ UNCHANGED <<ctlVars, via, carry, stopped, queueVars, pauseVars, sessVars,
                   op, fate>>

(* advanceGoalAfterTurn, the reply claims the goal is complete: the judge  *)
(* refuses, its cancelled call among the reasons, and the function returns *)
(* with Controller.mu locked.  What follows, stopGoal or the next turn,    *)
(* locks it again and never returns.                                       *)
JudgeRefuses(t) ==
    /\ pc[t] = "between"
    /\ Goto(t, "stuck")
    /\ UNCHANGED <<ctlVars, via, carry, stopped, queueVars, pauseVars, sessVars,
                   op, fate>>

(* The body returned (a prompt hook may block it before the run): running  *)
(* is cleared.  RunTurn ends here; runGuarded goes on to TurnDone.         *)
Finish(t) ==
    /\ pc[t] \in {"claimed", "between", "over"}
    /\ running' = FALSE
    /\ cancel' = None
    /\ Goto(t, IF via[t] = "guarded" THEN "ended" ELSE "gone")
    /\ UNCHANGED <<via, carry, stopped, queueVars, pauseVars, sessVars, op, fate>>

(* A panic under the run: Run's defer clears the steer queue, runGuarded's *)
(* recover clears running, and nothing is drained.                         *)
Panic(t) ==
    /\ pc[t] = "stream"
    /\ via[t] = "guarded"
    /\ running' = FALSE
    /\ cancel' = None
    /\ Goto(t, "gone")
    /\ steerQ' = <<>>
    /\ fate' = [m \in Msg |-> IF \E i \in 1 .. Len(steerQ) : steerQ[i] = m
                                THEN "cut" ELSE fate[m]]
    /\ held' = FALSE
    /\ UNCHANGED <<via, carry, stopped, followQ, chans, pauseReq, resumeReq,
                   paused, sessVars, op>>

(* Mutant of DrainFollowUp: the oldest prompt is read and not removed.     *)
DrainWithoutPop(t) ==
    /\ pc[t] = "ended"
    /\ IF t \in stopped \/ followQ = <<>>
         THEN /\ Goto(t, "gone")
              /\ UNCHANGED <<carry, followQ, fate>>
         ELSE /\ Goto(t, "resubmit")
              /\ carry' = [carry EXCEPT ![t] = Head(followQ)]
              /\ fate' = [fate EXCEPT ![Head(followQ)] = "drained"]
              /\ UNCHANGED followQ
    /\ UNCHANGED <<ctlVars, via, stopped, steerQ, pauseVars, sessVars, op>>

(* After TurnDone: a turn that was not stopped pops one follow-up.         *)
DrainFollowUp(t) ==
    /\ pc[t] = "ended"
    /\ IF t \in stopped \/ followQ = <<>>
         THEN /\ Goto(t, "gone")
              /\ UNCHANGED <<carry, followQ, fate>>
         ELSE /\ Goto(t, "resubmit")
              /\ carry' = [carry EXCEPT ![t] = Head(followQ)]
              /\ fate' = [fate EXCEPT ![Head(followQ)] = "drained"]
              /\ followQ' = Tail(followQ)
    /\ UNCHANGED <<ctlVars, via, stopped, steerQ, pauseVars, sessVars, op>>

(* ... and submits it as a turn of its own.                                *)
Resubmit(t) ==
    /\ pc[t] = "resubmit"
    /\ SubmitFrom(carry[t], [pc EXCEPT ![t] = "gone"])
    /\ carry' = [carry EXCEPT ![t] = None]
    /\ UNCHANGED <<stopped, queueVars, pauseVars, sessVars, op>>

-----------------------------------------------------------------------------
(* Frontend calls.                                                         *)

Enter(c, k, m) ==
    /\ MuFree
    /\ op[c] = Idle
    /\ op' = [op EXCEPT ![c] = [kind |-> k, arg |-> m, saw |-> running]]
Leave(c) == op' = [op EXCEPT ![c] = Idle]

(* FollowUp and Steer read running under the lock.                         *)
SendRead(c, k, m) ==
    /\ fate[m] = "unsent"
    /\ Enter(c, k, m)
    /\ fate' = [fate EXCEPT ![m] = "sending"]
    /\ UNCHANGED <<ctlVars, turnVars, stopped, queueVars, pauseVars, sessVars>>

(* FollowUp: queue behind the turn that was running, else submit.          *)
FollowUp(c) ==
    LET m == op[c].arg IN
    /\ op[c].kind = "follow"
    /\ Leave(c)
    /\ \/ /\ op[c].saw
          /\ followQ' = Append(followQ, m)
          /\ fate' = [fate EXCEPT ![m] = "queued"]
          /\ UNCHANGED <<ctlVars, pc, via>>
       \/ /\ ~op[c].saw
          /\ SubmitFrom(m, pc)
          /\ UNCHANGED followQ
    /\ UNCHANGED <<carry, stopped, steerQ, pauseVars, sessVars>>

(* Steer: guide the turn that was running, else submit.  A steer that      *)
(* arrives after the run has accepted its answer is marked late.           *)
Steer(c) ==
    LET m == op[c].arg IN
    /\ op[c].kind = "steer"
    /\ Leave(c)
    /\ \/ /\ op[c].saw
          /\ steerQ' = Append(steerQ, m)
          /\ fate' = [fate EXCEPT ![m] =
                        IF \E t \in Msg : pc[t] = "closing"
                          THEN "steeringLate" ELSE "steering"]
          /\ UNCHANGED <<ctlVars, pc, via>>
       \/ /\ ~op[c].saw
          /\ SubmitFrom(m, pc)
          /\ UNCHANGED steerQ
    /\ UNCHANGED <<carry, stopped, followQ, pauseVars, sessVars>>

(* Cancel: read the cancel function, then call it.                         *)
StopRead(c) ==
    /\ cancel /= None
    /\ Enter(c, "stop", cancel)
    /\ UNCHANGED <<ctlVars, turnVars, stopped, queueVars, pauseVars, sessVars, fate>>

Cancel(c) ==
    /\ op[c].kind = "stop"
    /\ Leave(c)
    /\ stopped' = stopped \cup {op[c].arg}
    /\ UNCHANGED <<ctlVars, turnVars, queueVars, pauseVars, sessVars, fate>>

(* Pause: the controller ignores it when idle; the agent closes pauseCh    *)
(* once per run.  ResumeTurn closes resumeCh.                              *)
PauseRead(c) ==
    /\ running
    /\ Enter(c, "pause", None)
    /\ UNCHANGED <<ctlVars, turnVars, stopped, queueVars, pauseVars, sessVars, fate>>

Pause(c) ==
    /\ op[c].kind = "pause"
    /\ Leave(c)
    /\ IF chans /\ ~paused
         THEN /\ pauseReq' = TRUE
              /\ held' = (\E t \in Msg : pc[t] \in InRun)
         ELSE UNCHANGED <<pauseReq, held>>
    /\ UNCHANGED <<ctlVars, turnVars, stopped, queueVars, chans, resumeReq,
                   paused, sessVars, fate>>

ResumeTurn ==
    /\ MuFree
    /\ chans
    /\ ~resumeReq \/ held
    /\ resumeReq' = TRUE
    /\ held' = FALSE
    /\ UNCHANGED <<ctlVars, turnVars, stopped, queueVars, chans, pauseReq,
                   paused, sessVars, op, fate>>

(* NewSession and ClearSession: refused while a turn runs; the snapshot,   *)
(* the deletion and the hooks run unlocked; then the session is replaced.  *)
SwapRead(c) ==
    /\ ~running
    /\ session < Rotations                      \* bound
    /\ Enter(c, "swap", None)
    /\ UNCHANGED <<ctlVars, turnVars, stopped, queueVars, pauseVars, sessVars, fate>>

Swap(c) ==
    /\ op[c].kind = "swap"
    /\ MuFree
    /\ Leave(c)
    /\ session' = IF session < Rotations THEN session + 1 ELSE session
    /\ UNCHANGED <<ctlVars, turnVars, stopped, queueVars, pauseVars, wrote, fate>>

-----------------------------------------------------------------------------
TurnStep(t) ==
    \/ StartRun(t) \/ AwaitPause(t) \/ Unpause(t) \/ Step(t) \/ Stream(t)
    \/ Settle(t) \/ EndRun(t) \/ Finish(t) \/ DrainFollowUp(t) \/ Resubmit(t)

CallerStep(c) ==
    \/ \E m \in Msg, k \in {"follow", "steer"} : SendRead(c, k, m)
    \/ FollowUp(c) \/ Steer(c)
    \/ StopRead(c) \/ Cancel(c)
    \/ PauseRead(c) \/ Pause(c)
    \/ SwapRead(c) \/ Swap(c)

Next ==
    \/ \E t \in Msg : TurnStep(t) \/ Continue(t) \/ JudgeRefuses(t) \/ Panic(t)
    \/ \E m \in Msg : Submit(m) \/ RunTurn(m)
    \/ \E c \in Caller : CallerStep(c)
    \/ ResumeTurn

Spec == Init /\ [][Next]_vars

(* The turn's goroutine is scheduled, and a provider call returns.         *)
FairSpec == Spec /\ \A t \in Msg : WF_vars(TurnStep(t))

-----------------------------------------------------------------------------
(* OneTurn: running is set exactly while one turn is between its claim and *)
(* its end, and the cancel function the controller holds is that turn's,   *)
(* so a Stop that gets the lock reaches the turn in flight (runGuarded,    *)
(* RunTurn, Cancel).                                                       *)
OneTurn ==
    /\ running <=> Busy /= {}
    /\ Busy = IF cancel = None THEN {} ELSE {cancel}

(* SteerInTimeIsHeard: a steer queued before the run accepted its answer   *)
(* is never dropped by a run that ends normally: the loop takes another    *)
(* round for it (the steerQueueLen check in Agent.Run).                    *)
SteerInTimeIsHeard == \A m \in Msg : fate[m] /= "missed"

(* FatesAreFinal: a message that opened a turn, was injected or was        *)
(* dropped is never taken up again: no prompt runs twice, none is both     *)
(* steered and run (DrainFollowUp, consumeSteer, submit).                  *)
FatesAreFinal ==
    [][\A m \in Msg : fate[m] \in Final => fate'[m] = fate[m]]_fate

(* FrozenWhilePaused: while the agent reports a pause, no turn appends to  *)
(* a transcript, takes a steer or opens (awaitPause, IsPaused).            *)
FrozenWhilePaused ==
    [][paused /\ paused' =>
        /\ wrote' = wrote
        /\ Len(steerQ') >= Len(steerQ)
        /\ \A m \in Msg : fate'[m] = "turn" => fate[m] = "turn"]_vars

(* StopEndsTurn: a stopped turn ends, wherever the stop found it, a pause  *)
(* included (Cancel, awaitPause, the stop gate of the run loop), unless a  *)
(* goal judge's refusal leaves its goroutine holding the lock it takes     *)
(* next (advanceGoalAfterTurn); Goal states that refusal as a finding.     *)
StopEndsTurn ==
    \A t \in Msg : t \in stopped /\ pc[t] \in Active
        ~> pc[t] \notin Active \ {"stuck"}

(* FirstPauseHolds: a Pause taken while a run is on freezes that run before *)
(* its next step, until it is resumed or stopped, wherever the pause finds *)
(* it and whatever is queued.  A run that was resumed before does not stop *)
(* again: its resumeCh stays closed, contrary to the comment on Pause.     *)
FirstPauseHolds ==
    [][\A t \in Msg : pc[t] \in {"top", "paused"} /\ pc'[t] = "steps"
        => ~held \/ resumeReq]_vars
=============================================================================
