-------------------------------- MODULE Goal --------------------------------
(***************************************************************************)
(* The goal loop (internal/control/controller.go): a turn that ends while  *)
(* a goal is running starts the next one, until the goal is complete,      *)
(* blocked, idle, out of turns or stopped.  The loop runs on the goroutine *)
(* of the turn; the user sets, clears and stops goals from other ones.     *)
(*                                                                         *)
(* One step is one critical section of Controller.mu, or what the loop     *)
(* does between two of them: a turn, the judge's model call.  The lock is  *)
(* a variable because one path of the loop returns with it held.           *)
(* Strict goals are left out: nothing in the program switches them on.     *)
(***************************************************************************)
EXTENDS Naturals, Sequences

CONSTANTS
    Objective,          \* texts a goal may have
    Reason,             \* block reasons that normalise to different texts
    MaxGoalAutoTurns,   \* the constant of that name
    MaxSets             \* bound: how often the user sets or clears the goal

ASSUME LimitsAssumption ==
    /\ MaxGoalAutoTurns \in Nat \ {0}
    /\ MaxSets \in Nat

MaxGoalIdleTurns == 2
MaxSameBlocks    == 3
NoGoal           == "no goal"
NoBlock          == "no block"
Marker           == {"unmarked", "continue", "complete"}
ASSUME NamesAssumption ==
    NoGoal \notin Objective /\ Reason \cap (Marker \cup {NoBlock}) = {}

(* What the last line of a reply says: a marker, or nothing.               *)
Reply == Marker \cup Reason

VARIABLES
    goal, goalStatus, goalTurns, goalBlocks, goalBlock, goalIdleTurns,
                \* the Controller's fields
    mu,         \* who holds Controller.mu between two steps
    pc,         \* the goroutine that runs the loop
    reply,      \* the reply of the turn that just ended
    cancelled,  \* the turn's context
    sets,       \* times the user set or cleared the goal
    hist        \* history: the replies counted since the goal was set

countVars == <<goalTurns, goalBlocks, goalBlock, goalIdleTurns>>
goalVars  == <<goal, goalStatus, countVars, hist>>
loopVars  == <<pc, reply>>
vars      == <<goalVars, mu, loopVars, cancelled, sets>>

Status == {"none", "running", "complete", "blocked", "stopped"}
PC     == {"none", "turn", "advance", "judging", "recheck", "continue"}

(* TypeOK: the fields; a running goal is below each of its limits.         *)
TypeOK ==
    /\ goal \in Objective \cup {NoGoal}
    /\ goalStatus \in Status
    /\ goalStatus = "running" => goal /= NoGoal
    /\ goalTurns \in 0 .. MaxGoalAutoTurns
    /\ goalBlocks \in 0 .. MaxSameBlocks
    /\ goalBlock \in Reason \cup {NoBlock}
    /\ goalIdleTurns \in 0 .. MaxGoalIdleTurns
    /\ mu \in {"free", "loop"}
    /\ pc \in PC
    /\ reply \in Reply
    /\ cancelled \in BOOLEAN
    /\ sets \in 0 .. MaxSets
    /\ hist \in Seq(Reply)

Init ==
    /\ goal = NoGoal
    /\ goalStatus = "none"
    /\ goalTurns = 0
    /\ goalBlocks = 0
    /\ goalBlock = NoBlock
    /\ goalIdleTurns = 0
    /\ mu = "free"
    /\ pc = "none"
    /\ reply = "unmarked"
    /\ cancelled = FALSE
    /\ sets = 0
    /\ hist = <<>>

Locked == mu = "free"       \* what a step that takes the lock waits for
Active == goal /= NoGoal /\ goalStatus = "running"

-----------------------------------------------------------------------------
(* The user.                                                               *)

Restart ==
    /\ goalTurns' = 0
    /\ goalBlocks' = 0
    /\ goalBlock' = NoBlock
    /\ goalIdleTurns' = 0
    /\ hist' = <<>>

(* Mutant of SetGoal: a goal set again keeps its counters.                 *)
SetGoalKeepsCounts(g) ==
    /\ Locked
    /\ sets < MaxSets
    /\ sets' = sets + 1
    /\ \/ /\ g = NoGoal
          /\ goal' = NoGoal
          /\ goalStatus' = "stopped"
          /\ Restart
       \/ /\ g /= NoGoal
          /\ goal' = g
          /\ goalStatus' = "running"
          /\ hist' = <<>>
          /\ UNCHANGED countVars
    /\ UNCHANGED <<mu, loopVars, cancelled>>

(* SetGoal and ClearGoal.  The running goal set again is left as it is.    *)
SetGoal(g) ==
    /\ Locked
    /\ sets < MaxSets
    /\ sets' = sets + 1
    /\ \/ /\ g = NoGoal
          /\ goal' = NoGoal
          /\ goalStatus' = "stopped"
          /\ Restart
       \/ /\ g /= NoGoal
          /\ Active /\ goal = g
          /\ UNCHANGED goalVars
       \/ /\ g /= NoGoal
          /\ ~(Active /\ goal = g)
          /\ goal' = g
          /\ goalStatus' = "running"
          /\ Restart
    /\ UNCHANGED <<mu, loopVars, cancelled>>

(* A turn is submitted: every turn runs as a goal loop.                    *)
Submit ==
    /\ Locked
    /\ pc = "none"
    /\ pc' = "turn"
    /\ cancelled' = FALSE
    /\ UNCHANGED <<goalVars, mu, reply, sets>>

Cancel ==
    /\ Locked
    /\ pc /= "none"
    /\ cancelled' = TRUE
    /\ UNCHANGED <<goalVars, mu, loopVars, sets>>

-----------------------------------------------------------------------------
(* The loop.                                                               *)

(* The model gives its final answer.                                       *)
TurnEnds ==
    /\ Locked
    /\ pc = "turn"
    /\ reply' \in Reply
    /\ pc' = "advance"
    /\ UNCHANGED <<goalVars, mu, cancelled, sets>>

(* stopGoal, when the turn's context is cancelled.                         *)
StopGoalIfCancelled ==
    /\ goalStatus' = IF cancelled /\ Active THEN "stopped" ELSE goalStatus
    /\ UNCHANGED <<goal, countVars, hist>>

(* The turn returns an error: cancelled, a provider that fails, too many   *)
(* rounds.                                                                 *)
TurnFails ==
    /\ Locked
    /\ pc = "turn"
    /\ pc' = "none"
    /\ StopGoalIfCancelled
    /\ UNCHANGED <<mu, reply, cancelled, sets>>

SameBlock == reply = goalBlock

(* A blocked reply counts up while the reason stays the same.              *)
CountBlocked ==
    /\ reply \in Reason
    /\ goalBlocks' = IF SameBlock THEN goalBlocks + 1 ELSE 1
    /\ goalBlock' = reply
    /\ goalIdleTurns' = 0

(* The final answer of a turn never carries tool calls, so every such      *)
(* reply counts as idle; a marker resets the count after it was looked at. *)
CountOther ==
    /\ reply \in {"unmarked", "continue"}
    /\ goalBlocks' = 0
    /\ goalBlock' = NoBlock
    /\ goalIdleTurns' = IF reply = "unmarked" THEN goalIdleTurns + 1 ELSE 0

TooManyBlocks == reply \in Reason /\ goalBlocks' >= MaxSameBlocks
TooIdle       == reply \notin Reason /\ goalIdleTurns + 1 >= MaxGoalIdleTurns

OutOfTurns == goalTurns' >= MaxGoalAutoTurns

(* Mutant of NoGoalLeft: the loop goes on without a goal.                  *)
NoGoalLeftGoesOn ==
    /\ ~Active
    /\ pc' = "continue"
    /\ UNCHANGED goalVars

NoGoalLeft ==
    /\ ~Active
    /\ pc' = "none"
    /\ UNCHANGED goalVars

(* advanceGoalAfterTurn, up to the judge: a reply other than complete is   *)
(* counted and decides whether the loop goes on.  The notice goalBlock     *)
(* gets when an idle goal or one out of turns is given up is left out: no  *)
(* reply is compared with it.                                              *)
Advance ==
    /\ Locked
    /\ pc = "advance"
    /\ \/ NoGoalLeft
       \/ /\ Active
          /\ goalTurns' = goalTurns + 1
          /\ hist' = Append(hist, reply)
          /\ reply = "complete"
          /\ pc' = "judging"
          /\ UNCHANGED <<goal, goalStatus, goalBlocks, goalBlock, goalIdleTurns>>
       \/ /\ Active
          /\ goalTurns' = goalTurns + 1
          /\ hist' = Append(hist, reply)
          /\ CountBlocked \/ CountOther
          /\ IF TooManyBlocks \/ TooIdle \/ OutOfTurns
               THEN pc' = "none" /\ goalStatus' = "blocked"
               ELSE pc' = "continue" /\ UNCHANGED goalStatus
          /\ UNCHANGED goal
    /\ UNCHANGED <<mu, reply, cancelled, sets>>

(* The judge's verdict, or its failure, a timeout or a cancelled call,     *)
(* which are refusals.  A refusal takes the lock and returns with it.      *)
Judge(ok) ==
    /\ pc = "judging"
    /\ IF ok
         THEN pc' = "recheck" /\ UNCHANGED mu
         ELSE pc' = "continue" /\ mu' = "loop"
    /\ UNCHANGED <<goalVars, reply, cancelled, sets>>

(* Mutant of Recheck: the goal is not looked at again after the judge.     *)
RecheckNothing ==
    /\ Locked
    /\ pc = "recheck"
    /\ goal' = NoGoal
    /\ goalStatus' = "complete"
    /\ goalBlocks' = 0
    /\ goalBlock' = NoBlock
    /\ goalIdleTurns' = 0
    /\ pc' = "none"
    /\ UNCHANGED <<goalTurns, hist, mu, reply, cancelled, sets>>

(* With a verdict of OK the goal is complete, if it is still there.        *)
Recheck ==
    /\ Locked
    /\ pc = "recheck"
    /\ \/ /\ ~Active
          /\ UNCHANGED goalVars
       \/ /\ Active
          /\ goal' = NoGoal
          /\ goalStatus' = "complete"
          /\ goalBlocks' = 0
          /\ goalBlock' = NoBlock
          /\ goalIdleTurns' = 0
          /\ UNCHANGED <<goalTurns, hist>>
    /\ pc' = "none"
    /\ UNCHANGED <<mu, reply, cancelled, sets>>

(* Mutant of Continue: the loop ends and the goal stays running.           *)
ContinueLeavesGoal ==
    /\ Locked
    /\ pc = "continue"
    /\ pc' = IF cancelled THEN "none" ELSE "turn"
    /\ UNCHANGED <<goalVars, mu, reply, cancelled, sets>>

(* The rest of continueGoal: a cancelled loop stops the goal, another one  *)
(* runs the next turn.  Both begin with the lock.                          *)
Continue ==
    /\ Locked
    /\ pc = "continue"
    /\ pc' = IF cancelled THEN "none" ELSE "turn"
    /\ StopGoalIfCancelled
    /\ UNCHANGED <<mu, reply, cancelled, sets>>

-----------------------------------------------------------------------------
LoopStep ==
    \/ TurnEnds \/ TurnFails \/ Advance \/ Recheck \/ Continue
    \/ \E ok \in BOOLEAN : Judge(ok)

Next ==
    \/ LoopStep
    \/ Submit \/ Cancel
    \/ \E g \in Objective \cup {NoGoal} : SetGoal(g)

Spec == Init /\ [][Next]_vars

(* The goroutine of the turn is scheduled and the model calls return (the  *)
(* provider is cancelled with the turn, the judge is cut after a minute).  *)
FairSpec == Spec /\ WF_vars(LoopStep)

-----------------------------------------------------------------------------
Last(n) == SubSeq(hist, Len(hist) - n + 1, Len(hist))

SameReasonThrice ==
    /\ Len(hist) >= 3
    /\ \E r \in Reason : Last(3) = <<r, r, r>>

IdleTwice  == Len(hist) >= 2 /\ Last(2) = <<"unmarked", "unmarked">>
MarkedIdle == Len(hist) >= 2 /\ Last(2) = <<"unmarked", "continue">>

Exhausted == SameReasonThrice \/ IdleTwice \/ Len(hist) >= MaxGoalAutoTurns

(* BlockedIsEarned: a goal is blocked when the replies since it was set    *)
(* say so, and only then: one reason three times running, two idle turns,  *)
(* or as many turns as allowed.  The counters say nothing about another    *)
(* goal, whenever goals are set, cleared and set again under a running     *)
(* loop.  Of an idle turn and then one marked continue nothing is claimed: *)
(* the code blocks the goal, because it looks at the count before a marker *)
(* resets it, and its comments say that a marker counts as activity.       *)
BlockedIsEarned ==
    /\ TypeOK
    /\ goalStatus = "blocked" => Exhausted \/ MarkedIdle
    /\ goalStatus = "running" /\ pc \in {"none", "turn", "continue"}
           => ~Exhausted \/ hist[Len(hist)] = "complete"

(* DeadGoalStaysDead: a goal that was cleared or stopped while the judge   *)
(* was asked or the turn ran is not completed or blocked afterwards (the   *)
(* second look in advanceGoalAfterTurn).                                   *)
DeadGoalStaysDead ==
    [][goalStatus' \in {"complete", "blocked"} /\ goalStatus' /= goalStatus
           => Active]_vars

(* StopStopsTheGoal: a loop that ends after Stop leaves no running goal,   *)
(* which the next message would take up again.                             *)
StopStopsTheGoal ==
    [][pc /= "none" /\ pc' = "none" /\ cancelled
           => goalStatus' /= "running"]_vars

(* LoopEnds: a goal loop ends by itself, whatever the model replies, as    *)
(* long as the user sets goals a finite number of times, unless the judge  *)
(* refuses: that path keeps the lock (CancelEndsLoop).                     *)
LoopEnds == pc /= "none" ~> pc = "none" \/ mu = "loop"

(* CancelEndsLoop: what advanceGoalAfterTurn says of the judge's context:  *)
(* Cancel ends the call, and with it the loop, instead of parking.         *)
CancelEndsLoop == cancelled /\ pc /= "none" ~> pc = "none"
=============================================================================
