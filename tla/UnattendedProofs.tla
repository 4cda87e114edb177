--------------------------- MODULE UnattendedProofs ---------------------------
(***************************************************************************)
(* Proofs about what runs prompts with nobody at the keyboard: the goal    *)
(* loop, for any number of turns a goal may take, any objectives and block *)
(* reasons, and any number of calls that set or clear goals; and then the  *)
(* scheduler, for any tasks, instants and periods, any number of           *)
(* goroutines, and any bounds on calls, restarts and saves that fail.      *)
(***************************************************************************)
EXTENDS Goal, Scheduler, SequenceTheorems, WellFoundedInduction, TLAPS

(* The two ways to exhaust a goal that look back, by the places of the     *)
(* replies, for any sequence of them.                                      *)
Thrice(h) ==
    /\ Len(h) >= 3
    /\ h[Len(h)] \in Reason
    /\ h[Len(h) - 1] = h[Len(h)]
    /\ h[Len(h) - 2] = h[Len(h)]

Idle(h) ==
    /\ Len(h) >= 2
    /\ h[Len(h) - 1] = "unmarked"
    /\ h[Len(h)] \in {"unmarked", "continue"}

LEMMA ThriceByPlace ==
    ASSUME NEW h \in Seq(Reply)
    PROVE  (/\ Len(h) >= 3
            /\ \E r \in Reason : SubSeq(h, Len(h) - 3 + 1, Len(h)) = <<r, r, r>>)
           <=> Thrice(h)
<1>1. SUFFICES ASSUME Len(h) >= 3
               PROVE  (\E r \in Reason : SubSeq(h, Len(h) - 3 + 1, Len(h)) = <<r, r, r>>)
                      <=> Thrice(h)
  BY DEF Thrice
<1> DEFINE t == SubSeq(h, Len(h) - 3 + 1, Len(h))
<1>2. /\ t \in Seq(Reply)
      /\ Len(t) = 3
      /\ t[1] = h[Len(h) - 2] /\ t[2] = h[Len(h) - 1] /\ t[3] = h[Len(h)]
  BY <1>1
<1>3. ASSUME NEW r \in Reason
      PROVE  t = <<r, r, r>> <=> t[1] = r /\ t[2] = r /\ t[3] = r
  <2> DEFINE u == <<r, r, r>>
  <2>1. u \in Seq(Reply) /\ Len(u) = 3 /\ \A i \in 1 .. 3 : u[i] = r
    BY DEF Reply
  <2> HIDE DEF t, u
  <2>2. t = u <=> \A i \in 1 .. 3 : t[i] = u[i]
    BY <1>2, <2>1, SeqEqual
  <2>3. QED
    BY <2>1, <2>2 DEF u
<1>4. QED
  BY <1>1, <1>2, <1>3 DEF Thrice

LEMMA IdleByPlace ==
    ASSUME NEW h \in Seq(Reply), Len(h) >= 2, NEW x \in Reply
    PROVE  SubSeq(h, Len(h) - 2 + 1, Len(h)) = <<"unmarked", x>>
           <=> h[Len(h) - 1] = "unmarked" /\ h[Len(h)] = x
<1> DEFINE t == SubSeq(h, Len(h) - 2 + 1, Len(h))
           u == <<"unmarked", x>>
<1>1. t \in Seq(Reply) /\ Len(t) = 2 /\ t[1] = h[Len(h) - 1] /\ t[2] = h[Len(h)]
  OBVIOUS
<1>2. u \in Seq(Reply) /\ Len(u) = 2 /\ u[1] = "unmarked" /\ u[2] = x
  BY DEF Reply, Marker
<1> HIDE DEF t, u
<1>3. t = u <=> \A i \in 1 .. 2 : t[i] = u[i]
  BY <1>1, <1>2, SeqEqual
<1>4. QED
  BY <1>1, <1>2, <1>3 DEF t, u

(* All the ways in which the code gives a goal up.                         *)
GivenUp == Exhausted \/ MarkedIdle

LEMMA GivenUpByPlace ==
    ASSUME hist \in Seq(Reply)
    PROVE  GivenUp <=>
           Thrice(hist) \/ Idle(hist) \/ Len(hist) >= MaxGoalAutoTurns
<1>1. SameReasonThrice <=> Thrice(hist)
  BY ThriceByPlace DEF SameReasonThrice, Last
<1>2. IdleTwice \/ MarkedIdle <=> Idle(hist)
  BY IdleByPlace DEF IdleTwice, MarkedIdle, Idle, Last, Reply, Marker
<1>3. QED
  BY <1>1, <1>2 DEF GivenUp, Exhausted

LEMMA GivenUpByPlaceNext ==
    ASSUME hist' \in Seq(Reply)
    PROVE  GivenUp' <=>
           Thrice(hist') \/ Idle(hist') \/ Len(hist') >= MaxGoalAutoTurns
<1>1. SameReasonThrice' <=> Thrice(hist')
  BY ThriceByPlace DEF SameReasonThrice, Last
<1>2. IdleTwice' \/ MarkedIdle' <=> Idle(hist')
  BY IdleByPlace DEF IdleTwice, MarkedIdle, Idle, Last, Reply, Marker
<1>3. QED
  BY <1>1, <1>2 DEF GivenUp, Exhausted

-----------------------------------------------------------------------------
(* The counters say what the replies since the goal was set say: how many  *)
(* there were, how often the last block reason was given in a row, and     *)
(* whether the last turn was an idle one.                                  *)
TurnsAreCounted == goalTurns = Len(hist)

BlocksAreCounted ==
    /\ goalBlocks <= Len(hist)
    /\ \A i \in 1 .. Len(hist) : i > Len(hist) - goalBlocks => hist[i] = goalBlock
    /\ goalBlocks > 0 => goalBlock \in Reason
    /\ Len(hist) > 0 /\ hist[Len(hist)] \in Reason
           => goalBlock = hist[Len(hist)] /\ goalBlocks >= 1
    /\ Len(hist) > 1 /\ hist[Len(hist)] \in Reason /\ hist[Len(hist) - 1] = hist[Len(hist)]
           => goalBlocks >= 2

IdleIsCounted ==
    /\ Len(hist) = 0 => goalIdleTurns = 0
    /\ Len(hist) > 0 => (hist[Len(hist)] = "unmarked" <=> goalIdleTurns >= 1)

(* A goal that runs on is below every limit.                               *)
BelowLimits ==
    /\ goalTurns < MaxGoalAutoTurns
    /\ goalBlocks < MaxSameBlocks
    /\ goalIdleTurns < MaxGoalIdleTurns

(* The last reply says that the goal is complete.                          *)
Claimed == Len(hist) > 0 /\ hist[Len(hist)] = "complete"

(* A running goal's counters are right and its limits ahead of it, except  *)
(* while a claim is judged; a claim that was refused is never got past.    *)
Counted ==
    goalStatus = "running" =>
        /\ Claimed => pc \in {"judging", "recheck"} \/ mu = "loop"
        /\ ~Claimed => BlocksAreCounted /\ IdleIsCounted /\ BelowLimits /\ ~GivenUp

IInv ==
    /\ TypeOK
    /\ TurnsAreCounted
    /\ Counted
    /\ goalStatus = "blocked" => GivenUp
    /\ mu = "loop" => pc = "continue"

LEMMA CountersStay ==
    ASSUME UNCHANGED countVars, UNCHANGED hist
    PROVE  /\ TurnsAreCounted' <=> TurnsAreCounted
           /\ BlocksAreCounted' <=> BlocksAreCounted
           /\ IdleIsCounted' <=> IdleIsCounted
           /\ BelowLimits' <=> BelowLimits
           /\ Claimed' <=> Claimed
           /\ GivenUp' <=> GivenUp
BY DEF countVars, TurnsAreCounted, BlocksAreCounted, IdleIsCounted, BelowLimits, Claimed,
       GivenUp, Exhausted, SameReasonThrice, IdleTwice, MarkedIdle, Last

(* A goal set anew starts with nothing counted.                            *)
LEMMA RestartCounts ==
    ASSUME Restart
    PROVE  /\ TurnsAreCounted' /\ BlocksAreCounted' /\ IdleIsCounted' /\ BelowLimits'
           /\ ~Claimed' /\ ~GivenUp'
<1>1. hist' = <<>> /\ hist' \in Seq(Reply) /\ Len(hist') = 0
  BY DEF Restart
<1>2. TurnsAreCounted' /\ BlocksAreCounted' /\ IdleIsCounted' /\ ~Claimed'
  BY <1>1 DEF Restart, TurnsAreCounted, BlocksAreCounted, IdleIsCounted, Claimed
<1>3. BelowLimits'
  BY <1>1, LimitsAssumption DEF Restart, BelowLimits, MaxSameBlocks, MaxGoalIdleTurns
<1>4. ~GivenUp'
  BY <1>1, GivenUpByPlaceNext, LimitsAssumption DEF Thrice, Idle
<1>5. QED
  BY <1>2, <1>3, <1>4

LEMMA InitIInv == Init => IInv
<1> SUFFICES ASSUME Init PROVE IInv
  OBVIOUS
<1>1. TypeOK
  <2>1. hist \in Seq(Reply) /\ reply \in Reply
    BY DEF Init, Reply, Marker
  <2>2. /\ goalTurns \in 0 .. MaxGoalAutoTurns /\ sets \in 0 .. MaxSets
        /\ goalBlocks \in 0 .. MaxSameBlocks /\ goalIdleTurns \in 0 .. MaxGoalIdleTurns
    BY LimitsAssumption DEF Init, MaxSameBlocks, MaxGoalIdleTurns
  <2>3. QED
    BY <2>1, <2>2, Zenon DEF Init, TypeOK, Status, PC
<1>2. QED
  BY <1>1 DEF Init, IInv, TurnsAreCounted, Counted

LEMMA SetGoalIInv ==
    ASSUME IInv, NEW g \in Objective \cup {NoGoal}, SetGoal(g)
    PROVE  IInv'
<1> USE DEF IInv
<1>1. CASE UNCHANGED goalVars
  <2>1. TypeOK'
    BY <1>1, LimitsAssumption DEF SetGoal, TypeOK, goalVars, countVars, loopVars
  <2>2. QED
    BY <1>1, <2>1, CountersStay DEF SetGoal, goalVars, loopVars, Counted
<1>2. CASE Restart /\ goalStatus' \in {"running", "stopped"}
           /\ goal' = g /\ (goalStatus' = "running" => g /= NoGoal)
  <2>1. TypeOK'
    BY <1>2, LimitsAssumption
    DEF SetGoal, Restart, TypeOK, loopVars, Status, MaxSameBlocks, MaxGoalIdleTurns
  <2>2. QED
    BY <1>2, <2>1, RestartCounts DEF SetGoal, loopVars, Counted
<1>3. QED
  BY <1>1, <1>2 DEF SetGoal

(* A step of the loop that counts nothing and leaves the goal running or   *)
(* stops it.                                                               *)
LEMMA UncountedIInv ==
    ASSUME IInv, TypeOK', UNCHANGED countVars, UNCHANGED hist,
           goalStatus' = goalStatus \/ goalStatus' \in {"stopped", "complete"},
           mu' = "loop" => pc' = "continue",
           Claimed /\ goalStatus' = "running" => pc' \in {"judging", "recheck"} \/ mu' = "loop"
    PROVE  IInv'
BY CountersStay DEF IInv, Counted

(* What a reply other than complete does to the counters.                  *)
LEMMA CountedReply ==
    ASSUME IInv, Active, Locked, pc = "advance", reply /= "complete",
           goalTurns' = goalTurns + 1, hist' = Append(hist, reply),
           CountBlocked \/ CountOther
    PROVE  /\ TurnsAreCounted' /\ BlocksAreCounted' /\ IdleIsCounted' /\ ~Claimed'
           /\ goalTurns' \in 0 .. MaxGoalAutoTurns
           /\ goalBlocks' \in 0 .. MaxSameBlocks
           /\ goalBlock' \in Reason \cup {NoBlock}
           /\ goalIdleTurns' \in 0 .. MaxGoalIdleTurns
           /\ hist' \in Seq(Reply)
           /\ GivenUp' <=> TooManyBlocks \/ TooIdle \/ OutOfTurns
           /\ ~(TooManyBlocks \/ TooIdle \/ OutOfTurns) => BelowLimits'
<1>1. /\ BlocksAreCounted /\ IdleIsCounted /\ BelowLimits /\ ~GivenUp
      /\ goalTurns = Len(hist)
  BY DEF IInv, Counted, Active, Locked, TurnsAreCounted
<1>2. /\ hist \in Seq(Reply) /\ reply \in Reply
      /\ goalTurns \in Nat /\ goalBlocks \in Nat /\ goalIdleTurns \in Nat
      /\ goalBlock \in Reason \cup {NoBlock}
  BY LimitsAssumption DEF IInv, TypeOK, MaxSameBlocks, MaxGoalIdleTurns
<1>3. /\ hist' \in Seq(Reply)
      /\ Len(hist') = Len(hist) + 1
      /\ \A i \in 1 .. Len(hist) : hist'[i] = hist[i]
      /\ hist'[Len(hist) + 1] = reply
  BY <1>2
<1>4. reply \in Reason => reply \notin Marker /\ reply /= NoBlock
  BY NamesAssumption
<1>5. TurnsAreCounted' /\ ~Claimed'
  BY <1>1, <1>2, <1>3 DEF TurnsAreCounted, Claimed
<1>6. goalTurns' \in 0 .. MaxGoalAutoTurns
  BY <1>1, <1>2, LimitsAssumption DEF BelowLimits
<1>7. CASE CountBlocked
  <2> USE <1>7 DEF CountBlocked
  <2>1. IdleIsCounted'
    BY <1>2, <1>3, <1>4 DEF IdleIsCounted, Marker
  <2>2. goalBlocks' \in 1 .. MaxSameBlocks /\ goalBlocks' <= goalBlocks + 1
    BY <1>1, <1>2 DEF BelowLimits, MaxSameBlocks
  <2>3. BlocksAreCounted'
    <3>1. goalBlocks' <= Len(hist') /\ goalBlock' \in Reason
      BY <1>1, <1>2, <1>3, <2>2 DEF BlocksAreCounted
    <3>2. \A i \in 1 .. Len(hist') : i > Len(hist') - goalBlocks' => hist'[i] = goalBlock'
      BY <1>1, <1>2, <1>3, <2>2 DEF BlocksAreCounted, SameBlock
    <3>3. Len(hist') > 1 /\ hist'[Len(hist') - 1] = hist'[Len(hist')] => goalBlocks' >= 2
      BY <1>1, <1>2, <1>3 DEF BlocksAreCounted, SameBlock
    <3>4. QED
      BY <1>2, <1>3, <2>2, <3>1, <3>2, <3>3 DEF BlocksAreCounted
  <2>4. Thrice(hist') <=> goalBlocks' >= MaxSameBlocks
    <3>1. CASE goalBlocks' >= MaxSameBlocks
      <4>1. goalBlocks' = 3 /\ Len(hist') >= 3
        BY <2>2, <2>3, <3>1 DEF BlocksAreCounted, MaxSameBlocks
      <4>2. QED
        BY <1>2, <1>3, <2>3, <3>1, <4>1 DEF BlocksAreCounted, Thrice
    <3>2. CASE Thrice(hist')
      <4>1. /\ Len(hist) > 1 /\ hist[Len(hist)] = reply
            /\ hist[Len(hist) - 1] = hist[Len(hist)]
        BY <1>2, <1>3, <3>2 DEF Thrice
      <4>2. goalBlock = reply /\ goalBlocks >= 2
        BY <1>1, <1>2, <4>1 DEF BlocksAreCounted
      <4>3. QED
        BY <1>2, <3>2, <4>2 DEF SameBlock, MaxSameBlocks
    <3>3. QED
      BY <3>1, <3>2
  <2>5. ~Idle(hist')
    BY <1>2, <1>3, <1>4 DEF Idle, Marker
  <2>6. GivenUp' <=> TooManyBlocks \/ TooIdle \/ OutOfTurns
    BY <1>1, <1>2, <1>3, <2>4, <2>5, GivenUpByPlaceNext DEF TooManyBlocks, TooIdle, OutOfTurns
  <2>7. ~(TooManyBlocks \/ TooIdle \/ OutOfTurns) => BelowLimits'
    BY <1>1, <1>2, <1>6, <2>2, LimitsAssumption
    DEF TooManyBlocks, OutOfTurns, BelowLimits, MaxSameBlocks, MaxGoalIdleTurns
  <2>8. QED
    BY <1>3, <1>5, <1>6, <2>1, <2>2, <2>3, <2>6, <2>7 DEF MaxSameBlocks, MaxGoalIdleTurns
<1>8. CASE CountOther
  <2> USE <1>8 DEF CountOther
  <2>1. reply \notin Reason
    BY <1>4 DEF Marker
  <2>2. IdleIsCounted' /\ goalIdleTurns' \in 0 .. MaxGoalIdleTurns
    BY <1>1, <1>2, <1>3 DEF IdleIsCounted, BelowLimits, MaxGoalIdleTurns
  <2>3. BlocksAreCounted'
    BY <1>2, <1>3, <2>1 DEF BlocksAreCounted
  <2>4. ~Thrice(hist')
    BY <1>2, <1>3, <2>1 DEF Thrice
  <2>5. Idle(hist') <=> goalIdleTurns >= 1
    BY <1>1, <1>2, <1>3 DEF IdleIsCounted, Idle
  <2>6. GivenUp' <=> TooManyBlocks \/ TooIdle \/ OutOfTurns
    BY <1>1, <1>2, <1>3, <2>1, <2>4, <2>5, GivenUpByPlaceNext
    DEF TooManyBlocks, TooIdle, OutOfTurns, MaxGoalIdleTurns
  <2>7. ~(TooManyBlocks \/ TooIdle \/ OutOfTurns) => BelowLimits'
    BY <1>1, <1>2, <1>6, <2>1, LimitsAssumption
    DEF TooIdle, OutOfTurns, BelowLimits, MaxSameBlocks, MaxGoalIdleTurns
  <2>8. QED
    BY <1>3, <1>5, <1>6, <2>2, <2>3, <2>6, <2>7 DEF MaxSameBlocks
<1>9. QED
  BY <1>7, <1>8

LEMMA AdvanceIInv ==
    ASSUME IInv, Advance
    PROVE  IInv'
<1>1. mu' = "free" /\ mu = "free" /\ pc = "advance"
  BY DEF Advance, Locked
<1>2. CASE NoGoalLeft
  <2>1. TypeOK'
    BY <1>2 DEF IInv, Advance, NoGoalLeft, TypeOK, goalVars, countVars, PC
  <2>2. QED
    BY <1>1, <1>2, <2>1, UncountedIInv DEF NoGoalLeft, goalVars, Active, IInv, TypeOK
<1>3. CASE /\ Active
           /\ goalTurns' = goalTurns + 1
           /\ hist' = Append(hist, reply)
           /\ reply = "complete"
           /\ pc' = "judging"
           /\ UNCHANGED <<goal, goalStatus, goalBlocks, goalBlock, goalIdleTurns>>
  <2>1. ~Claimed /\ goalTurns < MaxGoalAutoTurns
    BY <1>1, <1>3 DEF IInv, Counted, Active, BelowLimits
  <2>2. TypeOK'
    BY <1>1, <1>3, <2>1, LimitsAssumption DEF Advance, IInv, TypeOK, PC
  <2>3. TurnsAreCounted' /\ Claimed'
    BY <1>3 DEF IInv, TypeOK, TurnsAreCounted, Claimed
  <2>4. QED
    BY <1>1, <1>3, <2>2, <2>3 DEF IInv, Counted, Active
<1>4. CASE /\ Active
           /\ goalTurns' = goalTurns + 1
           /\ hist' = Append(hist, reply)
           /\ CountBlocked \/ CountOther
           /\ IF TooManyBlocks \/ TooIdle \/ OutOfTurns
                THEN pc' = "none" /\ goalStatus' = "blocked"
                ELSE pc' = "continue" /\ UNCHANGED goalStatus
           /\ UNCHANGED goal
  <2>1. reply /= "complete"
    BY <1>4, NamesAssumption DEF CountBlocked, CountOther, Marker
  <2>2. /\ TurnsAreCounted' /\ BlocksAreCounted' /\ IdleIsCounted' /\ ~Claimed'
        /\ goalTurns' \in 0 .. MaxGoalAutoTurns
        /\ goalBlocks' \in 0 .. MaxSameBlocks
        /\ goalBlock' \in Reason \cup {NoBlock}
        /\ goalIdleTurns' \in 0 .. MaxGoalIdleTurns
        /\ hist' \in Seq(Reply)
        /\ GivenUp' <=> TooManyBlocks \/ TooIdle \/ OutOfTurns
        /\ ~(TooManyBlocks \/ TooIdle \/ OutOfTurns) => BelowLimits'
    BY <1>1, <1>4, <2>1, CountedReply DEF Locked
  <2>3. TypeOK'
    BY <1>4, <2>2 DEF IInv, Advance, TypeOK, PC, Status, Active
  <2>4. Counted' /\ (goalStatus' = "blocked" => GivenUp')
    BY <1>4, <2>2 DEF Counted, Active
  <2>5. QED
    BY <1>1, <2>2, <2>3, <2>4 DEF IInv
<1>5. QED
  BY <1>2, <1>3, <1>4 DEF Advance

LEMMA NextIInv == IInv /\ [Next]_vars => IInv'
<1> SUFFICES ASSUME IInv, [Next]_vars
             PROVE  IInv'
  OBVIOUS
<1> USE DEF Locked
<1>1. CASE TurnEnds
  <2>1. TypeOK'
    BY <1>1 DEF IInv, TurnEnds, TypeOK, goalVars, countVars, PC
  <2>2. QED
    BY <1>1, <2>1, UncountedIInv DEF TurnEnds, goalVars, IInv, Counted
<1>2. CASE TurnFails
  <2>1. TypeOK'
    BY <1>2 DEF IInv, TurnFails, StopGoalIfCancelled, TypeOK, countVars, PC, Status
  <2>2. QED
    BY <1>2, <2>1, UncountedIInv DEF TurnFails, StopGoalIfCancelled, IInv, Counted
<1>3. CASE Advance
  BY <1>3, AdvanceIInv
<1>4. CASE Recheck
  <2>1. CASE ~Active /\ UNCHANGED goalVars
    <3>1. TypeOK'
      BY <1>4, <2>1 DEF IInv, Recheck, TypeOK, goalVars, countVars, PC
    <3>2. QED
      BY <1>4, <2>1, <3>1, UncountedIInv DEF Recheck, goalVars, Active, IInv, TypeOK
  <2>2. CASE Active /\ goalStatus' = "complete" /\ UNCHANGED <<goalTurns, hist>>
    <3>1. TypeOK'
      BY <1>4, <2>2 DEF IInv, Recheck, Active, TypeOK, goalVars, countVars, PC, Status,
                        MaxSameBlocks, MaxGoalIdleTurns
    <3>2. QED
      BY <1>4, <2>2, <3>1 DEF Recheck, IInv, Counted, TurnsAreCounted
  <2>3. QED
    BY <1>4, <2>1, <2>2 DEF Recheck
<1>5. CASE Continue
  <2>1. TypeOK'
    BY <1>5 DEF IInv, Continue, StopGoalIfCancelled, TypeOK, countVars, PC, Status
  <2>2. QED
    BY <1>5, <2>1, UncountedIInv DEF Continue, StopGoalIfCancelled, IInv, Counted
<1>6. CASE \E ok \in BOOLEAN : Judge(ok)
  <2>1. TypeOK' /\ mu = "free"
    BY <1>6 DEF IInv, Judge, TypeOK, goalVars, countVars, PC
  <2>2. QED
    BY <1>6, <2>1, UncountedIInv DEF Judge, goalVars, IInv
<1>7. CASE Submit
  <2>1. TypeOK'
    BY <1>7 DEF IInv, Submit, TypeOK, goalVars, countVars, PC
  <2>2. QED
    BY <1>7, <2>1, UncountedIInv DEF Submit, goalVars, IInv, Counted
<1>8. CASE Cancel
  <2>1. TypeOK'
    BY <1>8 DEF IInv, Cancel, TypeOK, goalVars, countVars, loopVars
  <2>2. QED
    BY <1>8, <2>1, UncountedIInv DEF Cancel, goalVars, loopVars, IInv, Counted
<1>9. CASE \E g \in Objective \cup {NoGoal} : SetGoal(g)
  BY <1>9, SetGoalIInv
<1>10. CASE UNCHANGED vars
  <2>1. TypeOK'
    BY <1>10 DEF IInv, vars, TypeOK, goalVars, countVars, loopVars
  <2>2. QED
    BY <1>10, <2>1, UncountedIInv DEF vars, goalVars, loopVars, IInv, Counted
<1>11. QED
  BY <1>1, <1>2, <1>3, <1>4, <1>5, <1>6, <1>7, <1>8, <1>9, <1>10 DEF Next, LoopStep

LEMMA SpecIInv == Spec => []IInv
BY InitIInv, NextIInv, PTL DEF Spec

-----------------------------------------------------------------------------
(* BlocksAreEarned: a goal is blocked when the replies since it was set    *)
(* say so (advanceGoalAfterTurn's three limits) and only then, whatever    *)
(* calls set and clear goals under the running loop; an idle turn followed *)
(* by one marked continue is left open.                                    *)
THEOREM BlocksAreEarned == Spec => []BlockedIsEarned
<1>1. IInv => BlockedIsEarned
  <2>1. ASSUME IInv, goalStatus = "running", pc \in {"none", "turn", "continue"}
        PROVE  ~Exhausted \/ hist[Len(hist)] = "complete"
    BY <2>1 DEF IInv, Counted, Claimed, GivenUp
  <2>2. QED
    BY <2>1 DEF IInv, BlockedIsEarned, GivenUp
<1>2. QED
  BY <1>1, SpecIInv, PTL

(* DeadGoalsStayDead: a goal that was cleared or stopped while a turn or   *)
(* the judge ran is neither completed nor blocked (the second look at the  *)
(* goal in advanceGoalAfterTurn).                                          *)
THEOREM DeadGoalsStayDead == Spec => DeadGoalStaysDead
<1>1. [Next]_vars => [goalStatus' \in {"complete", "blocked"} /\ goalStatus' /= goalStatus
                          => Active]_vars
  BY DEF Next, LoopStep, TurnEnds, TurnFails, Advance, NoGoalLeft, Recheck, Continue, Judge,
         Submit, Cancel, SetGoal, StopGoalIfCancelled, goalVars
<1>2. QED
  BY <1>1, PTL DEF Spec, DeadGoalStaysDead

(* StopsStopGoals: a loop that ends after Stop leaves no running goal for  *)
(* the next message to take up (stopGoal in continueGoal).                 *)
THEOREM StopsStopGoals == Spec => StopStopsTheGoal
<1>1. IInv /\ [Next]_vars
          => [pc /= "none" /\ pc' = "none" /\ cancelled => goalStatus' /= "running"]_vars
  <2>1. SUFFICES ASSUME IInv, Next, pc /= "none", pc' = "none", cancelled
                 PROVE  goalStatus' /= "running"
    OBVIOUS
  <2>2. goalStatus = "running" => Active
    BY <2>1 DEF IInv, TypeOK, Active
  <2>3. QED
    BY <2>1, <2>2 DEF Next, LoopStep, TurnEnds, TurnFails, Advance, NoGoalLeft, Recheck,
       Continue, Judge, Submit, Cancel, SetGoal, StopGoalIfCancelled, goalVars, loopVars
<1>2. QED
  BY <1>1, SpecIInv, PTL DEF Spec, StopStopsTheGoal

-----------------------------------------------------------------------------
(***************************************************************************)
(* The scheduler.                                                          *)
(***************************************************************************)

(* The ids of a table, and that each stands in it once.                    *)
Ids(list) == {list[i].id : i \in DOMAIN list}
OneEntryEach(list) == \A i, j \in DOMAIN list : list[i].id = list[j].id => i = j

(* An entry that promises a run, or at the next start a notification.      *)
Promises(e, id) == e.id = id /\ e.enabled /\ e.expr.once /\ ~e.ran
Promised(list, id) == \E i \in DOMAIN list : Promises(list[i], id)
Waits(list, id) == \E i \in DOMAIN list : Promises(list[i], id) /\ list[i].next /= None

-----------------------------------------------------------------------------
(* Entries and tables of them.                                             *)

LEMMA EntryFields ==
    ASSUME NEW e \in Entry
    PROVE  /\ e.id \in Task /\ e.expr \in Expr
           /\ e.expr.once \in BOOLEAN /\ e.expr.n \in Nat
           /\ e.enabled \in BOOLEAN /\ e.next \in Nat \cup {None} /\ e.ran \in BOOLEAN
BY SchedulerAssumption DEF Entry, Expr

LEMMA ExprFields ==
    ASSUME NEW e \in Expr
    PROVE  e.once \in BOOLEAN /\ e.n \in Nat
BY SchedulerAssumption DEF Expr

LEMMA NextRunType ==
    ASSUME NEW e \in Expr, now \in Nat
    PROVE  NextRun(e) \in Nat \cup {None}
BY ExprFields DEF NextRun

LEMMA TableShape ==
    ASSUME NEW L \in Seq(Entry)
    PROVE  /\ Len(L) \in Nat /\ DOMAIN L = 1 .. Len(L)
           /\ \A i \in DOMAIN L : L[i] \in Entry /\ i \in Nat
  <1>1. Len(L) \in Nat /\ DOMAIN L = 1 .. Len(L) /\ L \in [1 .. Len(L) -> Entry]
    BY LenProperties, Zenon
  <1>2. QED
    BY <1>1

(* An entry replaced by one of the same id.                                *)
LEMMA PutEntry ==
    ASSUME NEW L \in Seq(Entry), NEW i \in DOMAIN L, NEW e \in Entry, e.id = L[i].id,
           NEW M, M = [L EXCEPT ![i] = e]
    PROVE  /\ M \in Seq(Entry) /\ DOMAIN M = DOMAIN L
           /\ M[i] = e /\ \A j \in DOMAIN L : j # i => M[j] = L[j]
           /\ \A j \in DOMAIN L : M[j].id = L[j].id
           /\ Ids(M) = Ids(L)
           /\ OneEntryEach(L) => OneEntryEach(M)
<1>1. /\ M \in Seq(Entry) /\ Len(M) = Len(L)
      /\ \A j \in 1 .. Len(L) : M[j] = IF j = i THEN e ELSE L[j]
  BY ExceptSeq, TableShape
<1>2. DOMAIN M = DOMAIN L
  OBVIOUS
<1>3. M[i] = e /\ \A j \in DOMAIN L : j # i => M[j] = L[j]
  BY <1>1, TableShape
<1>4. \A j \in DOMAIN L : M[j].id = L[j].id
  BY <1>3
<1>5. Ids(M) = Ids(L)
  BY <1>2, <1>4 DEF Ids
<1>6. OneEntryEach(L) => OneEntryEach(M)
  BY <1>2, <1>4 DEF OneEntryEach
<1>7. QED
  BY <1>1, <1>2, <1>3, <1>4, <1>5, <1>6

LEMMA AppendEntry ==
    ASSUME NEW L \in Seq(Entry), NEW e \in Entry, NEW M, M = Append(L, e)
    PROVE  /\ M \in Seq(Entry) /\ DOMAIN M = DOMAIN L \cup {Len(L) + 1}
           /\ Len(L) + 1 \notin DOMAIN L
           /\ M[Len(L) + 1] = e /\ \A j \in DOMAIN L : M[j] = L[j]
           /\ Ids(M) = Ids(L) \cup {e.id}
           /\ OneEntryEach(L) /\ e.id \notin Ids(L) => OneEntryEach(M)
<1>1. /\ M \in Seq(Entry) /\ Len(M) = Len(L) + 1 /\ M[Len(L) + 1] = e
      /\ \A j \in 1 .. Len(L) : M[j] = L[j]
  OBVIOUS
<1>2. Len(L) \in Nat /\ DOMAIN L = 1 .. Len(L) /\ DOMAIN M = 1 .. Len(M)
  BY <1>1, TableShape
<1>3. DOMAIN M = DOMAIN L \cup {Len(L) + 1} /\ Len(L) + 1 \notin DOMAIN L
  BY <1>1, <1>2
<1>4. M[Len(L) + 1] = e /\ \A j \in DOMAIN L : M[j] = L[j]
  BY <1>1, <1>2
<1>5. Ids(M) = Ids(L) \cup {e.id}
  BY <1>3, <1>4 DEF Ids
<1>6. OneEntryEach(L) /\ e.id \notin Ids(L) => OneEntryEach(M)
  BY <1>3, <1>4 DEF Ids, OneEntryEach
<1>7. QED
  BY <1>1, <1>3, <1>4, <1>5, <1>6

(* What stands where after an entry was taken out.                         *)
Source(i, k) == IF k < i THEN k ELSE k + 1

LEMMA DropEntry ==
    ASSUME NEW L \in Seq(Entry), NEW i \in DOMAIN L, NEW M, M = Without(L, i)
    PROVE  /\ M \in Seq(Entry)
           /\ \A k \in DOMAIN M : Source(i, k) \in DOMAIN L \ {i} /\ M[k] = L[Source(i, k)]
           /\ \A j \in DOMAIN L \ {i} : \E k \in DOMAIN M : M[k] = L[j]
           /\ Ids(M) \subseteq Ids(L)
           /\ OneEntryEach(L) => OneEntryEach(M)
<1>1. Len(L) \in Nat /\ DOMAIN L = 1 .. Len(L) /\ \A j \in 1 .. Len(L) : L[j] \in Entry
  BY TableShape
<1> DEFINE A == SubSeq(L, 1, i - 1)
           B == SubSeq(L, i + 1, Len(L))
<1>2. i \in Int /\ 1 <= i /\ i <= Len(L)
  BY <1>1
<1>3. /\ A \in Seq(Entry) /\ Len(A) = i - 1
      /\ \A k \in 1 .. i - 1 : A[k] = L[k]
  <2>1. \A k \in 1 .. i - 1 : L[k] \in Entry
    BY <1>1, <1>2
  <2>2. /\ A \in Seq(Entry) /\ Len(A) = IF 1 <= i - 1 THEN i - 1 - 1 + 1 ELSE 0
        /\ \A k \in 1 .. (i - 1) - 1 + 1 : A[k] = L[1 + k - 1]
    BY <1>2, <2>1, SubSeqProperties
  <2> HIDE DEF A
  <2>3. QED
    BY <1>2, <2>2
<1>4. /\ B \in Seq(Entry) /\ Len(B) = Len(L) - i
      /\ \A k \in 1 .. Len(L) - i : B[k] = L[i + k]
  <2>1. \A k \in i + 1 .. Len(L) : L[k] \in Entry
    BY <1>1, <1>2
  <2>2. /\ B \in Seq(Entry) /\ Len(B) = IF i + 1 <= Len(L) THEN Len(L) - (i + 1) + 1 ELSE 0
        /\ \A k \in 1 .. Len(L) - (i + 1) + 1 : B[k] = L[i + 1 + k - 1]
    BY <1>1, <1>2, <2>1, SubSeqProperties
  <2> HIDE DEF B
  <2>3. Len(L) - (i + 1) + 1 = Len(L) - i
    BY <1>1, <1>2
  <2>4. ASSUME NEW k \in 1 .. Len(L) - i PROVE B[k] = L[i + k]
    <3>1. i + 1 + k - 1 = i + k
      BY <1>1, <1>2
    <3>2. B[k] = L[i + 1 + k - 1]
      BY <2>2, <2>3
    <3>3. QED
      BY <3>1, <3>2
  <2>5. Len(B) = Len(L) - i
    BY <1>1, <1>2, <2>2
  <2>6. QED
    BY <2>2, <2>4, <2>5
<1>5. M = A \o B
  BY DEF Without
<1> HIDE DEF A, B
<1>6. /\ M \in Seq(Entry) /\ Len(M) = Len(A) + Len(B)
      /\ \A k \in 1 .. Len(A) + Len(B) : M[k] = IF k <= Len(A) THEN A[k] ELSE B[k - Len(A)]
  <2>1. A \in Seq(Entry) /\ B \in Seq(Entry)
    BY <1>3, <1>4
  <2>2. QED
    BY <2>1, <1>5, ConcatProperties
<1>7. Len(M) = Len(L) - 1 /\ DOMAIN M = 1 .. Len(L) - 1
  BY <1>1, <1>2, <1>3, <1>4, <1>6, TableShape
<1>8. ASSUME NEW k \in DOMAIN M
      PROVE  Source(i, k) \in DOMAIN L \ {i} /\ M[k] = L[Source(i, k)]
  <2>1. k \in Int /\ 1 <= k /\ k <= Len(L) - 1
    BY <1>1, <1>7
  <2>2. CASE k < i
    <3>1. M[k] = A[k] /\ A[k] = L[k]
      BY <1>1, <1>2, <1>3, <1>4, <1>6, <2>1, <2>2
    <3>2. QED
      BY <1>1, <1>2, <2>1, <2>2, <3>1 DEF Source
  <2>3. CASE ~(k < i)
    <3>1. M[k] = B[k - (i - 1)]
      BY <1>1, <1>2, <1>3, <1>4, <1>6, <2>1, <2>3
    <3>2. k - (i - 1) \in 1 .. Len(L) - i /\ i + (k - (i - 1)) = k + 1
      BY <1>1, <1>2, <2>1, <2>3
    <3>3. B[k - (i - 1)] = L[k + 1]
      BY <1>4, <3>2
    <3>4. QED
      BY <1>1, <1>2, <2>1, <2>3, <3>1, <3>3 DEF Source
  <2>4. QED
    BY <2>2, <2>3
<1>9. ASSUME NEW j \in DOMAIN L \ {i}
      PROVE  \E k \in DOMAIN M : M[k] = L[j]
  <2> DEFINE k == IF j < i THEN j ELSE j - 1
  <2>1. k \in DOMAIN M /\ Source(i, k) = j
    BY <1>1, <1>2, <1>7 DEF Source
  <2>2. QED
    BY <1>8, <2>1
<1>10. Ids(M) \subseteq Ids(L)
  BY <1>8 DEF Ids
<1>11. OneEntryEach(L) => OneEntryEach(M)
  <2> SUFFICES ASSUME OneEntryEach(L), NEW j \in DOMAIN M, NEW k \in DOMAIN M, M[j].id = M[k].id
               PROVE  j = k
    BY DEF OneEntryEach
  <2>1. Source(i, j) = Source(i, k)
    BY <1>8 DEF OneEntryEach
  <2>2. j \in Int /\ k \in Int
    BY <1>1, <1>7
  <2>3. QED
    BY <1>2, <2>1, <2>2 DEF Source
<1>12. QED
  BY <1>6, <1>8, <1>9, <1>10, <1>11

(* What Load makes of a table.                                             *)
LEMMA LoadedType ==
    ASSUME NEW e \in Entry, now \in Nat
    PROVE  Loaded(e) \in Entry /\ Loaded(e).id = e.id /\ Loaded(e).expr = e.expr /\ Loaded(e).ran = e.ran
<1>1. NextRun(e.expr) \in Nat \cup {None}
  BY EntryFields, NextRunType
<1>2. QED
  BY <1>1, EntryFields DEF Loaded, Entry

LEMMA LoadTable ==
    ASSUME NEW L \in Seq(Entry), now \in Nat, NEW M, M = [i \in DOMAIN L |-> Loaded(L[i])]
    PROVE  /\ M \in Seq(Entry) /\ DOMAIN M = DOMAIN L
           /\ \A i \in DOMAIN L : M[i] = Loaded(L[i]) /\ M[i].id = L[i].id
           /\ Ids(M) = Ids(L)
           /\ OneEntryEach(L) => OneEntryEach(M)
<1>1. Len(L) \in Nat /\ DOMAIN L = 1 .. Len(L) /\ \A i \in DOMAIN L : L[i] \in Entry
  BY TableShape
<1>2. DOMAIN M = DOMAIN L /\ \A i \in DOMAIN L : M[i] = Loaded(L[i])
  OBVIOUS
<1>3. \A i \in DOMAIN L : M[i] \in Entry /\ M[i].id = L[i].id
  BY <1>1, <1>2, LoadedType
<1>4. M \in [1 .. Len(L) -> Entry]
  BY <1>1, <1>3
<1>5. M \in Seq(Entry)
  BY <1>1, <1>4, SeqDef
<1>6. Ids(M) = Ids(L)
  BY <1>2, <1>3 DEF Ids
<1>7. OneEntryEach(L) => OneEntryEach(M)
  BY <1>2, <1>3 DEF OneEntryEach
<1>8. QED
  BY <1>2, <1>3, <1>5, <1>6, <1>7
-----------------------------------------------------------------------------
(* The invariant.                                                          *)

Sound(list) == list \in Seq(Entry) /\ OneEntryEach(list) /\ Ids(list) \subseteq made

(* Which part of the program may hold what.                                *)
Phases ==
    /\ ~Up => \A w \in Worker : worker[w] = IdleWork
    /\ app = "down" => missed = {}
    /\ app # "drained" => telling = {}
    /\ app = "loaded" => missed \subseteq Ids(tasks)
    /\ \A w \in Worker : worker[w].pc \in {"pick", "run"} => worker[w].due # {}

TableInv == SchedulerTypeOK /\ Sound(tasks) /\ Sound(disk) /\ Phases

Budgets == [calls : 0 .. MaxCalls, ends : 0 .. MaxFaults, fails : 0 .. MaxFaults]

LEMMA NothingIsSound == Sound(<<>>) /\ Ids(<<>>) = {}
<1>1. <<>> \in Seq(Entry) /\ DOMAIN <<>> = {}
  OBVIOUS
<1>2. QED
  BY <1>1 DEF Sound, OneEntryEach, Ids

LEMMA Least ==
    ASSUME NEW T, T \subseteq Nat, T # {}
    PROVE  \E x \in T : \A y \in T : x <= y
<1> DEFINE R == OpToRel(<, Nat)
<1>1. \A x, y \in Nat : x < y => <<x, y>> \in R
  BY DEF OpToRel
<1>2. IsWellFoundedOn(R, Nat)
  BY NatLessThanWellFounded
<1> HIDE DEF R
<1>3. \E x \in T : \A y \in T : ~(<<y, x>> \in R)
  BY <1>2, WFMin
<1>4. PICK x \in T : \A y \in T : ~(<<y, x>> \in R)
  BY <1>3
<1>5. ASSUME NEW y \in T PROVE x <= y
  <2>1. x \in Nat /\ y \in Nat
    OBVIOUS
  <2>2. ~(y < x)
    BY <1>1, <1>4, <2>1, Zenon
  <2>3. QED
    BY <2>1, <2>2
<1>6. QED
  BY <1>5

LEMMA EarliestIsIn ==
    ASSUME NEW T, T \subseteq Nat, T # {}
    PROVE  Earliest(T) \in T
<1>1. PICK x \in T : \A y \in T : x <= y
  BY Least
<1>2. QED
  BY <1>1 DEF Earliest

LEMMA NearestType ==
    ASSUME NEW L \in Seq(Entry)
    PROVE  Nearest(L) \in Nat \cup {None}
<1> DEFINE T == {L[i].next : i \in {j \in DOMAIN L : L[j].enabled /\ L[j].next # None}}
<1>1. T \subseteq Nat
  BY TableShape, EntryFields
<1>2. Nearest(L) = IF T = {} THEN None ELSE Earliest(T)
  BY DEF Nearest
<1> HIDE DEF T
<1>3. QED
  BY <1>1, <1>2, EarliestIsIn

LEMMA SaveOutcome ==
    ASSUME TableInv, NEW sp \in Budgets, Save(sp)
    PROVE  /\ spent' \in Budgets
           /\ spent'.calls = sp.calls /\ spent'.ends = sp.ends
           /\ \/ disk' = tasks' /\ spent' = sp
              \/ disk' = disk /\ spent'.fails = sp.fails + 1
<1>1. CASE disk' = tasks' /\ spent' = sp
  BY <1>1
<1>2. CASE sp.ends + sp.fails < MaxFaults /\ disk' = disk /\ spent' = [sp EXCEPT !.fails = @ + 1]
  <2>1. sp.fails + 1 \in 0 .. MaxFaults
    BY <1>2, SchedulerAssumption DEF Budgets
  <2>2. QED
    BY <1>2, <2>1 DEF Budgets
<1>3. QED
  BY <1>1, <1>2 DEF Save

LEMMA CallsType ==
    ASSUME TableInv, spent.calls < MaxCalls
    PROVE  Calls \in Budgets /\ Calls.calls = spent.calls + 1 /\ Calls.ends = spent.ends /\ Calls.fails = spent.fails
<1>1. spent \in Budgets
  BY DEF TableInv, SchedulerTypeOK, Budgets
<1>2. spent.calls + 1 \in 0 .. MaxCalls
  BY <1>1, SchedulerAssumption DEF Budgets
<1>3. QED
  BY <1>1, <1>2 DEF Budgets, Calls

LEMMA Found ==
    ASSUME NEW id, Has(id)
    PROVE  IndexOf(id) \in DOMAIN tasks /\ tasks[IndexOf(id)].id = id
<1>1. \E i \in DOMAIN tasks : tasks[i].id = id
  BY DEF Has, Entries
<1>2. QED
  BY <1>1 DEF IndexOf

LEMMA HasIds == ASSUME NEW id PROVE Has(id) <=> id \in Ids(tasks)
BY DEF Has, Entries, Ids

(* A worker that becomes another one.                                      *)
LEMMA WorkerType ==
    ASSUME TableInv, NEW w \in Worker, NEW x \in Work, worker' = [worker EXCEPT ![w] = x]
    PROVE  /\ worker' \in [Worker -> Work]
           /\ worker'[w] = x /\ \A v \in Worker : v # w => worker'[v] = worker[v]
BY DEF TableInv, SchedulerTypeOK

LEMMA IdleIsWork == IdleWork \in Work
BY DEF IdleWork, Work

LEMMA OnwardType ==
    ASSUME TableInv, NEW w \in Worker, NEW due, due \subseteq Nat
    PROVE  /\ Onward(w, due) \in Work
           /\ Onward(w, due).pc = (IF due = {} THEN "rearm" ELSE "pick")
           /\ Onward(w, due).due = due /\ Onward(w, due).at = worker[w].at
           /\ Onward(w, due).calm = worker[w].calm
BY ZenonT(60) DEF TableInv, SchedulerTypeOK, Onward, Work

-----------------------------------------------------------------------------
(* The table, its file and the goroutines keep their shape.                *)

LEMMA TableInvInit == SchedulerInit => TableInv
<1> SUFFICES ASSUME SchedulerInit PROVE TableInv
  OBVIOUS
<1> USE DEF SchedulerInit
<1>1. Sound(tasks) /\ Sound(disk)
  BY NothingIsSound
<1>2. worker \in [Worker -> Work]
  BY IdleIsWork
<1>3. SchedulerTypeOK
  <2>1. tasks \in Seq(Entry) /\ disk \in Seq(Entry) /\ \A i, j \in DOMAIN tasks : tasks[i].id = tasks[j].id => i = j
    BY <1>1 DEF Sound, OneEntryEach
  <2>2. spent \in [calls : 0 .. MaxCalls, ends : 0 .. MaxFaults, fails : 0 .. MaxFaults] /\ now \in 0 .. MaxTime
    BY SchedulerAssumption
  <2>3. told \in [Task -> Nat] /\ made \subseteq Task /\ owed \subseteq made
    OBVIOUS
  <2>4. QED
    BY <1>2, <2>1, <2>2, <2>3 DEF SchedulerTypeOK
<1>4. Phases
  BY DEF Phases, Up, IdleWork
<1>5. QED
  BY <1>1, <1>3, <1>4 DEF TableInv

LEMMA SoundPut ==
    ASSUME TableInv, NEW i \in DOMAIN tasks, NEW e \in Entry, e.id = tasks[i].id,
           tasks' = [tasks EXCEPT ![i] = e], made' = made
    PROVE  Sound(tasks)' /\ Ids(tasks') = Ids(tasks)
<1>1. tasks' \in Seq(Entry) /\ Ids(tasks') = Ids(tasks) /\ OneEntryEach(tasks')
  <2>1. tasks \in Seq(Entry) /\ OneEntryEach(tasks)
    BY DEF TableInv, Sound
  <2>2. QED
    BY <2>1, PutEntry, ZenonT(60) DEF Ids
<1>2. QED
  BY <1>1 DEF TableInv, Sound

LEMMA SoundFile ==
    ASSUME TableInv, Sound(tasks)', made \subseteq made', disk' = tasks' \/ disk' = disk
    PROVE  Sound(disk)'
BY DEF TableInv, Sound

(* A step of one goroutine.                                                *)
LEMMA PhasesOfWorker ==
    ASSUME TableInv, UNCHANGED boot, NEW w \in Worker, NEW x \in Work, worker' = [worker EXCEPT ![w] = x],
           Up \/ worker[w] # IdleWork, Ids(tasks') = Ids(tasks), x.pc \in {"pick", "run"} => x.due # {}
    PROVE  Phases'
<1>1. worker'[w] = x /\ \A v \in Worker : v # w => worker'[v] = worker[v]
  BY WorkerType
<1>2. Up
  BY DEF TableInv, Phases
<1>3. QED
  BY <1>1, <1>2 DEF TableInv, Phases, boot, Up

LEMMA TableInvExpire == ASSUME TableInv, NEW w \in Worker, Expire(w) PROVE TableInv'
<1> DEFINE x == [IdleWork EXCEPT !.pc = "collect", !.at = now, !.calm = \A c \in Callbacks : worker[c].calm]
<1>1. x \in Work /\ x.pc = "collect"
  <2>1. now \in Nat
    BY SchedulerAssumption DEF TableInv, SchedulerTypeOK
  <2>2. \A c \in BOOLEAN : [IdleWork EXCEPT !.pc = "collect", !.at = now, !.calm = c] \in Work
    BY <2>1 DEF IdleWork, Work
  <2>3. (\A c \in Callbacks : worker[c].calm) \in BOOLEAN
    OBVIOUS
  <2>4. QED
    BY <2>2, <2>3 DEF IdleWork
<1>2. worker' = [worker EXCEPT ![w] = x] /\ Up /\ timer' = None
      /\ UNCHANGED <<now, boot, table, past, unarmed>>
  BY DEF Expire
<1> HIDE DEF x
<1>3. worker' \in [Worker -> Work]
  BY <1>1, <1>2, WorkerType
<1>4. Phases'
  BY <1>1, <1>2, PhasesOfWorker DEF table
<1>5. QED
  BY <1>2, <1>3, <1>4 DEF TableInv, SchedulerTypeOK, Sound, boot, table, past

LEMMA TableInvCollect == ASSUME TableInv, NEW w \in Worker, Collect(w) PROVE TableInv'
<1> DEFINE d == {i \in DOMAIN tasks : Due(tasks[i], worker[w].at)}
           x == Onward(w, d)
<1>1. d \subseteq Nat
  BY TableShape DEF TableInv, Sound
<1>2. worker' = [worker EXCEPT ![w] = x] /\ worker[w].pc = "collect"
      /\ UNCHANGED <<now, boot, table, alarm, past>>
  BY DEF Collect, Is
<1> HIDE DEF d
<1>3. x \in Work /\ (x.pc \in {"pick", "run"} => x.due # {})
  BY <1>1, OnwardType
<1> HIDE DEF x
<1>4. worker' \in [Worker -> Work]
  BY <1>2, <1>3, WorkerType
<1>5. worker[w] # IdleWork
  BY <1>2 DEF IdleWork
<1>6. Phases'
  BY <1>2, <1>3, <1>5, PhasesOfWorker DEF table
<1>7. QED
  BY <1>2, <1>4, <1>6 DEF TableInv, SchedulerTypeOK, Sound, boot, table, past, alarm

LEMMA EndsShape ==
    ASSUME TableInv, Ends, UNCHANGED <<now, disk, made, told>>, spent' \in Budgets
    PROVE  TableInv'
<1>1. Sound(tasks)' /\ Sound(disk)'
  BY NothingIsSound DEF Ends, Sound, TableInv
<1>2. worker' \in [Worker -> Work] /\ \A w \in Worker : worker'[w] = IdleWork
  BY IdleIsWork DEF Ends
<1>3. SchedulerTypeOK'
  BY <1>1, <1>2 DEF TableInv, SchedulerTypeOK, Sound, OneEntryEach, Ends, Budgets
<1>4. Phases'
  BY <1>2 DEF Phases, Up, Ends, IdleWork
<1>5. QED
  BY <1>1, <1>3, <1>4 DEF TableInv

LEMMA TableInvPick == ASSUME TableInv, NEW w \in Worker, Pick(w) PROVE TableInv'
<1> DEFINE i == NextIndex(w)
           x == [worker[w] EXCEPT !.pc = "run", !.cur = tasks[i].id]
<1>1. worker[w].pc = "pick" /\ worker[w] \in Work /\ spent \in Budgets
      /\ UNCHANGED <<now, disk, spent, made, told>>
  BY DEF Pick, Is, TableInv, SchedulerTypeOK, Budgets
<1>2. CASE i \in DOMAIN tasks
  <2>1. worker' = [worker EXCEPT ![w] = x] /\ UNCHANGED <<boot, tasks, alarm, owed>>
    <3>1. worker' = [worker EXCEPT ![w].pc = "run", ![w].cur = tasks[i].id]
      BY <1>2 DEF Pick
    <3>2. worker' = [worker EXCEPT ![w] = x]
      BY <3>1 DEF TableInv, SchedulerTypeOK
    <3>3. QED
      BY <1>2, <3>2 DEF Pick
  <2>2. tasks[i].id \in Task
    BY <1>2, TableShape, EntryFields DEF TableInv, Sound
  <2> HIDE DEF i
  <2>3. x \in Work /\ x.due = worker[w].due
    BY <1>1, <2>2 DEF Work
  <2>4. worker[w].due # {} /\ worker[w] # IdleWork
    BY <1>1 DEF TableInv, Phases, IdleWork
  <2> HIDE DEF x
  <2>5. worker' \in [Worker -> Work]
    BY <2>1, <2>3, WorkerType
  <2>6. Phases'
    BY <2>1, <2>3, <2>4, PhasesOfWorker
  <2>7. QED
    BY <1>1, <2>1, <2>5, <2>6 DEF TableInv, SchedulerTypeOK, Sound, boot, alarm
<1>3. CASE i \notin DOMAIN tasks
  <2>1. Ends
    BY <1>3 DEF Pick
  <2>2. QED
    BY <1>1, <2>1, EndsShape
<1>4. QED
  BY <1>2, <1>3

LEMMA AfterRunType ==
    ASSUME NEW e \in Entry, now \in Nat
    PROVE  AfterRun(e) \in Entry /\ AfterRun(e).id = e.id
<1>1. NextRun(e.expr) \in Nat \cup {None}
  BY EntryFields, NextRunType
<1>2. QED
  BY <1>1, EntryFields DEF AfterRun, Entry

LEMMA TableInvFinish == ASSUME TableInv, NEW w \in Worker, Finish(w) PROVE TableInv'
<1> DEFINE i == NextIndex(w)
           x == Onward(w, worker[w].due \ {i})
           found == IF i \in DOMAIN tasks THEN tasks[i].id = worker[w].cur ELSE FALSE
<1>1. worker[w].pc = "run" /\ worker[w] \in Work /\ spent \in Budgets
      /\ owed' = owed \ {worker[w].cur} /\ UNCHANGED <<now, boot, alarm, made, told>>
  BY DEF Finish, Is, TableInv, SchedulerTypeOK, Budgets
<1>2. worker' = [worker EXCEPT ![w] = x]
  BY DEF Finish, TableInv, SchedulerTypeOK
<1>3. worker[w].due \ {i} \subseteq Nat
  BY <1>1 DEF Work
<1>4. Sound(tasks)' /\ Ids(tasks') = Ids(tasks) /\ Sound(disk)' /\ spent' \in Budgets
  <2>1. CASE found
    <3>1. i \in DOMAIN tasks /\ tasks' = [tasks EXCEPT ![i] = AfterRun(tasks[i])] /\ Save(spent)
      BY <2>1 DEF Finish
    <3>2. AfterRun(tasks[i]) \in Entry /\ AfterRun(tasks[i]).id = tasks[i].id
      BY <3>1, AfterRunType, TableShape DEF TableInv, Sound, SchedulerTypeOK
    <3> HIDE DEF i
    <3>3. Sound(tasks)' /\ Ids(tasks') = Ids(tasks)
      BY <1>1, <3>1, <3>2, SoundPut
    <3>4. spent' \in Budgets /\ (disk' = tasks' \/ disk' = disk)
      BY <1>1, <3>1, SaveOutcome
    <3>5. QED
      BY <1>1, <3>3, <3>4, SoundFile
  <2>2. CASE ~found
    <3>1. UNCHANGED table
      BY <2>2 DEF Finish
    <3>2. QED
      BY <1>1, <3>1 DEF table, TableInv, Sound
  <2>3. QED
    BY <2>1, <2>2
<1> HIDE DEF i
<1>5. x \in Work /\ (x.pc \in {"pick", "run"} => x.due # {})
  BY <1>3, OnwardType
<1>6. worker[w] # IdleWork
  BY <1>1 DEF IdleWork
<1> HIDE DEF x, found
<1>7. worker' \in [Worker -> Work]
  BY <1>2, <1>5, WorkerType
<1>8. Phases'
  BY <1>1, <1>2, <1>4, <1>5, <1>6, PhasesOfWorker
<1>9. SchedulerTypeOK'
  BY <1>1, <1>4, <1>7 DEF TableInv, SchedulerTypeOK, Sound, boot, alarm, Budgets, OneEntryEach
<1>10. QED
  BY <1>4, <1>8, <1>9 DEF TableInv

LEMMA ArmType ==
    ASSUME Arm, Sound(tasks)'
    PROVE  timer' \in Nat \cup {None} /\ unarmed' = FALSE
BY NearestType DEF Arm, Sound

LEMMA TableInvRearm == ASSUME TableInv, NEW w \in Worker, Rearm(w) PROVE TableInv'
<1>1. worker[w].pc = "rearm" /\ worker' = [worker EXCEPT ![w] = IdleWork] /\ Arm
      /\ UNCHANGED <<now, boot, tasks, disk, spent, past>>
  BY DEF Rearm, Is
<1>2. Sound(tasks)' /\ Sound(disk)'
  BY <1>1 DEF TableInv, Sound, past
<1>3. timer' \in Nat \cup {None} /\ unarmed' = FALSE
  BY <1>1, <1>2, ArmType
<1>4. worker' \in [Worker -> Work]
  BY <1>1, IdleIsWork, WorkerType
<1>5. worker[w] # IdleWork /\ IdleWork.pc = "idle"
  BY <1>1 DEF IdleWork
<1>6. Phases'
  BY <1>1, <1>5, IdleIsWork, PhasesOfWorker
<1>7. QED
  BY <1>1, <1>2, <1>3, <1>4, <1>6 DEF TableInv, SchedulerTypeOK, boot, past

LEMMA TableInvRunNow == ASSUME TableInv, NEW w \in Worker, NEW id \in Task, RunNow(w, id) PROVE TableInv'
<1> DEFINE x == [IdleWork EXCEPT !.pc = "manual", !.cur = id]
<1>1. x \in Work /\ x.pc = "manual"
  BY DEF IdleWork, Work
<1>2. worker' = [worker EXCEPT ![w] = x] /\ Up /\ spent.calls < MaxCalls /\ spent' = Calls
      /\ UNCHANGED <<now, boot, tasks, disk, alarm, past>>
  BY DEF RunNow
<1> HIDE DEF x
<1>3. spent' \in Budgets
  BY <1>2, CallsType
<1>4. worker' \in [Worker -> Work]
  BY <1>1, <1>2, WorkerType
<1>5. Phases'
  BY <1>1, <1>2, PhasesOfWorker
<1>6. QED
  BY <1>2, <1>3, <1>4, <1>5 DEF TableInv, SchedulerTypeOK, Sound, boot, past, alarm, Budgets

LEMMA TableInvFinishNow == ASSUME TableInv, NEW w \in Worker, FinishNow(w) PROVE TableInv'
<1> DEFINE id == worker[w].cur
           i == IndexOf(id)
           e == [tasks[i] EXCEPT !.ran = TRUE]
<1>1. worker[w].pc = "manual" /\ spent \in Budgets /\ worker' = [worker EXCEPT ![w] = IdleWork]
      /\ UNCHANGED <<now, boot, alarm, made, told>>
  BY DEF FinishNow, Is, TableInv, SchedulerTypeOK, Budgets
<1>2. Sound(tasks)' /\ Ids(tasks') = Ids(tasks) /\ Sound(disk)' /\ spent' \in Budgets /\ owed' \subseteq owed
  <2>1. CASE Has(id)
    <3>1. i \in DOMAIN tasks
      BY <2>1, Found
    <3>2. tasks' = [tasks EXCEPT ![i].ran = TRUE] /\ Save(spent) /\ owed' = owed \ {id}
      BY <2>1 DEF FinishNow
    <3> HIDE DEF i
    <3>3. tasks[i] \in Entry
      BY <3>1, TableShape DEF TableInv, Sound
    <3>4. e \in Entry /\ e.id = tasks[i].id
      BY <3>3 DEF Entry
    <3>5. tasks' = [tasks EXCEPT ![i] = e]
      BY <3>1, <3>2 DEF TableInv, Sound
    <3> HIDE DEF e
    <3>6. Sound(tasks)' /\ Ids(tasks') = Ids(tasks)
      BY <1>1, <3>1, <3>4, <3>5, SoundPut
    <3>7. spent' \in Budgets /\ (disk' = tasks' \/ disk' = disk)
      BY <1>1, <3>2, SaveOutcome
    <3>8. QED
      BY <1>1, <3>2, <3>6, <3>7, SoundFile
  <2>2. CASE ~Has(id)
    <3>1. UNCHANGED <<table, owed>>
      BY <2>2 DEF FinishNow
    <3>2. QED
      BY <1>1, <3>1 DEF table, TableInv, Sound
  <2>3. QED
    BY <2>1, <2>2
<1> HIDE DEF id, i, e
<1>3. worker' \in [Worker -> Work]
  BY <1>1, IdleIsWork, WorkerType
<1>4. worker[w] # IdleWork /\ IdleWork.pc = "idle"
  BY <1>1 DEF IdleWork
<1>5. Phases'
  BY <1>1, <1>2, <1>4, IdleIsWork, PhasesOfWorker
<1>6. SchedulerTypeOK'
  BY <1>1, <1>2, <1>3 DEF TableInv, SchedulerTypeOK, Sound, boot, alarm, Budgets, OneEntryEach
<1>7. QED
  BY <1>2, <1>5, <1>6 DEF TableInv

(* Calls of the user.                                                      *)
LEMMA CallShape ==
    ASSUME TableInv, Call
    PROVE  /\ worker' \in [Worker -> Work] /\ Up /\ spent.calls < MaxCalls
           /\ \A w \in Worker :
                 /\ worker'[w].pc = worker[w].pc /\ worker'[w].due = worker[w].due
                 /\ worker'[w].at = worker[w].at /\ worker'[w].cur = worker[w].cur
                 /\ w \notin Callbacks => worker'[w] = worker[w]
                 /\ w \in Callbacks => worker'[w].calm = FALSE
<1>1. worker \in [Worker -> Work] /\ Up /\ spent.calls < MaxCalls
      /\ worker' = [w \in Worker |-> IF w \in Callbacks THEN [worker[w] EXCEPT !.calm = FALSE] ELSE worker[w]]
  BY DEF Call, TableInv, SchedulerTypeOK
<1>2. ASSUME NEW w \in Worker
      PROVE  /\ worker'[w] \in Work
             /\ worker'[w].pc = worker[w].pc /\ worker'[w].due = worker[w].due
             /\ worker'[w].at = worker[w].at /\ worker'[w].cur = worker[w].cur
             /\ w \notin Callbacks => worker'[w] = worker[w]
             /\ w \in Callbacks => worker'[w].calm = FALSE
  <2>1. worker[w] \in Work
    BY <1>1
  <2>2. worker'[w] = IF w \in Callbacks THEN [worker[w] EXCEPT !.calm = FALSE] ELSE worker[w]
    BY <1>1
  <2>3. QED
    BY <2>1, <2>2, ZenonT(60) DEF Work
<1>3. worker' \in [Worker -> Work]
  BY <1>1, <1>2
<1>4. QED
  BY <1>1, <1>2, <1>3

LEMMA PhasesOfCall ==
    ASSUME TableInv, Call, UNCHANGED boot
    PROVE  Phases'
<1>1. Up /\ app' = app /\ missed' = missed /\ telling' = telling
  BY CallShape DEF boot
<1>2. QED
  BY <1>1, CallShape DEF TableInv, Phases, Up

LEMMA CallTyped ==
    ASSUME TableInv, Call, UNCHANGED <<now, boot, told>>, Sound(tasks)', spent' \in Budgets,
           disk' = tasks' \/ disk' = disk, made \subseteq made', made' \subseteq Task, owed' \subseteq made',
           timer' \in Nat \cup {None}, unarmed' \in BOOLEAN
    PROVE  TableInv'
<1>1. Phases' /\ worker' \in [Worker -> Work]
  BY PhasesOfCall, CallShape
<1>2. Sound(disk)'
  BY SoundFile
<1>3. SchedulerTypeOK'
  BY <1>1, <1>2 DEF TableInv, SchedulerTypeOK, Sound, OneEntryEach, Budgets, boot
<1>4. QED
  BY <1>1, <1>2, <1>3 DEF TableInv

LEMMA TableInvCreate == ASSUME TableInv, NEW id \in Task, NEW e \in Expr, Create(id, e) PROVE TableInv'
<1> DEFINE x == [id |-> id, expr |-> e, enabled |-> TRUE, next |-> NextRun(e), ran |-> FALSE]
<1>1. /\ Call /\ id \notin made /\ tasks' = Append(tasks, x) /\ Save(Calls) /\ Arm
      /\ made' = made \cup {id} /\ owed' \subseteq owed \cup {id} /\ UNCHANGED <<now, boot, told>>
  BY DEF Create
<1>2. x \in Entry /\ x.id = id
  BY NextRunType, SchedulerAssumption DEF Entry, TableInv, SchedulerTypeOK
<1> HIDE DEF x
<1>3. Sound(tasks)'
  <2>1. tasks \in Seq(Entry) /\ OneEntryEach(tasks) /\ x.id \notin Ids(tasks) /\ Ids(tasks) \subseteq made
    BY <1>1, <1>2 DEF TableInv, Sound
  <2>2. tasks' \in Seq(Entry) /\ OneEntryEach(tasks') /\ Ids(tasks') = Ids(tasks) \cup {id}
    BY <1>1, <1>2, <2>1, AppendEntry, ZenonT(60)
  <2>3. QED
    BY <1>1, <2>1, <2>2 DEF Sound
<1>4. spent' \in Budgets /\ (disk' = tasks' \/ disk' = disk)
  BY <1>1, CallShape, CallsType, SaveOutcome
<1>5. timer' \in Nat \cup {None} /\ unarmed' = FALSE
  BY <1>1, <1>3, ArmType
<1>6. made \subseteq made' /\ made' \subseteq Task /\ owed' \subseteq made'
  BY <1>1 DEF TableInv, SchedulerTypeOK
<1>7. QED
  BY <1>1, <1>3, <1>4, <1>5, <1>6, CallTyped

LEMMA TableInvDelete == ASSUME TableInv, NEW id \in Task, Delete(id) PROVE TableInv'
<1> DEFINE i == IndexOf(id)
<1>1. /\ Call /\ i \in DOMAIN tasks /\ tasks' = Without(tasks, i) /\ Save(Calls) /\ Arm
      /\ owed' = owed \ {id} /\ UNCHANGED <<now, boot, made, told>>
  BY Found DEF Delete
<1> HIDE DEF i
<1>2. Sound(tasks)'
  <2>1. tasks \in Seq(Entry) /\ OneEntryEach(tasks) /\ Ids(tasks) \subseteq made
    BY DEF TableInv, Sound
  <2>2. tasks' \in Seq(Entry) /\ OneEntryEach(tasks') /\ Ids(tasks') \subseteq Ids(tasks)
    BY <1>1, <2>1, DropEntry
  <2>3. QED
    BY <1>1, <2>1, <2>2 DEF Sound
<1>3. spent' \in Budgets /\ (disk' = tasks' \/ disk' = disk)
  BY <1>1, CallShape, CallsType, SaveOutcome
<1>4. timer' \in Nat \cup {None} /\ unarmed' = FALSE
  BY <1>1, <1>2, ArmType
<1>5. made \subseteq made' /\ made' \subseteq Task /\ owed' \subseteq made'
  BY <1>1 DEF TableInv, SchedulerTypeOK
<1>6. QED
  BY <1>1, <1>2, <1>3, <1>4, <1>5, CallTyped

(* The two outcomes of an Update of entry i, which becomes c: refused, or  *)
(* taken.                                                                  *)
UpdateRefused(i, c) ==
    /\ spent' = Calls /\ unarmed' = TRUE /\ UNCHANGED <<disk, timer, owed>>
    /\ c.enabled /\ c.expr.once /\ c.next = tasks[i].next

UpdateTaken(i, c) ==
    /\ Save(Calls) /\ Arm /\ owed' \subseteq owed \cup {c.id} /\ owed \ {c.id} \subseteq owed'
    /\ c.id \in owed' =>
          /\ c.enabled /\ c.expr.once /\ c.next # None
          /\ c.id \in owed \/ (Saved /\ ~c.ran)

LEMMA UpdateCases ==
    ASSUME TableInv, NEW id \in Task, NEW e \in Expr, \E on \in BOOLEAN : Update(id, e, on)
    PROVE  /\ Call /\ UNCHANGED <<now, boot, made, told>>
           /\ \E i \in DOMAIN tasks, c \in Entry :
                 /\ tasks[i].id = id /\ c.id = id /\ c.ran = tasks[i].ran
                 /\ tasks' = [tasks EXCEPT ![i] = c]
                 /\ UpdateRefused(i, c) \/ UpdateTaken(i, c)
<1> PICK on \in BOOLEAN : Update(id, e, on)
  OBVIOUS
<1> DEFINE i == IndexOf(id)
           changed == [tasks[i] EXCEPT !.expr = e, !.enabled = on]
           c == [changed EXCEPT !.next = IF on THEN NextRun(e) ELSE None]
           refused == on /\ NextRun(e) = None
<1>1. Call /\ Has(id) /\ UNCHANGED <<now, boot, made, told>>
  BY DEF Update
<1>2. i \in DOMAIN tasks /\ tasks[i].id = id
  BY <1>1, Found
<1>3. tasks[i] \in Entry
  BY <1>2, TableShape DEF TableInv, Sound
<1>4. NextRun(e) \in Nat \cup {None} /\ (NextRun(e) = None => e.once)
  <2>1. now \in Nat
    BY SchedulerAssumption DEF TableInv, SchedulerTypeOK
  <2>2. NextRun(e) \in Nat \cup {None}
    BY <2>1, NextRunType
  <2>3. ~e.once => NextRun(e) \in Nat
    BY <2>1, ExprFields DEF NextRun
  <2>4. None \notin Nat
    BY SchedulerAssumption
  <2>5. QED
    BY <2>2, <2>3, <2>4
<1>5. CASE refused
  <2>1. /\ tasks' = [tasks EXCEPT ![i] = changed]
        /\ spent' = Calls /\ unarmed' = TRUE /\ UNCHANGED <<disk, timer, owed>>
    BY <1>5, Zenon DEF Update
  <2> HIDE DEF i
  <2>2. /\ changed \in Entry /\ changed.id = tasks[i].id /\ changed.ran = tasks[i].ran
        /\ changed.enabled = on /\ changed.expr = e /\ changed.next = tasks[i].next
    BY <1>3 DEF Entry
  <2> HIDE DEF changed
  <2>3. changed.enabled /\ changed.expr.once
    BY <1>4, <1>5, <2>2
  <2>4. UpdateRefused(i, changed)
    BY <2>1, <2>2, <2>3 DEF UpdateRefused
  <2>5. QED
    BY <1>1, <1>2, <2>1, <2>2, <2>4
<1>6. CASE ~refused
  <2>1. /\ tasks' = [tasks EXCEPT ![i] = c] /\ Save(Calls) /\ Arm
        /\ owed' = IF ~(on /\ e.once) THEN owed \ {id}
                   ELSE IF Saved /\ ~tasks[i].ran /\ ~Running(id) THEN owed \cup {id} ELSE owed
    BY <1>6, Zenon DEF Update
  <2> HIDE DEF i
  <2>2. /\ changed \in Entry /\ changed.id = tasks[i].id /\ changed.ran = tasks[i].ran
        /\ changed.enabled = on /\ changed.expr = e
    BY <1>3 DEF Entry
  <2> HIDE DEF changed
  <2>3. /\ c \in Entry /\ c.id = id /\ c.ran = tasks[i].ran
        /\ c.enabled = on /\ c.expr = e /\ c.next = IF on THEN NextRun(e) ELSE None
    BY <1>2, <1>4, <2>2 DEF Entry
  <2> HIDE DEF c
  <2>4. CASE ~(on /\ e.once)
    <3>1. owed' = owed \ {c.id}
      BY <2>1, <2>3, <2>4
    <3>2. UpdateTaken(i, c)
      BY <2>1, <3>1 DEF UpdateTaken
    <3>3. QED
      BY <1>1, <1>2, <2>1, <2>3, <3>2
  <2>5. CASE on /\ e.once
    <3>1. c.enabled /\ c.expr.once /\ c.next # None
      BY <1>6, <2>3, <2>5
    <3>2. \/ Saved /\ ~c.ran /\ owed' = owed \cup {c.id}
          \/ owed' = owed
      BY <2>1, <2>3, <2>5
    <3>3. /\ owed' \subseteq owed \cup {c.id} /\ owed \ {c.id} \subseteq owed'
          /\ c.id \in owed' => c.id \in owed \/ (Saved /\ ~c.ran)
      <4>1. CASE owed' = owed
        <5>1. owed' \subseteq owed \cup {c.id} /\ owed \ {c.id} \subseteq owed'
          BY <4>1
        <5>2. c.id \in owed' => c.id \in owed
          BY <4>1
        <5>3. QED
          BY <5>1, <5>2, Zenon
      <4>2. CASE Saved /\ ~c.ran /\ owed' = owed \cup {c.id}
        <5>1. owed' \subseteq owed \cup {c.id} /\ owed \ {c.id} \subseteq owed'
          BY <4>2
        <5>2. QED
          BY <4>2, <5>1, Zenon
      <4>3. QED
        BY <3>2, <4>1, <4>2
    <3>4. UpdateTaken(i, c)
      BY <2>1, <3>1, <3>3 DEF UpdateTaken
    <3>5. QED
      BY <1>1, <1>2, <2>1, <2>3, <3>4
  <2>6. QED
    BY <2>4, <2>5
<1>7. QED
  BY <1>5, <1>6

LEMMA TableInvUpdate ==
    ASSUME TableInv, NEW id \in Task, NEW e \in Expr, \E on \in BOOLEAN : Update(id, e, on)
    PROVE  TableInv'
<1>1. Call /\ UNCHANGED <<now, boot, made, told>>
  BY UpdateCases
<1>2. PICK i \in DOMAIN tasks, c \in Entry :
         /\ tasks[i].id = id /\ c.id = id /\ tasks' = [tasks EXCEPT ![i] = c]
         /\ UpdateRefused(i, c) \/ UpdateTaken(i, c)
  BY UpdateCases
<1>3. made \subseteq made' /\ made' \subseteq Task /\ id \in made
  BY <1>1, <1>2 DEF TableInv, SchedulerTypeOK, Sound, Ids
<1>4. Sound(tasks)'
  BY <1>1, <1>2, SoundPut
<1>5. CASE UpdateRefused(i, c)
  <2>1. spent' \in Budgets
    BY <1>1, <1>5, CallShape, CallsType DEF UpdateRefused
  <2>2. owed' \subseteq made' /\ timer' \in Nat \cup {None} /\ unarmed' \in BOOLEAN /\ disk' = disk
    BY <1>1, <1>5 DEF TableInv, SchedulerTypeOK, UpdateRefused
  <2>3. QED
    BY <1>1, <1>3, <1>4, <2>1, <2>2, CallTyped
<1>6. CASE UpdateTaken(i, c)
  <2>1. Save(Calls) /\ Arm /\ owed' \subseteq owed \cup {id}
    BY <1>2, <1>6 DEF UpdateTaken
  <2>2. spent' \in Budgets /\ (disk' = tasks' \/ disk' = disk)
    BY <1>1, <2>1, CallShape, CallsType, SaveOutcome
  <2>3. timer' \in Nat \cup {None} /\ unarmed' = FALSE
    BY <1>4, <2>1, ArmType
  <2>4. owed' \subseteq made'
    BY <1>1, <1>3, <2>1 DEF TableInv, SchedulerTypeOK
  <2>5. QED
    BY <1>1, <1>3, <1>4, <2>2, <2>3, <2>4, CallTyped
<1>7. QED
  BY <1>2, <1>5, <1>6

(* The process.                                                            *)
LEMMA TableInvProcessEnds == ASSUME TableInv, ProcessEnds PROVE TableInv'
<1>1. spent' \in Budgets
  <2>1. spent \in Budgets /\ spent.ends + spent.fails < MaxFaults /\ spent' = [spent EXCEPT !.ends = @ + 1]
    BY DEF ProcessEnds, TableInv, SchedulerTypeOK, Budgets
  <2>2. spent.ends + 1 \in 0 .. MaxFaults
    BY <2>1, SchedulerAssumption DEF Budgets
  <2>3. QED
    BY <2>1, <2>2 DEF Budgets
<1>2. QED
  BY <1>1, EndsShape DEF ProcessEnds

LEMMA TableInvLoad == ASSUME TableInv, Load PROVE TableInv'
<1>1. /\ app = "down" /\ app' = "loaded" /\ telling = {} /\ Save(spent) /\ spent \in Budgets
      /\ tasks' = [i \in DOMAIN disk |-> Loaded(disk[i])]
      /\ missed' = {disk[i].id : i \in {j \in DOMAIN disk : Missed(disk[j])}}
      /\ UNCHANGED <<now, alarm, worker, telling, past>>
  BY DEF Load, TableInv, SchedulerTypeOK, Budgets, Phases
<1>2. now \in Nat /\ disk \in Seq(Entry) /\ OneEntryEach(disk) /\ Ids(disk) \subseteq made
  BY SchedulerAssumption DEF TableInv, SchedulerTypeOK, Sound
<1>3. tasks' \in Seq(Entry) /\ OneEntryEach(tasks') /\ Ids(tasks') = Ids(disk)
  BY <1>1, <1>2, LoadTable
<1>4. Sound(tasks)'
  BY <1>1, <1>2, <1>3 DEF Sound, past
<1>5. spent' \in Budgets /\ (disk' = tasks' \/ disk' = disk)
  BY <1>1, SaveOutcome
<1>6. Sound(disk)'
  BY <1>1, <1>4, <1>5, SoundFile DEF past
<1>7. missed' \subseteq Ids(tasks')
  BY <1>1, <1>3 DEF Ids
<1>8. missed' \subseteq Task
  BY <1>1, <1>2, TableShape, EntryFields
<1>9. \A w \in Worker : worker'[w] = IdleWork
  <2>1. ~Up /\ worker' = worker
    BY <1>1 DEF Up
  <2>2. QED
    BY <2>1 DEF TableInv, Phases
<1>10. Phases'
  <2>1. app' = "loaded" /\ telling' = {}
    BY DEF Load, TableInv, Phases
  <2>2. \A w \in Worker : worker'[w].pc = "idle"
    BY <1>9 DEF IdleWork
  <2>3. QED
    BY <1>7, <1>9, <2>1, <2>2 DEF Phases, Up
<1>11. SchedulerTypeOK'
  BY <1>1, <1>4, <1>5, <1>6, <1>8 DEF TableInv, SchedulerTypeOK, Sound, OneEntryEach, Budgets, past, alarm
<1>12. QED
  BY <1>4, <1>6, <1>10, <1>11 DEF TableInv

LEMMA TableInvStart == ASSUME TableInv, Start PROVE TableInv'
<1>1. /\ app = "loaded" /\ app' = "up" /\ Arm
      /\ UNCHANGED <<now, tasks, disk, spent, worker, missed, telling, past>>
  BY DEF Start
<1>2. Sound(tasks)' /\ Sound(disk)'
  BY <1>1 DEF TableInv, Sound, past
<1>3. timer' \in Nat \cup {None} /\ unarmed' = FALSE
  BY <1>1, <1>2, ArmType
<1>4. Phases'
  BY <1>1 DEF TableInv, Phases, Up
<1>5. QED
  BY <1>1, <1>2, <1>3, <1>4 DEF TableInv, SchedulerTypeOK, past

LEMMA TableInvDrain == ASSUME TableInv, DrainMissedReminders PROVE TableInv'
<1> USE DEF DrainMissedReminders, table, alarm, past
<1>1. Sound(tasks)' /\ Sound(disk)'
  BY DEF TableInv, Sound
<1>2. Phases'
  BY DEF TableInv, Phases, Up
<1>3. QED
  BY <1>1, <1>2 DEF TableInv, SchedulerTypeOK

LEMMA TableInvTell == ASSUME TableInv, NEW id \in Task, Tell(id) PROVE TableInv'
<1> USE DEF Tell, table, alarm
<1>1. Sound(tasks)' /\ Sound(disk)'
  BY DEF TableInv, Sound
<1>2. Phases'
  BY DEF TableInv, Phases, Up
<1>3. told' \in [Task -> Nat]
  BY DEF TableInv, SchedulerTypeOK
<1>4. QED
  BY <1>1, <1>2, <1>3 DEF TableInv, SchedulerTypeOK

LEMMA TableInvTick == ASSUME TableInv, Tick PROVE TableInv'
<1>1. UNCHANGED <<boot, table, alarm, worker, past>> /\ now' \in 0 .. MaxTime
  BY SchedulerAssumption DEF Tick, TableInv, SchedulerTypeOK
<1>2. Sound(tasks)' /\ Sound(disk)' /\ Phases'
  BY <1>1 DEF TableInv, Sound, Phases, Up, boot, table, past
<1>3. QED
  BY <1>1, <1>2 DEF TableInv, SchedulerTypeOK, boot, table, past, alarm

(* One step per action.                                                    *)
LEMMA TableInvNext == TableInv /\ [SchedulerNext]_schedulerVars => TableInv'
<1> SUFFICES ASSUME TableInv, [SchedulerNext]_schedulerVars PROVE TableInv'
  OBVIOUS
<1>1. ASSUME NEW w \in Worker, Callback(w) PROVE TableInv'
  BY <1>1, TableInvExpire, TableInvCollect, TableInvPick, TableInvFinish, TableInvRearm, TableInvFinishNow DEF Callback
<1>2. ASSUME Boot PROVE TableInv'
  BY <1>2, TableInvLoad, TableInvStart, TableInvDrain, TableInvTell DEF Boot
<1>3. ASSUME User PROVE TableInv'
  BY <1>3, TableInvDelete, TableInvRunNow, TableInvCreate, TableInvUpdate DEF User
<1>4. CASE UNCHANGED schedulerVars
  <2>1. Sound(tasks)' /\ Sound(disk)' /\ Phases'
    BY <1>4 DEF TableInv, Sound, Phases, Up, schedulerVars
  <2>2. QED
    BY <1>4, <2>1 DEF TableInv, SchedulerTypeOK, schedulerVars
<1>5. QED
  BY <1>1, <1>2, <1>3, <1>4, TableInvTick, TableInvProcessEnds DEF SchedulerNext

-----------------------------------------------------------------------------
(* The timer.                                                              *)

TimerInv == Up /\ Callbacks = {} /\ ~unarmed => timer = Nearest(tasks)

(* The tables agree on what the timer and a callback look at.              *)
SameSchedule(M, L) ==
    /\ DOMAIN M = DOMAIN L
    /\ \A i \in DOMAIN L : M[i].id = L[i].id /\ M[i].enabled = L[i].enabled /\ M[i].next = L[i].next

LEMMA SameNearest ==
    ASSUME NEW L, NEW M, SameSchedule(M, L)
    PROVE  Nearest(M) = Nearest(L)
<1> DEFINE T(N) == {N[i].next : i \in {j \in DOMAIN N : N[j].enabled /\ N[j].next # None}}
<1>1. {j \in DOMAIN M : M[j].enabled /\ M[j].next # None} = {j \in DOMAIN L : L[j].enabled /\ L[j].next # None}
  BY DEF SameSchedule
<1>2. T(M) = T(L)
  BY <1>1 DEF SameSchedule
<1>3. Nearest(M) = (IF T(M) = {} THEN None ELSE Earliest(T(M))) /\ Nearest(L) = (IF T(L) = {} THEN None ELSE Earliest(T(L)))
  BY DEF Nearest
<1> HIDE DEF T
<1>4. QED
  BY <1>2, <1>3

(* RunNow marks an entry as run and does no more.                          *)
LEMMA FinishNowTable ==
    ASSUME TableInv, NEW w \in Worker, FinishNow(w)
    PROVE  /\ SameSchedule(tasks', tasks)
           /\ UNCHANGED <<now, boot, alarm, made, told>> /\ worker' = [worker EXCEPT ![w] = IdleWork]
           /\ w \notin Callbacks /\ Up
<1> DEFINE i == IndexOf(worker[w].cur)
           e == [tasks[i] EXCEPT !.ran = TRUE]
<1>1. worker[w].pc = "manual" /\ worker' = [worker EXCEPT ![w] = IdleWork]
      /\ UNCHANGED <<now, boot, alarm, made, told>>
  BY DEF FinishNow, Is
<1>2. w \notin Callbacks
  BY <1>1 DEF Callbacks
<1>3. Up
  BY <1>1 DEF TableInv, Phases, IdleWork
<1>4. CASE Has(worker[w].cur)
  <2>1. i \in DOMAIN tasks /\ tasks' = [tasks EXCEPT ![i].ran = TRUE]
    BY <1>4, Found DEF FinishNow
  <2> HIDE DEF i
  <2>2. tasks \in Seq(Entry) /\ tasks[i] \in Entry
    BY <2>1, TableShape DEF TableInv, Sound
  <2>3. /\ tasks' = [tasks EXCEPT ![i] = e]
        /\ e \in Entry /\ e.id = tasks[i].id /\ e.enabled = tasks[i].enabled /\ e.next = tasks[i].next
    BY <2>1, <2>2 DEF Entry
  <2> HIDE DEF e
  <2>4. DOMAIN tasks' = DOMAIN tasks /\ tasks'[i] = e /\ \A j \in DOMAIN tasks : j # i => tasks'[j] = tasks[j]
    BY <2>1, <2>2, <2>3, PutEntry
  <2>5. SameSchedule(tasks', tasks)
    BY <2>3, <2>4 DEF SameSchedule
  <2>6. QED
    BY <1>1, <1>2, <1>3, <2>5
<1>5. CASE ~Has(worker[w].cur)
  <2>1. tasks' = tasks
    BY <1>5 DEF FinishNow, table
  <2>2. QED
    BY <1>1, <1>2, <1>3, <2>1 DEF SameSchedule
<1>6. QED
  BY <1>4, <1>5

LEMMA TimerInvNext == TableInv /\ TableInv' /\ TimerInv /\ [SchedulerNext]_schedulerVars => TimerInv'
<1> SUFFICES ASSUME TableInv, TableInv', TimerInv, [SchedulerNext]_schedulerVars PROVE TimerInv'
  OBVIOUS
<1>1. Arm => TimerInv'
  BY DEF Arm, TimerInv
<1>2. ASSUME NEW w \in Worker, worker'[w].pc \in {"collect", "pick", "run", "rearm"} PROVE TimerInv'
  BY <1>2 DEF TimerInv, Callbacks
<1>3. app' = "down" => TimerInv'
  BY DEF TimerInv, Up
<1>4. ASSUME NEW w \in Worker, Expire(w) PROVE TimerInv'
  <2>1. worker'[w].pc = "collect"
    BY <1>4 DEF Expire, IdleWork, TableInv, SchedulerTypeOK
  <2>2. QED
    BY <1>2, <2>1
<1>5. ASSUME NEW w \in Worker, Collect(w) PROVE TimerInv'
  <2>1. worker'[w].pc \in {"pick", "rearm"}
    BY <1>5 DEF Collect, Onward, TableInv, SchedulerTypeOK, Work
  <2>2. QED
    BY <1>2, <2>1
<1>6. ASSUME NEW w \in Worker, Pick(w) PROVE TimerInv'
  <2>1. CASE NextIndex(w) \in DOMAIN tasks
    <3>1. worker'[w].pc = "run"
      BY <1>6, <2>1 DEF Pick, TableInv, SchedulerTypeOK, Work
    <3>2. QED
      BY <1>2, <3>1
  <2>2. CASE NextIndex(w) \notin DOMAIN tasks
    BY <1>3, <1>6, <2>2 DEF Pick, Ends
  <2>3. QED
    BY <2>1, <2>2
<1>7. ASSUME NEW w \in Worker, Finish(w) PROVE TimerInv'
  <2>1. worker' = [worker EXCEPT ![w] = Onward(w, worker[w].due \ {NextIndex(w)})]
    BY <1>7 DEF Finish, TableInv, SchedulerTypeOK
  <2>2. worker'[w].pc \in {"pick", "rearm"}
    BY <2>1 DEF Onward, TableInv, SchedulerTypeOK, Work
  <2>3. QED
    BY <1>2, <2>2
<1>8. ASSUME NEW w \in Worker, FinishNow(w) PROVE TimerInv'
  <2>1. /\ SameSchedule(tasks', tasks) /\ w \notin Callbacks
        /\ UNCHANGED <<boot, alarm>> /\ worker' = [worker EXCEPT ![w] = IdleWork]
    BY <1>8, FinishNowTable
  <2>2. Nearest(tasks') = Nearest(tasks)
    BY <2>1, SameNearest
  <2>3. Callbacks \subseteq Callbacks'
    BY <2>1 DEF Callbacks, TableInv, SchedulerTypeOK
  <2>4. QED
    BY <2>1, <2>2, <2>3 DEF TimerInv, Up, boot, alarm
<1>9. ASSUME NEW w \in Worker, NEW id \in Task, RunNow(w, id) PROVE TimerInv'
  <2>1. w \notin Callbacks /\ UNCHANGED <<boot, tasks, alarm>>
        /\ worker' = [worker EXCEPT ![w] = [IdleWork EXCEPT !.pc = "manual", !.cur = id]]
    BY <1>9 DEF RunNow, Spare, Is, Callbacks
  <2>2. Callbacks \subseteq Callbacks'
    BY <2>1 DEF Callbacks, TableInv, SchedulerTypeOK
  <2>3. QED
    BY <2>1, <2>2 DEF TimerInv, Up, boot, alarm
<1>10. ASSUME NEW id \in Task, NEW e \in Expr, \E on \in BOOLEAN : Update(id, e, on) PROVE TimerInv'
  <2>1. PICK i, c : UpdateRefused(i, c) \/ UpdateTaken(i, c)
    BY <1>10, UpdateCases
  <2>2. QED
    BY <1>1, <2>1 DEF UpdateRefused, UpdateTaken, TimerInv
<1>11. CASE Load
  BY <1>11 DEF Load, TimerInv, Up
<1>12. CASE Start
  BY <1>1, <1>12 DEF Start
<1>13. CASE DrainMissedReminders
  BY <1>13 DEF DrainMissedReminders, TimerInv, Up, Callbacks, table, alarm
<1>14. ASSUME NEW id \in Task, Tell(id) PROVE TimerInv'
  BY <1>14 DEF Tell, TimerInv, Up, Callbacks, table, alarm
<1>15. CASE Tick
  BY <1>15 DEF Tick, TimerInv, Up, Callbacks, boot, table, alarm
<1>16. CASE ProcessEnds
  BY <1>3, <1>16 DEF ProcessEnds, Ends
<1>17. CASE UNCHANGED schedulerVars
  BY <1>17 DEF schedulerVars, TimerInv, Up, Callbacks
<1>18. ASSUME NEW w \in Worker, Callback(w) PROVE TimerInv'
  BY <1>1, <1>4, <1>5, <1>6, <1>7, <1>8, <1>18 DEF Callback, Rearm
<1>19. CASE User
  BY <1>1, <1>9, <1>10, <1>19 DEF User, Create, Delete
<1>20. CASE Boot
  BY <1>11, <1>12, <1>13, <1>14, <1>20 DEF Boot
<1>21. QED
  BY <1>15, <1>16, <1>17, <1>18, <1>19, <1>20 DEF SchedulerNext

-----------------------------------------------------------------------------
(* Callbacks nothing came across: the one callback there is, with the      *)
(* timer not armed, so that none can join it.                              *)

Exact(w) ==
    /\ worker[w].pc \in {"pick", "run"} =>
          \A i \in worker[w].due : i \in DOMAIN tasks /\ Due(tasks[i], worker[w].at)
    /\ worker[w].pc = "run" => tasks[NextIndex(w)].id = worker[w].cur

CalmInv == \A w \in Callbacks : worker[w].calm => Callbacks = {w} /\ timer = None /\ Exact(w)

LEMMA CallbacksOf ==
    ASSUME TableInv, NEW w \in Worker, NEW x \in Work, worker' = [worker EXCEPT ![w] = x]
    PROVE  Callbacks' = IF x.pc \in {"collect", "pick", "run", "rearm"} THEN Callbacks \cup {w} ELSE Callbacks \ {w}
<1>1. worker'[w] = x /\ \A v \in Worker : v # w => worker'[v] = worker[v]
  BY WorkerType
<1>2. QED
  BY <1>1 DEF Callbacks

LEMMA NextIsDue ==
    ASSUME TableInv, NEW w \in Worker, worker[w].pc \in {"pick", "run"}
    PROVE  NextIndex(w) \in worker[w].due
<1>1. worker[w].due # {} /\ worker[w].due \subseteq Nat
  BY DEF TableInv, Phases, SchedulerTypeOK, Work
<1>2. QED
  BY <1>1, EarliestIsIn DEF NextIndex

(* What a callback is about to do stays right when it does not step and    *)
(* the schedule is the same.                                               *)
LEMMA ExactKept ==
    ASSUME TableInv, NEW v \in Worker, worker'[v] = worker[v], SameSchedule(tasks', tasks), Exact(v)
    PROVE  Exact(v)'
<1>1. \A i \in DOMAIN tasks : Due(tasks[i], worker[v].at) => Due(tasks'[i], worker[v].at)
  BY DEF SameSchedule, Due
<1>2. NextIndex(v)' = NextIndex(v)
  BY DEF NextIndex
<1>3. CASE worker[v].pc = "run"
  <2>1. NextIndex(v) \in DOMAIN tasks
    BY <1>3, NextIsDue DEF Exact
  <2>2. QED
    BY <1>1, <1>2, <1>3, <2>1 DEF Exact, SameSchedule
<1>4. CASE worker[v].pc # "run"
  BY <1>1, <1>4 DEF Exact, SameSchedule
<1>5. QED
  BY <1>3, <1>4

LEMMA CalmStays ==
    ASSUME TableInv, CalmInv, Callbacks' = Callbacks, \A v \in Callbacks : worker'[v] = worker[v],
           SameSchedule(tasks', tasks), timer' = timer
    PROVE  CalmInv'
<1> SUFFICES ASSUME NEW v \in Callbacks', worker'[v].calm
             PROVE  Callbacks' = {v} /\ timer' = None /\ Exact(v)'
  BY DEF CalmInv
<1>1. v \in Worker /\ worker'[v] = worker[v] /\ worker[v].calm
  BY DEF Callbacks
<1>2. Callbacks = {v} /\ timer = None /\ Exact(v)
  BY <1>1 DEF CalmInv
<1>3. QED
  BY <1>1, <1>2, ExactKept

(* A callback steps: if it is calm it is alone.                            *)
LEMMA CalmStep ==
    ASSUME TableInv, CalmInv, NEW w \in Worker, NEW x \in Work, worker' = [worker EXCEPT ![w] = x],
           w \in Callbacks, x.calm = worker[w].calm, x.pc \in {"collect", "pick", "run", "rearm"},
           timer' = timer, worker[w].calm => Exact(w)'
    PROVE  CalmInv'
<1>1. Callbacks' = Callbacks
  BY CallbacksOf
<1>2. worker'[w] = x /\ \A v \in Worker : v # w => worker'[v] = worker[v]
  BY WorkerType
<1>3. ASSUME NEW v \in Callbacks', worker'[v].calm
      PROVE  Callbacks' = {v} /\ timer' = None /\ Exact(v)'
  <2>1. v \in Callbacks /\ v \in Worker /\ worker[v].calm
    BY <1>1, <1>2, <1>3 DEF Callbacks
  <2>2. Callbacks = {v} /\ timer = None
    BY <2>1 DEF CalmInv
  <2>3. v = w
    BY <2>2
  <2>4. QED
    BY <1>1, <2>1, <2>2, <2>3
<1>4. QED
  BY <1>3 DEF CalmInv

LEMMA SameTable == tasks' = tasks => SameSchedule(tasks', tasks)
BY DEF SameSchedule

LEMMA NoCallbacks == ASSUME \A w \in Worker : worker'[w] = IdleWork PROVE CalmInv'
<1>1. IdleWork.pc = "idle"
  BY DEF IdleWork
<1>2. Callbacks' = {}
  BY <1>1 DEF Callbacks
<1>3. QED
  BY <1>2 DEF CalmInv

LEMMA CalmExpire == ASSUME TableInv, CalmInv, NEW w \in Worker, Expire(w) PROVE CalmInv'
<1> DEFINE x == [IdleWork EXCEPT !.pc = "collect", !.at = now, !.calm = \A c \in Callbacks : worker[c].calm]
<1>1. timer # None /\ timer' = None /\ worker' = [worker EXCEPT ![w] = x]
  BY DEF Expire
<1>2. worker \in [Worker -> Work] /\ x.pc = "collect" /\ (x.calm => \A c \in Callbacks : worker[c].calm)
  BY DEF IdleWork, TableInv, SchedulerTypeOK
<1> HIDE DEF x
<1>3. worker'[w] = x /\ \A v \in Worker : v # w => worker'[v] = worker[v]
  BY <1>1, <1>2
<1>4. \A v \in Callbacks : ~worker[v].calm
  BY <1>1 DEF CalmInv
<1>5. ASSUME NEW v \in Callbacks', worker'[v].calm
      PROVE  Callbacks' = {v} /\ timer' = None /\ Exact(v)'
  <2>1. v = w
    BY <1>3, <1>4, <1>5 DEF Callbacks
  <2>2. Callbacks = {}
    BY <1>2, <1>3, <1>4, <1>5, <2>1
  <2>3. Callbacks' = {w}
    BY <1>2, <1>3, <2>2 DEF Callbacks
  <2>4. Exact(w)'
    BY <1>2, <1>3 DEF Exact
  <2>5. QED
    BY <1>1, <2>1, <2>3, <2>4
<1>6. QED
  BY <1>5 DEF CalmInv

LEMMA CalmCollect == ASSUME TableInv, CalmInv, NEW w \in Worker, Collect(w) PROVE CalmInv'
<1> DEFINE d == {i \in DOMAIN tasks : Due(tasks[i], worker[w].at)}
           x == Onward(w, d)
<1>1. d \subseteq Nat
  BY TableShape DEF TableInv, Sound
<1>2. worker' = [worker EXCEPT ![w] = x] /\ worker[w].pc = "collect" /\ tasks' = tasks /\ timer' = timer
  BY DEF Collect, Is, table, alarm
<1>3. \A i \in d : i \in DOMAIN tasks /\ Due(tasks[i], worker[w].at)
  OBVIOUS
<1> HIDE DEF d
<1>4. /\ x \in Work /\ x.pc \in {"pick", "rearm"} /\ x.due = d
      /\ x.at = worker[w].at /\ x.calm = worker[w].calm
  BY <1>1, OnwardType
<1> HIDE DEF x
<1>5. worker'[w] = x
  BY <1>2, <1>4, WorkerType
<1>6. Exact(w)'
  BY <1>2, <1>3, <1>4, <1>5 DEF Exact
<1>7. w \in Callbacks
  BY <1>2 DEF Callbacks
<1>8. QED
  BY <1>2, <1>4, <1>6, <1>7, CalmStep

LEMMA CalmPick == ASSUME TableInv, CalmInv, NEW w \in Worker, Pick(w) PROVE CalmInv'
<1> DEFINE i == NextIndex(w)
           x == [worker[w] EXCEPT !.pc = "run", !.cur = tasks[i].id]
<1>1. CASE i \in DOMAIN tasks
  <2>1. worker[w].pc = "pick" /\ worker[w] \in Work /\ worker \in [Worker -> Work]
    BY DEF Pick, Is, TableInv, SchedulerTypeOK
  <2>2. worker' = [worker EXCEPT ![w].pc = "run", ![w].cur = tasks[i].id] /\ tasks' = tasks /\ timer' = timer
    BY <1>1 DEF Pick, alarm
  <2>3. worker' = [worker EXCEPT ![w] = x]
    BY <2>1, <2>2
  <2>4. tasks[i].id \in Task
    BY <1>1, TableShape, EntryFields DEF TableInv, Sound
  <2> HIDE DEF i
  <2>5. /\ x \in Work /\ x.pc = "run" /\ x.due = worker[w].due /\ x.cur = tasks[i].id
        /\ x.at = worker[w].at /\ x.calm = worker[w].calm
    BY <2>1, <2>4 DEF Work
  <2> HIDE DEF x
  <2>6. worker'[w] = x
    BY <2>3, <2>5, WorkerType
  <2>7. w \in Callbacks
    BY <2>1 DEF Callbacks
  <2>8. worker[w].calm => Exact(w)'
    <3>1. NextIndex(w)' = i
      BY <2>5, <2>6 DEF NextIndex, i
    <3>2. worker[w].calm => Exact(w)
      BY <2>7 DEF CalmInv
    <3>3. QED
      BY <2>1, <2>2, <2>5, <2>6, <3>1, <3>2 DEF Exact
  <2>9. QED
    BY <2>2, <2>3, <2>5, <2>7, <2>8, CalmStep
<1>2. CASE i \notin DOMAIN tasks
  <2>1. \A v \in Worker : worker'[v] = IdleWork
    BY <1>2 DEF Pick, Ends
  <2>2. QED
    BY <2>1, NoCallbacks
<1>3. QED
  BY <1>1, <1>2

(* A run that ends changes the entry it ran, if any.                       *)
LEMMA FinishTable ==
    ASSUME TableInv, NEW w \in Worker, Finish(w)
    PROVE  /\ worker' = [worker EXCEPT ![w] = Onward(w, worker[w].due \ {NextIndex(w)})]
           /\ worker[w].pc = "run" /\ owed' = owed \ {worker[w].cur}
           /\ UNCHANGED <<now, boot, alarm, made, told>>
           /\ \/ UNCHANGED table
              \/ /\ Save(spent)
                 /\ \E i \in DOMAIN tasks :
                       /\ i = NextIndex(w) /\ tasks[i].id = worker[w].cur
                       /\ tasks' = [tasks EXCEPT ![i] = AfterRun(tasks[i])]
           /\ DOMAIN tasks' = DOMAIN tasks
           /\ \A j \in DOMAIN tasks : j # NextIndex(w) => tasks'[j] = tasks[j]
<1> DEFINE i == NextIndex(w)
           found == IF i \in DOMAIN tasks THEN tasks[i].id = worker[w].cur ELSE FALSE
<1>1. /\ worker[w].pc = "run" /\ owed' = owed \ {worker[w].cur} /\ UNCHANGED <<now, boot, alarm, made, told>>
      /\ worker' = [worker EXCEPT ![w] = Onward(w, worker[w].due \ {i})]
  BY DEF Finish, Is, TableInv, SchedulerTypeOK
<1>2. CASE found
  <2>1. i \in DOMAIN tasks /\ tasks' = [tasks EXCEPT ![i] = AfterRun(tasks[i])] /\ Save(spent)
    BY <1>2 DEF Finish
  <2>2. i \in DOMAIN tasks /\ tasks[i].id = worker[w].cur
    BY <1>2
  <2>3. DOMAIN tasks' = DOMAIN tasks /\ \A j \in DOMAIN tasks : j # i => tasks'[j] = tasks[j]
    BY <2>1 DEF TableInv, Sound
  <2>4. QED
    BY <1>1, <2>1, <2>2, <2>3
<1>3. CASE ~found
  <2>1. UNCHANGED table
    BY <1>3 DEF Finish
  <2>2. tasks' = tasks
    BY <2>1 DEF table
  <2>3. QED
    BY <1>1, <2>1, <2>2
<1>4. QED
  BY <1>2, <1>3

LEMMA CalmFinish == ASSUME TableInv, CalmInv, NEW w \in Worker, Finish(w) PROVE CalmInv'
<1> DEFINE i == NextIndex(w)
           d == worker[w].due \ {i}
           x == Onward(w, d)
<1>1. /\ worker' = [worker EXCEPT ![w] = x] /\ worker[w].pc = "run" /\ timer' = timer
      /\ DOMAIN tasks' = DOMAIN tasks /\ \A j \in DOMAIN tasks : j # i => tasks'[j] = tasks[j]
  BY FinishTable DEF alarm
<1>2. d \subseteq Nat /\ d \subseteq worker[w].due /\ i \notin d
  BY DEF TableInv, SchedulerTypeOK, Work
<1> HIDE DEF i, d
<1>3. /\ x \in Work /\ x.pc \in {"pick", "rearm"} /\ x.due = d
      /\ x.at = worker[w].at /\ x.calm = worker[w].calm
  BY <1>2, OnwardType
<1> HIDE DEF x
<1>4. worker'[w] = x
  BY <1>1, <1>3, WorkerType
<1>5. w \in Callbacks
  BY <1>1 DEF Callbacks
<1>6. worker[w].calm => Exact(w)'
  <2>1. worker[w].calm => \A j \in d : j \in DOMAIN tasks /\ j # i /\ Due(tasks[j], worker[w].at)
    BY <1>1, <1>2, <1>5 DEF CalmInv, Exact
  <2>2. QED
    BY <1>1, <1>3, <1>4, <2>1 DEF Exact
<1>7. QED
  BY <1>1, <1>3, <1>5, <1>6, CalmStep

LEMMA CalmRearm == ASSUME TableInv, CalmInv, NEW w \in Worker, Rearm(w) PROVE CalmInv'
<1>1. worker[w].pc = "rearm" /\ worker' = [worker EXCEPT ![w] = IdleWork]
  BY DEF Rearm, Is
<1>2. w \in Callbacks
  BY <1>1 DEF Callbacks
<1>3. Callbacks' = Callbacks \ {w}
  BY <1>1, IdleIsWork, CallbacksOf DEF IdleWork
<1>4. \A v \in Worker : v # w => worker'[v] = worker[v]
  BY <1>1, IdleIsWork, WorkerType
<1>5. \A v \in Callbacks' : ~worker'[v].calm
  BY <1>2, <1>3, <1>4 DEF CalmInv, Callbacks
<1>6. QED
  BY <1>5 DEF CalmInv

LEMMA CalmCall == ASSUME TableInv, CalmInv, Call PROVE CalmInv'
<1>1. Callbacks' = Callbacks
  BY CallShape DEF Callbacks
<1>2. \A v \in Callbacks : v \in Worker /\ worker'[v].calm = FALSE
  BY CallShape DEF Callbacks
<1>3. QED
  BY <1>1, <1>2 DEF CalmInv

LEMMA CalmInvNext == TableInv /\ CalmInv /\ [SchedulerNext]_schedulerVars => CalmInv'
<1> SUFFICES ASSUME TableInv, CalmInv, [SchedulerNext]_schedulerVars PROVE CalmInv'
  OBVIOUS
<1>1. UNCHANGED <<tasks, timer, worker>> => CalmInv'
  BY SameTable, CalmStays DEF Callbacks
<1>2. ASSUME NEW w \in Worker, FinishNow(w) PROVE CalmInv'
  <2>1. /\ SameSchedule(tasks', tasks) /\ timer' = timer /\ w \notin Callbacks
        /\ worker' = [worker EXCEPT ![w] = IdleWork]
    BY <1>2, FinishNowTable DEF alarm
  <2>2. Callbacks' = Callbacks
    BY <2>1, IdleIsWork, CallbacksOf DEF IdleWork
  <2>3. \A v \in Callbacks : worker'[v] = worker[v]
    BY <2>1, IdleIsWork, WorkerType DEF Callbacks
  <2>4. QED
    BY <2>1, <2>2, <2>3, CalmStays
<1>3. ASSUME NEW w \in Worker, NEW id \in Task, RunNow(w, id) PROVE CalmInv'
  <2> DEFINE x == [IdleWork EXCEPT !.pc = "manual", !.cur = id]
  <2>1. /\ tasks' = tasks /\ timer' = timer /\ w \notin Callbacks
        /\ worker' = [worker EXCEPT ![w] = x]
    BY <1>3 DEF RunNow, Spare, Is, Callbacks, alarm
  <2>2. x \in Work /\ x.pc = "manual"
    BY DEF IdleWork, Work
  <2> HIDE DEF x
  <2>3. Callbacks' = Callbacks
    BY <2>1, <2>2, CallbacksOf
  <2>4. \A v \in Callbacks : worker'[v] = worker[v]
    BY <2>1, <2>2, WorkerType DEF Callbacks
  <2>5. QED
    BY <2>1, <2>3, <2>4, SameTable, CalmStays
<1>4. ASSUME app \notin {"up", "drained"}, worker' = worker PROVE CalmInv'
  <2>1. \A w \in Worker : worker'[w] = IdleWork
    BY <1>4 DEF TableInv, Phases, Up
  <2>2. QED
    BY <2>1, NoCallbacks
<1>5. CASE Load \/ Start
  BY <1>4, <1>5 DEF Load, Start
<1>6. CASE ProcessEnds
  <2>1. \A w \in Worker : worker'[w] = IdleWork
    BY <1>6 DEF ProcessEnds, Ends
  <2>2. QED
    BY <2>1, NoCallbacks
<1>7. CASE DrainMissedReminders \/ \E id \in Task : Tell(id)
  BY <1>1, <1>7 DEF DrainMissedReminders, Tell, table, alarm
<1>8. CASE Tick \/ UNCHANGED schedulerVars
  BY <1>1, <1>8 DEF Tick, schedulerVars, table, alarm
<1>9. ASSUME NEW w \in Worker, Callback(w) PROVE CalmInv'
  BY <1>2, <1>9, CalmExpire, CalmCollect, CalmPick, CalmFinish, CalmRearm DEF Callback
<1>10. CASE User
  BY <1>3, <1>10, CalmCall, UpdateCases DEF User, Create, Delete
<1>11. CASE Boot
  BY <1>5, <1>7, <1>11 DEF Boot
<1>12. QED
  BY <1>6, <1>8, <1>9, <1>10, <1>11 DEF SchedulerNext

-----------------------------------------------------------------------------
(* Reminders: one that is owed and not about to be told has an entry on    *)
(* disk that promises it, and in the table one that also waits for the     *)
(* timer.                                                                  *)

Told == missed \cup telling

KeptInv ==
    \A id \in owed \ Told : Promised(disk, id) /\ (app # "down" => Waits(tasks, id))

LEMMA WaitsIsPromised == \A L, id : Waits(L, id) => Promised(L, id)
BY DEF Waits, Promised

LEMMA WaitsElsewhere ==
    ASSUME NEW L, NEW M, NEW i \in DOMAIN L, DOMAIN M = DOMAIN L,
           \A j \in DOMAIN L : j # i => M[j] = L[j],
           NEW id, id # L[i].id, Waits(L, id)
    PROVE  Waits(M, id)
<1>1. PICK j \in DOMAIN L : Promises(L[j], id) /\ L[j].next # None
  BY DEF Waits
<1>2. j # i
  BY <1>1 DEF Promises
<1>3. QED
  BY <1>1, <1>2 DEF Waits

LEMMA KeptSame ==
    ASSUME KeptInv, UNCHANGED <<tasks, disk>>, owed' \ Told' \subseteq owed \ Told,
           app = "down" => app' = "down"
    PROVE  KeptInv'
BY DEF KeptInv

LEMMA KeptSaved ==
    ASSUME KeptInv, app # "down", UNCHANGED boot, disk' = tasks' \/ disk' = disk,
           \A id \in owed' \ Told : Waits(tasks', id) /\ (id \in owed \/ disk' = tasks')
    PROVE  KeptInv'
<1>1. Told' = Told
  BY DEF Told, boot
<1>2. ASSUME NEW id \in owed' \ Told' PROVE Promised(disk', id) /\ Waits(tasks', id)
  <2>1. Waits(tasks', id) /\ (id \in owed \/ disk' = tasks')
    BY <1>1, <1>2
  <2>2. CASE disk' = tasks'
    BY <2>1, <2>2, WaitsIsPromised
  <2>3. CASE disk' = disk /\ id \in owed
    BY <1>1, <1>2, <2>1, <2>3 DEF KeptInv
  <2>4. QED
    BY <2>1, <2>2, <2>3
<1>3. QED
  BY <1>2 DEF KeptInv

LEMMA KeptEnds == ASSUME KeptInv, Ends, disk' = disk PROVE KeptInv'
<1>1. owed' \subseteq owed \ Told /\ app' = "down"
  BY DEF Ends, Told
<1>2. QED
  BY <1>1 DEF KeptInv

LEMMA SavedFile ==
    ASSUME NEW sp, Save(sp)
    PROVE  disk' = tasks' \/ disk' = disk
BY DEF Save

LEMMA UpIsNotDown == Up => app # "down"
BY DEF Up

LEMMA KeptFinish == ASSUME TableInv, KeptInv, NEW w \in Worker, Finish(w) PROVE KeptInv'
<1>1. /\ worker[w].pc = "run" /\ owed' = owed \ {worker[w].cur} /\ UNCHANGED boot
      /\ DOMAIN tasks' = DOMAIN tasks
      /\ \A j \in DOMAIN tasks : j # NextIndex(w) => tasks'[j] = tasks[j]
  BY FinishTable
<1>2. app # "down"
  BY <1>1, UpIsNotDown DEF TableInv, Phases, IdleWork
<1>3. CASE UNCHANGED table
  <2>1. UNCHANGED <<tasks, disk>> /\ owed' \ Told' \subseteq owed \ Told
    BY <1>1, <1>3 DEF table, Told, boot
  <2>2. QED
    BY <1>2, <2>1, KeptSame
<1>4. CASE Save(spent) /\ NextIndex(w) \in DOMAIN tasks /\ tasks[NextIndex(w)].id = worker[w].cur
  <2>1. \A id \in owed' \ Told : id \in owed \ Told /\ id # worker[w].cur
    BY <1>1
  <2>2. \A id \in owed' \ Told : Waits(tasks, id)
    BY <1>2, <2>1 DEF KeptInv
  <2>3. \A id \in owed' \ Told : Waits(tasks', id)
    BY <1>1, <1>4, <2>1, <2>2, WaitsElsewhere
  <2>4. QED
    BY <1>1, <1>2, <1>4, <2>1, <2>3, SavedFile, KeptSaved
<1>5. QED
  BY <1>3, <1>4, FinishTable

LEMMA KeptFinishNow == ASSUME TableInv, KeptInv, NEW w \in Worker, FinishNow(w) PROVE KeptInv'
<1> DEFINE id == worker[w].cur
           i == IndexOf(id)
<1>1. UNCHANGED boot /\ app # "down"
  BY FinishNowTable, UpIsNotDown
<1>2. CASE Has(id)
  <2>1. /\ i \in DOMAIN tasks /\ tasks[i].id = id /\ owed' = owed \ {id} /\ Save(spent)
        /\ tasks' = [tasks EXCEPT ![i].ran = TRUE]
    BY <1>2, Found DEF FinishNow
  <2> HIDE DEF i, id
  <2>2. DOMAIN tasks' = DOMAIN tasks /\ \A j \in DOMAIN tasks : j # i => tasks'[j] = tasks[j]
    BY <2>1 DEF TableInv, Sound
  <2>3. \A t \in owed' \ Told : t \in owed /\ t # id /\ Waits(tasks, t)
    BY <1>1, <2>1 DEF KeptInv
  <2>4. \A t \in owed' \ Told : Waits(tasks', t)
    BY <2>1, <2>2, <2>3, WaitsElsewhere
  <2>5. QED
    BY <1>1, <2>1, <2>3, <2>4, SavedFile, KeptSaved
<1>3. CASE ~Has(id)
  <2>1. UNCHANGED <<tasks, disk>> /\ owed' \ Told' \subseteq owed \ Told
    BY <1>1, <1>3 DEF FinishNow, table, Told, boot
  <2>2. QED
    BY <1>1, <2>1, KeptSame
<1>4. QED
  BY <1>2, <1>3

LEMMA KeptCreate == ASSUME TableInv, KeptInv, NEW id \in Task, NEW e \in Expr, Create(id, e) PROVE KeptInv'
<1> DEFINE x == [id |-> id, expr |-> e, enabled |-> TRUE, next |-> NextRun(e), ran |-> FALSE]
<1>1. /\ Call /\ id \notin made /\ NextRun(e) # None /\ tasks' = Append(tasks, x) /\ Save(Calls)
      /\ owed' = (IF e.once /\ Saved THEN owed \cup {id} ELSE owed) /\ UNCHANGED <<now, boot, told>>
  BY DEF Create
<1>2. x \in Entry
  BY NextRunType, SchedulerAssumption DEF Entry, TableInv, SchedulerTypeOK
<1>3. app # "down" /\ id \notin owed
  BY <1>1, CallShape, UpIsNotDown DEF TableInv, SchedulerTypeOK
<1>4. e.once => Promises(x, id) /\ x.next # None
  BY <1>1 DEF Promises
<1> HIDE DEF x
<1>5. /\ DOMAIN tasks' = DOMAIN tasks \cup {Len(tasks) + 1} /\ tasks'[Len(tasks) + 1] = x
      /\ \A j \in DOMAIN tasks : tasks'[j] = tasks[j]
  BY <1>1, <1>2, AppendEntry DEF TableInv, Sound
<1>6. ASSUME NEW t \in owed' \ Told PROVE Waits(tasks', t) /\ (t \in owed \/ disk' = tasks')
  <2>1. CASE t \in owed
    <3>1. Waits(tasks, t)
      BY <1>3, <1>6, <2>1 DEF KeptInv
    <3>2. QED
      BY <1>5, <2>1, <3>1 DEF Waits
  <2>2. CASE t \notin owed
    <3>1. t = id /\ e.once /\ disk' = tasks'
      BY <1>1, <1>6, <2>2 DEF Saved
    <3>2. QED
      BY <1>4, <1>5, <3>1 DEF Waits
  <2>3. QED
    BY <2>1, <2>2
<1>7. QED
  BY <1>1, <1>3, <1>6, SavedFile, KeptSaved

LEMMA KeptDelete == ASSUME TableInv, KeptInv, NEW id \in Task, Delete(id) PROVE KeptInv'
<1> DEFINE i == IndexOf(id)
<1>1. /\ Call /\ i \in DOMAIN tasks /\ tasks[i].id = id /\ tasks' = Without(tasks, i) /\ Save(Calls)
      /\ owed' = owed \ {id} /\ UNCHANGED <<now, boot, made, told>>
  BY Found DEF Delete
<1> HIDE DEF i
<1>2. app # "down"
  BY <1>1, CallShape, UpIsNotDown
<1>3. \A j \in DOMAIN tasks \ {i} : \E k \in DOMAIN tasks' : tasks'[k] = tasks[j]
  BY <1>1, DropEntry DEF TableInv, Sound
<1>4. ASSUME NEW t \in owed' \ Told PROVE Waits(tasks', t) /\ t \in owed
  <2>1. t \in owed /\ t # id /\ Waits(tasks, t)
    BY <1>1, <1>2, <1>4 DEF KeptInv
  <2>2. PICK j \in DOMAIN tasks : Promises(tasks[j], t) /\ tasks[j].next # None
    BY <2>1 DEF Waits
  <2>3. j # i
    BY <1>1, <2>1, <2>2 DEF Promises
  <2>4. QED
    BY <1>3, <2>1, <2>2, <2>3 DEF Waits
<1>5. QED
  BY <1>1, <1>2, <1>4, SavedFile, KeptSaved

LEMMA KeptUpdate ==
    ASSUME TableInv, KeptInv, NEW id \in Task, NEW e \in Expr, \E on \in BOOLEAN : Update(id, e, on)
    PROVE  KeptInv'
<1>1. Call /\ UNCHANGED <<now, boot, made, told>>
  BY UpdateCases
<1>2. PICK i \in DOMAIN tasks, c \in Entry :
         /\ tasks[i].id = id /\ c.id = id /\ c.ran = tasks[i].ran /\ tasks' = [tasks EXCEPT ![i] = c]
         /\ UpdateRefused(i, c) \/ UpdateTaken(i, c)
  BY UpdateCases
<1>3. app # "down"
  BY <1>1, CallShape, UpIsNotDown
<1>4. /\ DOMAIN tasks' = DOMAIN tasks /\ tasks'[i] = c
      /\ \A j \in DOMAIN tasks : j # i => tasks'[j] = tasks[j]
  BY <1>2 DEF TableInv, Sound
<1>5. ASSUME id \in owed \ Told PROVE Promises(tasks[i], id) /\ tasks[i].next # None
  <2>1. PICK j \in DOMAIN tasks : Promises(tasks[j], id) /\ tasks[j].next # None
    BY <1>3, <1>5 DEF KeptInv, Waits
  <2>2. j = i
    BY <1>2, <2>1 DEF Promises, TableInv, Sound, OneEntryEach
  <2>3. QED
    BY <2>1, <2>2
<1>6. \A t \in owed \ Told : t # id => Waits(tasks', t)
  <2>1. \A t \in owed \ Told : Waits(tasks, t)
    BY <1>3 DEF KeptInv
  <2>2. QED
    BY <1>2, <1>4, <2>1, WaitsElsewhere
<1>7. CASE UpdateRefused(i, c)
  <2>1. owed' = owed /\ disk' = disk /\ c.enabled /\ c.expr.once /\ c.next = tasks[i].next
    BY <1>7 DEF UpdateRefused
  <2>2. id \in owed \ Told => Waits(tasks', id)
    BY <1>2, <1>4, <1>5, <2>1 DEF Waits, Promises
  <2>3. \A t \in owed' \ Told : Waits(tasks', t) /\ t \in owed
    BY <1>6, <2>1, <2>2
  <2>4. QED
    BY <1>1, <1>3, <2>1, <2>3, KeptSaved
<1>8. CASE UpdateTaken(i, c)
  <2>1. /\ Save(Calls) /\ owed' \subseteq owed \cup {id}
        /\ id \in owed' => /\ c.enabled /\ c.expr.once /\ c.next # None
                           /\ id \in owed \/ (Saved /\ ~c.ran)
    BY <1>2, <1>8 DEF UpdateTaken
  <2>2. id \in owed' \ Told => ~c.ran
    BY <1>2, <1>5, <2>1 DEF Promises
  <2>3. id \in owed' \ Told => Waits(tasks', id)
    BY <1>2, <1>4, <2>1, <2>2 DEF Waits, Promises
  <2>4. id \in owed' => id \in owed \/ disk' = tasks'
    BY <2>1 DEF Saved
  <2>5. \A t \in owed' \ Told : Waits(tasks', t) /\ (t \in owed \/ disk' = tasks')
    BY <1>6, <2>1, <2>3, <2>4
  <2>6. QED
    BY <1>1, <1>3, <2>1, <2>5, SavedFile, KeptSaved
<1>9. QED
  BY <1>2, <1>7, <1>8

(* Load tells of what it disables and plans the rest.                      *)
LEMMA LoadedWaits ==
    ASSUME NEW e \in Entry, now \in Nat, NEW id, Promises(e, id)
    PROVE  Missed(e) \/ (Promises(Loaded(e), id) /\ Loaded(e).next # None)
<1>1. NextRun(e.expr) = None => Missed(e)
  BY DEF Promises, Missed, Passed
<1>2. ASSUME NextRun(e.expr) # None PROVE Promises(Loaded(e), id) /\ Loaded(e).next # None
  <2>1. Loaded(e) = [e EXCEPT !.next = NextRun(e.expr)]
    BY <1>2 DEF Loaded, Passed, Promises
  <2>2. QED
    BY <1>2, <2>1 DEF Promises, Entry
<1>3. QED
  BY <1>1, <1>2

LEMMA KeptLoad == ASSUME TableInv, KeptInv, Load PROVE KeptInv'
<1>1. /\ app' = "loaded" /\ tasks' = [i \in DOMAIN disk |-> Loaded(disk[i])]
      /\ missed' = {disk[i].id : i \in {j \in DOMAIN disk : Missed(disk[j])}}
      /\ disk' = tasks' \/ disk' = disk
  BY SavedFile DEF Load
<1>2. Told = {} /\ owed' = owed /\ app = "down"
  BY DEF Load, TableInv, Phases, Told, past
<1>3. now \in Nat /\ disk \in Seq(Entry)
  BY SchedulerAssumption DEF TableInv, SchedulerTypeOK, Sound
<1>4. ASSUME NEW id \in owed' \ Told' PROVE Promised(disk', id) /\ Waits(tasks', id)
  <2>1. Promised(disk, id)
    BY <1>2, <1>4 DEF KeptInv
  <2>2. PICK i \in DOMAIN disk : Promises(disk[i], id)
    BY <2>1 DEF Promised
  <2>3. ~Missed(disk[i])
    BY <1>1, <1>4, <2>2 DEF Told, Promises
  <2>4. disk[i] \in Entry
    BY <1>3, TableShape
  <2>5. Promises(Loaded(disk[i]), id) /\ Loaded(disk[i]).next # None
    BY <1>3, <2>2, <2>3, <2>4, LoadedWaits
  <2>6. Waits(tasks', id)
    BY <1>1, <2>5 DEF Waits
  <2>7. QED
    BY <1>1, <2>1, <2>6, WaitsIsPromised
<1>5. QED
  BY <1>4 DEF KeptInv

LEMMA KeptInvNext == TableInv /\ KeptInv /\ [SchedulerNext]_schedulerVars => KeptInv'
<1> SUFFICES ASSUME TableInv, KeptInv, [SchedulerNext]_schedulerVars PROVE KeptInv'
  OBVIOUS
<1>1. UNCHANGED <<boot, tasks, disk, owed>> => KeptInv'
  BY KeptSame DEF boot, Told
<1>2. ASSUME NEW w \in Worker, Callback(w) PROVE KeptInv'
  <2>1. CASE Expire(w) \/ Collect(w) \/ Rearm(w)
    BY <1>1, <2>1 DEF Expire, Collect, Rearm, table, past
  <2>2. CASE Pick(w)
    <3>1. CASE NextIndex(w) \in DOMAIN tasks
      BY <1>1, <2>2, <3>1 DEF Pick
    <3>2. CASE NextIndex(w) \notin DOMAIN tasks
      BY <2>2, <3>2, KeptEnds DEF Pick
    <3>3. QED
      BY <3>1, <3>2
  <2>3. QED
    BY <1>2, <2>1, <2>2, KeptFinish, KeptFinishNow DEF Callback
<1>3. CASE User
  <2>1. ASSUME NEW w \in Worker, NEW id \in Task, RunNow(w, id) PROVE KeptInv'
    BY <1>1, <2>1 DEF RunNow, past
  <2>2. QED
    BY <1>3, <2>1, KeptCreate, KeptDelete, KeptUpdate DEF User
<1>4. CASE Start
  <2>1. UNCHANGED <<tasks, disk>> /\ owed' \ Told' \subseteq owed \ Told /\ app # "down"
    BY <1>4 DEF Start, past, Told
  <2>2. QED
    BY <2>1, KeptSame
<1>5. CASE DrainMissedReminders
  <2>1. UNCHANGED <<tasks, disk>> /\ app # "down" /\ Told' = Told
    BY <1>5 DEF DrainMissedReminders, table, Told, TableInv, Phases
  <2>2. owed' \ Told' \subseteq owed \ Told
    BY <1>5, <2>1 DEF DrainMissedReminders, past
  <2>3. QED
    BY <2>1, <2>2, KeptSame
<1>6. ASSUME NEW id \in Task, Tell(id) PROVE KeptInv'
  <2>1. UNCHANGED <<tasks, disk>> /\ app # "down" /\ owed' \ Told' \subseteq owed \ Told
    BY <1>6 DEF Tell, table, Told
  <2>2. QED
    BY <2>1, KeptSame
<1>7. CASE ProcessEnds
  BY <1>7, KeptEnds DEF ProcessEnds
<1>8. CASE Tick \/ UNCHANGED schedulerVars
  BY <1>1, <1>8 DEF Tick, schedulerVars, boot, table, past
<1>9. CASE Boot
  BY <1>4, <1>5, <1>6, <1>9, KeptLoad DEF Boot
<1>10. QED
  BY <1>2, <1>3, <1>7, <1>8, <1>9 DEF SchedulerNext

-----------------------------------------------------------------------------
(* How often a reminder is told.  Told, about to be told, missed, and      *)
(* promised by an entry, in memory or on disk: each is one more time it    *)
(* may be told, and only a call or a save that fails adds one.             *)

Once(id, S) == IF id \in S THEN 1 ELSE 0
Alive == {id \in Task : Promised(tasks, id) \/ Promised(disk, id)}
Grants == spent.calls + spent.fails

ToldInv ==
    \A id \in Task : told[id] + Once(id, telling) + Once(id, missed) + Once(id, Alive) <= Grants

LEMMA OnceType == \A id, S : Once(id, S) \in 0 .. 1
BY DEF Once

LEMMA OnceMonotone == ASSUME NEW S, NEW T, NEW id, id \in S => id \in T PROVE Once(id, S) <= Once(id, T)
BY DEF Once

LEMMA GrantsType ==
    ASSUME TableInv
    PROVE  Grants \in Nat /\ \A id \in Task : told[id] \in Nat
<1>1. spent \in Budgets /\ told \in [Task -> Nat]
  BY DEF TableInv, SchedulerTypeOK, Budgets
<1>2. spent.calls \in Nat /\ spent.fails \in Nat
  BY <1>1, SchedulerAssumption DEF Budgets
<1>3. QED
  BY <1>1, <1>2 DEF Grants

LEMMA GrantsNext == ASSUME TableInv' PROVE Grants' \in Nat
<1>1. spent' \in Budgets
  BY DEF TableInv, SchedulerTypeOK, Budgets
<1>2. spent'.calls \in Nat /\ spent'.fails \in Nat
  BY <1>1, SchedulerAssumption DEF Budgets
<1>3. QED
  BY <1>2 DEF Grants

(* A step in which no reminder moves: what is promised is as before, or    *)
(* the step is a call.                                                     *)
LEMMA ToldStays ==
    ASSUME TableInv, TableInv', ToldInv, UNCHANGED <<told, telling, missed>>, Grants <= Grants',
           Alive' \subseteq Alive \/ Grants + 1 <= Grants'
    PROVE  ToldInv'
<1> SUFFICES ASSUME NEW id \in Task
             PROVE  told'[id] + Once(id, telling') + Once(id, missed') + Once(id, Alive') <= Grants'
  BY DEF ToldInv
<1>1. told[id] + Once(id, telling) + Once(id, missed) + Once(id, Alive) <= Grants
  BY DEF ToldInv
<1>2. /\ Once(id, telling) \in 0 .. 1 /\ Once(id, missed) \in 0 .. 1
      /\ Once(id, Alive) \in 0 .. 1 /\ Once(id, Alive') \in 0 .. 1
  BY OnceType
<1>3. told[id] \in Nat /\ Grants \in Nat /\ Grants' \in Nat
  BY GrantsType, GrantsNext
<1>4. Once(id, Alive') <= Once(id, Alive) \/ Grants + 1 <= Grants'
  BY OnceMonotone
<1>5. told' = told /\ telling' = telling /\ missed' = missed
  OBVIOUS
<1> DEFINE a == told[id]
           b == Once(id, telling)
           c == Once(id, missed)
           d == Once(id, Alive)
           f == Once(id, Alive')
           g == Grants
           k == Grants'
<1>6. a + b + c + f <= k
  <2>1. /\ a \in Nat /\ b \in 0 .. 1 /\ c \in 0 .. 1 /\ d \in 0 .. 1 /\ f \in 0 .. 1
        /\ g \in Nat /\ k \in Nat /\ g <= k /\ (f <= d \/ g + 1 <= k) /\ a + b + c + d <= g
    BY <1>1, <1>2, <1>3, <1>4
  <2> HIDE DEF a, b, c, d, f, g, k
  <2>2. QED
    BY <2>1
<1>7. QED
  BY <1>5, <1>6

LEMMA CallsGrant ==
    ASSUME TableInv, NEW sp \in Budgets, Save(sp)
    PROVE  /\ sp.calls + sp.fails <= Grants'
           /\ disk' = tasks' \/ (disk' = disk /\ sp.calls + sp.fails + 1 <= Grants')
<1>1. /\ spent' \in Budgets /\ spent'.calls = sp.calls
      /\ \/ disk' = tasks' /\ spent' = sp
         \/ disk' = disk /\ spent'.fails = sp.fails + 1
  BY SaveOutcome
<1>2. sp.calls \in Nat /\ sp.fails \in Nat
  BY SchedulerAssumption DEF Budgets
<1>3. CASE disk' = tasks' /\ spent' = sp
  BY <1>2, <1>3 DEF Grants
<1>4. CASE disk' = disk /\ spent'.fails = sp.fails + 1
  BY <1>1, <1>2, <1>4 DEF Grants
<1>5. QED
  BY <1>1, <1>3, <1>4

LEMMA ToldCall ==
    ASSUME TableInv, TableInv', ToldInv, Call, UNCHANGED <<boot, told>>, spent' = Calls \/ Save(Calls)
    PROVE  ToldInv'
<1>1. /\ Calls \in Budgets /\ Calls.calls = spent.calls + 1 /\ Calls.fails = spent.fails
  BY CallShape, CallsType
<1>2. spent.calls \in Nat /\ spent.fails \in Nat
  BY SchedulerAssumption DEF TableInv, SchedulerTypeOK
<1>3. Calls.calls + Calls.fails = Grants + 1
  BY <1>1, <1>2 DEF Grants
<1>4. Calls.calls + Calls.fails <= Grants'
  <2>1. CASE spent' = Calls
    BY <1>1, <1>2, <2>1 DEF Grants
  <2>2. CASE Save(Calls)
    BY <1>1, <2>2, CallsGrant
  <2>3. QED
    BY <2>1, <2>2
<1>5. Grants + 1 <= Grants' /\ Grants <= Grants'
  BY <1>3, <1>4, GrantsType, GrantsNext
<1>6. UNCHANGED <<told, telling, missed>>
  BY DEF boot
<1>7. QED
  BY <1>5, <1>6, ToldStays

(* The end of a run promises nothing new.                                  *)
LEMMA ToldRunEnds ==
    ASSUME TableInv, TableInv', ToldInv, UNCHANGED <<boot, told>>, Save(spent),
           \A id \in Task : Promised(tasks', id) => Promised(tasks, id)
    PROVE  ToldInv'
<1>1. spent \in Budgets
  BY DEF TableInv, SchedulerTypeOK, Budgets
<1>2. Grants <= Grants' /\ (disk' = tasks' \/ disk' = disk)
  BY <1>1, CallsGrant DEF Grants
<1>3. Alive' \subseteq Alive
  BY <1>2 DEF Alive
<1>4. UNCHANGED <<told, telling, missed>>
  BY DEF boot
<1>5. QED
  BY <1>2, <1>3, <1>4, ToldStays

LEMMA ToldSame ==
    ASSUME TableInv, TableInv', ToldInv, UNCHANGED <<told, telling, missed, tasks, disk>>, Grants <= Grants'
    PROVE  ToldInv'
<1>1. Alive' = Alive
  BY DEF Alive
<1>2. QED
  BY <1>1, ToldStays

LEMMA ToldFinish == ASSUME TableInv, TableInv', ToldInv, NEW w \in Worker, Finish(w) PROVE ToldInv'
<1>1. UNCHANGED <<boot, told>>
  BY FinishTable
<1>2. CASE UNCHANGED table
  <2>1. UNCHANGED <<told, telling, missed, tasks, disk>> /\ Grants' = Grants
    BY <1>1, <1>2 DEF table, boot, Grants
  <2>2. QED
    BY <2>1, GrantsType, ToldSame
<1>3. CASE /\ Save(spent)
           /\ \E i \in DOMAIN tasks :
                 /\ i = NextIndex(w) /\ tasks[i].id = worker[w].cur
                 /\ tasks' = [tasks EXCEPT ![i] = AfterRun(tasks[i])]
  <2>1. PICK i \in DOMAIN tasks : tasks' = [tasks EXCEPT ![i] = AfterRun(tasks[i])]
    BY <1>3
  <2>2. /\ DOMAIN tasks' = DOMAIN tasks /\ tasks'[i] = AfterRun(tasks[i])
        /\ \A j \in DOMAIN tasks : j # i => tasks'[j] = tasks[j]
    BY <2>1 DEF TableInv, Sound
  <2>3. tasks[i] \in Entry
    BY TableShape DEF TableInv, Sound
  <2>4. AfterRun(tasks[i]).ran = TRUE
    BY <2>3 DEF AfterRun, Entry
  <2>5. \A id \in Task : Promised(tasks', id) => Promised(tasks, id)
    BY <2>2, <2>4 DEF Promised, Promises
  <2>6. QED
    BY <1>1, <1>3, <2>5, ToldRunEnds
<1>4. QED
  BY <1>2, <1>3, FinishTable

LEMMA ToldFinishNow == ASSUME TableInv, TableInv', ToldInv, NEW w \in Worker, FinishNow(w) PROVE ToldInv'
<1> DEFINE i == IndexOf(worker[w].cur)
<1>1. UNCHANGED <<boot, told>>
  BY FinishNowTable
<1>2. CASE Has(worker[w].cur)
  <2>1. i \in DOMAIN tasks /\ Save(spent) /\ tasks' = [tasks EXCEPT ![i].ran = TRUE]
    BY <1>2, Found DEF FinishNow
  <2> HIDE DEF i
  <2>2. tasks[i] \in Entry
    BY <2>1, TableShape DEF TableInv, Sound
  <2>3. /\ DOMAIN tasks' = DOMAIN tasks /\ tasks'[i].ran = TRUE
        /\ \A j \in DOMAIN tasks : j # i => tasks'[j] = tasks[j]
    BY <2>1, <2>2 DEF TableInv, Sound, Entry
  <2>4. \A id \in Task : Promised(tasks', id) => Promised(tasks, id)
    BY <2>3 DEF Promised, Promises
  <2>5. QED
    BY <1>1, <2>1, <2>4, ToldRunEnds
<1>3. CASE ~Has(worker[w].cur)
  <2>1. UNCHANGED <<told, telling, missed, tasks, disk>> /\ Grants' = Grants
    BY <1>1, <1>3 DEF FinishNow, table, boot, Grants
  <2>2. QED
    BY <2>1, GrantsType, ToldSame
<1>4. QED
  BY <1>2, <1>3

LEMMA ToldEnds ==
    ASSUME TableInv, TableInv', ToldInv, Ends, UNCHANGED <<disk, told>>, Grants' = Grants
    PROVE  ToldInv'
<1> SUFFICES ASSUME NEW id \in Task
             PROVE  told'[id] + Once(id, telling') + Once(id, missed') + Once(id, Alive') <= Grants'
  BY DEF ToldInv
<1>1. told[id] + Once(id, telling) + Once(id, missed) + Once(id, Alive) <= Grants
  BY DEF ToldInv
<1>2. Once(id, telling') = 0 /\ Once(id, missed') = 0
  BY DEF Ends, Once
<1>3. id \in Alive' => id \in Alive
  <2>1. DOMAIN tasks' = {}
    BY DEF Ends
  <2>2. QED
    BY <2>1 DEF Alive, Promised
<1>4. Once(id, Alive') <= Once(id, Alive)
  BY <1>3, OnceMonotone
<1>5. /\ Once(id, telling) \in 0 .. 1 /\ Once(id, missed) \in 0 .. 1
      /\ Once(id, Alive) \in 0 .. 1 /\ Once(id, Alive') \in 0 .. 1
  BY OnceType
<1>6. told[id] \in Nat /\ Grants \in Nat /\ told' = told
  BY GrantsType
<1>7. QED
  BY <1>1, <1>2, <1>4, <1>5, <1>6

(* Load: a reminder it finds missed was promised on disk, and is no longer *)
(* unless the save failed.                                                 *)
LEMMA ToldLoad == ASSUME TableInv, TableInv', ToldInv, Load PROVE ToldInv'
<1>1. /\ tasks' = [i \in DOMAIN disk |-> Loaded(disk[i])] /\ Save(spent)
      /\ missed' = {disk[i].id : i \in {j \in DOMAIN disk : Missed(disk[j])}}
      /\ told' = told /\ telling' = telling
  BY DEF Load, past
<1>2. missed = {} /\ telling = {}
  BY DEF Load, TableInv, Phases
<1>3. now \in Nat /\ disk \in Seq(Entry) /\ OneEntryEach(disk) /\ spent \in Budgets
  BY SchedulerAssumption DEF TableInv, SchedulerTypeOK, Sound, Budgets
<1>4. \A i \in DOMAIN disk : disk[i] \in Entry /\ tasks'[i] = Loaded(disk[i])
  BY <1>1, <1>3, TableShape
<1>5. DOMAIN tasks' = DOMAIN disk
  BY <1>1
<1>6. \A i \in DOMAIN disk, id \in Task : Promises(tasks'[i], id) => Promises(disk[i], id) /\ ~Missed(disk[i])
  <2> SUFFICES ASSUME NEW e \in Entry, NEW id \in Task, Promises(Loaded(e), id)
               PROVE  Promises(e, id) /\ ~Missed(e)
    BY <1>4
  <2>1. /\ Loaded(e).id = e.id /\ Loaded(e).expr = e.expr /\ Loaded(e).ran = e.ran
    BY <1>3, LoadedType
  <2>2. e.enabled /\ ~Passed(e)
    <3>1. CASE ~e.enabled
      BY <3>1 DEF Loaded, Promises
    <3>2. CASE e.enabled /\ Passed(e)
      <4>1. Loaded(e) = [e EXCEPT !.enabled = FALSE, !.next = None]
        BY <3>2 DEF Loaded
      <4>2. QED
        BY <4>1 DEF Promises, Entry
    <3>3. QED
      BY <3>1, <3>2
  <2>3. QED
    BY <2>1, <2>2 DEF Promises, Missed
<1>7. \A i \in DOMAIN disk : Missed(disk[i]) => Promises(disk[i], disk[i].id)
  BY DEF Missed, Passed, Promises
<1>8. ASSUME NEW id \in Task
      PROVE  told'[id] + Once(id, telling') + Once(id, missed') + Once(id, Alive') <= Grants'
  <2>1. told[id] + Once(id, Alive) <= Grants /\ told[id] \in Nat /\ Grants \in Nat /\ Grants' \in Nat
    <3>1. told[id] + Once(id, telling) + Once(id, missed) + Once(id, Alive) <= Grants
      BY DEF ToldInv
    <3>2. Once(id, telling) = 0 /\ Once(id, missed) = 0 /\ Once(id, Alive) \in 0 .. 1
      BY <1>2, OnceType DEF Once
    <3>3. QED
      BY <3>1, <3>2, GrantsType, GrantsNext
  <2>2. id \in missed' => id \in Alive
    BY <1>1, <1>7 DEF Alive, Promised
  <2>3. Promised(tasks', id) => Promised(disk, id)
    BY <1>5, <1>6 DEF Promised
  <2>4. id \in missed' => ~Promised(tasks', id)
    <3> SUFFICES ASSUME id \in missed', Promised(tasks', id) PROVE FALSE
      OBVIOUS
    <3>1. PICK i \in DOMAIN disk : Missed(disk[i]) /\ disk[i].id = id
      BY <1>1
    <3>2. PICK j \in DOMAIN disk : Promises(tasks'[j], id)
      BY <1>5 DEF Promised
    <3>3. Promises(disk[j], id) /\ ~Missed(disk[j])
      BY <1>6, <3>2
    <3>4. i = j
      BY <1>3, <3>1, <3>3 DEF Promises, OneEntryEach
    <3>5. QED
      BY <3>1, <3>3, <3>4
  <2>5. Grants <= Grants' /\ (disk' = tasks' \/ (disk' = disk /\ Grants + 1 <= Grants'))
    BY <1>1, <1>3, CallsGrant DEF Grants
  <2>6. Once(id, telling') = 0
    BY <1>1, <1>2 DEF Once
  <2>7. CASE disk' = tasks'
    <3>1. id \in Alive' => id \in Alive
      BY <2>3, <2>7 DEF Alive
    <3>2. id \in missed' => id \notin Alive'
      BY <2>4, <2>7 DEF Alive
    <3>3. Once(id, missed') + Once(id, Alive') <= Once(id, Alive)
      BY <2>2, <3>1, <3>2 DEF Once
    <3>4. Once(id, missed') \in 0 .. 1 /\ Once(id, Alive) \in 0 .. 1 /\ Once(id, Alive') \in 0 .. 1
      BY OnceType
    <3>5. QED
      BY <1>1, <2>1, <2>5, <2>6, <3>3, <3>4
  <2>8. CASE disk' = disk /\ Grants + 1 <= Grants'
    <3>1. id \in Alive' => id \in Alive
      BY <2>3, <2>8 DEF Alive
    <3>2. Once(id, missed') + Once(id, Alive') <= Once(id, Alive) + 1
      BY <2>2, <3>1 DEF Once
    <3>3. Once(id, missed') \in 0 .. 1 /\ Once(id, Alive) \in 0 .. 1 /\ Once(id, Alive') \in 0 .. 1
      BY OnceType
    <3>4. QED
      BY <1>1, <2>1, <2>6, <2>8, <3>2, <3>3
  <2>9. QED
    BY <2>5, <2>7, <2>8
<1>9. QED
  BY <1>8 DEF ToldInv

LEMMA ToldDrain == ASSUME TableInv, TableInv', ToldInv, DrainMissedReminders PROVE ToldInv'
<1>1. /\ telling = {} /\ telling' = missed /\ missed' = {} /\ told' = told
      /\ Alive' = Alive /\ Grants' = Grants
  BY DEF DrainMissedReminders, table, past, TableInv, Phases, Alive, Grants
<1>2. ASSUME NEW id \in Task
      PROVE  told'[id] + Once(id, telling') + Once(id, missed') + Once(id, Alive') <= Grants'
  <2>1. told[id] + Once(id, telling) + Once(id, missed) + Once(id, Alive) <= Grants
    BY DEF ToldInv
  <2>2. Once(id, telling) = 0 /\ Once(id, missed') = 0 /\ Once(id, telling') = Once(id, missed)
    BY <1>1 DEF Once
  <2>3. Once(id, missed) \in 0 .. 1 /\ Once(id, Alive) \in 0 .. 1 /\ told[id] \in Nat /\ Grants \in Nat
    BY OnceType, GrantsType
  <2>4. QED
    BY <1>1, <2>1, <2>2, <2>3
<1>3. QED
  BY <1>2 DEF ToldInv

LEMMA ToldTell == ASSUME TableInv, TableInv', ToldInv, NEW t \in Task, Tell(t) PROVE ToldInv'
<1>1. /\ t \in telling /\ telling' = telling \ {t} /\ told' = [told EXCEPT ![t] = @ + 1]
      /\ missed' = missed /\ Alive' = Alive /\ Grants' = Grants /\ told \in [Task -> Nat]
  BY DEF Tell, table, Alive, Grants, TableInv, SchedulerTypeOK
<1>2. ASSUME NEW id \in Task
      PROVE  told'[id] + Once(id, telling') + Once(id, missed') + Once(id, Alive') <= Grants'
  <2>1. told[id] + Once(id, telling) + Once(id, missed) + Once(id, Alive) <= Grants
    BY DEF ToldInv
  <2>2. told'[id] + Once(id, telling') = told[id] + Once(id, telling)
    BY <1>1 DEF Once
  <2>3. QED
    BY <1>1, <2>1, <2>2
<1>3. QED
  BY <1>2 DEF ToldInv

LEMMA ToldInvNext == TableInv /\ TableInv' /\ ToldInv /\ [SchedulerNext]_schedulerVars => ToldInv'
<1> SUFFICES ASSUME TableInv, TableInv', ToldInv, [SchedulerNext]_schedulerVars PROVE ToldInv'
  OBVIOUS
<1>1. UNCHANGED <<told, telling, missed, tasks, disk, spent>> => ToldInv'
  <2>1. UNCHANGED spent => Grants <= Grants'
    BY GrantsType DEF Grants
  <2>2. QED
    BY <2>1, ToldSame
<1>2. ASSUME NEW w \in Worker, Callback(w) PROVE ToldInv'
  <2>1. CASE Expire(w) \/ Collect(w) \/ Rearm(w)
    BY <1>1, <2>1 DEF Expire, Collect, Rearm, table, past, boot
  <2>2. CASE Pick(w)
    <3>1. CASE NextIndex(w) \in DOMAIN tasks
      BY <1>1, <2>2, <3>1 DEF Pick, boot
    <3>2. CASE NextIndex(w) \notin DOMAIN tasks
      BY <2>2, <3>2, ToldEnds DEF Pick, Grants
    <3>3. QED
      BY <3>1, <3>2
  <2>3. QED
    BY <1>2, <2>1, <2>2, ToldFinish, ToldFinishNow DEF Callback
<1>3. ASSUME NEW w \in Worker, NEW id \in Task, RunNow(w, id) PROVE ToldInv'
  <2>1. spent.calls < MaxCalls /\ spent' = Calls /\ UNCHANGED <<told, telling, missed, tasks, disk>>
    BY <1>3 DEF RunNow, past, boot
  <2>2. spent.calls \in Nat /\ spent.fails \in Nat
    BY SchedulerAssumption DEF TableInv, SchedulerTypeOK
  <2>3. Calls.calls = spent.calls + 1 /\ Calls.fails = spent.fails
    BY <2>1, CallsType
  <2>4. Grants <= Grants'
    BY <2>1, <2>2, <2>3 DEF Grants
  <2>5. QED
    BY <2>1, <2>4, ToldSame
<1>4. ASSUME NEW id \in Task, NEW e \in Expr, \E on \in BOOLEAN : Update(id, e, on) PROVE ToldInv'
  <2>1. Call /\ UNCHANGED <<boot, told>>
    BY <1>4, UpdateCases
  <2>2. PICK i, c : UpdateRefused(i, c) \/ UpdateTaken(i, c)
    BY <1>4, UpdateCases
  <2>3. spent' = Calls \/ Save(Calls)
    BY <2>2 DEF UpdateRefused, UpdateTaken
  <2>4. QED
    BY <2>1, <2>3, ToldCall
<1>5. ASSUME NEW id \in Task, Delete(id) \/ \E e \in Expr : Create(id, e) PROVE ToldInv'
  BY <1>5, ToldCall DEF Delete, Create
<1>6. CASE User
  BY <1>3, <1>4, <1>5, <1>6 DEF User
<1>7. CASE ProcessEnds
  <2>1. Ends /\ UNCHANGED <<disk, told>> /\ spent' = [spent EXCEPT !.ends = @ + 1]
    BY <1>7 DEF ProcessEnds
  <2>2. Grants' = Grants
    BY <2>1 DEF Grants, TableInv, SchedulerTypeOK
  <2>3. QED
    BY <2>1, <2>2, ToldEnds
<1>8. CASE Start
  BY <1>1, <1>8 DEF Start, past
<1>9. CASE Tick \/ UNCHANGED schedulerVars
  BY <1>1, <1>9 DEF Tick, schedulerVars, boot, table, past
<1>10. CASE Boot
  BY <1>8, <1>10, ToldLoad, ToldDrain, ToldTell DEF Boot
<1>11. QED
  BY <1>2, <1>6, <1>7, <1>9, <1>10 DEF SchedulerNext

-----------------------------------------------------------------------------
(* The theorems.                                                           *)

SchedulerInv == TableInv /\ TimerInv /\ CalmInv /\ KeptInv /\ ToldInv

LEMMA SchedulerInvInit == SchedulerInit => SchedulerInv
<1> SUFFICES ASSUME SchedulerInit PROVE SchedulerInv
  OBVIOUS
<1>1. TableInv
  BY TableInvInit
<1>2. TimerInv
  <2>1. tasks = <<>> /\ timer = None /\ DOMAIN <<>> = {}
    BY DEF SchedulerInit
  <2>2. Nearest(<<>>) = None
    BY <2>1 DEF Nearest
  <2>3. QED
    BY <2>1, <2>2 DEF TimerInv
<1>3. CalmInv
  BY DEF CalmInv, Callbacks, SchedulerInit, IdleWork
<1>4. KeptInv
  BY DEF KeptInv, SchedulerInit
<1>5. ToldInv
  <2>1. Alive = {}
    BY DEF Alive, Promised, SchedulerInit
  <2>2. Grants = 0
    BY DEF Grants, SchedulerInit
  <2>3. QED
    BY <2>1, <2>2 DEF ToldInv, Once, SchedulerInit
<1>6. QED
  BY <1>1, <1>2, <1>3, <1>4, <1>5 DEF SchedulerInv

LEMMA SchedulerInvAlways == SchedulerSpec => []SchedulerInv
<1>1. SchedulerInv /\ [SchedulerNext]_schedulerVars => SchedulerInv'
  BY TableInvNext, TimerInvNext, CalmInvNext, KeptInvNext, ToldInvNext DEF SchedulerInv
<1>2. QED
  BY <1>1, SchedulerInvInit, PTL DEF SchedulerSpec

(* TheTimerIsNearest: whatever the user does around the callbacks, when    *)
(* none is in flight the timer is armed for the task that is due next      *)
(* (armNextTimerLocked); only a refused Update leaves it as it was.        *)
THEOREM TheTimerIsNearest == SchedulerSpec => []TimerIsNearest
<1>1. SchedulerInv => TimerIsNearest
  BY DEF SchedulerInv, TableInv, TimerInv, TimerIsNearest
<1>2. QED
  BY <1>1, SchedulerInvAlways, PTL

(* UndisturbedRunsAreDue: a callback that no call came across runs the     *)
(* tasks it collected, each still enabled, due and at its index, and no    *)
(* other callback runs beside it (fireDue).                                *)
THEOREM UndisturbedRunsAreDue == SchedulerSpec => []CalmCallbacksAreExact
<1>1. SchedulerInv => CalmCallbacksAreExact
  <2> SUFFICES ASSUME SchedulerInv, NEW w \in Worker, Is(w, "run"), worker[w].calm
               PROVE  /\ Callbacks = {w} /\ NextIndex(w) \in DOMAIN tasks
                      /\ tasks[NextIndex(w)].id = worker[w].cur
                      /\ tasks[NextIndex(w)].enabled /\ tasks[NextIndex(w)].next # None
                      /\ tasks[NextIndex(w)].next <= worker[w].at
    BY DEF CalmCallbacksAreExact
  <2>1. worker[w].pc = "run" /\ w \in Callbacks /\ TableInv
    BY DEF Is, Callbacks, SchedulerInv
  <2>2. Callbacks = {w} /\ Exact(w)
    BY <2>1 DEF SchedulerInv, CalmInv
  <2>3. NextIndex(w) \in worker[w].due
    BY <2>1, NextIsDue
  <2>4. /\ NextIndex(w) \in DOMAIN tasks /\ Due(tasks[NextIndex(w)], worker[w].at)
        /\ tasks[NextIndex(w)].id = worker[w].cur
    BY <2>1, <2>2, <2>3 DEF Exact
  <2>5. QED
    BY <2>2, <2>4 DEF Due
<1>2. QED
  BY <1>1, SchedulerInvAlways, PTL

(* NoReminderIsLost: a one-shot that was accepted and saved waits, runs or *)
(* is about to be told, through failing saves and any number of restarts,  *)
(* and none is told more often than calls and failed saves account for     *)
(* (Load, DrainMissedReminders).                                           *)
THEOREM NoReminderIsLost == SchedulerSpec => []RemindersAreKept
<1>1. SchedulerInv => RemindersAreKept
  <2> SUFFICES ASSUME SchedulerInv PROVE RemindersAreKept
    OBVIOUS
  <2>1. TableInv /\ KeptInv /\ ToldInv
    BY DEF SchedulerInv
  <2>2. ASSUME NEW id \in Task PROVE told[id] <= spent.calls + spent.fails
    <3>1. told[id] + Once(id, telling) + Once(id, missed) + Once(id, Alive) <= Grants
      BY <2>1 DEF ToldInv
    <3>2. /\ Once(id, telling) \in 0 .. 1 /\ Once(id, missed) \in 0 .. 1 /\ Once(id, Alive) \in 0 .. 1
          /\ told[id] \in Nat /\ Grants \in Nat
      BY <2>1, OnceType, GrantsType
    <3>3. told[id] <= Grants
      BY <3>1, <3>2
    <3>4. QED
      BY <3>3 DEF Grants
  <2>3. ASSUME NEW id \in owed, app # "down", id \notin missed \cup telling
        PROVE  Has(id) /\ tasks[IndexOf(id)].enabled /\ tasks[IndexOf(id)].next # None
    <3>1. Waits(tasks, id)
      BY <2>1, <2>3 DEF KeptInv, Told
    <3>2. PICK i \in DOMAIN tasks : Promises(tasks[i], id) /\ tasks[i].next # None
      BY <3>1 DEF Waits
    <3>3. Has(id)
      BY <3>2 DEF Has, Entries, Promises
    <3>4. IndexOf(id) \in DOMAIN tasks /\ tasks[IndexOf(id)].id = id
      BY <3>3, Found
    <3>5. IndexOf(id) = i
      BY <2>1, <3>2, <3>4 DEF TableInv, Sound, OneEntryEach, Promises
    <3>6. QED
      BY <3>2, <3>3, <3>5 DEF Promises
  <2>4. ASSUME NEW id \in owed, app = "loaded" PROVE Has(id)
    <3>1. telling = {} /\ missed \subseteq Ids(tasks)
      BY <2>1, <2>4 DEF TableInv, Phases
    <3>2. CASE id \in missed
      BY <3>1, <3>2, HasIds
    <3>3. CASE id \notin missed
      BY <2>3, <2>4, <3>1, <3>3
    <3>4. QED
      BY <3>2, <3>3
  <2>5. QED
    BY <2>2, <2>3, <2>4 DEF RemindersAreKept, Up
<1>2. QED
  BY <1>1, SchedulerInvAlways, PTL
=============================================================================
