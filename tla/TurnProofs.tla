----------------------------- MODULE TurnProofs -----------------------------
(***************************************************************************)
(* Proofs about Turn, for any number of messages and callers.              *)
(*                                                                         *)
(* The argument: fate[m] names the one place m is in (an open call, the    *)
(* steer queue, the follow-up queue, a turn about to resubmit it), and     *)
(* no place holds a message twice.  So nothing already taken up is taken   *)
(* up again, and what the end of a run clears is known.                    *)
(***************************************************************************)
EXTENDS Turn, TLAPS

Sending(c)   == op[c].kind \in {"follow", "steer"}
Resubmits(t) == pc[t] = "resubmit"

(* A message inside a call is marked so, and is inside that call only.     *)
CallsInv ==
    /\ \A c \in Caller : Sending(c) =>
         op[c].arg \in Msg /\ fate[op[c].arg] = "sending"
    /\ \A c, d \in Caller :
         Sending(c) /\ Sending(d) /\ op[c].arg = op[d].arg => c = d
    /\ \A c \in Caller : op[c].kind = "stop" => op[c].arg \in Msg

Steering == {"steering", "steeringLate"}

SteerInv ==
    /\ \A i \in 1 .. Len(steerQ) : fate[steerQ[i]] \in Steering
    /\ \A i, j \in 1 .. Len(steerQ) : steerQ[i] = steerQ[j] => i = j

FollowInv ==
    /\ \A i \in 1 .. Len(followQ) : fate[followQ[i]] = "queued"
    /\ \A i, j \in 1 .. Len(followQ) : followQ[i] = followQ[j] => i = j

CarryInv ==
    /\ \A t \in Msg : Resubmits(t) =>
         carry[t] \in Msg /\ fate[carry[t]] = "drained"
    /\ \A t, u \in Msg :
         Resubmits(t) /\ Resubmits(u) /\ carry[t] = carry[u] => t = u

(* Past the answer, the queue holds only steers that came after it.        *)
LateInv ==
    \A t \in Msg : pc[t] = "closing" =>
        \A i \in 1 .. Len(steerQ) : fate[steerQ[i]] = "steeringLate"

PauseInv == paused => \E t \in Msg : pc[t] = "paused"

IInv ==
    /\ TypeOK
    /\ OneTurn
    /\ CallsInv
    /\ SteerInv
    /\ FollowInv
    /\ CarryInv
    /\ LateInv
    /\ SteerInTimeIsHeard
    /\ PauseInv

-----------------------------------------------------------------------------
(* What the proofs need of sequences.                                      *)

LEMMA HeadTail ==
    ASSUME NEW S, NEW q \in Seq(S), q /= <<>>
    PROVE  /\ Len(q) \in Nat \ {0}
           /\ Head(q) = q[1]
           /\ Head(q) \in S
           /\ Tail(q) \in Seq(S)
           /\ Len(Tail(q)) = Len(q) - 1
           /\ \A i \in 1 .. Len(Tail(q)) : Tail(q)[i] = q[i + 1]
  OBVIOUS

LEMMA Appended ==
    ASSUME NEW S, NEW q \in Seq(S), NEW x \in S
    PROVE  /\ Append(q, x) \in Seq(S)
           /\ Len(q) \in Nat
           /\ Len(Append(q, x)) = Len(q) + 1
           /\ \A i \in 1 .. Len(q) : Append(q, x)[i] = q[i]
           /\ Append(q, x)[Len(q) + 1] = x
  OBVIOUS

LEMMA Elements ==
    ASSUME NEW S, NEW q \in Seq(S), NEW i \in 1 .. Len(q)
    PROVE  q[i] \in S
  OBVIOUS

(* A queue without repetitions stays one, and its front does not come back. *)
LEMMA TailKeeps ==
    ASSUME NEW S, NEW q \in Seq(S), q /= <<>>,
           \A i, j \in 1 .. Len(q) : q[i] = q[j] => i = j
    PROVE  /\ \A i, j \in 1 .. Len(Tail(q)) : Tail(q)[i] = Tail(q)[j] => i = j
           /\ \A i \in 1 .. Len(Tail(q)) : \E j \in 1 .. Len(q) :
                Tail(q)[i] = q[j] /\ q[j] /= Head(q)
<1>1. /\ Len(q) \in Nat \ {0} /\ Head(q) = q[1]
      /\ Len(Tail(q)) = Len(q) - 1
      /\ \A i \in 1 .. Len(Tail(q)) : Tail(q)[i] = q[i + 1]
  BY HeadTail
<1>2. \A i \in 1 .. Len(Tail(q)) : i + 1 \in 1 .. Len(q) /\ i + 1 /= 1
  BY <1>1
<1>3. 1 \in 1 .. Len(q)
  BY <1>1
<1>4. \A i, j \in 1 .. Len(Tail(q)) : Tail(q)[i] = Tail(q)[j] => i = j
  <2>1. TAKE i, j \in 1 .. Len(Tail(q))
  <2>2. Tail(q)[i] = Tail(q)[j] => i + 1 = j + 1
    BY <1>1, <1>2
  <2> QED
    BY <1>1, <2>2
<1>5. \A i \in 1 .. Len(Tail(q)) : \E j \in 1 .. Len(q) :
        Tail(q)[i] = q[j] /\ q[j] /= Head(q)
  BY <1>1, <1>2, <1>3
<1> QED
  BY <1>4, <1>5

LEMMA AppendKeeps ==
    ASSUME NEW S, NEW q \in Seq(S), NEW x \in S,
           \A i, j \in 1 .. Len(q) : q[i] = q[j] => i = j,
           \A i \in 1 .. Len(q) : q[i] /= x
    PROVE  LET r == Append(q, x) IN
           /\ \A i, j \in 1 .. Len(r) : r[i] = r[j] => i = j
           /\ \A i \in 1 .. Len(r) :
                r[i] = x \/ \E j \in 1 .. Len(q) : r[i] = q[j]
<1> DEFINE r == Append(q, x)
<1>1. /\ Len(q) \in Nat /\ Len(r) = Len(q) + 1
      /\ \A i \in 1 .. Len(q) : r[i] = q[i]
      /\ r[Len(q) + 1] = x
  BY Appended
<1> HIDE DEF r
<1>2. \A i \in 1 .. Len(r) : i \in 1 .. Len(q) \/ i = Len(q) + 1
  BY <1>1
<1>3. /\ \A i, j \in 1 .. Len(r) : r[i] = r[j] => i = j
      /\ \A i \in 1 .. Len(r) :
           r[i] = x \/ \E j \in 1 .. Len(q) : r[i] = q[j]
  BY <1>1, <1>2
<1> QED
  BY <1>3 DEF r

(* What is submitted is a message.                                         *)
LEMMA Arguments ==
    ASSUME CallsInv, CarryInv
    PROVE  /\ \A c \in Caller :
                op[c].kind \in {"follow", "steer", "stop"} => op[c].arg \in Msg
           /\ \A t \in Msg : pc[t] = "resubmit" => carry[t] \in Msg
  BY DEF CallsInv, CarryInv, Sending, Resubmits

-----------------------------------------------------------------------------
LEMMA InitHolds == Init => IInv
<1> SUFFICES ASSUME Init PROVE IInv
  OBVIOUS
<1> USE DEF Init
<1>1. TypeOK
  <2>1. session \in Session /\ steerQ \in Seq(Msg) /\ followQ \in Seq(Msg)
    BY RotationsIsNat DEF Session
  <2>2. op \in [Caller -> Call]
    BY DEF Call, Idle, Kind
  <2> QED
    BY <2>1, <2>2 DEF TypeOK, PC, Fate
<1>2. OneTurn
  BY DEF OneTurn, Busy, Active
<1>3. CallsInv /\ SteerInv /\ FollowInv
  BY DEF CallsInv, Sending, Idle, SteerInv, FollowInv
<1>4. CarryInv /\ LateInv /\ SteerInTimeIsHeard /\ PauseInv
  BY DEF CarryInv, Resubmits, LateInv, SteerInTimeIsHeard, PauseInv
<1> QED
  BY <1>1, <1>2, <1>3, <1>4 DEF IInv

(* Every step keeps the fields in their types: what is submitted or        *)
(* cancelled is a message, because CallsInv and CarryInv hold.             *)
LEMMA TypeStep == IInv /\ [Next]_vars => TypeOK'
<1> SUFFICES ASSUME IInv, [Next]_vars PROVE TypeOK'
  OBVIOUS
<1>0. TypeOK /\ CallsInv /\ CarryInv
  BY DEF IInv
<1>h. /\ steerQ /= <<>> => Head(steerQ) \in Msg /\ Tail(steerQ) \in Seq(Msg)
      /\ followQ /= <<>> => Head(followQ) \in Msg /\ Tail(followQ) \in Seq(Msg)
  BY <1>0, HeadTail DEF TypeOK
<1>w. ASSUME NEW t \in Msg, Writes(t) PROVE wrote' \in [Msg -> SUBSET Session]
  BY <1>0, <1>w DEF Writes, TypeOK
<1> USE <1>0 DEF TypeOK, PC, Active, Call, Kind, Fate, Final, ctlVars,
      turnVars, queueVars, pauseVars, sessVars
<1>1. CASE UNCHANGED vars
  BY <1>1 DEF vars
<1>2. ASSUME NEW t \in Msg, StartRun(t) PROVE TypeOK'
  BY <1>2 DEF StartRun, Goto, Writes
<1>3. ASSUME NEW t \in Msg, AwaitPause(t) PROVE TypeOK'
  BY <1>3 DEF AwaitPause, Goto
<1>4. ASSUME NEW t \in Msg, Unpause(t) PROVE TypeOK'
  BY <1>4 DEF Unpause, Goto
<1>5. ASSUME NEW t \in Msg, Step(t) PROVE TypeOK'
  <2>1. CASE t \in stopped \/ steerQ = <<>>
    BY <1>5, <2>1 DEF Step, Goto
  <2>2. CASE ~(t \in stopped \/ steerQ = <<>>)
    <3>1. Head(steerQ) \in Msg /\ Tail(steerQ) \in Seq(Msg)
      BY <2>2, <1>h
    <3>2. pc' \in [Msg -> PC] /\ fate' \in [Msg -> Fate]
      BY <1>5, <2>2, <3>1 DEF Step, Goto
    <3>3. wrote' \in [Msg -> SUBSET Session]
      <4>1. Writes(t)
        BY <1>5, <2>2 DEF Step
      <4> QED
        BY <4>1, <1>w
    <3>4. steerQ' \in Seq(Msg)
      BY <1>5, <2>2, <3>1 DEF Step
    <3> QED
      BY <1>5, <3>2, <3>3, <3>4 DEF Step
  <2> QED
    BY <2>1, <2>2
<1>6. ASSUME NEW t \in Msg, Stream(t) PROVE TypeOK'
  BY <1>6 DEF Stream, Goto, Writes
<1>7. ASSUME NEW t \in Msg, Settle(t) PROVE TypeOK'
  BY <1>7 DEF Settle, Goto
<1>8. ASSUME NEW t \in Msg, EndRun(t) PROVE TypeOK'
  <2>1. \A m \in Msg : Dropped(m, pc[t]) \in Fate
    BY DEF Dropped
  <2>2. fate' \in [Msg -> Fate] /\ steerQ' \in Seq(Msg)
    BY <1>8, <2>1 DEF EndRun, ClearSteerQueue
  <2> QED
    BY <1>8, <2>2 DEF EndRun, Goto
<1>9. ASSUME NEW t \in Msg, Finish(t) PROVE TypeOK'
  BY <1>9 DEF Finish, Goto
<1>10. ASSUME NEW t \in Msg, DrainFollowUp(t) PROVE TypeOK'
  <2>1. CASE t \in stopped \/ followQ = <<>>
    BY <1>10, <2>1 DEF DrainFollowUp, Goto
  <2>2. CASE ~(t \in stopped \/ followQ = <<>>)
    <3>1. Head(followQ) \in Msg /\ Tail(followQ) \in Seq(Msg)
      BY <2>2, <1>h
    <3>2. /\ followQ' = Tail(followQ)
          /\ carry' = [carry EXCEPT ![t] = Head(followQ)]
          /\ fate' = [fate EXCEPT ![Head(followQ)] = "drained"]
          /\ pc' = [pc EXCEPT ![t] = "resubmit"]
      BY <1>10, <2>2 DEF DrainFollowUp, Goto
    <3>3. /\ followQ' \in Seq(Msg) /\ carry' \in [Msg -> Msg \cup {None}]
          /\ fate' \in [Msg -> Fate] /\ pc' \in [Msg -> PC]
      BY <3>1, <3>2
    <3> QED
      BY <1>10, <3>3 DEF DrainFollowUp
  <2> QED
    BY <2>1, <2>2
<1>11. ASSUME NEW t \in Msg, Resubmit(t) PROVE TypeOK'
  <2>1. carry[t] \in Msg
    BY <1>11, Arguments DEF Resubmit
  <2>2. pc' \in [Msg -> PC] /\ carry' \in [Msg -> Msg \cup {None}]
    BY <1>11, <2>1 DEF Resubmit, SubmitFrom, Claim
  <2>3. /\ fate' \in [Msg -> Fate] /\ via' \in [Msg -> {"guarded", "sync"}]
        /\ running' \in BOOLEAN /\ cancel' \in Msg \cup {None}
    BY <1>11, <2>1 DEF Resubmit, SubmitFrom, Claim
  <2> QED
    BY <1>11, <2>2, <2>3 DEF Resubmit
<1>12. ASSUME NEW t \in Msg, Continue(t) \/ JudgeRefuses(t) PROVE TypeOK'
  BY <1>12 DEF Continue, JudgeRefuses, Goto
<1>13. ASSUME NEW t \in Msg, Panic(t) PROVE TypeOK'
  <2>1. fate' \in [Msg -> Fate] /\ steerQ' \in Seq(Msg)
    BY <1>13 DEF Panic
  <2> QED
    BY <1>13, <2>1 DEF Panic, Goto
<1>14. ASSUME NEW t \in Msg, Submit(t) PROVE TypeOK'
  BY <1>14 DEF Submit, Claim
<1>15. ASSUME NEW t \in Msg, RunTurn(t) PROVE TypeOK'
  BY <1>15 DEF RunTurn, Claim
<1>16. ASSUME NEW c \in Caller, NEW m \in Msg,
             NEW k \in {"follow", "steer"}, SendRead(c, k, m)
      PROVE TypeOK'
  BY <1>16 DEF SendRead, Enter
<1>17. ASSUME NEW c \in Caller, FollowUp(c) PROVE TypeOK'
  <2>1. op[c].arg \in Msg
    BY <1>17, Arguments DEF FollowUp
  <2>2. CASE op[c].saw
    <3>1. followQ' = Append(followQ, op[c].arg)
      BY <1>17, <2>2 DEF FollowUp
    <3>2. followQ' \in Seq(Msg)
      BY <2>1, <3>1, Appended
    <3> QED
      BY <1>17, <2>1, <2>2, <3>2 DEF FollowUp, Leave, Idle
  <2>3. CASE ~op[c].saw
    BY <1>17, <2>1, <2>3 DEF FollowUp, Leave, SubmitFrom, Claim, Idle
  <2> QED
    BY <2>2, <2>3
<1>18. ASSUME NEW c \in Caller, Steer(c) PROVE TypeOK'
  <2>1. op[c].arg \in Msg
    BY <1>18, Arguments DEF Steer
  <2>2. CASE op[c].saw
    <3>1. steerQ' = Append(steerQ, op[c].arg)
      BY <1>18, <2>2 DEF Steer
    <3>2. steerQ' \in Seq(Msg)
      BY <2>1, <3>1, Appended
    <3> QED
      BY <1>18, <2>1, <2>2, <3>2 DEF Steer, Leave, Idle
  <2>3. CASE ~op[c].saw
    BY <1>18, <2>1, <2>3 DEF Steer, Leave, SubmitFrom, Claim, Idle
  <2> QED
    BY <2>2, <2>3
<1>19. ASSUME NEW c \in Caller, StopRead(c) PROVE TypeOK'
  BY <1>19 DEF StopRead, Enter
<1>20. ASSUME NEW c \in Caller, Cancel(c) PROVE TypeOK'
  BY <1>20, Arguments DEF Cancel, Leave, Idle
<1>21. ASSUME NEW c \in Caller, PauseRead(c) PROVE TypeOK'
  BY <1>21 DEF PauseRead, Enter
<1>22. ASSUME NEW c \in Caller, Pause(c) PROVE TypeOK'
  BY <1>22 DEF Pause, Leave, Idle
<1>23. ASSUME NEW c \in Caller, SwapRead(c) PROVE TypeOK'
  BY <1>23 DEF SwapRead, Enter
<1>24. ASSUME NEW c \in Caller, Swap(c) PROVE TypeOK'
  BY <1>24, RotationsIsNat DEF Swap, Leave, Idle, Session
<1>25. ASSUME ResumeTurn PROVE TypeOK'
  BY <1>25 DEF ResumeTurn
<1> QED
  BY <1>1, <1>2, <1>3, <1>4, <1>5, <1>6, <1>7, <1>8, <1>9, <1>10, <1>11,
      <1>12, <1>13, <1>14, <1>15, <1>16, <1>17, <1>18, <1>19, <1>20, <1>21,
      <1>22, <1>23, <1>24, <1>25
     DEF Next, TurnStep, CallerStep, vars

(* The claim of a turn by a message, from no busy turn.                    *)
LEMMA ClaimOne ==
    ASSUME TypeOK, NEW m \in Msg, NEW v, NEW p \in [Msg -> PC],
           \A t \in Msg : p[t] \notin Active, Claim(m, v, p)
    PROVE  OneTurn'
<1>1. Busy' = {m}
  BY DEF Claim, Busy, Active
<1> QED
  BY <1>1, NoneIsNoMsg DEF Claim, OneTurn

(* A submission that leaves the busy turns as they are.                    *)
LEMMA SubmitOne ==
    ASSUME TypeOK, OneTurn, NEW m \in Msg, NEW p \in [Msg -> PC],
           \A t \in Msg : p[t] \in Active <=> pc[t] \in Active,
           SubmitFrom(m, p)
    PROVE  OneTurn'
<1>1. CASE ~running
  <2>1. Claim(m, "guarded", p)
    BY <1>1 DEF SubmitFrom
  <2>2. \A t \in Msg : p[t] \notin Active
    BY <1>1 DEF OneTurn, Busy
  <2> QED
    BY <2>1, <2>2, ClaimOne
<1>2. CASE running
  BY <1>2 DEF SubmitFrom, OneTurn, Busy, ctlVars
<1> QED
  BY <1>1, <1>2 DEF TypeOK

(* A claim needs ~running, and only the one busy turn clears it.           *)
LEMMA OneTurnStep == IInv /\ [Next]_vars => OneTurn'
<1> SUFFICES ASSUME IInv, [Next]_vars PROVE OneTurn'
  OBVIOUS
<1>0. TypeOK /\ OneTurn /\ CallsInv /\ CarryInv
  BY DEF IInv
<1> USE <1>0 DEF TypeOK, OneTurn, Busy, Active, PC, ctlVars, turnVars,
      queueVars, pauseVars, sessVars
<1>1. CASE UNCHANGED <<running, cancel, pc>>
  BY <1>1
<1>2. ASSUME NEW t \in Msg, StartRun(t) PROVE OneTurn'
  BY <1>2 DEF StartRun, Goto, Writes
<1>3. ASSUME NEW t \in Msg, AwaitPause(t) PROVE OneTurn'
  BY <1>3 DEF AwaitPause, Goto
<1>4. ASSUME NEW t \in Msg, Unpause(t) PROVE OneTurn'
  BY <1>4 DEF Unpause, Goto
<1>5. ASSUME NEW t \in Msg, Step(t) PROVE OneTurn'
  BY <1>5 DEF Step, Goto, Writes
<1>6. ASSUME NEW t \in Msg, Stream(t) PROVE OneTurn'
  BY <1>6 DEF Stream, Goto, Writes
<1>7. ASSUME NEW t \in Msg, Settle(t) PROVE OneTurn'
  BY <1>7 DEF Settle, Goto
<1>8. ASSUME NEW t \in Msg, EndRun(t) PROVE OneTurn'
  BY <1>8 DEF EndRun, Goto, ClearSteerQueue, Dropped
<1>9. ASSUME NEW t \in Msg, Finish(t) PROVE OneTurn'
  BY <1>9 DEF Finish, Goto
<1>10. ASSUME NEW t \in Msg, DrainFollowUp(t) PROVE OneTurn'
  BY <1>10 DEF DrainFollowUp, Goto
<1>11. ASSUME NEW t \in Msg, Resubmit(t) PROVE OneTurn'
  <2>1. carry[t] \in Msg
    BY <1>11, Arguments DEF Resubmit
  <2> DEFINE p == [pc EXCEPT ![t] = "gone"]
  <2>2. p \in [Msg -> PC] /\ \A u \in Msg : p[u] \in Active <=> pc[u] \in Active
    BY <1>11 DEF Resubmit
  <2>3. SubmitFrom(carry[t], p)
    BY <1>11 DEF Resubmit
  <2> HIDE DEF p
  <2> QED
    BY <2>1, <2>2, <2>3, SubmitOne
<1>12. ASSUME NEW t \in Msg, Continue(t) \/ JudgeRefuses(t) PROVE OneTurn'
  BY <1>12 DEF Continue, JudgeRefuses, Goto
<1>13. ASSUME NEW t \in Msg, Panic(t) PROVE OneTurn'
  BY <1>13 DEF Panic, Goto
<1>14. ASSUME NEW t \in Msg, Submit(t) PROVE OneTurn'
  BY <1>14, ClaimOne DEF Submit, OneTurn, Busy
<1>15. ASSUME NEW t \in Msg, RunTurn(t) PROVE OneTurn'
  BY <1>15, ClaimOne DEF RunTurn, OneTurn, Busy
<1>16. ASSUME NEW c \in Caller, FollowUp(c) PROVE OneTurn'
  <2>1. op[c].arg \in Msg
    BY <1>16, Arguments DEF FollowUp
  <2>2. CASE op[c].saw
    BY <1>16, <2>2 DEF FollowUp
  <2>3. CASE ~op[c].saw
    BY <1>16, <2>1, <2>3, SubmitOne DEF FollowUp
  <2> QED
    BY <2>2, <2>3
<1>17. ASSUME NEW c \in Caller, Steer(c) PROVE OneTurn'
  <2>1. op[c].arg \in Msg
    BY <1>17, Arguments DEF Steer
  <2>2. CASE op[c].saw
    BY <1>17, <2>2 DEF Steer
  <2>3. CASE ~op[c].saw
    BY <1>17, <2>1, <2>3, SubmitOne DEF Steer
  <2> QED
    BY <2>2, <2>3
<1> QED
  BY <1>1, <1>2, <1>3, <1>4, <1>5, <1>6, <1>7, <1>8, <1>9, <1>10, <1>11,
      <1>12, <1>13, <1>14, <1>15, <1>16, <1>17
     DEF Next, TurnStep, CallerStep, vars, SendRead, Enter, StopRead, Cancel,
      Leave, PauseRead, Pause, SwapRead, Swap, ResumeTurn

(* What a run, a drain and the end of a run do to the queues and to fate.  *)
LEMMA HeardEffect ==
    ASSUME TypeOK, SteerInv, NEW t \in Msg, Step(t)
    PROVE  \/ UNCHANGED <<steerQ, fate>>
           \/ /\ steerQ /= <<>>
              /\ steerQ' = Tail(steerQ)
              /\ Head(steerQ) \in Msg /\ fate[Head(steerQ)] \in Steering
              /\ fate' = [fate EXCEPT ![Head(steerQ)] = "heard"]
<1>1. CASE t \in stopped \/ steerQ = <<>>
  BY <1>1 DEF Step
<1>2. CASE t \notin stopped /\ steerQ /= <<>>
  <2>1. Len(steerQ) \in Nat \ {0} /\ Head(steerQ) = steerQ[1] /\ Head(steerQ) \in Msg
    BY <1>2, HeadTail DEF TypeOK
  <2> QED
    BY <1>2, <2>1 DEF Step, SteerInv
<1> QED
  BY <1>1, <1>2

LEMMA DrainEffect ==
    ASSUME TypeOK, FollowInv, NEW t \in Msg, DrainFollowUp(t)
    PROVE  \/ /\ UNCHANGED <<followQ, carry, fate>>
              /\ pc' = [pc EXCEPT ![t] = "gone"]
           \/ /\ followQ /= <<>>
              /\ followQ' = Tail(followQ)
              /\ Head(followQ) \in Msg /\ fate[Head(followQ)] = "queued"
              /\ fate' = [fate EXCEPT ![Head(followQ)] = "drained"]
              /\ carry' = [carry EXCEPT ![t] = Head(followQ)]
              /\ pc' = [pc EXCEPT ![t] = "resubmit"]
<1>1. CASE t \in stopped \/ followQ = <<>>
  BY <1>1 DEF DrainFollowUp, Goto
<1>2. CASE t \notin stopped /\ followQ /= <<>>
  <2>1. Len(followQ) \in Nat \ {0} /\ Head(followQ) = followQ[1] /\ Head(followQ) \in Msg
    BY <1>2, HeadTail DEF TypeOK
  <2> QED
    BY <1>2, <2>1 DEF DrainFollowUp, Goto, FollowInv
<1> QED
  BY <1>1, <1>2

LEMMA ClearEffect ==
    ASSUME TypeOK, SteerInv, NEW t \in Msg, EndRun(t) \/ Panic(t)
    PROVE  /\ steerQ' = <<>>
           /\ fate' \in [Msg -> {"cut", "late", "missed"} \cup Fate]
           /\ \A m \in Msg : \/ fate'[m] = fate[m]
                            \/ /\ fate[m] \in Steering
                               /\ fate'[m] \in {"cut", "late", "missed"}
<1> DEFINE In(m) == \E i \in 1 .. Len(steerQ) : steerQ[i] = m
           End == {"cut", "late", "missed"}
<1>1. \A m \in Msg : Dropped(m, pc[t]) \in End
  BY DEF Dropped
<1>2. \A m \in Msg : In(m) => fate[m] \in Steering
  BY DEF SteerInv
<1>3. \A m \in Msg : fate[m] \in Fate
  BY DEF TypeOK
<1>4. /\ steerQ' = <<>>
      /\ \E D \in [Msg -> End] :
           fate' = [m \in Msg |-> IF In(m) THEN D[m] ELSE fate[m]]
  <2>1. CASE EndRun(t)
    <3>1. [m \in Msg |-> Dropped(m, pc[t])] \in [Msg -> End]
      BY <1>1
    <3>2. /\ steerQ' = <<>>
          /\ fate' = [m \in Msg |-> IF In(m) THEN Dropped(m, pc[t]) ELSE fate[m]]
      BY <2>1 DEF EndRun, ClearSteerQueue
    <3> QED
      BY <3>1, <3>2
  <2>2. CASE Panic(t)
    <3>1. [m \in Msg |-> "cut"] \in [Msg -> End]
      OBVIOUS
    <3>2. /\ steerQ' = <<>>
          /\ fate' = [m \in Msg |-> IF In(m) THEN "cut" ELSE fate[m]]
      BY <2>2 DEF Panic
    <3> QED
      BY <3>1, <3>2
  <2> QED
    BY <2>1, <2>2
<1> HIDE DEF In
<1>5. PICK D \in [Msg -> End] :
        fate' = [m \in Msg |-> IF In(m) THEN D[m] ELSE fate[m]]
  BY <1>4
<1>6. fate' \in [Msg -> End \cup Fate]
  BY <1>3, <1>5
<1>7. \A m \in Msg : fate'[m] = IF In(m) THEN D[m] ELSE fate[m]
  BY <1>5
<1> QED
  BY <1>2, <1>4, <1>6, <1>7

(* Only an unsent message enters a call.                                   *)
LEMMA CallsStep == IInv /\ [Next]_vars => CallsInv'
<1> SUFFICES ASSUME IInv, [Next]_vars PROVE CallsInv'
  OBVIOUS
<1>0. TypeOK /\ CallsInv /\ SteerInv /\ FollowInv /\ CarryInv
  BY DEF IInv
(* What leaves the calls and the unsent messages alone.                    *)
<1>s. ASSUME op' = op, \A m \in Msg : fate[m] = "sending" => fate'[m] = "sending"
      PROVE  CallsInv'
  BY <1>0, <1>s DEF CallsInv, Sending
<1>2. ASSUME NEW t \in Msg, Step(t) PROVE CallsInv'
  <2>1. op' = op
    BY <1>2 DEF Step
  <2>2. \A m \in Msg : fate[m] = "sending" => fate'[m] = "sending"
    BY <1>0, <1>2, HeardEffect DEF Steering, TypeOK
  <2> QED
    BY <1>s, <2>1, <2>2
<1>3. ASSUME NEW t \in Msg, EndRun(t) \/ Panic(t) PROVE CallsInv'
  <2>1. op' = op
    BY <1>3 DEF EndRun, Panic
  <2>2. \A m \in Msg : fate[m] = "sending" => fate'[m] = "sending"
    BY <1>0, <1>3, ClearEffect DEF Steering
  <2> QED
    BY <1>s, <2>1, <2>2
<1>1. CASE UNCHANGED <<op, fate>>
  BY <1>s, <1>1
<1>t. ASSUME NEW t \in Msg, StartRun(t) \/ AwaitPause(t) \/ Unpause(t) \/ Stream(t)
                             \/ Settle(t) \/ Finish(t) \/ Continue(t)
                             \/ JudgeRefuses(t)
      PROVE CallsInv'
  <2>1. UNCHANGED <<op, fate>>
    BY <1>t DEF StartRun, AwaitPause, Unpause, Stream, Settle, Finish,
      Continue, JudgeRefuses
  <2> QED
    BY <1>1, <2>1
<1>u. CASE UNCHANGED vars
  BY <1>1, <1>u DEF vars
<1>r. CASE ResumeTurn
  BY <1>1, <1>r DEF ResumeTurn
<1> USE <1>0 DEF TypeOK, CallsInv, Sending, Idle, Call, Steering, ctlVars,
      turnVars, queueVars, pauseVars, sessVars
<1>4. ASSUME NEW t \in Msg, DrainFollowUp(t) PROVE CallsInv'
  BY <1>4, DrainEffect DEF DrainFollowUp
<1>5. ASSUME NEW t \in Msg, Resubmit(t) PROVE CallsInv'
  BY <1>5 DEF Resubmit, SubmitFrom, Claim, CarryInv, Resubmits
<1>7. ASSUME NEW t \in Msg, Submit(t) PROVE CallsInv'
  BY <1>7 DEF Submit, Claim
<1>8. ASSUME NEW t \in Msg, RunTurn(t) PROVE CallsInv'
  BY <1>8 DEF RunTurn, Claim
<1>9. ASSUME NEW c \in Caller, NEW m \in Msg,
             NEW k \in {"follow", "steer"}, SendRead(c, k, m)
      PROVE CallsInv'
  BY <1>9 DEF SendRead, Enter
<1>10. ASSUME NEW c \in Caller, FollowUp(c) PROVE CallsInv'
  BY <1>10 DEF FollowUp, Leave, SubmitFrom, Claim
<1>11. ASSUME NEW c \in Caller, Steer(c) PROVE CallsInv'
  BY <1>11 DEF Steer, Leave, SubmitFrom, Claim
<1>12. ASSUME NEW c \in Caller, StopRead(c) PROVE CallsInv'
  BY <1>12 DEF StopRead, Enter
<1>13. ASSUME NEW c \in Caller, Cancel(c) PROVE CallsInv'
  BY <1>13 DEF Cancel, Leave
<1>14. ASSUME NEW c \in Caller, PauseRead(c) PROVE CallsInv'
  BY <1>14 DEF PauseRead, Enter
<1>15. ASSUME NEW c \in Caller, Pause(c) PROVE CallsInv'
  BY <1>15 DEF Pause, Leave
<1>16. ASSUME NEW c \in Caller, SwapRead(c) PROVE CallsInv'
  BY <1>16 DEF SwapRead, Enter
<1>17. ASSUME NEW c \in Caller, Swap(c) PROVE CallsInv'
  BY <1>17 DEF Swap, Leave
<1> QED
  BY <1>t, <1>u, <1>r, <1>2, <1>3, <1>4, <1>5, <1>7, <1>8, <1>9, <1>10, <1>11,
      <1>12, <1>13, <1>14, <1>15, <1>16, <1>17
     DEF Next, TurnStep, CallerStep

(* The steer queue gets what a call was sending and loses what it forgets. *)
LEMMA SteerStep == IInv /\ [Next]_vars => SteerInv'
<1> SUFFICES ASSUME IInv, [Next]_vars PROVE SteerInv'
  OBVIOUS
<1>0. TypeOK /\ CallsInv /\ SteerInv /\ FollowInv /\ CarryInv
  BY DEF IInv
<1>1. steerQ \in Seq(Msg) /\ fate \in [Msg -> Fate]
  BY <1>0 DEF TypeOK
<1>2. /\ \A i \in 1 .. Len(steerQ) : steerQ[i] \in Msg /\ fate[steerQ[i]] \in Steering
      /\ \A i, j \in 1 .. Len(steerQ) : steerQ[i] = steerQ[j] => i = j
  BY <1>0, <1>1, Elements DEF SteerInv
<1>3. \A c \in Caller : op[c].kind \in {"follow", "steer"} =>
        op[c].arg \in Msg /\ fate[op[c].arg] = "sending"
  BY <1>0 DEF CallsInv, Sending
(* What leaves the queue and its messages alone.                           *)
<1>4. ASSUME steerQ' = steerQ, \A m \in Msg : fate[m] \in Steering => fate'[m] = fate[m]
      PROVE  SteerInv'
  <2>1. \A i \in 1 .. Len(steerQ) : fate'[steerQ[i]] = fate[steerQ[i]]
    BY <1>2, <1>4
  <2> QED
    BY <1>2, <1>4, <2>1 DEF SteerInv
<1>5. ASSUME NEW t \in Msg, Step(t) PROVE SteerInv'
  <2>1. CASE UNCHANGED <<steerQ, fate>>
    BY <1>4, <2>1
  <2>2. CASE steerQ /= <<>> /\ steerQ' = Tail(steerQ)
    <3>1. /\ \A i, j \in 1 .. Len(steerQ') : steerQ'[i] = steerQ'[j] => i = j
          /\ \A i \in 1 .. Len(steerQ') : \E j \in 1 .. Len(steerQ) :
               steerQ'[i] = steerQ[j] /\ steerQ[j] /= Head(steerQ)
      BY <1>1, <1>2, <2>2, TailKeeps
    <3>2. \A m \in Msg : m /= Head(steerQ) => fate'[m] = fate[m]
      BY <1>0, <1>1, <1>5, HeardEffect
    <3>3. \A i \in 1 .. Len(steerQ') : fate'[steerQ'[i]] \in Steering
      <4>1. TAKE i \in 1 .. Len(steerQ')
      <4>2. PICK j \in 1 .. Len(steerQ) :
              steerQ'[i] = steerQ[j] /\ steerQ[j] /= Head(steerQ)
        BY <3>1
      <4>3. fate'[steerQ[j]] = fate[steerQ[j]]
        BY <1>2, <3>2, <4>2
      <4> QED
        BY <1>2, <4>2, <4>3
    <3> QED
      BY <3>1, <3>3 DEF SteerInv
  <2> QED
    BY <1>0, <1>5, HeardEffect, <2>1, <2>2
<1>6. ASSUME NEW c \in Caller, Steer(c), op[c].saw PROVE SteerInv'
  <2>1. op[c].arg \in Msg /\ fate[op[c].arg] = "sending"
    BY <1>3, <1>6 DEF Steer
  <2>2. \A i \in 1 .. Len(steerQ) : steerQ[i] /= op[c].arg
    BY <1>2, <2>1 DEF Steering
  <2>3. steerQ' = Append(steerQ, op[c].arg)
    BY <1>6 DEF Steer
  <2>4. /\ \A i, j \in 1 .. Len(steerQ') : steerQ'[i] = steerQ'[j] => i = j
        /\ \A i \in 1 .. Len(steerQ') : \/ steerQ'[i] = op[c].arg
               \/ \E j \in 1 .. Len(steerQ) : steerQ'[i] = steerQ[j]
    BY <1>1, <1>2, <2>1, <2>2, <2>3, AppendKeeps
  <2>5. /\ \A m \in Msg : m /= op[c].arg => fate'[m] = fate[m]
        /\ fate'[op[c].arg] \in Steering
    BY <1>1, <1>6, <2>1 DEF Steer, Steering
  <2>6. \A i \in 1 .. Len(steerQ') : fate'[steerQ'[i]] \in Steering
    <3>1. TAKE i \in 1 .. Len(steerQ')
    <3>2. CASE steerQ'[i] = op[c].arg
      BY <2>5, <3>2
    <3>3. ASSUME NEW j \in 1 .. Len(steerQ), steerQ'[i] = steerQ[j]
          PROVE  fate'[steerQ'[i]] \in Steering
      <4>1. fate'[steerQ[j]] = fate[steerQ[j]]
        BY <1>2, <2>2, <2>5
      <4> QED
        BY <1>2, <3>3, <4>1
    <3> QED
      BY <2>4, <3>2, <3>3
  <2> QED
    BY <2>4, <2>6 DEF SteerInv
<1>7. ASSUME NEW t \in Msg, EndRun(t) \/ Panic(t) PROVE SteerInv'
  BY <1>0, <1>7, ClearEffect DEF SteerInv
<1>8. ASSUME NEW t \in Msg, DrainFollowUp(t) PROVE SteerInv'
  <2>1. steerQ' = steerQ
    BY <1>8 DEF DrainFollowUp
  <2>2. \A m \in Msg : fate[m] \in Steering => fate'[m] = fate[m]
    BY <1>0, <1>1, <1>8, DrainEffect DEF Steering
  <2> QED
    BY <1>4, <2>1, <2>2
<1>9. ASSUME NEW m \in Msg, Submit(m) \/ RunTurn(m) PROVE SteerInv'
  BY <1>1, <1>4, <1>9 DEF Submit, RunTurn, Claim, queueVars, Steering
<1>10. ASSUME NEW t \in Msg, Resubmit(t) PROVE SteerInv'
  <2>1. carry[t] \in Msg /\ fate[carry[t]] = "drained"
    BY <1>0, <1>10 DEF Resubmit, CarryInv, Resubmits
  <2>2. steerQ' = steerQ
    BY <1>10 DEF Resubmit, queueVars
  <2>3. \A m \in Msg : m /= carry[t] => fate'[m] = fate[m]
    BY <1>1, <1>10, <2>1 DEF Resubmit, SubmitFrom, Claim
  <2> QED
    BY <1>4, <2>1, <2>2, <2>3 DEF Steering
<1>11. ASSUME NEW c \in Caller, NEW m \in Msg,
              NEW k \in {"follow", "steer"}, SendRead(c, k, m)
       PROVE  SteerInv'
  BY <1>1, <1>4, <1>11 DEF SendRead, queueVars, Steering
<1>12. ASSUME NEW c \in Caller, FollowUp(c) \/ (Steer(c) /\ ~op[c].saw)
       PROVE  SteerInv'
  <2>1. op[c].arg \in Msg /\ fate[op[c].arg] = "sending"
    BY <1>3, <1>12 DEF FollowUp, Steer
  <2>2. steerQ' = steerQ
    BY <1>12 DEF FollowUp, Steer
  <2>3. \A m \in Msg : m /= op[c].arg => fate'[m] = fate[m]
    BY <1>1, <1>12, <2>1 DEF FollowUp, Steer, SubmitFrom, Claim
  <2> QED
    BY <1>4, <2>1, <2>2, <2>3 DEF Steering
<1>13. CASE UNCHANGED <<steerQ, fate>>
  BY <1>4, <1>13
<1>14. ASSUME NEW c \in Caller, Steer(c) PROVE SteerInv'
  BY <1>6, <1>12, <1>14
<1> QED
  BY <1>5, <1>7, <1>8, <1>9, <1>10, <1>11, <1>12, <1>14, <1>13
     DEF Next, TurnStep, CallerStep, vars, queueVars, StartRun, AwaitPause,
      Unpause, Stream, Settle, Finish, Continue, JudgeRefuses, StopRead,
      Cancel, PauseRead,
      Pause, SwapRead, Swap, ResumeTurn

(* Likewise the follow-up queue.                                           *)
LEMMA FollowStep == IInv /\ [Next]_vars => FollowInv'
<1> SUFFICES ASSUME IInv, [Next]_vars PROVE FollowInv'
  OBVIOUS
<1>0. TypeOK /\ CallsInv /\ SteerInv /\ FollowInv /\ CarryInv
  BY DEF IInv
<1>1. followQ \in Seq(Msg) /\ fate \in [Msg -> Fate]
  BY <1>0 DEF TypeOK
<1>2. /\ \A i \in 1 .. Len(followQ) : followQ[i] \in Msg /\ fate[followQ[i]] = "queued"
      /\ \A i, j \in 1 .. Len(followQ) : followQ[i] = followQ[j] => i = j
  BY <1>0, <1>1, Elements DEF FollowInv
<1>3. \A c \in Caller : op[c].kind \in {"follow", "steer"} =>
        op[c].arg \in Msg /\ fate[op[c].arg] = "sending"
  BY <1>0 DEF CallsInv, Sending
(* What leaves the queue and its messages alone.                           *)
<1>4. ASSUME followQ' = followQ, \A m \in Msg : fate[m] = "queued" => fate'[m] = fate[m]
      PROVE  FollowInv'
  <2>1. \A i \in 1 .. Len(followQ) : fate'[followQ[i]] = fate[followQ[i]]
    BY <1>2, <1>4
  <2> QED
    BY <1>2, <1>4, <2>1 DEF FollowInv
<1>5. ASSUME NEW t \in Msg, DrainFollowUp(t) PROVE FollowInv'
  <2>1. CASE UNCHANGED <<followQ, fate>>
    BY <1>4, <2>1
  <2>2. CASE followQ /= <<>> /\ followQ' = Tail(followQ)
    <3>1. /\ \A i, j \in 1 .. Len(followQ') : followQ'[i] = followQ'[j] => i = j
          /\ \A i \in 1 .. Len(followQ') : \E j \in 1 .. Len(followQ) :
               followQ'[i] = followQ[j] /\ followQ[j] /= Head(followQ)
      BY <1>1, <1>2, <2>2, TailKeeps
    <3>2. \A m \in Msg : m /= Head(followQ) => fate'[m] = fate[m]
      BY <1>0, <1>1, <1>5, DrainEffect
    <3>3. \A i \in 1 .. Len(followQ') : fate'[followQ'[i]] = "queued"
      <4>1. TAKE i \in 1 .. Len(followQ')
      <4>2. PICK j \in 1 .. Len(followQ) :
              followQ'[i] = followQ[j] /\ followQ[j] /= Head(followQ)
        BY <3>1
      <4>3. fate'[followQ[j]] = fate[followQ[j]]
        BY <1>2, <3>2, <4>2
      <4> QED
        BY <1>2, <4>2, <4>3
    <3> QED
      BY <3>1, <3>3 DEF FollowInv
  <2> QED
    BY <1>0, <1>5, DrainEffect, <2>1, <2>2
<1>6. ASSUME NEW c \in Caller, FollowUp(c), op[c].saw PROVE FollowInv'
  <2>1. op[c].arg \in Msg /\ fate[op[c].arg] = "sending"
    BY <1>3, <1>6 DEF FollowUp
  <2>2. \A i \in 1 .. Len(followQ) : followQ[i] /= op[c].arg
    BY <1>2, <2>1
  <2>3. followQ' = Append(followQ, op[c].arg)
    BY <1>6 DEF FollowUp
  <2>4. /\ \A i, j \in 1 .. Len(followQ') : followQ'[i] = followQ'[j] => i = j
        /\ \A i \in 1 .. Len(followQ') : \/ followQ'[i] = op[c].arg
               \/ \E j \in 1 .. Len(followQ) : followQ'[i] = followQ[j]
    BY <1>1, <1>2, <2>1, <2>2, <2>3, AppendKeeps
  <2>5. /\ \A m \in Msg : m /= op[c].arg => fate'[m] = fate[m]
        /\ fate'[op[c].arg] = "queued"
    BY <1>1, <1>6, <2>1 DEF FollowUp
  <2>6. \A i \in 1 .. Len(followQ') : fate'[followQ'[i]] = "queued"
    <3>1. TAKE i \in 1 .. Len(followQ')
    <3>2. CASE followQ'[i] = op[c].arg
      BY <2>5, <3>2
    <3>3. ASSUME NEW j \in 1 .. Len(followQ), followQ'[i] = followQ[j]
          PROVE  fate'[followQ'[i]] = "queued"
      <4>1. fate'[followQ[j]] = fate[followQ[j]]
        BY <1>2, <2>2, <2>5
      <4> QED
        BY <1>2, <3>3, <4>1
    <3> QED
      BY <2>4, <3>2, <3>3
  <2> QED
    BY <2>4, <2>6 DEF FollowInv
<1>7. ASSUME NEW t \in Msg, EndRun(t) \/ Panic(t) PROVE FollowInv'
  <2>1. \A m \in Msg : fate[m] = "queued" => fate'[m] = fate[m]
    BY <1>0, <1>7, ClearEffect DEF Steering
  <2>2. followQ' = followQ
    BY <1>7 DEF EndRun, Panic
  <2> QED
    BY <1>4, <2>1, <2>2
<1>8. ASSUME NEW t \in Msg, Step(t) PROVE FollowInv'
  <2>1. followQ' = followQ
    BY <1>8 DEF Step
  <2>2. \A m \in Msg : fate[m] = "queued" => fate'[m] = fate[m]
    BY <1>0, <1>1, <1>8, HeardEffect DEF Steering
  <2> QED
    BY <1>4, <2>1, <2>2
<1>9. ASSUME NEW m \in Msg, Submit(m) \/ RunTurn(m) PROVE FollowInv'
  BY <1>1, <1>4, <1>9 DEF Submit, RunTurn, Claim, queueVars
<1>10. ASSUME NEW t \in Msg, Resubmit(t) PROVE FollowInv'
  <2>1. carry[t] \in Msg /\ fate[carry[t]] = "drained"
    BY <1>0, <1>10 DEF Resubmit, CarryInv, Resubmits
  <2>2. followQ' = followQ
    BY <1>10 DEF Resubmit, queueVars
  <2>3. \A m \in Msg : m /= carry[t] => fate'[m] = fate[m]
    BY <1>1, <1>10, <2>1 DEF Resubmit, SubmitFrom, Claim
  <2> QED
    BY <1>4, <2>1, <2>2, <2>3
<1>11. ASSUME NEW c \in Caller, NEW m \in Msg,
              NEW k \in {"follow", "steer"}, SendRead(c, k, m)
       PROVE  FollowInv'
  BY <1>1, <1>4, <1>11 DEF SendRead, queueVars
<1>12. ASSUME NEW c \in Caller, Steer(c) \/ (FollowUp(c) /\ ~op[c].saw)
       PROVE  FollowInv'
  <2>1. op[c].arg \in Msg /\ fate[op[c].arg] = "sending"
    BY <1>3, <1>12 DEF FollowUp, Steer
  <2>2. followQ' = followQ
    BY <1>12 DEF FollowUp, Steer
  <2>3. \A m \in Msg : m /= op[c].arg => fate'[m] = fate[m]
    BY <1>1, <1>12, <2>1 DEF FollowUp, Steer, SubmitFrom, Claim
  <2> QED
    BY <1>4, <2>1, <2>2, <2>3
<1>13. CASE UNCHANGED <<followQ, fate>>
  BY <1>4, <1>13
<1>14. ASSUME NEW c \in Caller, FollowUp(c) PROVE FollowInv'
  BY <1>6, <1>12, <1>14
<1> QED
  BY <1>5, <1>7, <1>8, <1>9, <1>10, <1>11, <1>12, <1>14, <1>13
     DEF Next, TurnStep, CallerStep, vars, queueVars, StartRun, AwaitPause,
      Unpause, Stream, Settle, Finish, Continue, JudgeRefuses, StopRead,
      Cancel, PauseRead,
      Pause, SwapRead, Swap, ResumeTurn

(* A turn resubmits what it alone has drained.                             *)
LEMMA CarryStep == IInv /\ [Next]_vars => CarryInv'
<1> SUFFICES ASSUME IInv, [Next]_vars PROVE CarryInv'
  OBVIOUS
<1>0. TypeOK /\ CallsInv /\ SteerInv /\ FollowInv /\ CarryInv
  BY DEF IInv
<1>1. /\ pc \in [Msg -> PC] /\ carry \in [Msg -> Msg \cup {None}]
      /\ fate \in [Msg -> Fate]
  BY <1>0 DEF TypeOK
<1>2. /\ \A t \in Msg : pc[t] = "resubmit" =>
           carry[t] \in Msg /\ fate[carry[t]] = "drained"
      /\ \A t, u \in Msg : pc[t] = "resubmit" /\ pc[u] = "resubmit"
           /\ carry[t] = carry[u] => t = u
  BY <1>0 DEF CarryInv, Resubmits
(* What leaves the turns that resubmit and their prompts alone.            *)
<1>3. ASSUME carry' = carry,
             \A t \in Msg : pc'[t] = "resubmit" => pc[t] = "resubmit",
             \A m \in Msg : fate[m] = "drained" => fate'[m] = fate[m]
      PROVE  CarryInv'
  BY <1>2, <1>3 DEF CarryInv, Resubmits
<1>4. ASSUME NEW t \in Msg, DrainFollowUp(t) PROVE CarryInv'
  <2>1. CASE UNCHANGED <<carry, fate>> /\ pc' = [pc EXCEPT ![t] = "gone"]
    BY <1>1, <1>3, <2>1
  <2>2. CASE /\ Head(followQ) \in Msg /\ fate[Head(followQ)] = "queued"
             /\ fate' = [fate EXCEPT ![Head(followQ)] = "drained"]
             /\ carry' = [carry EXCEPT ![t] = Head(followQ)]
             /\ pc' = [pc EXCEPT ![t] = "resubmit"]
    <3>1. \A u \in Msg \ {t} : pc'[u] = pc[u] /\ carry'[u] = carry[u]
      BY <1>1, <2>2
    <3>2. carry'[t] = Head(followQ) /\ fate'[Head(followQ)] = "drained"
      BY <1>1, <2>2
    <3>3. \A m \in Msg \ {Head(followQ)} : fate'[m] = fate[m]
      BY <1>1, <2>2
    <3>4. \A u \in Msg \ {t} : pc'[u] = "resubmit" =>
            carry'[u] \in Msg \ {Head(followQ)} /\ fate'[carry'[u]] = "drained"
      BY <1>2, <2>2, <3>1, <3>3
    <3> QED
      BY <1>2, <2>2, <3>1, <3>2, <3>4 DEF CarryInv, Resubmits
  <2> QED
    BY <1>0, <1>4, <2>1, <2>2, DrainEffect
<1>5. ASSUME NEW t \in Msg, Resubmit(t) PROVE CarryInv'
  <2>1. carry[t] \in Msg /\ fate[carry[t]] = "drained" /\ pc[t] = "resubmit"
    BY <1>2, <1>5 DEF Resubmit
  <2>2. \A m \in Msg : m /= carry[t] => fate'[m] = fate[m]
    BY <1>1, <1>5, <2>1 DEF Resubmit, SubmitFrom, Claim
  <2>3. \A u \in Msg : pc'[u] = "resubmit" => u /= t /\ pc[u] = "resubmit"
    BY <1>1, <1>5, <2>1 DEF Resubmit, SubmitFrom, Claim
  <2>4. \A u \in Msg : u /= t => carry'[u] = carry[u]
    BY <1>1, <1>5 DEF Resubmit
  <2> QED
    BY <1>2, <2>1, <2>2, <2>3, <2>4 DEF CarryInv, Resubmits
<1>6. ASSUME NEW t \in Msg, Step(t) PROVE CarryInv'
  <2>1. \A m \in Msg : fate[m] = "drained" => fate'[m] = fate[m]
    BY <1>0, <1>1, <1>6, HeardEffect DEF Steering
  <2> QED
    BY <1>1, <1>3, <1>6, <2>1 DEF Step, Goto
<1>7. ASSUME NEW t \in Msg, EndRun(t) \/ Panic(t) PROVE CarryInv'
  <2>1. \A m \in Msg : fate[m] = "drained" => fate'[m] = fate[m]
    BY <1>0, <1>7, ClearEffect DEF Steering
  <2> QED
    BY <1>1, <1>3, <1>7, <2>1 DEF EndRun, Panic, Goto
<1>8. ASSUME NEW t \in Msg,
             \/ StartRun(t) \/ AwaitPause(t) \/ Unpause(t) \/ Stream(t)
             \/ Settle(t) \/ Finish(t) \/ Continue(t) \/ JudgeRefuses(t)
      PROVE  CarryInv'
  <2>1. carry' = carry /\ fate' = fate
    BY <1>8 DEF StartRun, AwaitPause, Unpause, Stream, Settle, Finish,
      Continue, JudgeRefuses
  <2>2. \E l \in PC \ {"resubmit"} : pc' = [pc EXCEPT ![t] = l]
    BY <1>8 DEF StartRun, AwaitPause, Unpause, Stream, Settle, Finish,
        Continue, JudgeRefuses, Goto, PC, Active
  <2> QED
    BY <1>1, <1>3, <2>1, <2>2
<1>9. ASSUME NEW m \in Msg, Submit(m) \/ RunTurn(m) PROVE CarryInv'
  BY <1>1, <1>3, <1>9 DEF Submit, RunTurn, Claim
<1>10. ASSUME NEW c \in Caller, FollowUp(c) \/ Steer(c) PROVE CarryInv'
  <2>1. op[c].arg \in Msg /\ fate[op[c].arg] = "sending"
    BY <1>0, <1>10 DEF FollowUp, Steer, CallsInv, Sending
  <2> QED
    BY <1>1, <1>3, <1>10, <2>1 DEF FollowUp, Steer, SubmitFrom, Claim
<1>11. ASSUME NEW c \in Caller, NEW m \in Msg,
              NEW k \in {"follow", "steer"}, SendRead(c, k, m)
       PROVE  CarryInv'
  BY <1>1, <1>3, <1>11 DEF SendRead, turnVars
<1>12. CASE UNCHANGED <<pc, carry, fate>>
  BY <1>3, <1>12
<1> QED
  BY <1>4, <1>5, <1>6, <1>7, <1>8, <1>9, <1>10, <1>11, <1>12
     DEF Next, TurnStep, CallerStep, vars, turnVars, StopRead, Cancel,
      PauseRead, Pause, SwapRead, Swap, ResumeTurn

(* A run goes to its close with an empty queue and is alone until it ends. *)
LEMMA LateStep == IInv /\ [Next]_vars => LateInv'
<1> SUFFICES ASSUME IInv, [Next]_vars PROVE LateInv'
  OBVIOUS
<1>0. TypeOK /\ LateInv /\ OneTurn /\ CallsInv /\ SteerInv /\ FollowInv /\ CarryInv
  BY DEF IInv
<1> USE <1>0 DEF TypeOK, LateInv, OneTurn, Busy, Active, SteerInv, Steering,
      CallsInv, Sending, FollowInv, CarryInv, Resubmits, ctlVars, turnVars,
      queueVars, pauseVars, sessVars
<1>1. CASE UNCHANGED <<pc, steerQ, fate>>
  BY <1>1
<1>2. ASSUME NEW t \in Msg, StartRun(t) PROVE LateInv'
  BY <1>2 DEF StartRun, Goto, Writes
<1>3. ASSUME NEW t \in Msg, AwaitPause(t) PROVE LateInv'
  BY <1>3 DEF AwaitPause, Goto
<1>4. ASSUME NEW t \in Msg, Unpause(t) PROVE LateInv'
  BY <1>4 DEF Unpause, Goto
<1>5. ASSUME NEW t \in Msg, Step(t) PROVE LateInv'
  BY <1>5 DEF Step, Goto, OneTurn, Busy, Active
<1>6. ASSUME NEW t \in Msg, Stream(t) PROVE LateInv'
  BY <1>6 DEF Stream, Goto, Writes
<1>7. ASSUME NEW t \in Msg, Settle(t) PROVE LateInv'
  BY <1>7 DEF Settle, Goto
<1>8. ASSUME NEW t \in Msg, EndRun(t) PROVE LateInv'
  BY <1>8, ClearEffect DEF EndRun, Goto
<1>9. ASSUME NEW t \in Msg, Finish(t) PROVE LateInv'
  BY <1>9 DEF Finish, Goto
<1>10. ASSUME NEW t \in Msg, DrainFollowUp(t) PROVE LateInv'
  BY <1>10 DEF DrainFollowUp, Goto
<1>11. ASSUME NEW t \in Msg, Resubmit(t) PROVE LateInv'
  BY <1>11 DEF Resubmit, SubmitFrom, Claim
<1>12. ASSUME NEW t \in Msg, Continue(t) \/ JudgeRefuses(t) PROVE LateInv'
  BY <1>12 DEF Continue, JudgeRefuses, Goto
<1>13. ASSUME NEW t \in Msg, Panic(t) PROVE LateInv'
  BY <1>13, ClearEffect DEF Panic, Goto
<1>14. ASSUME NEW t \in Msg, Submit(t) PROVE LateInv'
  BY <1>14 DEF Submit, Claim
<1>15. ASSUME NEW t \in Msg, RunTurn(t) PROVE LateInv'
  BY <1>15 DEF RunTurn, Claim
<1>16. ASSUME NEW c \in Caller, NEW m \in Msg,
             NEW k \in {"follow", "steer"}, SendRead(c, k, m)
      PROVE LateInv'
  BY <1>16 DEF SendRead, Enter
<1>17. ASSUME NEW c \in Caller, FollowUp(c) PROVE LateInv'
  BY <1>17 DEF FollowUp, Leave, SubmitFrom, Claim
<1>18. ASSUME NEW c \in Caller, Steer(c) PROVE LateInv'
  <2>1. op[c].arg \in Msg /\ fate[op[c].arg] = "sending"
    BY <1>18 DEF Steer
  <2>2. \A i \in 1 .. Len(steerQ) : steerQ[i] \in Msg /\ steerQ[i] /= op[c].arg
    BY <2>1, Elements
  <2>3. CASE op[c].saw
    <3>1. /\ pc' = pc /\ steerQ' = Append(steerQ, op[c].arg)
          /\ \A m \in Msg : m /= op[c].arg => fate'[m] = fate[m]
          /\ (\E t \in Msg : pc[t] = "closing")
                => fate'[op[c].arg] = "steeringLate"
      BY <1>18, <2>1, <2>3 DEF Steer
    <3>2. \A i \in 1 .. Len(steerQ') : \/ steerQ'[i] = op[c].arg
             \/ \E j \in 1 .. Len(steerQ) : steerQ'[i] = steerQ[j]
      <4>1. steerQ \in Seq(Msg) /\ op[c].arg \in Msg
        BY <2>1
      <4>2. \A i, j \in 1 .. Len(steerQ) : steerQ[i] = steerQ[j] => i = j
        OBVIOUS
      <4>3. \A i \in 1 .. Len(steerQ) : steerQ[i] /= op[c].arg
        BY <2>2
      <4> HIDE <1>0
      <4> QED
        BY <3>1, <4>1, <4>2, <4>3, AppendKeeps
    <3>3. ASSUME NEW t \in Msg, pc'[t] = "closing", NEW i \in 1 .. Len(steerQ')
          PROVE  fate'[steerQ'[i]] = "steeringLate"
      <4>1. \A j \in 1 .. Len(steerQ) : fate'[steerQ[j]] = "steeringLate"
        BY <2>2, <3>1, <3>3
      <4>2. fate'[op[c].arg] = "steeringLate"
        BY <3>1, <3>3
      <4> HIDE <1>0
      <4> QED
        BY <3>2, <4>1, <4>2
    <3> QED
      BY <3>3
  <2>4. CASE ~op[c].saw
    BY <1>18, <2>1, <2>2, <2>4 DEF Steer, SubmitFrom, Claim
  <2> QED
    BY <2>3, <2>4
<1> HIDE DEF TypeOK, LateInv, OneTurn, CallsInv, SteerInv, FollowInv, CarryInv
<1> QED
  BY <1>1, <1>2, <1>3, <1>4, <1>5, <1>6, <1>7, <1>8, <1>9, <1>10, <1>11,
      <1>12, <1>13, <1>14, <1>15, <1>16, <1>17, <1>18
     DEF Next, TurnStep, CallerStep, vars, StopRead, Enter, Cancel, Leave,
      PauseRead, Pause, SwapRead, Swap, ResumeTurn

(* So a run that ends with an answer drops late steers only.               *)
LEMMA HeardStep == IInv /\ [Next]_vars => SteerInTimeIsHeard'
<1> SUFFICES ASSUME IInv, [Next]_vars PROVE SteerInTimeIsHeard'
  OBVIOUS
<1>0. TypeOK /\ SteerInTimeIsHeard /\ LateInv
  BY DEF IInv
<1> USE <1>0 DEF TypeOK, SteerInTimeIsHeard, LateInv, ctlVars, turnVars,
      queueVars, pauseVars, sessVars
<1>1. CASE UNCHANGED fate
  BY <1>1
<1>2. ASSUME NEW t \in Msg, Step(t) PROVE SteerInTimeIsHeard'
  BY <1>2 DEF Step, Goto, Writes
<1>3. ASSUME NEW t \in Msg, EndRun(t) PROVE SteerInTimeIsHeard'
  BY <1>3 DEF EndRun, Goto, ClearSteerQueue, Dropped
<1>4. ASSUME NEW t \in Msg, DrainFollowUp(t) PROVE SteerInTimeIsHeard'
  BY <1>4 DEF DrainFollowUp, Goto
<1>5. ASSUME NEW t \in Msg, Resubmit(t) PROVE SteerInTimeIsHeard'
  BY <1>5 DEF Resubmit, SubmitFrom, Claim
<1>6. ASSUME NEW t \in Msg, Panic(t) PROVE SteerInTimeIsHeard'
  BY <1>6 DEF Panic, Goto
<1>7. ASSUME NEW t \in Msg, Submit(t) PROVE SteerInTimeIsHeard'
  BY <1>7 DEF Submit, Claim
<1>8. ASSUME NEW t \in Msg, RunTurn(t) PROVE SteerInTimeIsHeard'
  BY <1>8 DEF RunTurn, Claim
<1>9. ASSUME NEW c \in Caller, NEW m \in Msg,
             NEW k \in {"follow", "steer"}, SendRead(c, k, m)
      PROVE SteerInTimeIsHeard'
  BY <1>9 DEF SendRead, Enter
<1>10. ASSUME NEW c \in Caller, FollowUp(c) PROVE SteerInTimeIsHeard'
  BY <1>10 DEF FollowUp, Leave, SubmitFrom, Claim
<1>11. ASSUME NEW c \in Caller, Steer(c) PROVE SteerInTimeIsHeard'
  BY <1>11 DEF Steer, Leave, SubmitFrom, Claim
<1> QED
  BY <1>1, <1>2, <1>3, <1>4, <1>5, <1>6, <1>7, <1>8, <1>9, <1>10, <1>11
     DEF Next, TurnStep, CallerStep, vars, StartRun, Goto, Writes, AwaitPause,
      Unpause, Stream, Settle, Finish, Continue, JudgeRefuses, StopRead, Enter,
      Cancel,
      Leave, PauseRead, Pause, SwapRead, Swap, ResumeTurn

(* The flag is set by the turn that blocks and cleared when it unblocks.   *)
LEMMA PauseStep == IInv /\ [Next]_vars => PauseInv'
<1> SUFFICES ASSUME IInv, [Next]_vars PROVE PauseInv'
  OBVIOUS
<1>0. TypeOK /\ PauseInv /\ OneTurn
  BY DEF IInv
<1> USE <1>0 DEF TypeOK, PauseInv, OneTurn, Busy, Active, ctlVars, turnVars,
      queueVars, pauseVars, sessVars
<1>1. CASE UNCHANGED <<paused, pc>>
  BY <1>1
<1>2. ASSUME NEW t \in Msg, StartRun(t) PROVE PauseInv'
  BY <1>2 DEF StartRun, Goto, Writes
<1>3. ASSUME NEW t \in Msg, AwaitPause(t) PROVE PauseInv'
  BY <1>3 DEF AwaitPause, Goto
<1>4. ASSUME NEW t \in Msg, Unpause(t) PROVE PauseInv'
  BY <1>4 DEF Unpause, Goto
<1>5. ASSUME NEW t \in Msg, Step(t) PROVE PauseInv'
  BY <1>5 DEF Step, Goto, Writes
<1>6. ASSUME NEW t \in Msg, Stream(t) PROVE PauseInv'
  BY <1>6 DEF Stream, Goto, Writes
<1>7. ASSUME NEW t \in Msg, Settle(t) PROVE PauseInv'
  BY <1>7 DEF Settle, Goto
<1>8. ASSUME NEW t \in Msg, EndRun(t) PROVE PauseInv'
  BY <1>8 DEF EndRun, Goto, ClearSteerQueue, Dropped
<1>9. ASSUME NEW t \in Msg, Finish(t) PROVE PauseInv'
  BY <1>9 DEF Finish, Goto
<1>10. ASSUME NEW t \in Msg, DrainFollowUp(t) PROVE PauseInv'
  BY <1>10 DEF DrainFollowUp, Goto
<1>11. ASSUME NEW t \in Msg, Resubmit(t) PROVE PauseInv'
  BY <1>11 DEF Resubmit, SubmitFrom, Claim
<1>12. ASSUME NEW t \in Msg, Continue(t) \/ JudgeRefuses(t) PROVE PauseInv'
  BY <1>12 DEF Continue, JudgeRefuses, Goto
<1>13. ASSUME NEW t \in Msg, Panic(t) PROVE PauseInv'
  BY <1>13 DEF Panic, Goto
<1>14. ASSUME NEW t \in Msg, Submit(t) PROVE PauseInv'
  BY <1>14 DEF Submit, Claim
<1>15. ASSUME NEW t \in Msg, RunTurn(t) PROVE PauseInv'
  BY <1>15 DEF RunTurn, Claim
<1>16. ASSUME NEW c \in Caller, FollowUp(c) PROVE PauseInv'
  BY <1>16 DEF FollowUp, Leave, SubmitFrom, Claim
<1>17. ASSUME NEW c \in Caller, Steer(c) PROVE PauseInv'
  BY <1>17 DEF Steer, Leave, SubmitFrom, Claim
<1> QED
  BY <1>1, <1>2, <1>3, <1>4, <1>5, <1>6, <1>7, <1>8, <1>9, <1>10, <1>11,
      <1>12, <1>13, <1>14, <1>15, <1>16, <1>17
     DEF Next, TurnStep, CallerStep, vars, SendRead, Enter, StopRead, Cancel,
      Leave, PauseRead, Pause, SwapRead, Swap, ResumeTurn

THEOREM Inductive == Spec => []IInv
<1>1. Init => IInv
  BY InitHolds
<1>2. IInv /\ [Next]_vars => IInv'
  BY TypeStep, OneTurnStep, CallsStep, SteerStep, FollowStep, CarryStep,
     LateStep, HeardStep, PauseStep DEF IInv
<1> QED
  BY <1>1, <1>2, PTL DEF Spec

(* Type correctness of the controller's and the agent's fields.            *)
THEOREM TypeCorrect == Spec => []TypeOK
  BY Inductive, PTL DEF IInv

(* However many frontends call in, one turn runs at a time, running says   *)
(* so, and Stop reaches that turn.                                         *)
THEOREM OneTurnAtATime == Spec => []OneTurn
  BY Inductive, PTL DEF IInv

(* No run that ends with an answer drops a steer queued before the answer. *)
THEOREM SteersAreHeard == Spec => []SteerInTimeIsHeard
  BY Inductive, PTL DEF IInv

(* No message is taken up twice.                                           *)
THEOREM NothingRunsTwice == Spec => FatesAreFinal
<1>1. IInv /\ [Next]_vars
        => [\A m \in Msg : fate[m] \in Final => fate'[m] = fate[m]]_fate
  <2> SUFFICES ASSUME IInv, [Next]_vars, NEW m \in Msg, fate[m] \in Final
               PROVE  fate'[m] = fate[m]
    OBVIOUS
  <2>0. TypeOK /\ CallsInv /\ SteerInv /\ FollowInv /\ CarryInv
    BY DEF IInv
  <2>1. fate \in [Msg -> Fate]
    BY <2>0 DEF TypeOK
  <2> USE <2>1 DEF Final
  <2>2. ASSUME NEW t \in Msg, Step(t) PROVE fate'[m] = fate[m]
    BY <2>0, <2>2, HeardEffect DEF Steering
  <2>3. ASSUME NEW t \in Msg, EndRun(t) \/ Panic(t) PROVE fate'[m] = fate[m]
    BY <2>0, <2>3, ClearEffect DEF Steering
  <2>4. ASSUME NEW t \in Msg, DrainFollowUp(t) PROVE fate'[m] = fate[m]
    BY <2>0, <2>4, DrainEffect
  <2>5. ASSUME NEW t \in Msg, Resubmit(t) PROVE fate'[m] = fate[m]
    BY <2>0, <2>5 DEF Resubmit, SubmitFrom, Claim, CarryInv, Resubmits
  <2>6. ASSUME NEW t \in Msg, Submit(t) \/ RunTurn(t) PROVE fate'[m] = fate[m]
    BY <2>6 DEF Submit, RunTurn, Claim
  <2>7. ASSUME NEW c \in Caller, NEW u \in Msg, NEW k \in {"follow", "steer"},
               SendRead(c, k, u)
        PROVE  fate'[m] = fate[m]
    BY <2>7 DEF SendRead
  <2>8. ASSUME NEW c \in Caller, FollowUp(c) \/ Steer(c)
        PROVE  fate'[m] = fate[m]
    <3>1. op[c].arg \in Msg /\ fate[op[c].arg] = "sending"
      BY <2>0, <2>8 DEF CallsInv, Sending, FollowUp, Steer
    <3> QED
      BY <2>8, <3>1 DEF FollowUp, Steer, SubmitFrom, Claim
  <2>9. CASE UNCHANGED fate
    BY <2>9
  <2> QED
    BY <2>2, <2>3, <2>4, <2>5, <2>6, <2>7, <2>8, <2>9
       DEF Next, TurnStep, CallerStep, vars, StartRun, AwaitPause, Unpause,
        Stream, Settle, Finish, Continue, JudgeRefuses, StopRead, Cancel,
        PauseRead, Pause,
        SwapRead, Swap, ResumeTurn
<1> QED
  BY <1>1, Inductive, PTL DEF Spec, FatesAreFinal

(* While the agent reports a pause, nothing is written, heard or opened.   *)
THEOREM PauseFreezes == Spec => FrozenWhilePaused
<1> DEFINE A == paused /\ paused' =>
                  /\ wrote' = wrote
                  /\ Len(steerQ') >= Len(steerQ)
                  /\ \A m \in Msg : fate'[m] = "turn" => fate[m] = "turn"
<1>1. IInv /\ [Next]_vars => [A]_vars
  <2> SUFFICES ASSUME IInv, [Next]_vars, paused, paused' PROVE A
    OBVIOUS
  <2>0. TypeOK /\ OneTurn /\ PauseInv /\ CallsInv
    BY DEF IInv
  <2>1. PICK u \in Msg : pc[u] = "paused"
    BY <2>0 DEF PauseInv
  <2>2. running /\ \A t \in Msg : pc[t] \in Active => t = u
    BY <2>0, <2>1 DEF OneTurn, Busy, Active
  <2>3. Len(steerQ) \in Nat /\ \A m \in Msg : Len(Append(steerQ, m)) = Len(steerQ) + 1
    BY <2>0, Appended DEF TypeOK
  <2>4. fate \in [Msg -> Fate]
    BY <2>0 DEF TypeOK
  <2>5. ASSUME NEW t \in Msg, TurnStep(t) \/ Continue(t) \/ JudgeRefuses(t) \/ Panic(t) PROVE A
    <3>1. ~(\/ StartRun(t) \/ Step(t) \/ Stream(t) \/ EndRun(t) \/ Panic(t))
      BY <2>1, <2>2 DEF StartRun, Step, Stream, EndRun, Panic, Active
    <3>2. CASE UNCHANGED <<wrote, steerQ, fate>>
      BY <2>3, <3>2
    <3>3. CASE DrainFollowUp(t)
      BY <2>3, <2>4, <3>3 DEF DrainFollowUp, pauseVars, sessVars
    <3>4. CASE Resubmit(t)
      BY <2>2, <2>3, <2>4, <3>4 DEF Resubmit, SubmitFrom, queueVars, sessVars
    <3> QED
      BY <2>5, <3>1, <3>2, <3>3, <3>4
         DEF TurnStep, AwaitPause, Unpause, Settle, Finish, Continue, JudgeRefuses,
          queueVars, sessVars
  <2>6. ASSUME NEW m \in Msg, Submit(m) \/ RunTurn(m) PROVE A
    BY <2>2, <2>6 DEF Submit, RunTurn
  <2>7. ASSUME NEW c \in Caller, CallerStep(c) PROVE A
    <3>1. CASE UNCHANGED <<wrote, steerQ, fate>>
      BY <2>3, <3>1
    <3>2. CASE \E m \in Msg, k \in {"follow", "steer"} : SendRead(c, k, m)
      BY <2>3, <2>4, <3>2 DEF SendRead, queueVars, sessVars
    <3>3. CASE FollowUp(c) \/ Steer(c)
      <4>1. op[c].arg \in Msg
        BY <2>0, <3>3 DEF CallsInv, Sending, FollowUp, Steer
      <4> QED
        BY <2>2, <2>3, <2>4, <3>3, <4>1
           DEF FollowUp, Steer, SubmitFrom, sessVars
    <3> QED
      BY <2>7, <3>1, <3>2, <3>3
         DEF CallerStep, StopRead, Cancel, PauseRead, Pause, SwapRead, Swap,
          queueVars, sessVars
  <2>8. CASE ResumeTurn \/ UNCHANGED vars
    BY <2>3, <2>8 DEF ResumeTurn, vars, queueVars, sessVars
  <2> QED
    BY <2>5, <2>6, <2>7, <2>8 DEF Next
<1> HIDE DEF A
<1>2. Spec => [][A]_vars
  BY <1>1, Inductive, PTL DEF Spec
<1> QED
  BY <1>2 DEF FrozenWhilePaused, A

(* A pause that holds has closed pauseCh, and only a run that starts opens *)
(* the channel again.                                                      *)
HeldInv == held => pauseReq

LEMMA HeldStep == HeldInv /\ [Next]_vars => HeldInv'
<1> SUFFICES ASSUME HeldInv, [Next]_vars PROVE HeldInv'
  OBVIOUS
<1>1. CASE UNCHANGED <<held, pauseReq>>
  BY <1>1 DEF HeldInv
<1>2. ASSUME NEW t \in Msg, StartRun(t) \/ EndRun(t) \/ Panic(t) PROVE HeldInv'
  BY <1>2 DEF HeldInv, StartRun, EndRun, Panic
<1>3. ASSUME NEW c \in Caller, Pause(c) PROVE HeldInv'
  BY <1>3 DEF HeldInv, Pause
<1>4. CASE ResumeTurn
  BY <1>4 DEF HeldInv, ResumeTurn
<1> QED
  BY <1>1, <1>2, <1>3, <1>4
     DEF Next, TurnStep, CallerStep, vars, pauseVars, AwaitPause, Unpause, Step,
      Stream, Settle, Finish, DrainFollowUp, Resubmit, Continue, JudgeRefuses,
      Submit, RunTurn,
      SendRead, FollowUp, Steer, StopRead, Cancel, PauseRead, SwapRead, Swap

(* A run that was paused takes no further step until it is resumed.        *)
THEOREM PauseHolds == Spec => FirstPauseHolds
<1> DEFINE A == \A t \in Msg : pc[t] \in {"top", "paused"} /\ pc'[t] = "steps"
                                => ~held \/ resumeReq
<1>1. IInv /\ HeldInv /\ [Next]_vars => [A]_vars
  <2> SUFFICES ASSUME IInv, HeldInv, [Next]_vars, NEW t \in Msg,
                      pc[t] \in {"top", "paused"}, pc'[t] = "steps"
               PROVE  ~held \/ resumeReq
    OBVIOUS
  <2>0. pc \in [Msg -> PC]
    BY DEF IInv, TypeOK
  <2>1. ASSUME NEW u \in Msg, AwaitPause(u) PROVE ~held \/ resumeReq
    BY <2>0, <2>1 DEF AwaitPause, Goto, HeldInv
  <2>2. ASSUME NEW u \in Msg, Unpause(u) PROVE ~held \/ resumeReq
    BY <2>0, <2>2 DEF Unpause, Goto
  <2>3. ASSUME NEW u \in Msg,
               \/ StartRun(u) \/ Step(u) \/ Stream(u) \/ Settle(u) \/ EndRun(u)
               \/ Finish(u) \/ DrainFollowUp(u) \/ Continue(u) \/ JudgeRefuses(u) \/ Panic(u)
        PROVE  FALSE
    BY <2>0, <2>3 DEF StartRun, Step, Stream, Settle, EndRun, Finish,
         DrainFollowUp, Continue, JudgeRefuses, Panic, Goto
  <2>4. ASSUME NEW u \in Msg, Resubmit(u) \/ Submit(u) \/ RunTurn(u) PROVE FALSE
    BY <2>0, <2>4 DEF Resubmit, Submit, RunTurn, SubmitFrom, Claim
  <2>5. ASSUME NEW c \in Caller, FollowUp(c) \/ Steer(c) PROVE FALSE
    BY <2>0, <2>5 DEF FollowUp, Steer, SubmitFrom, Claim, turnVars
  <2>6. CASE UNCHANGED pc
    BY <2>6
  <2> QED
    BY <2>1, <2>2, <2>3, <2>4, <2>5, <2>6
       DEF Next, TurnStep, CallerStep, vars, turnVars, SendRead, StopRead, Cancel,
        PauseRead, Pause, SwapRead, Swap, ResumeTurn
<1>2. Init => HeldInv
  BY DEF Init, HeldInv
<1> HIDE DEF A
<1>3. Spec => [][A]_vars
  BY <1>1, <1>2, HeldStep, Inductive, PTL DEF Spec
<1> QED
  BY <1>3 DEF FirstPauseHolds, A
=============================================================================
