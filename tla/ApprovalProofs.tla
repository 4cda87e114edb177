--------------------------- MODULE ApprovalProofs ---------------------------
(***************************************************************************)
(* Proofs about who may run a tool, for any number of calls that ask.      *)
(***************************************************************************)
EXTENDS Approval, FiniteSetTheorems, TLAPS

Before == {"none", "start", "gate", "request", "queued"}

(* Where no reply is on its way to a call: it has not asked yet, or it has *)
(* the answer and may ask once more.                                       *)
Quiet == Before \cup {"planOff", "planExec", "planWindow", "executing"}

(* The call that waits is the one that holds promptMu, and only its prompt *)
(* can be registered.                                                      *)
Prompts ==
    /\ \A c \in Call : pc[c] = "waiting" <=> promptMu = c
    /\ \A c \in pending : pc[c] = "waiting"

(* A call is owed at most one reply, none before its prompt is taken from  *)
(* the table, and none once one is in its channel.                         *)
Replies ==
    /\ \A c \in Call : c \in pending \/ pc[c] \in Quiet
           => inbox[c] = None /\ \A o \in owed : o.call /= c
    /\ \A o \in owed : /\ inbox[o.call] = None
                       /\ \A p \in owed : p.call = o.call => p = o

(* No mode switch answers a decision, and only tools go through the gate.  *)
Decided ==
    /\ \A c \in Call : inbox[c] = "drain" => tool[c] \notin Decision
    /\ \A o \in owed : o.reply = "drain" => tool[o.call] \notin Decision
    /\ \A c \in Call : pc[c] \in {"start", "gate"} => tool[c] \notin Decision
    /\ \A c \in Call : pc[c] \notin {"none", "ended"} => tool[c] /= None

IInv == TypeOK /\ Prompts /\ Replies /\ Decided /\ YoloLeavesNoPrompt

(* A call that does not wait has no prompt and does not hold the lock.     *)
LEMMA NotWaiting ==
    ASSUME IInv, NEW c \in Call, pc[c] /= "waiting"
    PROVE  c \notin pending /\ promptMu /= c
BY DEF IInv, Prompts

LEMMA AtCall ==
    ASSUME TypeOK, NEW c \in Call, NEW l, Goto(c, l)
    PROVE  /\ \A d \in Call : pc'[d] = IF d = c THEN l ELSE pc[d]
           /\ \A d \in Call : d /= c => tool'[d] = tool[d]
           /\ tool'[c] = CASE l = "ended"                    -> None
                             [] l \in {"executing", "leaving"} -> "plan"
                             [] OTHER                          -> tool[c]
           /\ l \in PC => pc' \in [Call -> PC]
           /\ tool' \in [Call -> Tool \cup {None}]
BY DEF TypeOK, Goto, Tool

(* A call takes a step of its own outside of its prompt.                   *)
LEMMA OwnStep ==
    ASSUME IInv, NEW c \in Call, NEW l \in PC \ {"waiting", "start", "leaving"}, Goto(c, l),
           pc[c] \notin {"none", "waiting", "ended"},
           l \in Quiet => pc[c] \in Quiet,
           l = "gate" => pc[c] = "start",
           UNCHANGED <<mode, askVars, ctxDone, inbox, owed>>
    PROVE  /\ Prompts' /\ Replies' /\ Decided' /\ YoloLeavesNoPrompt'
           /\ pc' \in [Call -> PC] /\ tool' \in [Call -> Tool \cup {None}]
           /\ ctxDone' \subseteq {d \in Call : pc'[d] = "waiting"}
<1> USE DEF askVars
<1>1. /\ \A d \in Call : pc'[d] = IF d = c THEN l ELSE pc[d]
      /\ \A d \in Call : d /= c => tool'[d] = tool[d]
      /\ tool'[c] = CASE l = "ended"                    -> None
                        [] l \in {"executing", "leaving"} -> "plan"
                        [] OTHER                          -> tool[c]
      /\ pc' \in [Call -> PC] /\ tool' \in [Call -> Tool \cup {None}]
  BY AtCall DEF IInv
<1>2. c \notin pending /\ promptMu /= c
  BY NotWaiting
<1>3. Prompts'
  BY <1>1, <1>2 DEF IInv, TypeOK, Prompts
<1>4. Replies'
  BY <1>1, <1>2 DEF IInv, TypeOK, Replies
<1>5. Decided'
  <2>1. None \notin Decision /\ None /= "plan"
    BY NoneIsNothing DEF Decision, Tool
  <2>2. l = "executing" => inbox[c] = None /\ \A o \in owed : o.call /= c
    BY DEF IInv, Replies, Quiet
  <2>3. None /= "drain"
    BY NoneIsNothing DEF Reply
  <2>4. QED
    BY <1>1, <2>1, <2>2, <2>3 DEF IInv, TypeOK, Decided
<1>6. YoloLeavesNoPrompt'
  BY <1>1, <1>2 DEF IInv, TypeOK, YoloLeavesNoPrompt
<1>7. ctxDone' \subseteq {d \in Call : pc'[d] = "waiting"}
  BY <1>1 DEF IInv, TypeOK
<1>8. QED
  BY <1>1, <1>3, <1>4, <1>5, <1>6, <1>7

(* No call takes a step.                                                   *)
LEMMA CallsStay ==
    ASSUME IInv, UNCHANGED <<mode, askVars, callVars, inbox, owed>>
    PROVE  Prompts' /\ Replies' /\ Decided' /\ YoloLeavesNoPrompt'
BY DEF IInv, Prompts, Replies, Decided, YoloLeavesNoPrompt, askVars, callVars

LEMMA InitIInv == Init => IInv
<1> SUFFICES ASSUME Init PROVE IInv
  OBVIOUS
<1>1. TypeOK
  BY DEF Init, TypeOK, Mode, Gate, NoGate, NoSetter, SetterPC, Keep, PC
<1>2. Prompts
  BY NoneIsNothing DEF Init, Prompts
<1>3. Replies /\ Decided /\ YoloLeavesNoPrompt
  BY NoneIsNothing DEF Init, Replies, Decided, YoloLeavesNoPrompt, Reply
<1>4. QED
  BY <1>1, <1>2, <1>3 DEF IInv

LEMMA BeginIInv ==
    ASSUME IInv, NEW c \in Call, NEW t \in Tool, Begin(c, t)
    PROVE  IInv'
<1> USE DEF Begin
<1>1. /\ \A d \in Call : pc'[d] = IF d = c THEN IF t \in Decision THEN "request" ELSE "start"
                                  ELSE pc[d]
      /\ \A d \in Call : tool'[d] = IF d = c THEN t ELSE tool[d]
      /\ pc' \in [Call -> PC] /\ tool' \in [Call -> Tool \cup {None}]
  BY DEF IInv, TypeOK, PC
<1>2. c \notin pending /\ promptMu /= c
  BY NotWaiting
<1>3. TypeOK'
  BY <1>1 DEF IInv, TypeOK, ctlVars, askVars, execVars
<1>4. Prompts'
  BY <1>1, <1>2 DEF IInv, TypeOK, Prompts, askVars
<1>5. Replies'
  BY <1>1, <1>2 DEF IInv, TypeOK, Replies, Before, Quiet, askVars
<1>6. Decided'
  <2>1. inbox[c] = None /\ \A o \in owed : o.call /= c
    BY DEF IInv, Replies, Before, Quiet
  <2>2. QED
    BY <1>1, <2>1, NoneIsNothing DEF IInv, TypeOK, Decided, Reply
<1>7. YoloLeavesNoPrompt'
  BY <1>1, <1>2 DEF IInv, TypeOK, YoloLeavesNoPrompt, askVars, ctlVars
<1>8. QED
  BY <1>3, <1>4, <1>5, <1>6, <1>7 DEF IInv

LEMMA PromptIInv ==
    ASSUME IInv, NEW c \in Call, Prompt(c)
    PROVE  IInv'
<1> USE DEF Prompt
<1>1. CASE NoPrompt(tool[c])
  <2>1. /\ Prompts' /\ Replies' /\ Decided' /\ YoloLeavesNoPrompt'
        /\ pc' \in [Call -> PC] /\ tool' \in [Call -> Tool \cup {None}]
        /\ ctxDone' \subseteq {d \in Call : pc'[d] = "waiting"}
    BY <1>1, OwnStep DEF ctlVars, Before, Quiet, PC
  <2>2. TypeOK'
    BY <1>1, <2>1 DEF IInv, TypeOK, ctlVars, askVars, execVars
  <2>3. QED
    BY <2>1, <2>2 DEF IInv
<1>2. CASE ~NoPrompt(tool[c])
  <2> USE <1>2 DEF Register
  <2>1. /\ \A d \in Call : pc'[d] = IF d = c THEN "waiting" ELSE pc[d]
        /\ tool' = tool
        /\ pc' \in [Call -> PC]
    BY DEF IInv, TypeOK, Goto, PC
  <2>2. \A d \in Call : pc[d] /= "waiting"
    BY NoneIsNothing DEF IInv, Prompts
  <2>3. pending = {} /\ promptMu' = c /\ pending' = {c}
    BY <2>2 DEF IInv, TypeOK, Prompts
  <2>4. autoDrain' \subseteq pending'
    BY <2>3 DEF IInv, TypeOK
  <2>5. TypeOK'
    BY <2>1, <2>3, <2>4 DEF IInv, TypeOK, ctlVars, execVars
  <2>6. Prompts'
    BY <2>1, <2>2, <2>3 DEF Prompts
  <2>7. Replies'
    BY <2>1, <2>3 DEF IInv, TypeOK, Replies, Before, Quiet
  <2>8. Decided'
    BY <2>1 DEF IInv, TypeOK, Decided
  <2>9. YoloLeavesNoPrompt'
    BY <2>1, <2>3 DEF IInv, TypeOK, YoloLeavesNoPrompt, NoPrompt, Bypass, ctlVars
  <2>10. QED
    BY <2>5, <2>6, <2>7, <2>8, <2>9 DEF IInv
<1>3. QED
  BY <1>1, <1>2

(* A call leaves its prompt: it read a reply, or its context was done.     *)
LEMMA LeavePrompt ==
    ASSUME IInv, NEW c \in Call, NEW l \in PC \ (Before \cup {"waiting"}), Goto(c, l),
           pc[c] = "waiting",
           promptMu' = None,
           pending' = pending \ {c},
           \A d \in Call : d /= c => inbox'[d] = inbox[d],
           inbox'[c] \in {inbox[c], None},
           l \in Quiet => inbox'[c] = None /\ \A o \in owed : o.call /= c,
           l = "leaving" => tool[c] = "replan",
           UNCHANGED <<mode, owed>>
    PROVE  Prompts' /\ Replies' /\ Decided' /\ YoloLeavesNoPrompt'
<1>1. /\ \A d \in Call : pc'[d] = IF d = c THEN l ELSE pc[d]
      /\ \A d \in Call : d /= c => tool'[d] = tool[d]
      /\ tool'[c] = CASE l = "ended"                    -> None
                        [] l \in {"executing", "leaving"} -> "plan"
                        [] OTHER                          -> tool[c]
  BY AtCall DEF IInv
<1>2. \A d \in Call : pc'[d] /= "waiting"
  BY <1>1 DEF IInv, Prompts
<1>3. pending' = {}
  BY DEF IInv, TypeOK, Prompts
<1>4. Prompts'
  BY <1>2, <1>3, NoneIsNothing DEF Prompts
<1>5. Replies'
  BY <1>1, <1>3 DEF IInv, TypeOK, Replies
<1>6. Decided'
  <2>1. None \notin Decision /\ None /= "drain" /\ None /= "plan"
    BY NoneIsNothing DEF Decision, Tool, Reply
  <2>2. l = "leaving" => inbox[c] /= "drain" /\ \A o \in owed : o.call = c => o.reply /= "drain"
    BY DEF IInv, Decided, Decision
  <2>3. \A d \in Call : inbox'[d] = "drain" => tool'[d] \notin Decision
    BY <1>1, <2>1, <2>2 DEF IInv, Decided, Quiet
  <2>4. \A o \in owed : o.reply = "drain" => tool'[o.call] \notin Decision
    BY <1>1, <2>1, <2>2 DEF IInv, TypeOK, Decided, Quiet
  <2>5. \A d \in Call : pc'[d] \in {"start", "gate"} => tool'[d] \notin Decision
    BY <1>1 DEF IInv, Decided, Before
  <2>6. \A d \in Call : pc'[d] \notin {"none", "ended"} => tool'[d] /= None
    BY <1>1, <2>1 DEF IInv, Decided
  <2>7. QED
    BY <2>3, <2>4, <2>5, <2>6 DEF Decided
<1>7. YoloLeavesNoPrompt'
  BY <1>3 DEF YoloLeavesNoPrompt
<1>8. QED
  BY <1>4, <1>5, <1>6, <1>7

LEMMA ReceiveIInv ==
    ASSUME IInv, NEW c \in Call, Receive(c)
    PROVE  IInv'
<1> DEFINE l == CASE inbox[c] = "deny"    -> Refused(c)
                  [] tool[c] = "plan"     -> "planOff"
                  [] tool[c] = "replan"   -> "executing"
                  [] OTHER                -> "allowed"
<1>1. Goto(c, l)
  BY DEF Receive
<1>2. l \in {"ended", "leaving", "planOff", "executing", "allowed"} /\ (l = "leaving" => tool[c] = "replan")
  BY DEF Refused
<1> HIDE DEF l
<1>3. c \notin pending
  BY DEF IInv, Replies, Receive
<1>4. Prompts' /\ Replies' /\ Decided' /\ YoloLeavesNoPrompt'
  <2>1. l \in PC \ (Before \cup {"waiting"})
    BY <1>2 DEF PC, Before, Quiet
  <2>2. inbox'[c] = None /\ \A d \in Call : d /= c => inbox'[d] = inbox[d]
    BY DEF Receive, IInv, TypeOK
  <2>3. pending' = pending \ {c}
    BY <1>3 DEF Receive
  <2>4. \A o \in owed : o.call /= c
    BY DEF Receive, IInv, Replies
  <2>5. QED
    BY <1>1, <1>2, <2>1, <2>2, <2>3, <2>4, LeavePrompt DEF Receive, ctlVars
<1>5. TypeOK'
  <2>1. /\ \A d \in Call : pc'[d] = IF d = c THEN l ELSE pc[d]
        /\ pc' \in [Call -> PC] /\ tool' \in [Call -> Tool \cup {None}]
    BY <1>1, <1>2, AtCall DEF IInv, PC
  <2>2. granted' \subseteq Tool \ Decision
    <3>1. tool[c] \in Tool
      BY DEF IInv, TypeOK, Decided, Receive
    <3>2. granted' = granted \/ (tool[c] \notin Decision /\ granted' = granted \cup {tool[c]})
      BY DEF Receive
    <3>3. QED
      BY <3>1, <3>2 DEF IInv, TypeOK
  <2>3. inbox' \in [Call -> Reply \cup {None}]
    BY DEF IInv, TypeOK, Receive
  <2>4. ctxDone' \subseteq {d \in Call : pc'[d] = "waiting"}
    BY <2>1 DEF IInv, TypeOK, Receive
  <2>5. QED
    BY <2>1, <2>2, <2>3, <2>4 DEF IInv, TypeOK, Receive, ctlVars, execVars
<1>6. QED
  BY <1>4, <1>5 DEF IInv

LEMMA AbandonIInv ==
    ASSUME IInv, NEW c \in Call, Abandon(c)
    PROVE  IInv'
<1> USE DEF Abandon
<1>1. Refused(c) \in {"ended", "leaving"} /\ (Refused(c) = "leaving" => tool[c] = "replan")
  BY DEF Refused
<1>2. Prompts' /\ Replies' /\ Decided' /\ YoloLeavesNoPrompt'
  BY <1>1, LeavePrompt DEF ctlVars, PC, Before, Quiet
<1>3. TypeOK'
  <2>1. /\ \A d \in Call : pc'[d] = IF d = c THEN Refused(c) ELSE pc[d]
        /\ pc' \in [Call -> PC] /\ tool' \in [Call -> Tool \cup {None}]
    BY <1>1, AtCall DEF IInv, PC
  <2>2. QED
    BY <2>1 DEF IInv, TypeOK, ctlVars, execVars
<1>4. QED
  BY <1>2, <1>3 DEF IInv

LEMMA ReplanIInv ==
    ASSUME IInv, NEW c \in Call, Replan(c)
    PROVE  IInv'
<1> USE DEF Replan
<1>1. /\ \A d \in Call : pc'[d] = IF d = c THEN "request" ELSE pc[d]
      /\ \A d \in Call : tool'[d] = IF d = c THEN "replan" ELSE tool[d]
      /\ pc' \in [Call -> PC] /\ tool' \in [Call -> Tool \cup {None}]
  BY DEF IInv, TypeOK, PC, Tool
<1>2. c \notin pending /\ promptMu /= c
  BY NotWaiting
<1>3. TypeOK'
  BY <1>1 DEF IInv, TypeOK, ctlVars, askVars, execVars
<1>4. Prompts'
  BY <1>1, <1>2 DEF IInv, TypeOK, Prompts, askVars
<1>5. inbox[c] = None /\ \A o \in owed : o.call /= c
  BY DEF IInv, Replies, Quiet
<1>6. Replies'
  BY <1>1, <1>5 DEF IInv, TypeOK, Replies, Quiet, Before, askVars
<1>7. Decided'
  <2>1. None /= "replan" /\ None /= "drain"
    BY NoneIsNothing DEF Tool, Reply
  <2>2. QED
    BY <1>1, <1>5, <2>1 DEF IInv, TypeOK, Decided
<1>8. YoloLeavesNoPrompt'
  BY <1>1, <1>2 DEF IInv, TypeOK, YoloLeavesNoPrompt, askVars, ctlVars
<1>9. QED
  BY <1>3, <1>4, <1>6, <1>7, <1>8 DEF IInv

LEMMA OwnStepIInv ==
    ASSUME IInv, NEW c \in Call, PlanGate(c) \/ Check(c) \/ Request(c) \/ Run(c) \/ ApprovedPlan(c)
    PROVE  IInv'
<1> DEFINE Parts == /\ Prompts' /\ Replies' /\ Decided' /\ YoloLeavesNoPrompt'
                    /\ pc' \in [Call -> PC] /\ tool' \in [Call -> Tool \cup {None}]
                    /\ ctxDone' \subseteq {d \in Call : pc'[d] = "waiting"}
<1>1. Parts
  <2>1. CASE PlanGate(c)
    <3>1. PICK l \in {"ended", "gate"} : Goto(c, l)
      BY <2>1 DEF PlanGate
    <3>2. QED
      BY <2>1, <3>1, OwnStep DEF PlanGate, ctlVars, Before, Quiet, PC
  <2>2. CASE Check(c)
    <3>1. PICK l \in {"ended", "allowed", "request"} : Goto(c, l)
      BY <2>2 DEF Check
    <3>2. QED
      BY <2>2, <3>1, OwnStep DEF Check, ctlVars, Before, Quiet, PC
  <2>3. CASE Request(c)
    <3>1. PICK l \in {"allowed", "queued"} : Goto(c, l)
      BY <2>3 DEF Request
    <3>2. QED
      BY <2>3, <3>1, OwnStep DEF Request, ctlVars, Before, Quiet, PC
  <2>4. CASE Run(c)
    BY <2>4, OwnStep DEF Run, ctlVars, Before, Quiet, PC
  <2>5. CASE ApprovedPlan(c)
    <3>1. PICK l \in {"planExec", "planWindow", "executing", "ended"} : Goto(c, l)
      BY <2>5 DEF ApprovedPlan
    <3>2. pc[c] \in {"planOff", "planExec", "planWindow", "executing", "leaving"}
      BY <2>5 DEF ApprovedPlan
    <3>3. QED
      BY <2>5, <3>1, <3>2, OwnStep DEF ApprovedPlan, Before, Quiet, PC
  <2>6. QED
    BY <2>1, <2>2, <2>3, <2>4, <2>5
<1>2. TypeOK'
  BY <1>1 DEF IInv, TypeOK, PlanGate, Check, Request, Run, ApprovedPlan, ctlVars, askVars, execVars
<1>3. QED
  BY <1>1, <1>2 DEF IInv

LEMMA AnswerIInv ==
    ASSUME IInv, NEW c \in Call, Answer(c)
    PROVE  IInv'
<1> USE DEF Answer, ctlVars, callVars, execVars
<1>1. PICK r \in User : owed' = owed \cup {[call |-> c, reply |-> r]}
  OBVIOUS
<1>2. inbox[c] = None /\ \A o \in owed : o.call /= c
  BY DEF IInv, Replies
<1>3. r \in Reply /\ r /= "drain"
  BY DEF User, Reply
<1>4. TypeOK'
  BY <1>1, <1>3 DEF IInv, TypeOK
<1>5. Prompts'
  BY DEF IInv, Prompts
<1>6. Replies'
  <2>1. pc[c] = "waiting"
    BY DEF IInv, Prompts
  <2>2. QED
    BY <1>1, <1>2, <2>1 DEF IInv, Replies, Before, Quiet
<1>7. Decided'
  BY <1>1, <1>3 DEF IInv, Decided
<1>8. YoloLeavesNoPrompt'
  BY DEF IInv, YoloLeavesNoPrompt
<1>9. QED
  BY <1>4, <1>5, <1>6, <1>7, <1>8 DEF IInv

LEMMA SendIInv ==
    ASSUME IInv, NEW o \in owed, Send(o)
    PROVE  IInv'
<1> USE DEF Send, ctlVars, callVars, execVars, askVars
<1>1. /\ o.call \in Call /\ o.reply \in Reply
      /\ \A d \in Call : inbox'[d] = IF d = o.call THEN o.reply ELSE inbox[d]
      /\ inbox' \in [Call -> Reply \cup {None}]
  BY DEF IInv, TypeOK
<1>2. \A p \in owed' : p \in owed /\ p.call /= o.call
  BY DEF IInv, Replies
<1>3. TypeOK'
  BY <1>1 DEF IInv, TypeOK
<1>4. Prompts' /\ YoloLeavesNoPrompt'
  BY DEF IInv, Prompts, YoloLeavesNoPrompt
<1>5. Replies'
  BY <1>1, <1>2 DEF IInv, TypeOK, Replies
<1>6. Decided'
  BY <1>1 DEF IInv, Decided, User
<1>7. QED
  BY <1>3, <1>4, <1>5, <1>6 DEF IInv

LEMMA SetToolApprovalModeIInv ==
    ASSUME IInv, NEW m \in Mode, SetToolApprovalMode(m)
    PROVE  IInv'
<1> USE DEF SetToolApprovalMode, callVars, execVars
<1> DEFINE New == {[call |-> c, reply |-> "drain"] : c \in Drained(m)}
<1>1. /\ Drained(m) \subseteq pending
      /\ \A c \in Drained(m) : tool[c] \notin Decision
  BY DEF Drained, IInv, TypeOK
<1>2. \A c \in Drained(m) : inbox[c] = None /\ pc[c] = "waiting" /\ \A o \in owed : o.call /= c
  BY <1>1 DEF IInv, TypeOK, Prompts, Replies
<1>3. TypeOK'
  <2>1. New \subseteq [call : Call, reply : Reply]
    BY <1>1 DEF IInv, TypeOK, Reply
  <2>2. [NoSetter EXCEPT !.pc = "refresh"]
            \in [pc : SetterPC, plan : BOOLEAN, mode : Mode \cup {Keep}, gate : Gate]
    BY DEF NoSetter, NoGate, SetterPC, Gate
  <2>3. QED
    BY <2>1, <2>2 DEF IInv, TypeOK
<1>4. Prompts'
  BY DEF IInv, Prompts
<1>5. Replies'
  <2>1. \A o \in New : o.call \in Drained(m) /\ \A p \in New : p.call = o.call => p = o
    OBVIOUS
  <2>2. owed' = owed \cup New
    OBVIOUS
  <2> HIDE DEF New
  <2>3. \A c \in Call : c \in pending' \/ pc'[c] \in Quiet
            => inbox'[c] = None /\ \A o \in owed' : o.call /= c
    BY <1>2, <2>1, <2>2 DEF IInv, Replies, Before, Quiet
  <2>4. \A o \in owed' : /\ inbox'[o.call] = None
                         /\ \A p \in owed' : p.call = o.call => p = o
    BY <1>2, <2>1, <2>2 DEF IInv, Replies
  <2>5. QED
    BY <2>3, <2>4 DEF Replies
<1>6. Decided'
  BY <1>1 DEF IInv, Decided
<1>7. YoloLeavesNoPrompt'
  BY DEF YoloLeavesNoPrompt, Drained, Mode
<1>8. QED
  BY <1>3, <1>4, <1>5, <1>6, <1>7 DEF IInv

LEMMA SendDrainedIInv ==
    ASSUME IInv, SendDrained
    PROVE  IInv'
<1> USE DEF SendDrained, ctlVars, callVars, execVars, askVars
<1> DEFINE Mine == {o \in owed : o.reply = "drain"}
<1>1. /\ \A d \in Call : inbox'[d] = IF \E o \in Mine : o.call = d THEN "drain" ELSE inbox[d]
      /\ owed' = owed \ Mine
      /\ inbox' \in [Call -> Reply \cup {None}]
  BY DEF IInv, TypeOK, Reply
<1>2. \A o \in owed : o.call \in Call
  BY DEF IInv, TypeOK
<1>3. \A o \in owed', p \in Mine : o \in owed /\ p.call /= o.call
  BY <1>1 DEF IInv, Replies
<1>4. TypeOK'
  <2>1. NoSetter \in [pc : SetterPC, plan : BOOLEAN, mode : Mode \cup {Keep}, gate : Gate]
    BY DEF NoSetter, NoGate, SetterPC, Gate
  <2>2. QED
    BY <1>1, <2>1 DEF IInv, TypeOK
<1>5. Prompts' /\ YoloLeavesNoPrompt'
  BY DEF IInv, Prompts, YoloLeavesNoPrompt
<1>6. Replies'
  BY <1>1, <1>2, <1>3 DEF IInv, Replies
<1>7. Decided'
  BY <1>1 DEF IInv, Decided
<1>8. QED
  BY <1>4, <1>5, <1>6, <1>7 DEF IInv

(* The switches of the plan mode and of the gate, and a context that is    *)
(* done, touch neither calls nor prompts nor replies.                      *)
LEMMA SwitchIInv ==
    ASSUME IInv,
           \/ \E v \in BOOLEAN : SetPlanMode(v)
           \/ \E v \in BOOLEAN, m \in {"yolo", "ask"} : SetMode(v, m)
           \/ StorePlanMode \/ NewInteractiveGate \/ SetGate
           \/ \E c \in Call : CancelCtx(c)
    PROVE  IInv'
<1> USE DEF SetPlanMode, SetMode, StorePlanMode, NewInteractiveGate, SetGate, CancelCtx
<1>1. UNCHANGED <<mode, askVars, callVars, inbox, owed>>
  BY DEF ctlVars
<1>2. setter' \in [pc : SetterPC, plan : BOOLEAN, mode : Mode \cup {Keep}, gate : Gate]
  <2>1. NoSetter \in [pc : SetterPC, plan : BOOLEAN, mode : Mode \cup {Keep}, gate : Gate]
    BY DEF NoSetter, NoGate, SetterPC, Gate
  <2>2. setter \in [pc : SetterPC, plan : BOOLEAN, mode : Mode \cup {Keep}, gate : Gate]
    BY DEF IInv, TypeOK
  <2>3. CASE \E v \in BOOLEAN : SetPlanMode(v)
    BY <2>1, <2>3 DEF SetterPC
  <2>4. CASE \E v \in BOOLEAN, m \in {"yolo", "ask"} : SetMode(v, m)
    BY <2>1, <2>4 DEF SetterPC, Mode
  <2>5. CASE StorePlanMode
    BY <2>1, <2>2, <2>5 DEF SetterPC
  <2>6. CASE NewInteractiveGate
    <3>1. [fallback |-> IF mode = "ask" THEN "ask" ELSE "allow", hardDeny |-> hardDeny] \in Gate
      BY DEF IInv, TypeOK, Gate
    <3>2. QED
      BY <2>2, <2>6, <3>1 DEF SetterPC
  <2>7. CASE SetGate
    BY <2>1, <2>7 DEF SetterPC
  <2>8. CASE \E c \in Call : CancelCtx(c)
    BY <2>2, <2>8
  <2>9. QED
    BY <2>3, <2>4, <2>5, <2>6, <2>7, <2>8
<1>3. /\ {planMode', hardDeny', window', execPlan'} \subseteq BOOLEAN
      /\ gate' \in Gate
      /\ granted' = granted
      /\ ctxDone' \subseteq {c \in Call : pc'[c] = "waiting"}
  BY DEF IInv, TypeOK, ctlVars, execVars, callVars
<1>4. TypeOK'
  BY <1>1, <1>2, <1>3 DEF IInv, TypeOK, askVars, callVars
<1>5. QED
  BY <1>1, <1>4, CallsStay DEF IInv

LEMMA NextIInv == IInv /\ [Next]_vars => IInv'
<1> SUFFICES ASSUME IInv, [Next]_vars
             PROVE  IInv'
  OBVIOUS
<1>1. ASSUME NEW c \in Call, NEW t \in Tool, Begin(c, t)
      PROVE  IInv'
  BY <1>1, BeginIInv
<1>2. ASSUME NEW c \in Call, CallStep(c)
      PROVE  IInv'
  BY <1>2, OwnStepIInv, PromptIInv, ReceiveIInv, AbandonIInv, ReplanIInv DEF CallStep
<1>3. ASSUME NEW c \in Call, Answer(c)
      PROVE  IInv'
  BY <1>3, AnswerIInv
<1>4. ASSUME NEW o \in owed, Send(o)
      PROVE  IInv'
  BY <1>4, SendIInv
<1>5. ASSUME NEW m \in Mode, SetToolApprovalMode(m)
      PROVE  IInv'
  BY <1>5, SetToolApprovalModeIInv
<1>6. CASE UNCHANGED vars
  <2>1. TypeOK'
    BY <1>6 DEF IInv, TypeOK, vars, ctlVars, askVars, execVars, callVars
  <2>2. QED
    BY <1>6, <2>1, CallsStay DEF IInv, vars, ctlVars
<1>7. QED
  BY <1>1, <1>2, <1>3, <1>4, <1>5, <1>6, SendDrainedIInv, SwitchIInv
  DEF Next, SwitchMode, SetterStep

LEMMA SpecIInv == Spec => []IInv
BY InitIInv, NextIInv, PTL DEF Spec

-----------------------------------------------------------------------------
(* OneAtATime: approvals, plan gates and questions are shown one at a time *)
(* (promptMu), and the channel of one gets one reply, however answers,     *)
(* mode switches and cancelled contexts race for it.                       *)
THEOREM OneAtATime == Spec => []OnePrompt
<1>1. IInv => OnePrompt
  <2> SUFFICES ASSUME IInv PROVE OnePrompt
    OBVIOUS
  <2>1. Cardinality(Waiting) <= 1
    <3>1. Waiting \subseteq {promptMu}
      BY DEF IInv, Prompts, Waiting
    <3>2. Waiting = {} \/ Waiting = {promptMu}
      BY <3>1
    <3>3. Cardinality({}) = 0 /\ Cardinality({promptMu}) = 1
      BY FS_EmptySet, FS_Singleton
    <3>4. QED
      BY <3>2, <3>3
  <2>2. pending \subseteq Waiting
    BY DEF IInv, TypeOK, Prompts, Waiting
  <2>3. QED
    BY <2>1, <2>2 DEF IInv, Replies, OnePrompt
<1>2. QED
  BY <1>1, SpecIInv, PTL

(* YoloAsksNothing: in yolo mode no tool waits to be allowed, neither one  *)
(* shown before the switch (drainApprovalsLocked) nor one that had been    *)
(* told to ask (the second look behind promptMu).                          *)
THEOREM YoloAsksNothing == Spec => []YoloLeavesNoPrompt
<1>1. IInv => YoloLeavesNoPrompt
  BY DEF IInv
<1>2. QED
  BY <1>1, SpecIInv, PTL

(* DecisionsStayTheUsers: no mode, grant, approved plan or drain approves  *)
(* a plan or answers a question (approvalBypassAllowsLocked, Ask).         *)
THEOREM DecisionsStayTheUsers == Spec => DecisionsAreTheUsers
<1>1. ASSUME IInv, [Next]_vars, NEW c \in Call, tool[c] \in Decision,
             pc[c] \in {"start", "gate", "request", "queued", "waiting"},
             pc'[c] \in {"allowed", "planOff", "executing"}
      PROVE  inbox[c] \in User
  <2>1. ~NoPrompt(tool[c])
    BY <1>1 DEF IInv, TypeOK, NoPrompt, Bypass
  <2>2. ASSUME NEW d \in Call, NEW l, Goto(d, l)
        PROVE  c = d /\ l \in {"allowed", "planOff", "executing"}
    BY <1>1, <2>2, AtCall DEF IInv
  <2>3. UNCHANGED callVars => FALSE
    BY <1>1 DEF callVars
  <2>4. ASSUME NEW d \in Call, CallStep(d)
        PROVE  Receive(c)
    <3>1. ~PlanGate(d) /\ ~Abandon(d) /\ ~Replan(d)
      BY <1>1, <2>2 DEF PlanGate, Abandon, Refused, Replan, IInv, TypeOK
    <3>2. ~Check(d)
      BY <1>1, <2>2 DEF Check, IInv, Decided
    <3>3. ~Request(d) /\ ~Prompt(d)
      BY <2>1, <2>2 DEF Request, Prompt, Register
    <3>4. ~Run(d)
      BY <2>2 DEF Run
    <3>5. ~ApprovedPlan(d)
      BY <1>1, <2>2 DEF ApprovedPlan
    <3>6. Receive(d) => d = c
      BY <2>2 DEF Receive
    <3>7. QED
      BY <2>4, <3>1, <3>2, <3>3, <3>4, <3>5, <3>6 DEF CallStep
  <2>5. \A d \in Call, t \in Tool : ~Begin(d, t)
    BY <1>1 DEF Begin, IInv, TypeOK
  <2>6. Receive(c)
    BY <1>1, <2>3, <2>4, <2>5
    DEF Next, CancelCtx, Answer, Send, SetPlanMode, SetMode, SwitchMode, SetToolApprovalMode,
        SetterStep, StorePlanMode, NewInteractiveGate, SetGate, SendDrained, vars
  <2>7. QED
    BY <1>1, <2>6 DEF Receive, IInv, TypeOK, Decided, Reply
<1>2. IInv /\ [Next]_vars => [DecidedByTheUser]_vars
  BY <1>1 DEF DecidedByTheUser
<1>3. QED
  BY <1>2, SpecIInv, PTL DEF Spec, DecisionsAreTheUsers
=============================================================================
