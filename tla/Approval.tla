------------------------------ MODULE Approval ------------------------------
(***************************************************************************)
(* Who may run a tool (internal/control/controller.go, with the gate of    *)
(* internal/permission and the plan gate of internal/agent): the goroutines *)
(* of tool calls, of a question and of a plan approval that wait for the   *)
(* user; the user's answers; and the switches of plan mode and of the tool *)
(* approval mode, which answer waiting prompts themselves.                 *)
(*                                                                         *)
(* One step is one critical section of Controller.mu, a channel operation, *)
(* or a store to the executor.  Rules are reduced to what decides: a tool  *)
(* with no rule, one with an ask rule, the approvals of a plan and of its  *)
(* revision, the question.                                                 *)
(***************************************************************************)
EXTENDS Naturals, FiniteSets

CONSTANTS
    Call,       \* goroutines that may ask for permission or an answer
    TurnLoop,   \* those of them that run a turn: only they gate a plan
    None

Tool == {"writer",      \* edit_file and the like: no rule, on the plan list
         "asked",       \* a tool the user's config wants asked about
         "plan",        \* exit_plan_mode
         "replan",      \* compose_replan, for a plan being carried out
         "question"}    \* the ask tool
Decision == {"plan", "replan", "question"}  \* the user's, in every mode

Mode == {"ask", "auto", "yolo"}
Gate == [fallback : {"ask", "allow"}, hardDeny : BOOLEAN]
(* What is sent to a waiting call: the user refuses, allows this once or   *)
(* for the session (deny also stands for an answer to a question), or a    *)
(* mode switch allows it.                                                  *)
User  == {"deny", "once", "session"}
Reply == User \cup {"drain"}

ASSUME NoneIsNothing == None \notin Call \cup Tool \cup Reply

PC == {"none", "start", "gate", "request", "queued", "waiting", "allowed",
       "planOff", "planExec", "planWindow", "executing", "leaving",
       "ended"}

VARIABLES
    mode,       \* Controller.toolApprovalMode
    planMode,   \* Controller.planMode
    hardDeny,   \* Controller.policy has the plan-mode HardDeny rules
    window,     \* Controller.approvedPlanAutoApproveTools
    granted,    \* Controller.granted, the scopes allowed for the session
    pending,    \* calls whose prompt is in Controller.approvals or asks
    autoDrain,  \* calls whose pendingApproval.autoDrain is set
    promptMu,   \* the call that holds Controller.promptMu, or None
    execPlan,   \* Agent.planMode
    gate,       \* Agent.gate: the policy it was built from
    pc, tool,   \* [Call -> ...], the calls; no tool before and after
    ctxDone,    \* waiting calls whose context is cancelled
    inbox,      \* [Call -> Reply or None], the buffered reply channel
    owed,       \* replies whose prompt is removed and that are not yet sent
    setter      \* the mode switch in progress

ctlVars  == <<mode, planMode, hardDeny, window>>
askVars  == <<pending, autoDrain, promptMu>>
execVars == <<execPlan, gate>>
callVars == <<pc, tool>>
vars     == <<ctlVars, granted, askVars, execVars, callVars, ctxDone, inbox,
              owed, setter>>

SetterPC == {"idle", "exec", "mode", "refresh", "install", "send"}
Keep     == "keep"      \* a plan-mode switch that leaves the approval mode
NoGate   == [fallback |-> "ask", hardDeny |-> FALSE]
NoSetter == [pc |-> "idle", plan |-> FALSE, mode |-> Keep, gate |-> NoGate]

(* TypeOK: the shape of the fields.                                        *)
TypeOK ==
    /\ mode \in Mode
    /\ {planMode, hardDeny, window, execPlan} \subseteq BOOLEAN
    /\ granted \subseteq Tool \ Decision
    /\ pending \subseteq Call
    /\ autoDrain \subseteq pending
    /\ promptMu \in Call \cup {None}
    /\ gate \in Gate
    /\ pc \in [Call -> PC]
    /\ tool \in [Call -> Tool \cup {None}]
    /\ ctxDone \subseteq {c \in Call : pc[c] = "waiting"}
    /\ inbox \in [Call -> Reply \cup {None}]
    /\ owed \subseteq [call : Call, reply : Reply]
    /\ setter \in [pc : SetterPC, plan : BOOLEAN, mode : Mode \cup {Keep},
                   gate : Gate]

Init ==
    /\ mode = "ask"
    /\ planMode = FALSE
    /\ hardDeny = FALSE
    /\ window = FALSE
    /\ granted = {}
    /\ pending = {}
    /\ autoDrain = {}
    /\ promptMu = None
    /\ execPlan = FALSE
    /\ gate = NoGate
    /\ pc = [c \in Call |-> "none"]
    /\ tool = [c \in Call |-> None]
    /\ ctxDone = {}
    /\ inbox = [c \in Call |-> None]
    /\ owed = {}
    /\ setter = NoSetter

-----------------------------------------------------------------------------
(* The rules.                                                              *)

(* Policy.DecideSubject under the policy g.                                *)
Decide(g, t) ==
    CASE g.hardDeny /\ t = "writer" -> "deny"
      [] t = "asked"                -> "ask"
      [] OTHER                      -> g.fallback

(* Whether a tool needs no prompt: yolo or an approved plan being carried  *)
(* out, or a grant for the session; never for the user's own decisions.    *)
Bypass(t)     == t \notin Decision /\ (mode = "yolo" \/ window)
NoPrompt(t)   == Bypass(t) \/ t \in granted
(* Auto mode would let the tool through (autoApprovalWouldAllowLocked).    *)
AutoAllows(t) ==
    /\ t \notin Decision
    /\ Decide([fallback |-> "allow", hardDeny |-> hardDeny], t) = "allow"

-----------------------------------------------------------------------------
(* A call.                                                                 *)

Goto(c, l) ==
    /\ pc' = [pc EXCEPT ![c] = l]
    /\ tool' = [tool EXCEPT ![c] =
                   CASE l = "ended"                  -> None
                     [] l \in {"executing", "leaving"} -> "plan"
                     [] OTHER                        -> @]

(* A tool call, a question, or the plan gate at the end of a planning turn. *)
Begin(c, t) ==
    /\ pc[c] = "none"
    /\ t /= "replan"
    /\ t = "plan" => /\ c \in TurnLoop
                     /\ planMode
                     /\ \A d \in Call : tool[d] \notin {"plan", "replan"}
    /\ pc' = [pc EXCEPT ![c] = IF t \in Decision THEN "request" ELSE "start"]
    /\ tool' = [tool EXCEPT ![c] = t]
    /\ UNCHANGED <<ctlVars, granted, askVars, execVars, ctxDone, inbox, owed,
                   setter>>

(* executeOne: writers are refused in plan mode before the gate sees them. *)
PlanGate(c) ==
    /\ pc[c] = "start"
    /\ Goto(c, IF execPlan THEN "ended" ELSE "gate")
    /\ UNCHANGED <<ctlVars, granted, askVars, execVars, ctxDone, inbox,
                   owed, setter>>

(* Gate.Check, by the policy the gate was built from.                      *)
Check(c) ==
    /\ pc[c] = "gate"
    /\ Goto(c, CASE Decide(gate, tool[c]) = "deny"  -> "ended"
                 [] Decide(gate, tool[c]) = "allow" -> "allowed"
                 [] OTHER                           -> "request")
    /\ UNCHANGED <<ctlVars, granted, askVars, execVars, ctxDone, inbox,
                   owed, setter>>

(* gateApprover.Approve and requestApproval before the prompt lock.        *)
Request(c) ==
    /\ pc[c] = "request"
    /\ Goto(c, IF NoPrompt(tool[c]) THEN "allowed" ELSE "queued")
    /\ UNCHANGED <<ctlVars, granted, askVars, execVars, ctxDone, inbox,
                   owed, setter>>

Register(c) ==
    /\ pending' = pending \cup {c}
    /\ autoDrain' = IF AutoAllows(tool[c]) THEN autoDrain \cup {c}
                                          ELSE autoDrain
    /\ promptMu' = c
    /\ Goto(c, "waiting")

(* Mutant of Prompt: nobody looks at the mode again behind the prompt lock. *)
PromptWithoutRecheck(c) ==
    /\ pc[c] = "queued"
    /\ promptMu = None
    /\ Register(c)
    /\ UNCHANGED <<ctlVars, granted, execVars, ctxDone, inbox, owed, setter>>

(* Mutant of Prompt: a question does not wait for the prompt lock.         *)
PromptAnyTime(c) ==
    /\ pc[c] = "queued"
    /\ promptMu = None \/ tool[c] = "question"
    /\ IF NoPrompt(tool[c])
         THEN Goto(c, "allowed") /\ UNCHANGED askVars
         ELSE Register(c)
    /\ UNCHANGED <<ctlVars, granted, execVars, ctxDone, inbox, owed, setter>>

(* requestApproval and Ask with the prompt lock: an approval looks at the  *)
(* mode and the grants again, then the prompt is registered and shown.     *)
Prompt(c) ==
    /\ pc[c] = "queued"
    /\ promptMu = None
    /\ IF NoPrompt(tool[c])
         THEN Goto(c, "allowed") /\ UNCHANGED askVars
         ELSE Register(c)
    /\ UNCHANGED <<ctlVars, granted, execVars, ctxDone, inbox, owed, setter>>

(* Where a call goes on that does not get its approval: what carries out a *)
(* plan still has its window to close.                                     *)
Refused(c) == IF tool[c] = "replan" THEN "leaving" ELSE "ended"

(* The reply arrives: a session grant is recorded, never for a plan.  A    *)
(* plan whose revision is refused is given up.                             *)
Receive(c) ==
    LET r == inbox[c] IN
    /\ pc[c] = "waiting"
    /\ r /= None
    /\ inbox' = [inbox EXCEPT ![c] = None]
    /\ promptMu' = None
    /\ granted' = IF r = "session" /\ tool[c] \notin Decision
                    THEN granted \cup {tool[c]} ELSE granted
    /\ Goto(c, CASE r = "deny"         -> Refused(c)
                 [] tool[c] = "plan"   -> "planOff"
                 [] tool[c] = "replan" -> "executing"
                 [] OTHER              -> "allowed")
    /\ ctxDone' = ctxDone \ {c}
    /\ UNCHANGED <<ctlVars, pending, autoDrain, execVars, owed, setter>>

(* ... or the context is cancelled first: the prompt is withdrawn.         *)
Abandon(c) ==
    /\ pc[c] = "waiting"
    /\ c \in ctxDone
    /\ pending' = pending \ {c}
    /\ autoDrain' = autoDrain \ {c}
    /\ promptMu' = None
    /\ Goto(c, Refused(c))
    /\ ctxDone' = ctxDone \ {c}
    /\ UNCHANGED <<ctlVars, granted, execVars, inbox, owed, setter>>

(* The context is read by the waiting call only, so a cancel that came     *)
(* earlier is one that comes when the wait begins.                         *)
CancelCtx(c) ==
    /\ pc[c] = "waiting"
    /\ ctxDone' = ctxDone \cup {c}
    /\ UNCHANGED <<ctlVars, granted, askVars, execVars, callVars, inbox, owed,
                   setter>>

(* The call runs its tool, or the question returns its answer.             *)
Run(c) ==
    /\ pc[c] = "allowed"
    /\ Goto(c, "ended")
    /\ UNCHANGED <<ctlVars, granted, askVars, execVars, ctxDone, inbox,
                   owed, setter>>

(* An approved plan: SetPlanMode(false) in its two steps, then the window  *)
(* in which its tools need no prompt.                                      *)
ApprovedPlan(c) ==
    /\ \/ /\ pc[c] = "planOff"
          /\ Goto(c, "planExec")
          /\ planMode' = FALSE
          /\ hardDeny' = FALSE
          /\ UNCHANGED <<window, execPlan>>
       \/ /\ pc[c] = "planExec"
          /\ Goto(c, "planWindow")
          /\ execPlan' = FALSE
          /\ UNCHANGED <<planMode, hardDeny, window>>
       \/ /\ pc[c] = "planWindow"
          /\ Goto(c, "executing")
          /\ window' = TRUE
          /\ UNCHANGED <<planMode, hardDeny, execPlan>>
       \/ /\ pc[c] \in {"executing", "leaving"}
          /\ Goto(c, "ended")
          /\ window' = FALSE
          /\ UNCHANGED <<planMode, hardDeny, execPlan>>
    /\ UNCHANGED <<mode, granted, askVars, gate, ctxDone, inbox, owed,
                   setter>>

(* The compose runner asks for a revision of the plan it carries out, with *)
(* the window open.  How many it may ask for is not counted.               *)
Replan(c) ==
    /\ pc[c] = "executing"
    /\ pc' = [pc EXCEPT ![c] = "request"]
    /\ tool' = [tool EXCEPT ![c] = "replan"]
    /\ UNCHANGED <<ctlVars, granted, askVars, execVars, ctxDone, inbox, owed,
                   setter>>

-----------------------------------------------------------------------------
(* The user answers.                                                       *)

(* Approve and AnswerQuestion: whoever removes the prompt owes the reply.  *)
(* An id that is not pending is ignored.                                   *)
Answer(c) ==
    /\ c \in pending
    /\ pending' = pending \ {c}
    /\ autoDrain' = autoDrain \ {c}
    /\ \E r \in User : owed' = owed \cup {[call |-> c, reply |-> r]}
    /\ UNCHANGED <<ctlVars, granted, promptMu, execVars, callVars, ctxDone,
                   inbox, setter>>

(* The send on the buffered channel; the receiver may be gone.             *)
Send(o) ==
    /\ o.reply \in User
    /\ inbox[o.call] = None
    /\ inbox' = [inbox EXCEPT ![o.call] = o.reply]
    /\ owed' = owed \ {o}
    /\ UNCHANGED <<ctlVars, granted, askVars, execVars, callVars, ctxDone,
                   setter>>

-----------------------------------------------------------------------------
(* The user switches modes.  One switch at a time.                         *)

(* SetPlanMode: the flag and the HardDeny rules of the policy.             *)
SetPlanMode(v) ==
    /\ setter.pc = "idle"
    /\ planMode' = v
    /\ hardDeny' = v
    /\ setter' = [NoSetter EXCEPT !.pc = "exec", !.plan = v]
    /\ UNCHANGED <<mode, window, granted, askVars, execVars, callVars, ctxDone,
                   inbox, owed>>

(* SetMode: the flag only, then the approval mode.                         *)
SetMode(v, m) ==
    /\ setter.pc = "idle"
    /\ planMode' = v
    /\ setter' = [NoSetter EXCEPT !.pc = "exec", !.plan = v, !.mode = m]
    /\ UNCHANGED <<mode, hardDeny, window, granted, askVars, execVars,
                   callVars,
                   ctxDone, inbox, owed>>

(* The executor's plan gate follows.                                       *)
StorePlanMode ==
    /\ setter.pc = "exec"
    /\ execPlan' = setter.plan
    /\ setter' = IF setter.mode = Keep THEN NoSetter
                 ELSE [setter EXCEPT !.pc = "mode", !.plan = FALSE]
    /\ UNCHANGED <<ctlVars, granted, askVars, gate, callVars, ctxDone, inbox,
                   owed>>

(* Mutant of Drained: yolo answers everything that waits for the user.     *)
DrainedAll(m) ==
    IF m = "yolo" THEN pending ELSE IF m = "auto" THEN autoDrain ELSE {}

(* drainApprovalsLocked: the prompts a switch to m answers by itself.      *)
Drained(m) ==
    CASE m = "yolo" -> {c \in pending : tool[c] \notin Decision}
      [] m = "auto" -> {c \in autoDrain : tool[c] \notin Decision}
      [] OTHER      -> {}

(* The locked part of SetToolApprovalMode.                                 *)
SetToolApprovalMode(m) ==
    /\ \/ setter.pc = "idle"
       \/ setter.pc = "mode" /\ setter.mode = m
    /\ mode' = m
    /\ pending' = pending \ Drained(m)
    /\ autoDrain' = autoDrain \ Drained(m)
    /\ owed' = owed \cup {[call |-> c, reply |-> "drain"] : c \in Drained(m)}
    /\ setter' = [NoSetter EXCEPT !.pc = "refresh"]
    /\ UNCHANGED <<planMode, hardDeny, window, granted, promptMu, execVars,
                   callVars, ctxDone, inbox>>

(* newInteractiveGate: a copy of the policy as it is now.                  *)
NewInteractiveGate ==
    /\ setter.pc = "refresh"
    /\ setter' = [setter EXCEPT
           !.pc = "install",
           !.gate = [fallback |-> IF mode = "ask" THEN "ask" ELSE "allow",
                     hardDeny |-> hardDeny]]
    /\ UNCHANGED <<ctlVars, granted, askVars, execVars, callVars, ctxDone,
                   inbox, owed>>

SetGate ==
    /\ setter.pc = "install"
    /\ gate' = setter.gate
    /\ setter' = [NoSetter EXCEPT !.pc = "send"]
    /\ UNCHANGED <<ctlVars, granted, askVars, execPlan, callVars, ctxDone,
                   inbox, owed>>

(* Mutant of SendDrained: the prompts are removed and nobody is told.      *)
SendNothing ==
    /\ setter.pc = "send"
    /\ owed' = {o \in owed : o.reply /= "drain"}
    /\ setter' = NoSetter
    /\ UNCHANGED <<ctlVars, granted, askVars, execVars, callVars, ctxDone,
                   inbox>>

(* The drained prompts are told, after the gate is in place.               *)
SendDrained ==
    LET mine == {o \in owed : o.reply = "drain"} IN
    /\ setter.pc = "send"
    /\ \A o \in mine : inbox[o.call] = None
    /\ inbox' = [c \in Call |->
                   IF \E o \in mine : o.call = c THEN "drain" ELSE inbox[c]]
    /\ owed' = owed \ mine
    /\ setter' = NoSetter
    /\ UNCHANGED <<ctlVars, granted, askVars, execVars, callVars, ctxDone>>

-----------------------------------------------------------------------------
CallStep(c) ==
    \/ PlanGate(c) \/ Check(c) \/ Request(c) \/ Prompt(c)
    \/ Receive(c) \/ Abandon(c) \/ Run(c) \/ ApprovedPlan(c) \/ Replan(c)

SetterStep == StorePlanMode \/ NewInteractiveGate \/ SetGate \/ SendDrained
SwitchMode == \E m \in Mode : SetToolApprovalMode(m)

Next ==
    \/ \E c \in Call : \/ \E t \in Tool : Begin(c, t)
                       \/ CallStep(c) \/ CancelCtx(c) \/ Answer(c)
    \/ \E o \in owed : Send(o)
    \/ \E v \in BOOLEAN : SetPlanMode(v)
    \/ \E v \in BOOLEAN, m \in {"yolo", "ask"} : SetMode(v, m)
    \/ SwitchMode
    \/ SetterStep

Spec == Init /\ [][Next]_vars

(* A goroutine that waits is scheduled once its select can go on, a reply  *)
(* that is owed is sent, and a switch of the approval mode runs to its end. *)
(* The user is free not to answer.                                         *)
FairSpec ==
    /\ Spec
    /\ \A c \in Call : WF_vars(Receive(c) \/ Abandon(c))
    /\ WF_vars(\E o \in owed : Send(o))
    /\ WF_vars(NewInteractiveGate \/ SetGate \/ SendDrained)

-----------------------------------------------------------------------------
Waiting == {c \in Call : pc[c] = "waiting"}

(* OnePrompt: approvals, plan gates and questions are shown one at a time, *)
(* what is registered belongs to the goroutine that waits (promptMu), and  *)
(* its reply channel, which holds one reply, gets one: an answer that      *)
(* races a drain or a cancel never finds it full.                          *)
OnePrompt ==
    /\ TypeOK
    /\ Cardinality(Waiting) <= 1
    /\ pending \subseteq Waiting
    /\ \A o \in owed :
          /\ inbox[o.call] = None
          /\ \A p \in owed : p.call = o.call => p = o

(* A call gets past the user's own decision only with the user's answer.   *)
DecidedByTheUser ==
    \A c \in Call :
        /\ tool[c] \in Decision
        /\ pc[c] \in {"start", "gate", "request", "queued", "waiting"}
        /\ pc'[c] \in {"allowed", "planOff", "executing"}
        => inbox[c] \in User

(* DecisionsAreTheUsers: a plan or its revision is approved and a question *)
(* answered by the user only: no mode, grant, drain or approved plan being *)
(* carried out does it for him (approvalBypassAllowsLocked,                *)
(* drainApprovalsLocked, Ask).                                             *)
DecisionsAreTheUsers == [][DecidedByTheUser]_vars

(* YoloLeavesNoPrompt: in yolo mode no tool waits to be allowed: neither a *)
(* prompt that was up when the mode changed nor a call that had already    *)
(* been told to ask (requestApproval looks again behind the prompt lock).  *)
YoloLeavesNoPrompt ==
    mode = "yolo" => \A c \in pending : tool[c] \in Decision

(* AnswerReturns: a goroutine whose prompt was answered, drained or        *)
(* cancelled while it waited gets on.                                      *)
AnswerReturns ==
    \A c \in Call :
        pc[c] = "waiting" /\ (c \notin pending \/ c \in ctxDone)
            ~> pc[c] /= "waiting"
=============================================================================
