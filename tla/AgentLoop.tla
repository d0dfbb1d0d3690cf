------------------------------ MODULE AgentLoop ------------------------------
(***************************************************************************)
(* One turn of the agent loop (runtime/agent.py, AgentLoop.turn) against   *)
(* the owner who writes while it runs: turn.steer leaves a message for the *)
(* loop's next step, «send now» (steer with now, or steer_promote) also    *)
(* cuts the step that is running.                                          *)
(*                                                                         *)
(* Two signals carry the owner's wish besides the message itself: the      *)
(* event owner_wrote ends the waits of a tool, the event step_interrupt    *)
(* ends a model call.  Both are set and cleared outside the manager's      *)
(* lock, which only protects the list of messages.                         *)
(*                                                                         *)
(* What a model or a tool says is left out; whether a reply has text, or   *)
(* tool calls, or neither, is what the loop looks at.                      *)
(***************************************************************************)
EXTENDS Integers, FiniteSets

CONSTANTS
    MaxMsgs,      \* bound: messages the owner sends during the turn
    MaxCalls      \* max_iters: model calls the turn may make

ASSUME LoopAssumption == MaxMsgs \in Nat /\ MaxCalls \in Nat \ {0}

Msgs == 1..MaxMsgs

Replies == {"tools", "text", "empty"}

Outcomes == {"none", "answer", "stopped", "cancelled", "failed"}

VARIABLES
    pc,         \* where the loop is
    calls,      \* model calls started
    steering,   \* turn.steering: messages the loop has not taken
    taken,      \* the loop's local list: messages taken and not in the history yet
    history,    \* the steered messages in ctx.history
    dropped,    \* messages taken that no request will ever contain
    request,    \* the steered messages in the request the model is answering
    reply,      \* the model's last reply
    answered,   \* an answer stands, the checklist note was added after it
    checked,    \* checklist_checked
    retried,    \* empty_retried
    interrupt,  \* ctx.step_interrupt
    wrote,      \* turn_state.owner_wrote
    loopToken,  \* the turn's cancellation token
    outcome,    \* how turn() returned
    nsent,      \* messages sent so far
    urgent,     \* the messages sent with «send now»
    opc         \* where the owner's call is: "idle", "wrote" or "cut"

loopVars == <<pc, calls, taken, history, dropped, request, reply, answered, checked,
              retried, outcome>>
ownerVars == <<nsent, urgent, opc>>
agentVars == <<pc, calls, steering, taken, history, dropped, request, reply, answered, checked,
          retried, interrupt, wrote, loopToken, outcome, nsent, urgent, opc>>

LoopInit ==
    /\ pc = "top" /\ calls = 0
    /\ steering = {} /\ taken = {} /\ history = {} /\ dropped = {} /\ request = {}
    /\ reply = "text" /\ answered = FALSE /\ checked = FALSE /\ retried = FALSE
    /\ interrupt = FALSE /\ wrote = FALSE /\ loopToken = FALSE
    /\ outcome = "none"
    /\ nsent = 0 /\ urgent = {} /\ opc = "idle"

-----------------------------------------------------------------------------
(***************************************************************************)
(* The owner's calls, on the request thread.                               *)
(***************************************************************************)

\* steer: under the lock, the message joins the list of the running turn.
Steer ==
    /\ opc = "idle" /\ pc # "end" /\ nsent < MaxMsgs
    /\ nsent' = nsent + 1
    /\ steering' = steering \cup {nsent + 1}
    /\ urgent' \in {urgent, urgent \cup {nsent + 1}}
    /\ opc' = "wrote"
    /\ UNCHANGED <<loopVars, interrupt, wrote, loopToken>>

\* steer_promote: a message that waits becomes urgent.
SteerPromote ==
    /\ opc = "idle" /\ pc # "end"
    /\ \E m \in steering \ urgent : urgent' = urgent \cup {m}
    /\ opc' = "cut"
    /\ UNCHANGED <<loopVars, steering, nsent, interrupt, wrote, loopToken>>

\* _owner_wrote: the waits of the running turn end.
OwnerWrote ==
    /\ opc = "wrote"
    /\ wrote' = TRUE
    /\ opc' = IF nsent \in urgent THEN "cut" ELSE "idle"
    /\ UNCHANGED <<loopVars, steering, nsent, urgent, interrupt, loopToken>>

\* _interrupt_step: the waits end and the step is cut.
InterruptStep ==
    /\ opc = "cut"
    /\ wrote' = TRUE
    /\ interrupt' = TRUE
    /\ opc' = "idle"
    /\ UNCHANGED <<loopVars, steering, nsent, urgent, loopToken>>

\* turn.cancel reaches the loop through its token.
Cancel ==
    /\ ~loopToken /\ pc # "end"
    /\ loopToken' = TRUE
    /\ UNCHANGED <<loopVars, ownerVars, steering, interrupt, wrote>>

-----------------------------------------------------------------------------
(***************************************************************************)
(* The loop.                                                               *)
(***************************************************************************)

Return(o) == pc' = "end" /\ outcome' = o

\* Mutant: the budget of model calls is not looked at.
TopUnbounded ==
    /\ pc = "top"
    /\ \/ /\ loopToken /\ Return("cancelled")
       \/ /\ ~loopToken /\ calls <= MaxCalls
          /\ pc' = "take" /\ UNCHANGED outcome
    /\ UNCHANGED <<calls, taken, history, dropped, request, reply, answered, checked,
                   retried, ownerVars, steering, interrupt, wrote, loopToken>>

\* The head of the loop: a cancelled turn raises, an exhausted budget stops.
Top ==
    /\ pc = "top"
    /\ \/ /\ loopToken /\ Return("cancelled")
       \/ /\ ~loopToken /\ calls = MaxCalls /\ Return("stopped")
       \/ /\ ~loopToken /\ calls < MaxCalls
          /\ pc' = "take" /\ UNCHANGED outcome
    /\ UNCHANGED <<calls, taken, history, dropped, request, reply, answered, checked,
                   retried, ownerVars, steering, interrupt, wrote, loopToken>>

\* _take_steering, the list: drained under the lock.
TakeDrain ==
    /\ pc = "take"
    /\ taken' = steering /\ steering' = {}
    /\ pc' = "append"
    /\ UNCHANGED <<calls, history, dropped, request, reply, answered, checked, retried,
                   outcome, ownerVars, interrupt, wrote, loopToken>>

\* _take_steering, the rest: the signal is cleared when something was taken, the
\* messages join the history and the request is built from it.
TakeAppend ==
    /\ pc = "append"
    /\ wrote' = (wrote /\ taken = {})
    /\ history' = history \cup taken
    /\ request' = history \cup taken
    /\ taken' = {}
    /\ pc' = "prepare"
    /\ UNCHANGED <<calls, dropped, reply, answered, checked, retried, outcome, ownerVars,
                   steering, interrupt, loopToken>>

\* The context is prepared (it may compact the history, which takes a model
\* call) and, just before the call, an older «send now» is forgotten.
Prepare ==
    /\ pc = "prepare"
    /\ interrupt' = FALSE
    /\ calls' = calls + 1
    /\ pc' = "call"
    /\ UNCHANGED <<taken, history, dropped, request, reply, answered, checked, retried,
                   outcome, ownerVars, steering, wrote, loopToken>>

\* The model answers; the call fails for good; it is cut every 50 ms by a
\* cancelled token; or by «send now», which leaves what was written so far.
ModelReplies ==
    /\ pc = "call"
    /\ reply' \in Replies
    /\ pc' = "collect"
    /\ UNCHANGED <<calls, taken, history, dropped, request, answered, checked, retried,
                   outcome, ownerVars, steering, interrupt, wrote, loopToken>>

ModelFails ==
    /\ pc = "call"
    /\ Return("failed")
    /\ UNCHANGED <<calls, taken, history, dropped, request, reply, answered, checked,
                   retried, ownerVars, steering, interrupt, wrote, loopToken>>

ModelCancelled ==
    /\ pc = "call" /\ loopToken
    /\ Return("cancelled")
    /\ UNCHANGED <<calls, taken, history, dropped, request, reply, answered, checked,
                   retried, ownerVars, steering, interrupt, wrote, loopToken>>

\* Mutant: a cut call does not end before the model does.
IgnoreInterrupt ==
    /\ pc = "call" /\ interrupt /\ loopToken
    /\ reply' \in {"text", "empty"}
    /\ interrupt' = FALSE
    /\ pc' = "collect"
    /\ UNCHANGED <<calls, taken, history, dropped, request, answered, checked, retried,
                   outcome, ownerVars, steering, wrote, loopToken>>

StepInterrupted ==
    /\ pc = "call" /\ interrupt /\ ~loopToken
    /\ reply' \in {"text", "empty"}
    /\ interrupt' = FALSE
    /\ pc' = "collect"
    /\ UNCHANGED <<calls, taken, history, dropped, request, answered, checked, retried,
                   outcome, ownerVars, steering, wrote, loopToken>>

\* Mutant: the list is read, and emptied later.
CollectKeeps ==
    /\ pc = "collect"
    /\ IF reply = "tools"
         THEN UNCHANGED <<taken, steering>>
         ELSE taken' = steering /\ UNCHANGED steering
    /\ pc' = "branch"
    /\ UNCHANGED <<calls, history, dropped, request, reply, answered, checked, retried,
                   outcome, ownerVars, interrupt, wrote, loopToken>>

\* A reply without tool calls takes the messages that arrived meanwhile.
Collect ==
    /\ pc = "collect"
    /\ IF reply = "tools"
         THEN UNCHANGED <<taken, steering>>
         ELSE taken' = steering /\ steering' = {}
    /\ pc' = "branch"
    /\ UNCHANGED <<calls, history, dropped, request, reply, answered, checked, retried,
                   outcome, ownerVars, interrupt, wrote, loopToken>>

\* The checklist note was answered with nothing: the earlier answer stands and
\* the turn returns, whatever was taken.
AnswerStands ==
    /\ pc = "branch" /\ reply = "empty" /\ answered
    /\ dropped' = dropped \cup taken
    /\ taken' = {}
    /\ answered' = FALSE
    /\ Return("answer")
    /\ UNCHANGED <<calls, history, request, reply, checked, retried, ownerVars, steering,
                   interrupt, wrote, loopToken>>

\* An empty reply with nothing to read: one more call, then a fallback model or
\* a stop.
EmptyReply ==
    /\ pc = "branch" /\ reply = "empty" /\ ~answered /\ taken = {}
    /\ \/ retried' = ~retried /\ pc' = "top" /\ UNCHANGED outcome
       \/ retried /\ Return("stopped") /\ UNCHANGED retried
    /\ UNCHANGED <<calls, taken, history, dropped, request, reply, answered, checked,
                   ownerVars, steering, interrupt, wrote, loopToken>>

\* Messages arrived while the model was answering: the turn goes on with them.
AnswerMessages ==
    /\ pc = "branch" /\ reply # "tools" /\ taken # {}
    /\ ~(reply = "empty" /\ answered)
    /\ history' = history \cup taken
    /\ taken' = {}
    /\ pc' = "top"
    /\ UNCHANGED <<calls, dropped, request, reply, answered, checked, retried, outcome,
                   ownerVars, steering, interrupt, wrote, loopToken>>

\* The answer is final, unless the checklist has a last note, once.
FinalAnswer ==
    /\ pc = "branch" /\ reply = "text" /\ taken = {}
    /\ \/ /\ ~checked
          /\ checked' = TRUE /\ answered' = TRUE
          /\ pc' = "top" /\ UNCHANGED outcome
       \/ /\ Return("answer")
          /\ UNCHANGED <<checked, answered>>
    /\ UNCHANGED <<calls, taken, history, dropped, request, reply, retried, ownerVars,
                   steering, interrupt, wrote, loopToken>>

\* Nothing to read, and yet no end: subagents returned results, the answer is
\* asked for in the owner's language, or the calls again after an opening.
GoesOn ==
    /\ pc = "branch" /\ taken = {} /\ ~(reply = "empty" /\ answered)
    /\ pc' = "top"
    /\ UNCHANGED <<calls, taken, history, dropped, request, reply, answered, checked,
                   retried, outcome, ownerVars, steering, interrupt, wrote, loopToken>>

\* The round of tools starts; a wait in it lasts until it is over or the owner
\* writes.
ToolsStart ==
    /\ pc = "branch" /\ reply = "tools"
    /\ pc' = "tools"
    /\ UNCHANGED <<calls, taken, history, dropped, request, reply, answered, checked,
                   retried, outcome, ownerVars, steering, interrupt, wrote, loopToken>>

\* The round ends, or the governor or the loop detector stops the turn.
ToolsEnd ==
    /\ pc = "tools"
    /\ \/ /\ pc' = "top" /\ UNCHANGED outcome
       \/ /\ Return(IF loopToken THEN "cancelled" ELSE "stopped")
    /\ UNCHANGED <<calls, taken, history, dropped, request, reply, answered, checked,
                   retried, ownerVars, steering, interrupt, wrote, loopToken>>

-----------------------------------------------------------------------------
Owner == Steer \/ SteerPromote \/ OwnerWrote \/ InterruptStep \/ Cancel

Loop ==
    \/ Top \/ TakeDrain \/ TakeAppend \/ Prepare
    \/ ModelReplies \/ ModelFails \/ ModelCancelled \/ StepInterrupted
    \/ Collect \/ AnswerStands \/ EmptyReply \/ AnswerMessages \/ FinalAnswer
    \/ GoesOn \/ ToolsStart \/ ToolsEnd

LoopNext == Owner \/ Loop

\* The loop's own steps go on.  A model call may last for ever as far as the
\* loop knows, but the 50 ms poll always sees a cut or a cancelled token; tools
\* have their own deadlines.
LoopFairness ==
    /\ WF_agentVars(Top \/ TakeDrain \/ TakeAppend \/ Prepare)
    /\ WF_agentVars(ModelCancelled \/ StepInterrupted)
    /\ WF_agentVars(Collect \/ AnswerStands \/ EmptyReply \/ AnswerMessages \/ FinalAnswer \/ GoesOn)
    /\ WF_agentVars(ToolsStart) /\ WF_agentVars(ToolsEnd)
    /\ WF_agentVars(OwnerWrote) /\ WF_agentVars(InterruptStep)

LoopSpec == LoopInit /\ [][LoopNext]_agentVars

LoopFairSpec == LoopSpec /\ LoopFairness

-----------------------------------------------------------------------------
(***************************************************************************)
(* Properties.                                                             *)
(***************************************************************************)

LoopTypeOK ==
    /\ pc \in {"top", "take", "append", "prepare", "call", "collect", "branch", "tools", "end"}
    /\ calls \in 0..MaxCalls
    /\ steering \subseteq Msgs /\ taken \subseteq Msgs /\ history \subseteq Msgs
    /\ dropped \subseteq Msgs /\ request \subseteq Msgs /\ urgent \subseteq Msgs
    /\ reply \in Replies
    /\ answered \in BOOLEAN /\ checked \in BOOLEAN /\ retried \in BOOLEAN
    /\ interrupt \in BOOLEAN /\ wrote \in BOOLEAN /\ loopToken \in BOOLEAN
    /\ outcome \in Outcomes
    /\ nsent \in 0..MaxMsgs
    /\ opc \in {"idle", "wrote", "cut"}

\* Every message the owner sent is in exactly one of: the list, the loop's
\* hands, the history, or the pile of dropped ones; the loop never reads one
\* twice (collect_steering against steer).
EachMessageIsReadOnce ==
    /\ steering \cup taken \cup history \cup dropped = 1..nsent
    /\ steering \cap (taken \cup history \cup dropped) = {}
    /\ taken \cap (history \cup dropped) = {}
    /\ history \cap dropped = {}

\* A model call that the owner cut, or cancelled, ends even if the model never
\* says another word (the 50 ms poll of _invoke_call).
CutCallsEnd == (pc = "call" /\ (interrupt \/ loopToken)) ~> pc # "call"

\* "the owner's message waits in the steering queue, so the loop goes on" (the
\* handler of a cut step): a message the loop takes is read by the model or
\* goes back; it is never just dropped.
NoMessageIsDropped == dropped = {}

=============================================================================
