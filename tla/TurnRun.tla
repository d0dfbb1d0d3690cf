------------------------------- MODULE TurnRun -------------------------------
(***************************************************************************)
(* The life of one registered turn (engine_protocol/turns.py): its worker  *)
(* thread (_run_turn), the thread that builds its runtime behind a bounded *)
(* hand-over (_prepare_session), the request thread that cancels it        *)
(* (cancel_turn), and a subagent that reports its activity from a thread   *)
(* of its own.                                                             *)
(*                                                                         *)
(* Every activity goes through the callback _serialized of _activity_cb:   *)
(* one at a time under the turn's activity lock, and none after the        *)
(* terminal event.                                                         *)
(***************************************************************************)
EXTENDS Integers, Sequences

CONSTANTS
    Faults    \* what may fail: "attach" (a step between the hand-over and the
              \* run), "finalize" (saving the turn's changes), "build"

ASSUME FaultsAssumption == Faults \subseteq {"attach", "finalize", "build"}

Terminals == {"turn.completed", "turn.stopped", "turn.cancelled", "turn.failed"}
AgentEvents == {"agent.started", "agent.completed", "agent.failed"}
Events == Terminals \cup AgentEvents \cup {"turn.preparing"}

\* Bound: the stages of the build that are announced.
MaxStages == 2

VARIABLES
    wpc,         \* the worker: where _run_turn is
    verdict,     \* the terminal event the worker is about to emit
    handler,     \* the worker is in an except clause
    bpc,         \* the builder thread
    box,         \* the hand-over queue of one place
    abandoned,   \* the event of the same name
    sessions,    \* AgentSessions built and not ended: "built" or "none"
    session,     \* turn.session is set
    cpc,         \* the request thread inside cancel_turn
    cancelReq,   \* turn.cancel_requested
    token,       \* agent_session.token is cancelled
    emitted,     \* terminal_emitted
    log,         \* what the desktop received, in order
    agent,       \* the subagent: "none", "running" or "gone"
    done         \* turn.done

workerVars == <<wpc, verdict, handler>>
prepVars == <<bpc, box, abandoned>>
cancelVars == <<cpc, cancelReq, token>>
eventVars == <<emitted, log>>
runVars == <<wpc, verdict, handler, bpc, box, abandoned, sessions, session, cpc, cancelReq,
          token, emitted, log, agent, done>>

RunInit ==
    /\ wpc = "prepare" /\ verdict = "turn.completed" /\ handler = FALSE
    /\ bpc = "build" /\ box = "empty" /\ abandoned = FALSE
    /\ sessions = "none" /\ session = FALSE
    /\ cpc = "idle" /\ cancelReq = FALSE /\ token = FALSE
    /\ emitted = FALSE /\ log = << >>
    /\ agent = "none" /\ done = FALSE

-----------------------------------------------------------------------------
(***************************************************************************)
(* Activity.                                                               *)
(***************************************************************************)

\* Mutant: the callback forgets that the turn has ended.
EmitAlways(e) ==
    /\ log' = Append(log, e)
    /\ emitted' = (emitted \/ e \in Terminals)

\* _serialized: nothing passes once the terminal event has.
Emit(e) ==
    IF emitted \/ done
      THEN UNCHANGED eventVars
      ELSE /\ log' = Append(log, e)
           /\ emitted' = (e \in Terminals)

-----------------------------------------------------------------------------
(***************************************************************************)
(* The builder thread.                                                     *)
(***************************************************************************)

\* build_agent_session, which announces its stages as it goes.
BuildStage ==
    /\ bpc = "build" /\ Len(log) < MaxStages
    /\ Emit("turn.preparing")
    /\ UNCHANGED <<workerVars, prepVars, cancelVars, sessions, session, agent, done>>

Build ==
    /\ bpc = "build"
    /\ sessions' = "built"
    /\ bpc' = "check"
    /\ UNCHANGED <<workerVars, box, abandoned, session, cancelVars, eventVars, agent, done>>

BuildFails ==
    /\ bpc = "build" /\ "build" \in Faults
    /\ bpc' = "end"
    /\ box' = IF abandoned THEN box ELSE "error"
    /\ UNCHANGED <<workerVars, abandoned, sessions, session, cancelVars, eventVars, agent,
                   done>>

\* abandoned.is_set(): the session nobody waits for is ended here.
BuilderChecks ==
    /\ bpc = "check"
    /\ IF abandoned
         THEN bpc' = "end" /\ sessions' = "none"
         ELSE bpc' = "put" /\ UNCHANGED sessions
    /\ UNCHANGED <<workerVars, box, abandoned, session, cancelVars, eventVars, agent, done>>

BuilderPuts ==
    /\ bpc = "put"
    /\ box' = "session"
    /\ bpc' = "end"
    /\ UNCHANGED <<workerVars, abandoned, sessions, session, cancelVars, eventVars, agent,
                   done>>

-----------------------------------------------------------------------------
(***************************************************************************)
(* The worker thread.                                                      *)
(***************************************************************************)

\* An exception in the body of _run_turn: its handler settles the turn.
Raise(v) == wpc' = "finalize" /\ verdict' = v /\ handler' = TRUE

\* Mutant: the wait for the builder looks at the cancellation only afterwards.
PrepareCancelledLate ==
    /\ wpc = "prepare" /\ cancelReq /\ box # "empty"
    /\ abandoned' = TRUE
    /\ Raise("turn.cancelled")
    /\ UNCHANGED <<bpc, box, sessions, session, cancelVars, eventVars, agent, done>>

\* The waiting loop of _prepare_session: a cancelled turn or a stage that does
\* not move abandons the builder; otherwise its product is taken.
PrepareCancelled ==
    /\ wpc = "prepare" /\ cancelReq
    /\ abandoned' = TRUE
    /\ Raise("turn.cancelled")
    /\ UNCHANGED <<bpc, box, sessions, session, cancelVars, eventVars, agent, done>>

PrepareTimeout ==
    /\ wpc = "prepare" /\ ~cancelReq
    /\ abandoned' = TRUE
    /\ Raise("turn.failed")
    /\ UNCHANGED <<bpc, box, sessions, session, cancelVars, eventVars, agent, done>>

PrepareTakes ==
    /\ wpc = "prepare" /\ box # "empty"
    /\ box' = "empty"
    /\ IF box = "session"
         THEN wpc' = "attach" /\ UNCHANGED <<verdict, handler>>
         ELSE Raise("turn.failed")
    /\ UNCHANGED <<bpc, abandoned, sessions, session, cancelVars, eventVars, agent, done>>

\* Processes, browser, process watch and change tracker are attached.
Attach ==
    /\ wpc = "attach"
    /\ \/ wpc' = "publish" /\ UNCHANGED <<verdict, handler>>
       \/ "attach" \in Faults /\ Raise("turn.failed")
    /\ UNCHANGED <<prepVars, sessions, session, cancelVars, eventVars, agent, done>>

\* Mutant: the cancellation is looked at before the session is published.
PublishAfterLooking ==
    /\ wpc = "publish"
    /\ token' = (token \/ cancelReq)
    /\ wpc' = "look"
    /\ UNCHANGED <<session, verdict, handler, prepVars, sessions, cpc, cancelReq, eventVars,
                   agent, done>>

\* turn.session = agent_session, under the lock.
Publish ==
    /\ wpc = "publish"
    /\ session' = TRUE
    /\ wpc' = "look"
    /\ UNCHANGED <<verdict, handler, prepVars, sessions, cancelVars, eventVars, agent, done>>

\* A cancellation that came before the session was published is passed on.
Look ==
    /\ wpc = "look"
    /\ token' = (token \/ cancelReq)
    /\ wpc' = "run"
    /\ UNCHANGED <<verdict, handler, prepVars, sessions, session, cpc, cancelReq, eventVars,
                   agent, done>>

\* run_turn returns or raises; a cancelled token ends it either way.
RunEnds ==
    /\ wpc = "run"
    /\ \/ \E v \in {"turn.completed", "turn.stopped"} :
             wpc' = "finalize" /\ verdict' = v /\ UNCHANGED handler
       \/ Raise("turn.failed")
    /\ UNCHANGED <<prepVars, sessions, session, cancelVars, eventVars, agent, done>>

RunCancelled ==
    /\ wpc = "run" /\ token
    /\ \/ wpc' = "finalize" /\ verdict' = "turn.cancelled" /\ UNCHANGED handler
       \/ Raise("turn.cancelled")
    /\ UNCHANGED <<prepVars, sessions, session, cancelVars, eventVars, agent, done>>

\* finalize_changes.  Failing in the body it is the last handler's business,
\* which skips it (changes_finalized is set); failing in a handler it ends the
\* worker's try statement, and the terminal event is never reached.
Finalize ==
    /\ wpc = "finalize"
    /\ \/ wpc' = "emit" /\ UNCHANGED <<verdict, handler>>
       \/ /\ "finalize" \in Faults /\ ~handler
          /\ wpc' = "emit" /\ verdict' = "turn.failed" /\ handler' = TRUE
       \/ /\ "finalize" \in Faults /\ handler /\ session
          /\ wpc' = "finally" /\ UNCHANGED <<verdict, handler>>
    /\ UNCHANGED <<prepVars, sessions, session, cancelVars, eventVars, agent, done>>

EmitTerminal ==
    /\ wpc = "emit"
    /\ Emit(verdict)
    /\ wpc' = "finally"
    /\ UNCHANGED <<verdict, handler, prepVars, sessions, session, cancelVars, agent, done>>

\* The finally clause: a subagent that started and did not end is reported as
\* failed, through the same callback.
CloseAgents ==
    /\ wpc = "finally"
    /\ IF agent = "running" THEN Emit("agent.failed") ELSE UNCHANGED eventVars
    /\ wpc' = "done"
    /\ UNCHANGED <<verdict, handler, prepVars, sessions, session, cancelVars, agent, done>>

SetDone ==
    /\ wpc = "done"
    /\ done' = TRUE
    /\ wpc' = "release"
    /\ UNCHANGED <<verdict, handler, prepVars, sessions, session, cancelVars, eventVars,
                   agent>>

\* turn.session.end(), when the session was ever published.
Release ==
    /\ wpc = "release"
    /\ sessions' = IF session THEN "none" ELSE sessions
    /\ wpc' = "end"
    /\ UNCHANGED <<verdict, handler, prepVars, session, cancelVars, eventVars, agent, done>>

-----------------------------------------------------------------------------
(***************************************************************************)
(* The request thread: cancel_turn.  The turn is looked up under the lock; *)
(* the two steps that follow are outside it.                               *)
(***************************************************************************)

CancelTurn ==
    /\ cpc = "idle" /\ ~done /\ ~cancelReq
    /\ cpc' = "set"
    /\ UNCHANGED <<workerVars, prepVars, sessions, session, cancelReq, token, eventVars,
                   agent, done>>

CancelRequest ==
    /\ cpc = "set"
    /\ cancelReq' = TRUE
    /\ cpc' = "token"
    /\ UNCHANGED <<workerVars, prepVars, sessions, session, token, eventVars, agent, done>>

CancelToken ==
    /\ cpc = "token"
    /\ token' = (token \/ session)
    /\ cpc' = "idle"
    /\ UNCHANGED <<workerVars, prepVars, sessions, session, cancelReq, eventVars, agent, done>>

-----------------------------------------------------------------------------
(***************************************************************************)
(* A subagent of the turn, on its own thread.                              *)
(***************************************************************************)

AgentStarts ==
    /\ wpc = "run" /\ agent = "none"
    /\ agent' = "running"
    /\ Emit("agent.started")
    /\ UNCHANGED <<workerVars, prepVars, sessions, session, cancelVars, done>>

AgentReturns ==
    /\ agent = "running"
    /\ agent' = "gone"
    /\ Emit("agent.completed")
    /\ UNCHANGED <<workerVars, prepVars, sessions, session, cancelVars, done>>

-----------------------------------------------------------------------------
Builder == BuildStage \/ Build \/ BuildFails \/ BuilderChecks \/ BuilderPuts

WorkerSteps ==
    \/ PrepareCancelled \/ PrepareTakes \/ Attach \/ Publish \/ Look \/ RunCancelled
    \/ Finalize \/ EmitTerminal \/ CloseAgents \/ SetDone \/ Release

Canceller == CancelTurn \/ CancelRequest \/ CancelToken

RunNext ==
    \/ Builder \/ Canceller \/ AgentStarts \/ AgentReturns
    \/ WorkerSteps \/ PrepareTimeout \/ RunEnds

\* The worker's own steps go on and a request is served to its end.  Nothing
\* is assumed of the builder, of the model (RunEnds) or of the subagent; the
\* loop polls its token, which is what ends a cancelled run.
RunFairness == WF_runVars(WorkerSteps) /\ WF_runVars(CancelRequest \/ CancelToken)

RunSpec == RunInit /\ [][RunNext]_runVars

RunFairSpec == RunSpec /\ RunFairness

-----------------------------------------------------------------------------
(***************************************************************************)
(* Properties.                                                             *)
(***************************************************************************)

RunTypeOK ==
    /\ wpc \in {"prepare", "attach", "publish", "look", "run", "finalize", "emit",
                "finally", "done", "release", "end"}
    /\ verdict \in Terminals /\ handler \in BOOLEAN
    /\ bpc \in {"build", "check", "put", "end"}
    /\ box \in {"empty", "session", "error"} /\ abandoned \in BOOLEAN
    /\ sessions \in {"none", "built"} /\ session \in BOOLEAN
    /\ cpc \in {"idle", "set", "token"} /\ cancelReq \in BOOLEAN /\ token \in BOOLEAN
    /\ emitted \in BOOLEAN /\ log \in Seq(Events)
    /\ agent \in {"none", "running", "gone"} /\ done \in BOOLEAN

\* The desktop sees at most one terminal event and nothing of the turn after
\* it, though the worker, the builder and the subagents all report activity.
TerminalEventIsLast ==
    \A i \in 1..Len(log) : log[i] \in Terminals => i = Len(log)

\* A cancellation the owner was told of reaches the running loop, whichever of
\* the session being published and the turn being cancelled comes first.
CancelReachesTheLoop == wpc = "run" /\ cpc = "idle" /\ cancelReq => token

\* A cancelled turn ends, even if its runtime is never built and the model
\* never answers ("Stop remains responsive", _prepare_session).
CancelledTurnsEnd == cancelReq ~> done

\* "the desktop must see a terminal event" (the last handler of _run_turn): a
\* turn that is over had one.
EveryTurnHasATerminalEvent == done => emitted

=============================================================================
