---------------------------- MODULE TurnRunProofs ----------------------------
(***************************************************************************)
(* What TurnRun promises whatever fails: the terminal event comes last,    *)
(* and a cancellation reaches the loop.  What Questions promises, for any  *)
(* set of questions.  And what is proved of both and of AgentLoop, put     *)
(* together.                                                               *)
(***************************************************************************)
EXTENDS MCTurn, AgentLoopProofs

\* _serialized appends an event of the protocol or nothing.
LEMMA EmitType ==
    ASSUME RunTypeOK, NEW e \in Events, Emit(e)
    PROVE  log' \in Seq(Events) /\ emitted' \in BOOLEAN
<1>1. log' \in Seq(Events) BY DEF RunTypeOK, Emit, eventVars
<1>2. CASE emitted \/ done BY <1>1, <1>2 DEF RunTypeOK, Emit, eventVars
<1>3. CASE ~(emitted \/ done)
  <2>1. emitted' = (e \in Terminals) BY <1>3 DEF Emit
  <2>2. (e \in Terminals) \in BOOLEAN OBVIOUS
  <2>3. QED BY <1>1, <2>1, <2>2
<1>4. QED BY <1>2, <1>3

\* Every step of the worker, the builder, the canceller and the subagent keeps
\* the types.
LEMMA RunTypeStep == RunTypeOK /\ [RunNext]_runVars => RunTypeOK'
<1> SUFFICES ASSUME RunTypeOK, [RunNext]_runVars PROVE RunTypeOK' OBVIOUS
<1> USE DEF workerVars, prepVars, cancelVars
<1>0. /\ {"turn.completed", "turn.stopped", "turn.cancelled", "turn.failed"} = Terminals
      /\ Terminals \subseteq Events
      /\ {"turn.preparing", "agent.failed", "agent.started", "agent.completed"} \subseteq Events
  BY DEF Terminals, Events, AgentEvents
<1>1. CASE BuildStage
  BY <1>0, <1>1, EmitType DEF BuildStage, RunTypeOK
<1>2. CASE Build \/ BuildFails \/ BuilderChecks \/ BuilderPuts
  BY <1>2 DEF Build, BuildFails, BuilderChecks, BuilderPuts, RunTypeOK, eventVars
<1>3. CASE PrepareCancelled \/ PrepareTimeout \/ PrepareTakes \/ Attach
  BY <1>0, <1>3 DEF PrepareCancelled, PrepareTimeout, PrepareTakes, Attach, Raise, RunTypeOK,
                    eventVars
<1>4. CASE Publish \/ Look \/ SetDone \/ Release
  BY ZenonT(30), <1>4 DEF Publish, Look, SetDone, Release, RunTypeOK, eventVars
<1>5. CASE RunEnds \/ RunCancelled \/ Finalize
  <2>1. verdict' \in Terminals /\ handler' \in BOOLEAN
    <3>1. {"turn.completed", "turn.stopped", "turn.cancelled", "turn.failed"} \subseteq Terminals
      BY <1>0
    <3>2. CASE RunEnds BY <3>1, <3>2 DEF RunEnds, Raise, RunTypeOK
    <3>3. CASE RunCancelled BY <3>1, <3>3 DEF RunCancelled, Raise, RunTypeOK
    <3>4. CASE Finalize BY <3>1, <3>4 DEF Finalize, RunTypeOK
    <3>5. QED BY <1>5, <3>2, <3>3, <3>4
  <2>2. /\ wpc' \in {"emit", "finally", "finalize"}
        /\ UNCHANGED <<prepVars, sessions, session, cancelVars, eventVars, agent, done>>
    BY <1>5 DEF RunEnds, RunCancelled, Finalize, Raise
  <2>3. QED BY <2>1, <2>2 DEF RunTypeOK, eventVars
<1>6. CASE EmitTerminal
  <2>1. verdict \in Events BY <1>0 DEF RunTypeOK
  <2>2. QED BY <1>6, <2>1, EmitType DEF EmitTerminal, RunTypeOK
<1>7. CASE CloseAgents
  <2>1. log' \in Seq(Events) /\ emitted' \in BOOLEAN
    BY <1>0, <1>7, EmitType DEF CloseAgents, RunTypeOK, eventVars
  <2>2. QED BY <1>7, <2>1 DEF CloseAgents, RunTypeOK
<1>8. CASE CancelTurn \/ CancelRequest \/ CancelToken
  BY <1>8 DEF CancelTurn, CancelRequest, CancelToken, RunTypeOK, eventVars
<1>9. CASE AgentStarts \/ AgentReturns
  BY <1>0, <1>9, EmitType DEF AgentStarts, AgentReturns, RunTypeOK
<1>10. CASE UNCHANGED runVars BY <1>10 DEF runVars, RunTypeOK
<1>11. QED
  BY <1>1, <1>2, <1>3, <1>4, <1>5, <1>6, <1>7, <1>8, <1>9, <1>10
  DEF RunNext, Builder, WorkerSteps, Canceller

\* Every variable of a turn keeps its type (_run_turn, _prepare_session).
THEOREM RunTypesTheorem == RunSpec => []RunTypeOK
<1>1. RunInit => RunTypeOK
  <2> SUFFICES ASSUME RunInit PROVE RunTypeOK OBVIOUS
  <2>1. log \in Seq(Events) BY DEF RunInit
  <2>2. QED BY <2>1 DEF RunInit, RunTypeOK, Terminals
<1>2. QED BY <1>1, RunTypeStep, PTL DEF RunSpec

-----------------------------------------------------------------------------
\* A log without terminal event until one was let through, and then with it at
\* the end.
LogInv ==
    /\ ~emitted => \A i \in 1..Len(log) : log[i] \notin Terminals
    /\ emitted => \A i \in 1..Len(log) : log[i] \in Terminals => i = Len(log)

\* The callback keeps the log so, whatever it is called with.
LEMMA EmitKeepsLog ==
    ASSUME RunTypeOK, LogInv, NEW e \in Events, Emit(e)
    PROVE  LogInv'
<1>1. CASE emitted \/ done BY <1>1 DEF Emit, LogInv, eventVars
<1>2. CASE ~(emitted \/ done)
  <2>1. /\ log' = Append(log, e) /\ emitted' = (e \in Terminals)
        /\ log \in Seq(Events) /\ ~emitted
    BY <1>2 DEF Emit, RunTypeOK
  <2>2. /\ Len(log') = Len(log) + 1
        /\ \A i \in 1..Len(log) : log'[i] = log[i] /\ log[i] \notin Terminals
        /\ log'[Len(log) + 1] = e
    BY <2>1 DEF LogInv
  <2>3. Len(log) \in Nat BY <2>1
  <2>4. CASE e \in Terminals
    <3>1. emitted' = TRUE BY <2>1, <2>4, Zenon
    <3>2. QED BY <2>2, <2>3, <3>1 DEF LogInv
  <2>5. CASE e \notin Terminals
    <3>1. ~emitted'
      <4>1. emitted' = (e \in Terminals) BY <2>1
      <4>2. QED BY <2>5, <4>1
    <3>2. QED BY <2>2, <2>3, <2>5, <3>1 DEF LogInv
  <2>6. QED BY <2>4, <2>5
<1>3. QED BY <1>1, <1>2

\* Every step leaves the log alone or goes through the callback.
LEMMA LogStep == RunTypeOK /\ LogInv /\ [RunNext]_runVars => LogInv'
<1> SUFFICES ASSUME RunTypeOK, LogInv, [RunNext]_runVars PROVE LogInv' OBVIOUS
<1>1. ASSUME UNCHANGED eventVars PROVE LogInv' BY <1>1 DEF LogInv, eventVars
<1>2. /\ verdict \in Events
      /\ {"turn.preparing", "agent.failed", "agent.started", "agent.completed"} \subseteq Events
  BY DEF RunTypeOK, Terminals, Events, AgentEvents
<1>3. CASE Builder
  BY <1>1, <1>2, <1>3, EmitKeepsLog
  DEF Builder, BuildStage, Build, BuildFails, BuilderChecks, BuilderPuts
<1>4. CASE Canceller
  BY <1>1, <1>4 DEF Canceller, CancelTurn, CancelRequest, CancelToken
<1>5. CASE AgentStarts \/ AgentReturns
  BY <1>2, <1>5, EmitKeepsLog DEF AgentStarts, AgentReturns
<1>6. CASE EmitTerminal \/ CloseAgents
  BY <1>1, <1>2, <1>6, EmitKeepsLog DEF EmitTerminal, CloseAgents
<1>7. CASE PrepareCancelled \/ PrepareTakes \/ Attach \/ Publish \/ Look \/ RunCancelled
           \/ Finalize \/ SetDone \/ Release \/ PrepareTimeout \/ RunEnds
  BY <1>1, <1>7
  DEF PrepareCancelled, PrepareTakes, Attach, Publish, Look, RunCancelled, Finalize, SetDone,
      Release, PrepareTimeout, RunEnds
<1>8. CASE UNCHANGED runVars BY <1>1, <1>8 DEF runVars, eventVars
<1>9. QED BY <1>3, <1>4, <1>5, <1>6, <1>7, <1>8 DEF RunNext, WorkerSteps

\* Whoever reports activity, and whatever fails, the desktop sees one terminal
\* event at most and nothing of the turn after it (_serialized).
THEOREM TerminalEventIsLastTheorem == RunSpec => []TerminalEventIsLast
<1>1. RunInit => LogInv BY DEF RunInit, LogInv
<1>2. RunTypeOK /\ LogInv => TerminalEventIsLast BY DEF LogInv, TerminalEventIsLast
<1>3. QED BY <1>1, <1>2, RunTypesTheorem, LogStep, PTL DEF RunSpec

-----------------------------------------------------------------------------
\* Once the worker has looked, a requested cancellation is in the token, or the
\* canceller is about to put it there; and it can, the session being published.
CancelInv ==
    /\ wpc \in {"look", "run"} => session
    /\ wpc = "run" /\ cancelReq => token \/ cpc = "token"

\* Neither order of publishing and cancelling loses the cancellation.
LEMMA CancelStep == RunTypeOK /\ CancelInv /\ [RunNext]_runVars => CancelInv'
<1> SUFFICES ASSUME RunTypeOK, CancelInv, [RunNext]_runVars PROVE CancelInv' OBVIOUS
<1> USE DEF CancelInv, workerVars, cancelVars, prepVars
<1>1. CASE Builder
  BY <1>1 DEF Builder, BuildStage, Build, BuildFails, BuilderChecks, BuilderPuts
<1>2. CASE Canceller
  <2>1. CASE CancelTurn \/ CancelRequest BY <2>1 DEF CancelTurn, CancelRequest
  <2>2. CASE CancelToken
    <3>1. token' = (token \/ session) /\ UNCHANGED <<wpc, session, cancelReq>>
      BY <2>2 DEF CancelToken
    <3>2. session => token' BY <3>1, Zenon
    <3>3. QED BY <3>1, <3>2
  <2>3. QED BY <1>2, <2>1, <2>2 DEF Canceller
<1>3. CASE AgentStarts \/ AgentReturns BY <1>3 DEF AgentStarts, AgentReturns
<1>4. CASE PrepareCancelled \/ PrepareTakes \/ Attach \/ PrepareTimeout
  BY <1>4 DEF PrepareCancelled, PrepareTakes, Attach, PrepareTimeout, Raise
<1>5. CASE Publish \/ SetDone \/ Release \/ EmitTerminal \/ CloseAgents \/ Look
  <2>1. CASE Publish \/ SetDone \/ Release \/ EmitTerminal \/ CloseAgents
    BY <2>1 DEF Publish, SetDone, Release, EmitTerminal, CloseAgents
  <2>2. CASE Look
    BY <2>2, Zenon DEF Look
  <2>3. QED BY <1>5, <2>1, <2>2
<1>6. CASE RunCancelled \/ RunEnds \/ Finalize
  BY <1>6 DEF RunCancelled, RunEnds, Finalize, Raise
<1>7. CASE UNCHANGED runVars BY <1>7 DEF runVars
<1>8. QED BY <1>1, <1>2, <1>3, <1>4, <1>5, <1>6, <1>7 DEF RunNext, WorkerSteps

\* A turn that runs after its owner was told of the cancellation has a cancelled
\* token (cancel_turn against the publication in _run_turn).
THEOREM CancelReachesTheLoopTheorem == RunSpec => []CancelReachesTheLoop
<1>1. RunInit => CancelInv BY DEF RunInit, CancelInv
<1>2. CancelInv => CancelReachesTheLoop BY DEF CancelInv, CancelReachesTheLoop
<1>3. QED BY <1>1, <1>2, RunTypesTheorem, CancelStep, PTL DEF RunSpec

-----------------------------------------------------------------------------
\* A turn that is over without a terminal event failed, after its session was
\* published, and saving its changes failed too: nothing else keeps the event from the
\* desktop (the last handler of _run_turn).
SilentTurnsFailedToSave ==
    done /\ ~emitted => handler /\ session /\ "finalize" \in Faults

\* The same once the worker has passed the event; before that the turn is not done.
SilenceInv ==
    /\ done => wpc \in {"release", "end"}
    /\ wpc \in {"finally", "done", "release", "end"} /\ ~emitted
         => handler /\ session /\ "finalize" \in Faults

\* A terminal event that passes the callback of a turn that is not done is seen.
LEMMA EmitShows ==
    ASSUME ~done, emitted \in BOOLEAN, Emit(verdict), verdict \in Terminals
    PROVE  emitted' = TRUE
<1>1. CASE emitted BY <1>1 DEF Emit, eventVars
<1>2. CASE ~emitted BY <1>2, Zenon DEF Emit
<1>3. QED BY <1>1, <1>2

\* Nothing that is emitted is taken back.
LEMMA EmitKeeps ==
    ASSUME NEW e \in Events, Emit(e), emitted
    PROVE  emitted'
BY DEF Emit, eventVars

\* No step ends the turn past its terminal event, but for the failing handler.
LEMMA SilenceStep == RunTypeOK /\ SilenceInv /\ [RunNext]_runVars => SilenceInv'
<1> SUFFICES ASSUME RunTypeOK, SilenceInv, [RunNext]_runVars PROVE SilenceInv' OBVIOUS
<1> USE DEF SilenceInv, workerVars
<1>1. {"turn.preparing", "agent.failed", "agent.started", "agent.completed"} \subseteq Events
  BY DEF Events, AgentEvents
<1>2. ASSUME UNCHANGED <<wpc, done, handler, session>>, emitted => emitted' PROVE SilenceInv'
  BY <1>2
<1>3. CASE Builder
  BY <1>1, <1>2, <1>3, EmitKeeps
  DEF Builder, BuildStage, Build, BuildFails, BuilderChecks, BuilderPuts, eventVars
<1>4. CASE Canceller
  BY <1>2, <1>4 DEF Canceller, CancelTurn, CancelRequest, CancelToken, eventVars
<1>5. CASE AgentStarts \/ AgentReturns
  BY <1>1, <1>2, <1>5, EmitKeeps DEF AgentStarts, AgentReturns
<1>6. CASE PrepareCancelled \/ PrepareTakes \/ Attach \/ PrepareTimeout \/ RunEnds
           \/ RunCancelled \/ Publish \/ Look
  BY <1>6
  DEF PrepareCancelled, PrepareTakes, Attach, PrepareTimeout, RunEnds, RunCancelled, Publish,
      Look, Raise
<1>7. CASE Finalize BY <1>7 DEF Finalize
<1>8. CASE EmitTerminal
  <2>1. ~done BY <1>8 DEF EmitTerminal
  <2>2. emitted' = TRUE BY <1>8, <2>1, EmitShows DEF EmitTerminal, RunTypeOK
  <2>3. QED BY <1>8, <2>1, <2>2 DEF EmitTerminal
<1>9. CASE CloseAgents
  <2>1. emitted => emitted' BY <1>1, <1>9, EmitKeeps DEF CloseAgents, eventVars
  <2>2. QED BY <1>9, <2>1 DEF CloseAgents
<1>10. CASE SetDone \/ Release BY <1>10 DEF SetDone, Release, eventVars
<1>11. CASE UNCHANGED runVars BY <1>2, <1>11 DEF runVars
<1>12. QED
  BY <1>3, <1>4, <1>5, <1>6, <1>7, <1>8, <1>9, <1>10, <1>11 DEF RunNext, WorkerSteps

\* Only a failure of finalize_changes inside a handler leaves the desktop without a
\* terminal event, whatever else fails, times out or is cancelled.
THEOREM SilentTurnsTheorem == RunSpec => []SilentTurnsFailedToSave
<1>1. RunInit => SilenceInv BY DEF RunInit, SilenceInv
<1>2. SilenceInv => SilentTurnsFailedToSave BY DEF SilenceInv, SilentTurnsFailedToSave
<1>3. QED BY <1>1, <1>2, RunTypesTheorem, SilenceStep, PTL DEF RunSpec

\* "The desktop must see a terminal event": it does, when saving the changes of a turn
\* cannot fail.
THEOREM TerminalEventTheorem ==
    ASSUME "finalize" \notin Faults
    PROVE  RunSpec => []EveryTurnHasATerminalEvent
<1>1. SilentTurnsFailedToSave => EveryTurnHasATerminalEvent
  BY DEF SilentTurnsFailedToSave, EveryTurnHasATerminalEvent
<1>2. QED BY <1>1, SilentTurnsTheorem, PTL

-----------------------------------------------------------------------------
(***************************************************************************)
(* Questions.                                                              *)
(***************************************************************************)

\* Every step of a question keeps the types.
LEMMA QuestionsTypeStep == QuestionsTypeOK /\ [QuestionsNext]_questionVars => QuestionsTypeOK'
<1> SUFFICES ASSUME QuestionsTypeOK, [QuestionsNext]_questionVars PROVE QuestionsTypeOK' OBVIOUS
<1> USE DEF QuestionsTypeOK, AnswerKinds
<1> DEFINE Row == ({"question.requested"} \cup Endings) \X (1..2)
<1>1. ASSUME NEW q \in Qs, NEW e \in Endings, Store(q, e) PROVE rows' \in [Qs -> SUBSET Row]
  <2>1. <<e, 1>> \in Row /\ <<e, 2>> \in Row OBVIOUS
  <2>2. \E x \in Row : rows' = [rows EXCEPT ![q] = @ \cup {x}] BY <1>1, <2>1 DEF Store
  <2>3. QED BY <2>2
<1>2. Requested \in Row /\ <<"question.expired", 1>> \in Row BY DEF Requested, Endings
<1>3. ASSUME NEW q \in Qs, NEW fails \in BOOLEAN, AskQuestion(q, fails) PROVE QuestionsTypeOK'
  BY <1>2, <1>3 DEF AskQuestion
<1>4. ASSUME NEW q \in Qs, WaitEnds(q) \/ CancelRequested(q) PROVE QuestionsTypeOK'
  BY <1>4 DEF WaitEnds, CancelRequested
<1>5. ASSUME NEW q \in Qs, LeaveQuestion(q) PROVE QuestionsTypeOK'
  <2>1. rows' \in [Qs -> SUBSET Row] BY <1>1, <1>5 DEF LeaveQuestion, Endings
  <2>2. QED BY <1>5, <2>1 DEF LeaveQuestion
<1>6. ASSUME NEW q \in Qs, NEW how \in AnswerKinds, ResolveQuestion(q, how)
      PROVE  QuestionsTypeOK'
  <2>1. rows' \in [Qs -> SUBSET Row] BY <1>1, <1>6 DEF ResolveQuestion, Endings
  <2>2. QED BY <1>6, <2>1 DEF ResolveQuestion
<1>7. CASE ListQuestions
  <2>1. rows' \in [Qs -> SUBSET Row] BY <1>2, <1>7 DEF ListQuestions
  <2>2. QED BY <1>7, <2>1 DEF ListQuestions
<1>8. CASE EngineDies BY <1>8 DEF EngineDies
<1>9. CASE UNCHANGED questionVars BY <1>9 DEF questionVars
<1>10. QED BY <1>3, <1>4, <1>5, <1>6, <1>7, <1>8, <1>9 DEF QuestionsNext

\* The request in memory and the stored rows of a question: one that is pending has
\* no ending yet, and one that was answered has its how stored.
QuestionInv(q) ==
    /\ wait[q] = "none" => rows[q] = {} /\ got[q] = "none"
    /\ q \in waiting <=> wait[q] \in {"waiting", "leaving"}
    /\ status[q] = "pending" => q \in waiting /\ rows[q] = {Requested} /\ got[q] \notin AnswerKinds
    /\ status[q] \in AnswerKinds \cup {"expired"} => wait[q] # "none"
    /\ status[q] \in AnswerKinds => <<"question.resolved", 1>> \in rows[q]

OneEnding(q) ==
    /\ \A e \in Endings : <<e, 2>> \notin rows[q]
    /\ got[q] \in AnswerKinds => <<"question.resolved", 1>> \in rows[q]

\* The first ending that is stored is the only one, and it is numbered 1.
LEMMA StoreEnds ==
    ASSUME QuestionsTypeOK, NEW q \in Qs, NEW e \in Endings, rows[q] = {Requested}, Store(q, e)
    PROVE  rows'[q] = {Requested, <<e, 1>>} /\ \A p \in Qs \ {q} : rows'[p] = rows[p]
<1>1. ~ \E f \in Endings : <<f, 1>> \in rows[q] BY DEF Requested, Endings
<1>2. QED BY <1>1 DEF Store, QuestionsTypeOK

\* Every step keeps the memory and the store of each question in step.
LEMMA QuestionStep ==
    ASSUME QuestionsTypeOK, \A q \in Qs : QuestionInv(q) /\ OneEnding(q),
           [QuestionsNext]_questionVars
    PROVE  \A q \in Qs : QuestionInv(q)' /\ OneEnding(q)'
<1> DEFINE Goal(q) == QuestionInv(q)' /\ OneEnding(q)'
<1> USE DEF QuestionsTypeOK
<1>1. ASSUME NEW q \in Qs, QuestionInv(q)', OneEnding(q)',
             \A p \in Qs \ {q} : /\ UNCHANGED <<status[p], wait[p], got[p], rows[p]>>
                                 /\ p \in waiting' <=> p \in waiting
      PROVE  \A p \in Qs : Goal(p)
  <2> SUFFICES ASSUME NEW p \in Qs, p # q PROVE Goal(p) BY <1>1
  <2>1. QuestionInv(p) /\ OneEnding(p) OBVIOUS
  <2>2. QED BY <1>1, <2>1 DEF QuestionInv, OneEnding
<1>2. ASSUME NEW q \in Qs, NEW fails \in BOOLEAN, AskQuestion(q, fails)
      PROVE  \A p \in Qs : Goal(p)
  <2>1. QuestionInv(q) /\ OneEnding(q) OBVIOUS
  <2>2. QuestionInv(q)' /\ OneEnding(q)'
    BY <1>2, <2>1 DEF AskQuestion, QuestionInv, OneEnding, Requested, Endings, AnswerKinds
  <2>3. QED BY <1>1, <1>2, <2>2 DEF AskQuestion
<1>3. ASSUME NEW q \in Qs, WaitEnds(q) PROVE \A p \in Qs : Goal(p)
  <2>1. QuestionInv(q) /\ OneEnding(q) OBVIOUS
  <2>2. QuestionInv(q)' /\ OneEnding(q)'
    BY <1>3, <2>1 DEF WaitEnds, QuestionInv, OneEnding, AnswerKinds
  <2>3. QED BY <1>1, <1>3, <2>2 DEF WaitEnds
<1>4. ASSUME NEW q \in Qs, LeaveQuestion(q) PROVE \A p \in Qs : Goal(p)
  <2>1. QuestionInv(q) /\ OneEnding(q) OBVIOUS
  <2>2. CASE status[q] = "pending"
    <3>1. /\ rows'[q] = {Requested, <<"question.expired", 1>>}
          /\ \A p \in Qs \ {q} : rows'[p] = rows[p]
      BY <1>4, <2>1, <2>2, StoreEnds DEF LeaveQuestion, QuestionInv, Endings
    <3>2. QuestionInv(q)' /\ OneEnding(q)'
      BY <1>4, <2>1, <2>2, <3>1
      DEF LeaveQuestion, QuestionInv, OneEnding, Requested, Endings, AnswerKinds
    <3>3. QED BY <1>1, <1>4, <3>1, <3>2 DEF LeaveQuestion
  <2>3. CASE status[q] # "pending"
    <3>1. QuestionInv(q)' /\ OneEnding(q)'
      BY <1>4, <2>1, <2>3 DEF LeaveQuestion, QuestionInv, OneEnding, AnswerKinds
    <3>2. QED BY <1>1, <1>4, <2>3, <3>1 DEF LeaveQuestion
  <2>4. QED BY <2>2, <2>3
<1>5. ASSUME NEW q \in Qs, NEW how \in AnswerKinds, ResolveQuestion(q, how)
      PROVE  \A p \in Qs : Goal(p)
  <2>1. QuestionInv(q) /\ OneEnding(q) OBVIOUS
  <2>2. /\ rows'[q] = {Requested, <<"question.resolved", 1>>}
        /\ \A p \in Qs \ {q} : rows'[p] = rows[p]
    BY <1>5, <2>1, StoreEnds DEF ResolveQuestion, QuestionInv, Endings
  <2>3. QuestionInv(q)' /\ OneEnding(q)'
    BY <1>5, <2>1, <2>2
    DEF ResolveQuestion, QuestionInv, OneEnding, Requested, Endings, AnswerKinds
  <2>4. QED BY <1>1, <1>5, <2>2, <2>3 DEF ResolveQuestion
<1>6. ASSUME NEW q \in Qs, CancelRequested(q) PROVE \A p \in Qs : Goal(p)
  BY <1>6 DEF CancelRequested, QuestionInv, OneEnding
<1>7. CASE ListQuestions
  <2> SUFFICES ASSUME NEW q \in Qs PROVE Goal(q) OBVIOUS
  <2>1. QuestionInv(q) /\ OneEnding(q) OBVIOUS
  <2>2. /\ UNCHANGED <<waiting, status, wait, got>>
        /\ \/ rows'[q] = rows[q]
           \/ /\ rows'[q] = rows[q] \cup {<<"question.expired", 1>>}
              /\ Requested \in rows[q] /\ q \notin waiting
    BY <1>7 DEF ListQuestions
  <2>3. QED BY <2>1, <2>2 DEF QuestionInv, OneEnding, Endings
<1>8. CASE EngineDies
  <2> SUFFICES ASSUME NEW q \in Qs PROVE Goal(q) OBVIOUS
  <2>1. QuestionInv(q) /\ OneEnding(q) OBVIOUS
  <2>2. QED BY <1>8, <2>1 DEF EngineDies, QuestionInv, OneEnding, AnswerKinds
<1>9. CASE UNCHANGED questionVars BY <1>9 DEF questionVars, QuestionInv, OneEnding
<1>10. QED BY <1>2, <1>3, <1>4, <1>5, <1>6, <1>7, <1>8, <1>9 DEF QuestionsNext

\* Every variable of the questions keeps its type.
THEOREM QuestionTypesTheorem == QuestionsSpec => []QuestionsTypeOK
<1>1. QuestionsInit => QuestionsTypeOK BY DEF QuestionsInit, QuestionsTypeOK, AnswerKinds
<1>2. QED BY <1>1, QuestionsTypeStep, PTL DEF QuestionsSpec

\* A question has one ending in the store, whatever the order of the reply, the
\* cancellation, the deadline, the death of the Engine and the reads of the history;
\* and answers reach the tool only when the stored ending is the reply
\* (QuestionBroker: ask, resolve, list).
THEOREM OneEndingTheorem == QuestionsSpec => []OneEndingPerQuestion
<1> DEFINE Inv == \A q \in Qs : QuestionInv(q) /\ OneEnding(q)
<1>1. QuestionsInit => QuestionsTypeOK /\ Inv
  BY DEF QuestionsInit, QuestionsTypeOK, QuestionInv, OneEnding, AnswerKinds
<1>2. QuestionsTypeOK /\ Inv /\ [QuestionsNext]_questionVars => Inv' BY QuestionStep
<1>3. Inv => OneEndingPerQuestion BY DEF OneEndingPerQuestion, OneEnding
<1>4. QED BY <1>1, <1>2, <1>3, QuestionsTypeStep, PTL DEF QuestionsSpec

-----------------------------------------------------------------------------
(***************************************************************************)
(* The three together.                                                     *)
(***************************************************************************)

\* The thread, the loop and the questions share no state: the steps of the whole are steps of
\* each, or of another, and what is proved of each holds in the whole.
LEMMA TurnParts == FairSpec => RunSpec /\ LoopSpec /\ QuestionsSpec
<1>1. Init => RunInit /\ LoopInit /\ QuestionsInit BY DEF Init
<1>2. [Next]_<<part, runVars, agentVars, questionVars>>
        => [RunNext]_runVars /\ [LoopNext]_agentVars /\ [QuestionsNext]_questionVars
  BY DEF Next
<1>3. QED BY <1>1, <1>2, PTL DEF FairSpec, RunSpec, LoopSpec, QuestionsSpec

\* Whichever of the thread, the loop and the questions moves, whatever fails and however the
\* owner interferes, the types hold, and with them what is said of the log, of a cancellation,
\* of the messages and of the endings.
THEOREM TurnTheorem ==
    FairSpec => [](/\ TypeOK /\ TerminalEventIsLast /\ CancelReachesTheLoop
                   /\ EachMessageIsReadOnce /\ OneEndingPerQuestion)
<1>1. RunTypeOK /\ LoopTypeOK /\ QuestionsTypeOK => TypeOK BY DEF TypeOK
<1>2. QED
  BY <1>1, TurnParts, RunTypesTheorem, LoopTypesTheorem, QuestionTypesTheorem,
     TerminalEventIsLastTheorem, CancelReachesTheLoopTheorem, EachMessageIsReadOnceTheorem,
     OneEndingTheorem, PTL

=============================================================================
