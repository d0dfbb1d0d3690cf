------------------------------ MODULE Questions ------------------------------
(***************************************************************************)
(* QuestionBroker: a tool asks the owner and waits; the owner answers on a *)
(* request thread; the wait may be cancelled or run out; the engine may    *)
(* die, and a later one closes what nobody waits for when the history is   *)
(* read.  The event rows are the only record that survives.                *)
(***************************************************************************)
EXTENDS Naturals, FiniteSets

CONSTANT Qs         \* question requests, each of one conversation's turn

VARIABLES
    waiting,        \* broker.pending
    status,         \* the request in memory: "pending", "answered", "skipped", "expired"
    wait,           \* the tool's thread
    got,            \* what the tool was given: answers, a cancellation, or nothing
    stopped,        \* turns whose cancellation was requested
    rows            \* stored events of each question

questionVars == <<waiting, status, wait, got, stopped, rows>>

AnswerKinds == {"answered", "skipped"}
Requested == <<"question.requested", 1>>
Endings == {"question.resolved", "question.expired"}

QuestionsTypeOK ==
    /\ waiting \subseteq Qs
    /\ status \in [Qs -> {"none", "pending", "expired"} \cup AnswerKinds]
    /\ wait \in [Qs -> {"none", "waiting", "leaving", "done", "died"}]
    /\ got \in [Qs -> {"none", "cancelled"} \cup AnswerKinds]
    /\ stopped \subseteq Qs
    /\ rows \in [Qs -> SUBSET (({"question.requested"} \cup Endings) \X (1..2))]

QuestionsInit ==
    /\ waiting = {}
    /\ status = [q \in Qs |-> "none"]
    /\ wait = [q \in Qs |-> "none"]
    /\ got = [q \in Qs |-> "none"]
    /\ stopped = {}
    /\ rows = [q \in Qs |-> {}]

\* One more stored event; a second ending of a question is numbered 2.
Store(q, e) ==
    rows' = [rows EXCEPT ![q] = @ \cup {IF \E f \in Endings : <<f, 1>> \in rows[q]
                                        THEN <<e, 2>> ELSE <<e, 1>>}]
Ended(q) == \E e \in Endings : <<e, 1>> \in rows[q]

\* ask: registered and announced under the lock; when the emission fails it is
\* taken back and the tool fails.
AskQuestion(q, fails) ==
    /\ wait[q] = "none"
    /\ IF fails
       THEN /\ wait' = [wait EXCEPT ![q] = "done"]
            /\ UNCHANGED <<waiting, status, rows>>
       ELSE /\ wait' = [wait EXCEPT ![q] = "waiting"]
            /\ waiting' = waiting \cup {q}
            /\ status' = [status EXCEPT ![q] = "pending"]
            /\ rows' = [rows EXCEPT ![q] = {Requested}]
    /\ UNCHANGED <<got, stopped>>

\* The wait ends: answered, or (read without the lock) cancelled or out of time.
WaitEnds(q) ==
    /\ wait[q] = "waiting"
    /\ wait' = [wait EXCEPT ![q] = "leaving"]
    /\ \/ /\ status[q] \in AnswerKinds
          /\ got' = [got EXCEPT ![q] = status[q]]
       \/ /\ status[q] = "pending"
          /\ got' = [got EXCEPT ![q] = "cancelled"]
    /\ UNCHANGED <<waiting, status, stopped, rows>>

\* The finally, under the lock: a request still pending expires.
LeaveQuestion(q) ==
    /\ wait[q] = "leaving"
    /\ wait' = [wait EXCEPT ![q] = "done"]
    /\ waiting' = waiting \ {q}
    /\ IF status[q] = "pending"
       THEN status' = [status EXCEPT ![q] = "expired"] /\ Store(q, "question.expired")
       ELSE UNCHANGED <<status, rows>>
    /\ UNCHANGED <<got, stopped>>

\* resolve, under the lock: a request that waits, of a turn not cancelled, not
\* answered yet.  Every other reply is refused and changes nothing.
ResolveQuestion(q, reply) ==
    /\ q \in waiting
    /\ q \notin stopped
    /\ status[q] = "pending"
    /\ Store(q, "question.resolved")
    /\ status' = [status EXCEPT ![q] = reply]
    /\ UNCHANGED <<waiting, wait, got, stopped>>

CancelRequested(q) ==
    /\ q \notin stopped
    /\ wait[q] = "waiting"
    /\ stopped' = stopped \cup {q}
    /\ UNCHANGED <<waiting, status, wait, got, rows>>

ListAlsoWaiting ==
    /\ \E q \in Qs : Requested \in rows[q] /\ ~Ended(q)
    /\ rows' = [q \in Qs |-> IF Requested \in rows[q] /\ ~Ended(q)
                             THEN rows[q] \cup {<<"question.expired", 1>>} ELSE rows[q]]
    /\ UNCHANGED <<waiting, status, wait, got, stopped>>

ListOnlyKnown ==
    /\ \E q \in Qs : Requested \in rows[q] /\ ~Ended(q) /\ q \notin waiting
    /\ rows' = [q \in Qs |->
                  IF Requested \in rows[q] /\ ~Ended(q) /\ q \notin waiting /\ status[q] # "none"
                  THEN rows[q] \cup {<<"question.expired", 1>>} ELSE rows[q]]
    /\ UNCHANGED <<waiting, status, wait, got, stopped>>

\* list, under the lock: a question that has no ending and nobody waiting expires
\* in the store.
ListQuestions ==
    /\ \E q \in Qs : Requested \in rows[q] /\ ~Ended(q) /\ q \notin waiting
    /\ rows' = [q \in Qs |->
                  IF Requested \in rows[q] /\ ~Ended(q) /\ q \notin waiting
                  THEN rows[q] \cup {<<"question.expired", 1>>} ELSE rows[q]]
    /\ UNCHANGED <<waiting, status, wait, got, stopped>>

\* The engine dies: the waits and the requests in memory are gone.
EngineDies ==
    /\ waiting # {}
    /\ waiting' = {}
    /\ wait' = [q \in Qs |-> IF wait[q] \in {"waiting", "leaving"} THEN "died" ELSE wait[q]]
    /\ status' = [q \in Qs |-> "none"]
    /\ UNCHANGED <<got, stopped, rows>>

QuestionsNext ==
    \/ \E q \in Qs, fails \in BOOLEAN : AskQuestion(q, fails)
    \/ \E q \in Qs : WaitEnds(q) \/ LeaveQuestion(q) \/ CancelRequested(q)
    \/ \E q \in Qs, reply \in AnswerKinds : ResolveQuestion(q, reply)
    \/ ListQuestions
    \/ EngineDies

QuestionsSpec == QuestionsInit /\ [][QuestionsNext]_questionVars

\* The tool's thread runs, its deadline passes, and the history is read
\* (session.open lists the questions).
QuestionsFairness ==
    /\ \A q \in Qs : WF_questionVars(WaitEnds(q) \/ LeaveQuestion(q))
    /\ WF_questionVars(ListQuestions)

-----------------------------------------------------------------------------
(* Properties. *)

\* A question has one ending in the store, whatever the order of the reply, the
\* cancellation, the deadline, the death of the engine and the reads of the
\* history; and the tool was given answers only if the stored ending is the reply.
OneEndingPerQuestion ==
    \A q \in Qs :
        /\ \A e \in Endings : <<e, 2>> \notin rows[q]
        /\ got[q] \in AnswerKinds => <<"question.resolved", 1>> \in rows[q]

\* Every question shown ends in the store; one whose engine died expires durably.
QuestionsAreSettled ==
    \A q \in Qs : (Requested \in rows[q]) ~> Ended(q)

=============================================================================
