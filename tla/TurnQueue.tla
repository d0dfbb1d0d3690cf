------------------------------ MODULE TurnQueue ------------------------------
(***************************************************************************)
(* The messages of one session inside the Engine's turn manager            *)
(* (engine_protocol/turns.py): the prompt queue, the messages steered into *)
(* the running turn, and every thread that may start the session's next    *)
(* turn.                                                                   *)
(*                                                                         *)
(* Threads.  The request thread (Main) serves the desktop's calls one at a *)
(* time; Runner is any other thread that acts on the session: the resume   *)
(* runner, the schedule runner, or a worker of its mother or a child       *)
(* session; turn t runs on a worker thread of its own, called t here too.  *)
(* The manager's lock makes one step of what a `with self._lock` block     *)
(* does; what the code does between two such blocks is two steps, so the    *)
(* other threads may run in between.                                       *)
(*                                                                         *)
(* Data.  A message is a number, given out in the order the Engine takes   *)
(* the messages in; a queue entry is the set of messages it joins.         *)
(***************************************************************************)
EXTENDS Integers, FiniteSets, Sequences

CONSTANTS
    MaxTurns,        \* bound: turns ever registered
    MaxMsgs,         \* bound: messages ever sent
    MaxAuto,         \* bound: turns asked for without a message
    MaxQueueDepth,   \* MAX_QUEUE_DEPTH, turns.py:75
    Calls            \* the calls made on the session, see AllCalls

\* Every call on a session that an instance may include.
AllCalls == {"turn.start", "turn.steer", "turn.steer.cancel", "queue.add", "queue.clear",
             "queue.resume", "compact", "session.close", "session.resume",
             "child.message", "child.report", "schedule", "goal", "wake"}

ASSUME BoundsAssumption ==
    /\ MaxTurns \in Nat \ {0}
    /\ MaxMsgs \in Nat
    /\ MaxAuto \in Nat
    /\ MaxQueueDepth \in Nat \ {0}
    /\ MaxTurns >= MaxMsgs + MaxAuto     \* so the bound stops no turn
    /\ Calls \subseteq AllCalls

Turns == 1..MaxTurns
Msgs == 1..MaxMsgs
Main == 0
Runner == MaxTurns + 1
Threads == 0..(MaxTurns + 1)

\* Who wrote a message: the owner, the mother session, a child's report, or a
\* scheduled task.
Sources == {"owner", "parent", "report", "schedule"}

\* How a turn is started: with a queue entry, by turn.start or the mother, by a
\* compaction request, by a scheduled task, by a goal, by a resume or by a wake.
Jobs == {"queued", "direct", "compact", "schedule", "goal", "resume", "wake"}

\* What became of a message.  "pending": the Engine answers for it; "started":
\* a turn was started with it; "taken": the agent loop of a turn took it.
Fates == {"unsent", "pending", "started", "taken", "returned", "withdrawn",
          "cleared", "unreported", "refused"}

\* A turn's terminal event.  Nothing here tells turn.stopped from turn.failed, and
\* a turn that ends without any is settled as a failed one.
Terminals == {"completed", "cancelled", "failed"}

Labels == {"none", "idle", "run", "ending", "closed", "settle", "hold", "pop",
           "check", "register", "putback", "goal", "add", "closing", "inflight"}

VARIABLES
    nturn,      \* turns registered so far
    nmsg,       \* messages sent so far
    nauto,      \* turns asked for without a message so far
    src,        \* [Msgs -> who wrote it]
    fate,       \* [Msgs -> what became of it]
    queue,      \* _queue[session]: a sequence of entries
    steering,   \* [Turns -> turn.steering]
    leftover,   \* [Turns -> what _close_steering returned]
    compact,    \* the turns with compaction_only
    term,       \* [Turns -> turn.terminal_event]
    open,       \* the turns with steering_open
    done,       \* the turns whose done event is set
    steeredTo,  \* [Msgs -> the turn it was steered into, 0 when none]
    qadded,     \* the messages accepted by queue_add
    pc,         \* [Threads -> where the thread is]
    job,        \* [Threads -> the kind of turn it is starting]
    hand,       \* [Threads -> the messages it holds in a local variable]
    hold,       \* queue_hold(session): a resume waits
    closed      \* the session's state is closed

msgVars == <<nmsg, src, fate, steeredTo, qadded>>
turnVars == <<nturn, nauto, compact, term, open, done, steering, leftover>>
threadVars == <<pc, job, hand>>
vars == <<nturn, nmsg, nauto, src, fate, queue, steering, leftover, compact,
          term, open, done, steeredTo, qadded, pc, job, hand, hold, closed>>

Registered == 1..nturn

\* The turns for which `not turn.done.is_set()`.
Active == Registered \ done

Busy == Active # {}

\* The messages of a queue, whatever their entry.
Queued(q) == UNION {q[i] : i \in DOMAIN q}

Init ==
    /\ nturn = 0 /\ nmsg = 0 /\ nauto = 0
    /\ src = [m \in Msgs |-> "owner"]
    /\ fate = [m \in Msgs |-> "unsent"]
    /\ queue = << >>
    /\ steering = [t \in Turns |-> {}]
    /\ leftover = [t \in Turns |-> {}]
    /\ compact = {}
    /\ term = [t \in Turns |-> "none"]
    /\ open = {} /\ done = {}
    /\ steeredTo = [m \in Msgs |-> 0]
    /\ qadded = {}
    /\ pc = [th \in Threads |-> IF th \in {Main, Runner} THEN "idle" ELSE "none"]
    /\ job = [th \in Threads |-> "direct"]
    /\ hand = [th \in Threads |-> {}]
    /\ hold = FALSE /\ closed = FALSE

-----------------------------------------------------------------------------
(***************************************************************************)
(* Starting a turn: _start_next_queued and start_turn, run by any thread.  *)
(***************************************************************************)

\* Where a thread goes on after _start_next_queued: a worker asks the goal.
AfterKick(th) == IF th \in Turns THEN "goal" ELSE "idle"

\* The hold is asked before the lock is taken.
KickHold(th) ==
    /\ pc[th] = "hold"
    /\ pc' = [pc EXCEPT ![th] = IF hold THEN AfterKick(th) ELSE "pop"]
    /\ UNCHANGED <<msgVars, turnVars, queue, job, hand, hold, closed>>

\* Under the lock: nothing runs, and the first entry leaves the queue.
KickPop(th) ==
    /\ pc[th] = "pop"
    /\ IF Busy \/ queue = << >>
         THEN /\ pc' = [pc EXCEPT ![th] = AfterKick(th)]
              /\ UNCHANGED <<queue, job, hand>>
         ELSE /\ queue' = Tail(queue)
              /\ hand' = [hand EXCEPT ![th] = Head(queue)]
              /\ job' = [job EXCEPT ![th] = "queued"]
              /\ pc' = [pc EXCEPT ![th] = "check"]
    /\ UNCHANGED <<msgVars, turnVars, hold, closed>>

\* What the caller of start_turn does when it raises TURN_RUNNING or
\* SESSION_CLOSED: a queue entry is put back, a scheduled task waits in the
\* queue while a turn runs, everything else is refused (a resume refused by a
\* closed session is finished, which lets the queue go).
StartRefused(th, code) ==
    LET waits == job[th] = "schedule" /\ code = "TURN_RUNNING" IN
    /\ pc' = [pc EXCEPT ![th] = IF job[th] = "queued" THEN "putback"
                                ELSE IF waits THEN "add" ELSE "idle"]
    /\ hold' = (hold /\ ~(job[th] = "resume" /\ code = "SESSION_CLOSED"))
    /\ IF job[th] \in {"direct", "schedule"} /\ ~waits
         THEN /\ fate' = [m \in Msgs |-> IF m \in hand[th] THEN "refused" ELSE fate[m]]
              /\ hand' = [hand EXCEPT ![th] = {}]
         ELSE UNCHANGED <<fate, hand>>
    /\ job' = [job EXCEPT ![th] = "direct"]
    /\ UNCHANGED <<nmsg, src, steeredTo, qadded, turnVars, queue, closed>>

\* start_turn reads the session's state before it takes the lock.
StartCheck(th) ==
    /\ pc[th] = "check"
    /\ IF closed
         THEN StartRefused(th, "SESSION_CLOSED")
         ELSE /\ pc' = [pc EXCEPT ![th] = "register"]
              /\ UNCHANGED <<msgVars, turnVars, queue, job, hand, hold, closed>>

\* Mutant: the registration forgets to look for a running turn.
StartRegisterUnchecked(th) ==
    /\ pc[th] = "register"
    /\ nturn < MaxTurns
    /\ LET t == nturn + 1 IN
        /\ nturn' = t
        /\ open' = open \cup {t}
        /\ compact' = IF job[th] = "compact" THEN compact \cup {t} ELSE compact
        /\ fate' = [m \in Msgs |-> IF m \in hand[th] THEN "started" ELSE fate[m]]
        /\ hand' = [hand EXCEPT ![th] = {}]
        /\ pc' = [pc EXCEPT ![t] = "run", ![th] = "idle"]
    /\ UNCHANGED <<nmsg, nauto, src, steeredTo, qadded, queue, steering, leftover,
                   term, done, job, hold, closed>>

\* Under the lock: refused while a turn runs, registered otherwise; then the
\* turn's worker thread starts.
StartRegister(th) ==
    /\ pc[th] = "register"
    /\ IF Busy
         THEN StartRefused(th, "TURN_RUNNING")
         ELSE /\ nturn < MaxTurns
              /\ LET t == nturn + 1 IN
                  /\ nturn' = t
                  /\ open' = open \cup {t}
                  /\ compact' = IF job[th] = "compact" THEN compact \cup {t} ELSE compact
                  /\ fate' = [m \in Msgs |->
                                IF m \in hand[th] THEN "started" ELSE fate[m]]
                  /\ hand' = [hand EXCEPT ![th] = {}]
                  /\ job' = [job EXCEPT ![th] = "direct"]
                  /\ pc' = [pc EXCEPT ![t] = "run",
                                      ![th] = CASE job[th] = "queued" -> AfterKick(th)
                                                [] job[th] = "resume" -> "inflight"
                                                [] OTHER -> "idle"]
              /\ UNCHANGED <<nmsg, nauto, src, steeredTo, qadded, queue, steering,
                             leftover, term, done, hold, closed>>

\* Mutant: a refused entry is forgotten.
PutBackForgotten(th) ==
    /\ pc[th] = "putback"
    /\ hand' = [hand EXCEPT ![th] = {}]
    /\ pc' = [pc EXCEPT ![th] = AfterKick(th)]
    /\ UNCHANGED <<msgVars, turnVars, queue, job, hold, closed>>

\* Under the lock again: the refused entry goes back to the head.
PutBack(th) ==
    /\ pc[th] = "putback"
    /\ queue' = <<hand[th]>> \o queue
    /\ hand' = [hand EXCEPT ![th] = {}]
    /\ pc' = [pc EXCEPT ![th] = AfterKick(th)]
    /\ UNCHANGED <<msgVars, turnVars, job, hold, closed>>

Starting(th) ==
    KickHold(th) \/ KickPop(th) \/ StartCheck(th) \/ StartRegister(th) \/ PutBack(th)

-----------------------------------------------------------------------------
(***************************************************************************)
(* A turn's worker: _run_turn, as far as messages go.                      *)
(***************************************************************************)

\* Mutant: the list is copied and not emptied.
DrainKeeps(t) ==
    /\ pc[t] = "run" /\ steering[t] # {}
    /\ fate' = [m \in Msgs |-> IF m \in steering[t] THEN "taken" ELSE fate[m]]
    /\ UNCHANGED <<nmsg, src, steeredTo, qadded, turnVars, queue, threadVars, hold, closed>>

\* The agent loop takes what was steered so far (collect_steering).
Drain(t) ==
    /\ pc[t] = "run" /\ steering[t] # {}
    /\ fate' = [m \in Msgs |-> IF m \in steering[t] THEN "taken" ELSE fate[m]]
    /\ steering' = [steering EXCEPT ![t] = {}]
    /\ UNCHANGED <<nmsg, src, steeredTo, qadded, nturn, nauto, compact, term, open,
                   done, leftover, queue, threadVars, hold, closed>>

\* Mutant: a stop is recorded under a name _settle_steering does not know.
FinishUnnamed(t) ==
    /\ pc[t] = "run"
    /\ \E o \in Terminals \cup {"stopped"} : term' = [term EXCEPT ![t] = o]
    /\ pc' = [pc EXCEPT ![t] = "ending"]
    /\ UNCHANGED <<msgVars, nturn, nauto, compact, open, done, steering, leftover,
                   queue, job, hand, hold, closed>>

\* The turn's terminal event.  A turn that failed on a provider limit may arm
\* a resume, which holds the queue from then on (ResumeRunner._observe).
Finish(t) ==
    /\ pc[t] = "run"
    /\ \E o \in Terminals :
        /\ term' = [term EXCEPT ![t] = o]
        /\ hold' \in IF "session.resume" \in Calls /\ o = "failed" THEN {hold, TRUE} ELSE {hold}
    /\ pc' = [pc EXCEPT ![t] = "ending"]
    /\ UNCHANGED <<msgVars, nturn, nauto, compact, open, done, steering, leftover,
                   queue, job, hand, closed>>

\* _close_steering, under the lock.
CloseSteering(t) ==
    /\ pc[t] = "ending"
    /\ open' = open \ {t}
    /\ leftover' = [leftover EXCEPT ![t] = steering[t]]
    /\ steering' = [steering EXCEPT ![t] = {}]
    /\ pc' = [pc EXCEPT ![t] = "closed"]
    /\ UNCHANGED <<msgVars, nturn, nauto, compact, term, done, queue, job, hand,
                   hold, closed>>

\* turn.done.set(): from here on has_active_turn and start_turn see no turn.
SetDone(t) ==
    /\ pc[t] = "closed"
    /\ done' = done \cup {t}
    /\ pc' = [pc EXCEPT ![t] = "settle"]
    /\ UNCHANGED <<msgVars, nturn, nauto, compact, term, open, steering, leftover,
                   queue, job, hand, hold, closed>>

\* One entry for the messages of a source, none when there are none.
Entry(S) == IF S = {} THEN << >> ELSE <<S>>

\* Mutant: what a turn left unread runs next, however the turn ended.
SettleAlwaysQueues(t) ==
    LET reports == {m \in leftover[t] : src[m] = "report"}
        owners  == {m \in leftover[t] : src[m] = "owner"}
        parents == {m \in leftover[t] : src[m] = "parent"}
    IN  /\ pc[t] = "settle"
        /\ queue' = Entry(owners) \o Entry(parents) \o queue
        /\ fate' = [m \in Msgs |-> IF m \in reports THEN "unreported" ELSE fate[m]]
        /\ leftover' = [leftover EXCEPT ![t] = {}]
        /\ pc' = [pc EXCEPT ![t] = "hold"]
        /\ UNCHANGED <<nmsg, src, steeredTo, qadded, nturn, nauto, compact, term, open,
                       done, steering, job, hand, hold, closed>>

\* Mutant: the unread messages of a turn that did not complete are not settled.
SettleOnlyCompleted(t) ==
    /\ pc[t] = "settle"
    /\ IF term[t] = "completed"
         THEN /\ queue' = Entry(leftover[t]) \o queue
              /\ leftover' = [leftover EXCEPT ![t] = {}]
         ELSE UNCHANGED <<queue, leftover>>
    /\ pc' = [pc EXCEPT ![t] = "hold"]
    /\ UNCHANGED <<msgVars, nturn, nauto, compact, term, open, done, steering, job, hand,
                   hold, closed>>

\* _settle_steering: a report stays unreported; after a completed turn the rest
\* is queued first, the owner's before the mother's; otherwise it goes back.
Settle(t) ==
    LET reports == {m \in leftover[t] : src[m] = "report"}
        owners  == {m \in leftover[t] : src[m] = "owner"}
        parents == {m \in leftover[t] : src[m] = "parent"}
        queues  == term[t] = "completed"
    IN  /\ pc[t] = "settle"
        /\ queue' = IF queues THEN Entry(owners) \o Entry(parents) \o queue ELSE queue
        /\ fate' = [m \in Msgs |->
                      CASE m \in reports -> "unreported"
                        [] m \in leftover[t] \ reports /\ ~queues -> "returned"
                        [] OTHER -> fate[m]]
        /\ leftover' = [leftover EXCEPT ![t] = {}]
        /\ pc' = [pc EXCEPT ![t] = "hold"]
        /\ UNCHANGED <<nmsg, src, steeredTo, qadded, nturn, nauto, compact, term, open,
                       done, steering, job, hand, hold, closed>>

\* _goal_after_turn: unless the owner pressed Stop the goal may want to go on;
\* start_goal_turn looks, under the lock, for a running turn or a waiting
\* message, then starts a turn.
GoalAfterTurn(t) ==
    /\ pc[t] = "goal"
    /\ \/ /\ pc' = [pc EXCEPT ![t] = "idle"]
          /\ UNCHANGED <<nauto, job>>
       \/ /\ "goal" \in Calls /\ term[t] # "cancelled" /\ ~Busy /\ queue = << >> /\ nauto < MaxAuto
          /\ nauto' = nauto + 1
          /\ job' = [job EXCEPT ![t] = "goal"]
          /\ pc' = [pc EXCEPT ![t] = "check"]
    /\ UNCHANGED <<msgVars, nturn, compact, term, open, done, steering, leftover,
                   queue, hand, hold, closed>>

Worker(t) ==
    Drain(t) \/ Finish(t) \/ CloseSteering(t) \/ SetDone(t) \/ Settle(t) \/ GoalAfterTurn(t)

-----------------------------------------------------------------------------
(***************************************************************************)
(* The desktop's calls, one at a time on the request thread.               *)
(***************************************************************************)

\* A new message of source s arrives at thread th, which is free to serve it.
Arrives(th, m, s) ==
    /\ pc[th] = "idle"
    /\ m = nmsg + 1 /\ m \in Msgs
    /\ nmsg' = m
    /\ src' = [src EXCEPT ![m] = s]

\* The thread that brings a message: the desktop's calls are the owner's, the
\* mother's messages and the children's reports come from other workers.
From(s) == IF s = "owner" THEN Main ELSE Runner

\* turn.start, and ChildSessions.message to an idle child: start_turn holds the
\* message until the turn is registered.
TurnStart(m, s) ==
    /\ (IF s = "owner" THEN "turn.start" ELSE "child.message") \in Calls
    /\ Arrives(From(s), m, s)
    /\ fate' = [fate EXCEPT ![m] = "pending"]
    /\ hand' = [hand EXCEPT ![From(s)] = {m}]
    /\ job' = [job EXCEPT ![From(s)] = "direct"]
    /\ pc' = [pc EXCEPT ![From(s)] = "check"]
    /\ UNCHANGED <<steeredTo, qadded, turnVars, queue, hold, closed>>

\* context.compact: a turn with compaction_only, which no message can steer.
Compact ==
    /\ "compact" \in Calls
    /\ pc[Main] = "idle" /\ nauto < MaxAuto
    /\ nauto' = nauto + 1
    /\ job' = [job EXCEPT ![Main] = "compact"]
    /\ pc' = [pc EXCEPT ![Main] = "check"]
    /\ UNCHANGED <<msgVars, nturn, compact, term, open, done, steering, leftover,
                   queue, hand, hold, closed>>

\* The call that steers a message of source s.
SteerCall(s) ==
    CASE s = "owner" -> "turn.steer" [] s = "parent" -> "child.message"
      [] s = "report" -> "child.report"

\* The turn a message can be steered into, if any.
Steerable == (Active \cap open) \ compact

\* Mutant: a turn that is finishing still takes messages.
SteerIntoAnyActive(m, s) ==
    /\ SteerCall(s) \in Calls
    /\ Arrives(From(s), m, s)
    /\ IF Active # {}
         THEN LET t == CHOOSE u \in Active : TRUE IN
              /\ steering' = [steering EXCEPT ![t] = @ \cup {m}]
              /\ fate' = [fate EXCEPT ![m] = "pending"]
              /\ steeredTo' = [steeredTo EXCEPT ![m] = t]
              /\ UNCHANGED <<pc, hand>>
         ELSE /\ fate' = [fate EXCEPT ![m] = "pending"]
              /\ hand' = [hand EXCEPT ![From(s)] = {m}]
              /\ pc' = [pc EXCEPT ![From(s)] = "add"]
              /\ UNCHANGED <<steering, steeredTo>>
    /\ UNCHANGED <<qadded, nturn, nauto, compact, term, open, done, leftover, queue, job,
                   hold, closed>>

\* turn.steer: into the running turn while it is open and has room; a full turn
\* refuses; without a turn the message goes on to queue_add, and a report
\* (queue_if_idle false) is dropped: its child stays unreported.
Steer(m, s) ==
    /\ SteerCall(s) \in Calls
    /\ Arrives(From(s), m, s)
    /\ IF Steerable # {}
         THEN LET t == CHOOSE u \in Steerable : TRUE IN
              /\ IF Cardinality(steering[t]) >= MaxQueueDepth
                   THEN /\ fate' = [fate EXCEPT ![m] = "refused"]
                        /\ UNCHANGED <<steering, steeredTo>>
                   ELSE /\ steering' = [steering EXCEPT ![t] = @ \cup {m}]
                        /\ fate' = [fate EXCEPT ![m] = "pending"]
                        /\ steeredTo' = [steeredTo EXCEPT ![m] = t]
              /\ UNCHANGED <<pc, hand>>
         ELSE /\ IF s = "report"
                   THEN /\ fate' = [fate EXCEPT ![m] = "unreported"]
                        /\ UNCHANGED <<pc, hand>>
                   ELSE /\ fate' = [fate EXCEPT ![m] = "pending"]
                        /\ hand' = [hand EXCEPT ![From(s)] = {m}]
                        /\ pc' = [pc EXCEPT ![From(s)] = "add"]
              /\ UNCHANGED <<steering, steeredTo>>
    /\ UNCHANGED <<qadded, nturn, nauto, compact, term, open, done, leftover, queue, job,
                   hold, closed>>

\* queue_add called from steer or from the schedule runner: a full queue
\* refuses; otherwise the entry is appended and the queue is kicked.
QueueAddThenKick(th) ==
    /\ pc[th] = "add"
    /\ hand' = [hand EXCEPT ![th] = {}]
    /\ IF Len(queue) >= MaxQueueDepth
         THEN /\ fate' = [m \in Msgs |-> IF m \in hand[th] THEN "refused" ELSE fate[m]]
              /\ pc' = [pc EXCEPT ![th] = "idle"]
              /\ UNCHANGED <<queue, qadded>>
         ELSE /\ queue' = Append(queue, hand[th])
              /\ qadded' = qadded \cup hand[th]
              /\ pc' = [pc EXCEPT ![th] = "hold"]
              /\ UNCHANGED fate
    /\ UNCHANGED <<nmsg, src, steeredTo, turnVars, job, hold, closed>>

\* session.queue.add: queue_add alone.
QueueAdd(m) ==
    /\ "queue.add" \in Calls
    /\ Arrives(Main, m, "owner")
    /\ IF Len(queue) >= MaxQueueDepth
         THEN /\ fate' = [fate EXCEPT ![m] = "refused"]
              /\ UNCHANGED <<queue, qadded>>
         ELSE /\ queue' = Append(queue, {m})
              /\ qadded' = qadded \cup {m}
              /\ fate' = [fate EXCEPT ![m] = "pending"]
    /\ UNCHANGED <<steeredTo, turnVars, threadVars, hold, closed>>

\* session.queue.clear.
QueueClear ==
    /\ "queue.clear" \in Calls
    /\ pc[Main] = "idle" /\ queue # << >>
    /\ fate' = [m \in Msgs |-> IF m \in Queued(queue) THEN "cleared" ELSE fate[m]]
    /\ queue' = << >>
    /\ UNCHANGED <<nmsg, src, steeredTo, qadded, turnVars, threadVars, hold, closed>>

\* queue_discard: the task of a scheduled message was deleted or turned off.
QueueDiscard(m) ==
    /\ pc[Main] = "idle" /\ src[m] = "schedule"
    /\ \E i \in DOMAIN queue :
        /\ queue[i] = {m}
        /\ queue' = SubSeq(queue, 1, i - 1) \o SubSeq(queue, i + 1, Len(queue))
    /\ fate' = [fate EXCEPT ![m] = "cleared"]
    /\ UNCHANGED <<nmsg, src, steeredTo, qadded, turnVars, threadVars, hold, closed>>

\* session.queue.resume: a kick.
QueueResume ==
    /\ "queue.resume" \in Calls
    /\ pc[Main] = "idle" /\ queue # << >>
    /\ pc' = [pc EXCEPT ![Main] = "hold"]
    /\ UNCHANGED <<msgVars, turnVars, queue, job, hand, hold, closed>>

\* session.resume.arm and session.resume.cancel; the second kicks the queue.
ResumeArm ==
    /\ "session.resume" \in Calls /\ pc[Main] = "idle" /\ ~hold
    /\ hold' = TRUE
    /\ UNCHANGED <<msgVars, turnVars, queue, threadVars, closed>>

ResumeCancel ==
    /\ pc[Main] = "idle" /\ hold
    /\ hold' = FALSE
    /\ pc' = [pc EXCEPT ![Main] = "hold"]
    /\ UNCHANGED <<msgVars, turnVars, queue, job, hand, closed>>

\* turn.steer.cancel: a message the loop has not taken is withdrawn.
SteerCancel(m) ==
    /\ "turn.steer.cancel" \in Calls
    /\ pc[Main] = "idle"
    /\ \E t \in Active :
        /\ m \in steering[t]
        /\ steering' = [steering EXCEPT ![t] = @ \ {m}]
    /\ fate' = [fate EXCEPT ![m] = "withdrawn"]
    /\ UNCHANGED <<nmsg, src, steeredTo, qadded, nturn, nauto, compact, term, open,
                   done, leftover, queue, threadVars, hold, closed>>

\* session.close: refused while a turn runs; the session is closed afterwards.
SessionCloseCheck ==
    /\ "session.close" \in Calls /\ pc[Main] = "idle" /\ ~closed /\ ~Busy
    /\ pc' = [pc EXCEPT ![Main] = "closing"]
    /\ UNCHANGED <<msgVars, turnVars, queue, job, hand, hold, closed>>

SessionClose ==
    /\ pc[Main] = "closing"
    /\ closed' = TRUE
    /\ pc' = [pc EXCEPT ![Main] = "idle"]
    /\ UNCHANGED <<msgVars, turnVars, queue, job, hand, hold>>

\* session.restore.
SessionRestore ==
    /\ pc[Main] = "idle" /\ closed
    /\ closed' = FALSE
    /\ UNCHANGED <<msgVars, turnVars, queue, threadVars, hold>>

-----------------------------------------------------------------------------
(***************************************************************************)
(* The resume and schedule threads.                                        *)
(***************************************************************************)

\* ScheduleRunner._start_or_queue: a busy session's queue takes the task, a
\* free one starts it.
ScheduleStartOrQueue(m) ==
    /\ "schedule" \in Calls
    /\ Arrives(Runner, m, "schedule")
    /\ fate' = [fate EXCEPT ![m] = "pending"]
    /\ hand' = [hand EXCEPT ![Runner] = {m}]
    /\ job' = [job EXCEPT ![Runner] = "schedule"]
    /\ pc' = [pc EXCEPT ![Runner] =
                 IF Busy \/ queue # << >> \/ hold THEN "add" ELSE "check"]
    /\ UNCHANGED <<steeredTo, qadded, turnVars, queue, hold, closed>>

\* ResumeRunner.tick: a due resume of a session with no running turn.
ResumeContinue ==
    /\ pc[Runner] = "idle" /\ hold /\ ~Busy /\ nauto < MaxAuto
    /\ nauto' = nauto + 1
    /\ job' = [job EXCEPT ![Runner] = "resume"]
    /\ pc' = [pc EXCEPT ![Runner] = "check"]
    /\ UNCHANGED <<msgVars, nturn, compact, term, open, done, steering, leftover,
                   queue, hand, hold, closed>>

\* wake, and ChildSessions.wake of a free mother: work that ended while nobody
\* waited starts a turn, whatever the queue or a resume waits for.
Wake ==
    /\ "wake" \in Calls
    /\ pc[Runner] = "idle" /\ ~Busy /\ nauto < MaxAuto
    /\ nauto' = nauto + 1
    /\ job' = [job EXCEPT ![Runner] = "wake"]
    /\ pc' = [pc EXCEPT ![Runner] = "check"]
    /\ UNCHANGED <<msgVars, nturn, compact, term, open, done, steering, leftover,
                   queue, hand, hold, closed>>

\* The continuation is noted in _inflight after start_turn returned.
ResumeInflight ==
    /\ pc[Runner] = "inflight"
    /\ hold' = FALSE
    /\ pc' = [pc EXCEPT ![Runner] = "idle"]
    /\ UNCHANGED <<msgVars, turnVars, queue, job, hand, closed>>

-----------------------------------------------------------------------------
MainCall ==
    \/ \E m \in Msgs : TurnStart(m, "owner") \/ Steer(m, "owner")
    \/ \E m \in Msgs : QueueAdd(m) \/ SteerCancel(m) \/ QueueDiscard(m)
    \/ Compact \/ QueueClear \/ QueueResume \/ ResumeArm \/ ResumeCancel
    \/ SessionCloseCheck \/ SessionClose \/ SessionRestore

RunnerStep ==
    \/ \E m \in Msgs : TurnStart(m, "parent") \/ Steer(m, "parent") \/ Steer(m, "report")
    \/ \E m \in Msgs : ScheduleStartOrQueue(m)
    \/ ResumeContinue \/ ResumeInflight \/ Wake

Next ==
    \/ MainCall
    \/ RunnerStep
    \/ \E th \in Threads : Starting(th) \/ QueueAddThenKick(th)
    \/ \E t \in Turns : Worker(t)

\* A thread that is not waiting for a call goes on, and every turn ends: model
\* calls, tools and approvals all have deadlines.
Fairness ==
    /\ \A th \in Threads : WF_vars(Starting(th) \/ QueueAddThenKick(th))
    /\ \A t \in Turns : WF_vars(Worker(t)) /\ WF_vars(Finish(t))
    /\ WF_vars(SessionClose) /\ WF_vars(ResumeInflight)

Spec == Init /\ [][Next]_vars

FairSpec == Spec /\ Fairness

-----------------------------------------------------------------------------
(***************************************************************************)
(* Properties.                                                             *)
(***************************************************************************)

TypeOK ==
    /\ nturn \in 0..MaxTurns /\ nmsg \in 0..MaxMsgs /\ nauto \in 0..MaxAuto
    /\ src \in [Msgs -> Sources]
    /\ fate \in [Msgs -> Fates]
    /\ queue \in Seq(SUBSET Msgs)
    /\ steering \in [Turns -> SUBSET Msgs]
    /\ leftover \in [Turns -> SUBSET Msgs]
    /\ compact \subseteq Turns
    /\ term \in [Turns -> Terminals \cup {"none"}]
    /\ open \subseteq Turns /\ done \subseteq Turns
    /\ steeredTo \in [Msgs -> 0..MaxTurns]
    /\ qadded \subseteq Msgs
    /\ pc \in [Threads -> Labels]
    /\ job \in [Threads -> Jobs]
    /\ hand \in [Threads -> SUBSET Msgs]
    /\ hold \in BOOLEAN /\ closed \in BOOLEAN

\* However the request thread, the runners and the ending workers interleave,
\* the session never has two turns running (start_turn, TURN_RUNNING).
OneActiveTurn == \A t1, t2 \in Active : t1 = t2

\* The places of the manager's memory that can hold a message.
Places ==
    ({"steering", "leftover"} \X Turns) \cup ({"hand"} \X Threads)
        \cup ({"queue"} \X DOMAIN queue)

At(p) ==
    CASE p[1] = "steering" -> steering[p[2]]
      [] p[1] = "leftover" -> leftover[p[2]]
      [] p[1] = "hand" -> hand[p[2]]
      [] p[1] = "queue" -> queue[p[2]]

\* A message the Engine answers for is somewhere, and only there: no hand-over
\* between the queue, a starting thread, a turn and its end loses or repeats it;
\* one that was started, taken, returned or dropped is nowhere, so that it
\* cannot be run a second time.
MessagesAreKeptOnce ==
    \A m \in Msgs :
        /\ fate[m] = "pending" <=> \E p \in Places : m \in At(p)
        /\ \A p, q \in Places : m \in At(p) /\ m \in At(q) => p = q

\* Only a turn that still runs and still reads holds unread messages, so none
\* waits in a turn nobody will drain (steer against _close_steering).
UnreadMessagesHaveAReader ==
    \A t \in Turns : steering[t] # {} => t \in Steerable

\* A message sent into a turn that was stopped, failed or cancelled starts
\* nothing later: it goes back to the owner (_settle_steering).
StoppedMessagesDoNotRun ==
    \A m \in Msgs :
        /\ steeredTo[m] # 0
        /\ fate[m] = "started" \/ m \in Queued(queue)
        => term[steeredTo[m]] = "completed"

\* An unread message does not stay unread: the loop takes it, its owner
\* withdraws it, or the end of the turn queues it, returns it or drops a report.
UnreadMessagesAreSettled ==
    \A m \in Msgs :
        (\E t \in Turns : m \in steering[t] \cup leftover[t])
            ~> (\A t \in Turns : m \notin steering[t] \cup leftover[t])

\* The queue "auto-runs after the live turn": with the session open and nothing
\* holding the queue, a message queued while a turn runs gets its own turn.
QueuedMessagesRun ==
    \A m \in Msgs : (m \in qadded /\ fate[m] = "pending" /\ Busy) ~> fate[m] = "started"

-----------------------------------------------------------------------------
\* The promise of the manager: one turn after the other, one end per message.
Promise == INSTANCE SessionTurns WITH
    Messages <- Msgs, into <- steeredTo, turns <- nturn, busy <- Busy

\* The queue, the threads and the lock implement SessionTurns: a turn takes only
\* what was sent into it while it ran, and no message that was started, taken,
\* returned or dropped is ever started, taken or returned again.
KeepsThePromise == Promise!SessionSpec

=============================================================================
