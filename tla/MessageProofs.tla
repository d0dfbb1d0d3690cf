---------------------------- MODULE MessageProofs ----------------------------
(***************************************************************************)
(* Every message of TurnQueue has one place and one end, for any number of *)
(* turns, messages and calls, and the queue, the threads and the lock      *)
(* implement what SessionTurns promises.                                   *)
(***************************************************************************)
EXTENDS TurnQueueProofs

-----------------------------------------------------------------------------
(***************************************************************************)
(* The inductive invariant, in two parts: where the threads and the turns  *)
(* stand, and where each message is.                                       *)
(***************************************************************************)

\* A thread holds messages only on its way to a turn or to the queue, and only
\* for a start that has messages to bring.
Carries(th) ==
    hand[th] # {} =>
        /\ pc[th] \in {"check", "register", "putback", "add"}
        /\ pc[th] \in {"check", "register"} => job[th] \in {"queued", "direct", "schedule"}

HandsInv == \A th \in Threads : Carries(th)

\* Turns end one after the other: the only turn that may run is the last one, and
\* a worker's place tells its turn's end.
EndingsInv ==
    /\ done \subseteq Registered /\ Active \subseteq {nturn}
    /\ \A t \in Turns :
        /\ t > nturn => pc[t] = "none"
        /\ pc[t] \in {"run", "ending", "closed"} => t \in Active
        /\ pc[t] = "settle" => t \in done
        /\ leftover[t] # {} => pc[t] \in {"closed", "settle"}
        /\ pc[t] \in {"none", "run"} => term[t] = "none"

NotQueued(m) == m \notin Queued(queue)
NotHeld(m) == \A th \in Threads : m \notin hand[th]
NotSteered(m) == \A t \in Turns : m \notin steering[t]
NotLeft(m) == \A t \in Turns : m \notin leftover[t]

Nowhere(m) == NotQueued(m) /\ NotHeld(m) /\ NotSteered(m) /\ NotLeft(m)

OnlyQueued(m) == m \in Queued(queue) /\ NotHeld(m) /\ NotSteered(m) /\ NotLeft(m)

OnlyHeld(m) ==
    /\ NotQueued(m) /\ NotSteered(m) /\ NotLeft(m)
    /\ \E th \in Threads : m \in hand[th] /\ \A u \in Threads : m \in hand[u] => u = th

\* Sent into a turn, which keeps it as unread: no scheduled task's message is.
IntoTurn(m) == steeredTo[m] \in Turns /\ src[m] # "schedule"

OnlySteered(m) ==
    /\ NotQueued(m) /\ NotHeld(m) /\ NotLeft(m) /\ IntoTurn(m)
    /\ \A t \in Turns : m \in steering[t] <=> t = steeredTo[m]

OnlyLeft(m) ==
    /\ NotQueued(m) /\ NotHeld(m) /\ NotSteered(m) /\ IntoTurn(m)
    /\ \A t \in Turns : m \in leftover[t] <=> t = steeredTo[m]

\* A pending message is in one place, any other in none.
OneHome(m) ==
    IF fate[m] = "pending"
      THEN OnlyQueued(m) \/ OnlyHeld(m) \/ OnlySteered(m) \/ OnlyLeft(m)
      ELSE Nowhere(m)

\* A message that left the turn it was sent into to run elsewhere left a turn that
\* completed.
LeftCompleted(m) ==
    steeredTo[m] # 0 /\ fate[m] \in {"pending", "started"}
        => \/ m \in steering[steeredTo[m]] \cup leftover[steeredTo[m]]
           \/ term[steeredTo[m]] = "completed"

\* What holds of each message; one that was not sent yet has no history.
MessageInv(m) ==
    /\ OneHome(m) /\ LeftCompleted(m)
    /\ m > nmsg => fate[m] = "unsent" /\ steeredTo[m] = 0

\* No two entries of a queue share a message.
Distinct(q) == \A i, j \in DOMAIN q : \A m \in q[i] : m \in q[j] => i = j

MessagesInv == HandsInv /\ EndingsInv /\ Distinct(queue) /\ \A m \in Msgs : MessageInv(m)

-----------------------------------------------------------------------------
(***************************************************************************)
(* The threads and the ends of turns.                                      *)
(***************************************************************************)

\* Where a thread may be outside the life of its own turn.
Outside == {"idle", "hold", "pop", "check", "register", "putback", "goal", "add",
            "closing", "inflight"}

\* Thread th goes on outside its own turn, and leaves the turns' ends alone.
Walks(th) ==
    /\ UNCHANGED <<nturn, done, leftover, term>>
    /\ \A u \in Threads : u # th => pc'[u] = pc[u] /\ hand'[u] = hand[u] /\ job'[u] = job[u]
    /\ pc'[th] = pc[th] \/ (pc[th] \in Outside /\ pc'[th] \in Outside)
    /\ Carries(th)'

\* A refused start goes on to put its entry back, to queue its task, or idle.
LEMMA RefusedWalks ==
    ASSUME TypeOK, HandsInv, NEW th \in Threads, NEW code, pc[th] \in {"check", "register"},
           StartRefused(th, code)
    PROVE  Walks(th)
<1> USE DEF TypeOK
<1>1. Carries(th) BY DEF HandsInv
<1>2. UNCHANGED <<nturn, done, leftover, term>> BY DEF StartRefused, turnVars
<1>3. \A u \in Threads : u # th => pc'[u] = pc[u] /\ hand'[u] = hand[u] /\ job'[u] = job[u]
  BY DEF StartRefused
<1>4. pc[th] \in Outside /\ pc'[th] \in {"putback", "add", "idle"}
  BY DEF StartRefused, Outside
<1>5. Carries(th)'
  <2>1. CASE job[th] \in {"direct", "schedule"} /\ ~(job[th] = "schedule" /\ code = "TURN_RUNNING")
    BY <2>1 DEF StartRefused, Carries
  <2>2. CASE job[th] = "schedule" /\ code = "TURN_RUNNING"
    <3>1. pc'[th] = "add" BY <2>2 DEF StartRefused
    <3>2. QED BY <3>1 DEF Carries
  <2>3. CASE job[th] = "queued"
    <3>1. pc'[th] = "putback" BY <2>3 DEF StartRefused
    <3>2. QED BY <3>1 DEF Carries
  <2>4. CASE job[th] \notin {"direct", "schedule", "queued"}
    <3>1. hand[th] = {} BY <1>1, <2>4 DEF Carries
    <3>2. hand' = hand BY <2>4 DEF StartRefused
    <3>3. QED BY <3>1, <3>2 DEF Carries
  <2>5. QED BY <2>1, <2>2, <2>3, <2>4
<1>6. QED BY <1>2, <1>3, <1>4, <1>5 DEF Walks, Outside

\* A thread that starts a turn walks, unless it registers one.
LEMMA StartingWalks ==
    ASSUME TypeOK, HandsInv, NEW th \in Threads, Starting(th)
    PROVE  Walks(th) \/ (StartRegister(th) /\ ~Busy)
<1> USE DEF TypeOK, Walks, Outside, turnVars
<1>0. Carries(th) BY DEF HandsInv
<1>1. CASE KickHold(th)
  <2>1. pc[th] = "hold" /\ pc'[th] \in {"goal", "idle", "pop"} /\ hand' = hand /\ job' = job
    BY <1>1 DEF KickHold, AfterKick
  <2>2. Carries(th)' BY <1>0, <2>1 DEF Carries
  <2>3. QED BY <1>1, <2>1, <2>2 DEF KickHold
<1>2. CASE KickPop(th)
  <2>1. CASE Busy \/ queue = << >>
    <3>1. pc[th] = "pop" /\ pc'[th] \in {"goal", "idle"} /\ hand' = hand /\ job' = job
      BY <1>2, <2>1 DEF KickPop, AfterKick
    <3>2. Carries(th)' BY <1>0, <3>1 DEF Carries
    <3>3. QED BY <1>2, <2>1, <3>1, <3>2 DEF KickPop
  <2>2. CASE ~(Busy \/ queue = << >>)
    <3>1. pc[th] = "pop" /\ pc'[th] = "check" /\ job'[th] = "queued"
      BY <1>2, <2>2 DEF KickPop
    <3>2. Carries(th)' BY <3>1 DEF Carries
    <3>3. QED BY <1>2, <2>2, <3>1, <3>2 DEF KickPop
  <2>3. QED BY <2>1, <2>2
<1>3. CASE StartCheck(th)
  <2>1. CASE closed BY <1>3, <2>1, RefusedWalks DEF StartCheck
  <2>2. CASE ~closed
    <3>1. pc[th] = "check" /\ pc'[th] = "register" /\ hand' = hand /\ job' = job
      BY <1>3, <2>2 DEF StartCheck
    <3>2. Carries(th)' BY <1>0, <3>1 DEF Carries
    <3>3. QED BY <1>3, <2>2, <3>1, <3>2 DEF StartCheck
  <2>3. QED BY <2>1, <2>2
<1>4. CASE StartRegister(th) BY <1>4, RefusedWalks DEF StartRegister
<1>5. CASE PutBack(th)
  <2>1. pc[th] = "putback" /\ pc'[th] \in {"goal", "idle"} /\ hand'[th] = {} /\ job' = job
    BY <1>5 DEF PutBack, AfterKick
  <2>2. Carries(th)' BY <2>1 DEF Carries
  <2>3. QED BY <1>5, <2>1, <2>2 DEF PutBack
<1>6. QED BY <1>1, <1>2, <1>3, <1>4, <1>5 DEF Starting

\* So does a thread that serves a call about a message.
LEMMA MessageCallWalks ==
    ASSUME TypeOK, HandsInv, NEW m \in Msgs, NEW s \in Sources,
           \/ TurnStart(m, s) \/ Steer(m, s) \/ QueueAdd(m) \/ ScheduleStartOrQueue(m)
           \/ SteerCancel(m) \/ QueueDiscard(m)
    PROVE  \E th \in Threads : Walks(th)
<1> USE ThreadSet DEF TypeOK, Walks, Outside, turnVars, threadVars
<1>0. Carries(From(s)) /\ Carries(Main) /\ Carries(Runner) BY DEF HandsInv
<1>1. CASE TurnStart(m, s)
  <2>1. /\ pc[From(s)] = "idle" /\ pc'[From(s)] = "check" /\ job'[From(s)] = "direct"
    BY <1>1 DEF TurnStart, Arrives
  <2>2. Carries(From(s))' BY <2>1 DEF Carries
  <2>3. QED BY <1>1, <2>1, <2>2 DEF TurnStart
<1>2. CASE Steer(m, s)
  <2>1. UNCHANGED <<nturn, done, leftover, term, job>> BY <1>2 DEF Steer
  <2>2. CASE UNCHANGED <<pc, hand>>
    <3>1. Carries(From(s))' BY <1>0, <2>1, <2>2 DEF Carries
    <3>2. QED BY <2>1, <2>2, <3>1
  <2>3. CASE hand' = [hand EXCEPT ![From(s)] = {m}] /\ pc' = [pc EXCEPT ![From(s)] = "add"]
    <3>1. pc[From(s)] = "idle" /\ pc'[From(s)] = "add" BY <1>2, <2>3 DEF Steer, Arrives
    <3>2. Carries(From(s))' BY <3>1 DEF Carries
    <3>3. QED BY <2>1, <2>3, <3>1, <3>2
  <2>4. QED BY <1>2, <2>2, <2>3 DEF Steer
<1>3. CASE QueueAdd(m)
  <2>1. UNCHANGED <<pc, hand, job>> BY <1>3 DEF QueueAdd
  <2>2. Carries(Main)' BY <1>0, <2>1 DEF Carries
  <2>3. QED BY <1>3, <2>1, <2>2 DEF QueueAdd
<1>4. CASE ScheduleStartOrQueue(m)
  <2>1. pc[Runner] = "idle" /\ pc'[Runner] \in {"add", "check"} /\ job'[Runner] = "schedule"
    BY <1>4 DEF ScheduleStartOrQueue, Arrives
  <2>2. Carries(Runner)' BY <2>1 DEF Carries
  <2>3. QED BY <1>4, <2>1, <2>2 DEF ScheduleStartOrQueue
<1>5. CASE SteerCancel(m)
  <2>1. UNCHANGED <<pc, hand, job>> BY <1>5 DEF SteerCancel
  <2>2. Carries(Main)' BY <1>0, <2>1 DEF Carries
  <2>3. QED BY <1>5, <2>1, <2>2 DEF SteerCancel
<1>6. CASE QueueDiscard(m)
  <2>1. UNCHANGED <<pc, hand, job>> BY <1>6 DEF QueueDiscard
  <2>2. Carries(Main)' BY <1>0, <2>1 DEF Carries
  <2>3. QED BY <1>6, <2>1, <2>2 DEF QueueDiscard
<1>7. QED BY <1>1, <1>2, <1>3, <1>4, <1>5, <1>6

\* So does a thread that serves a call about no message.
LEMMA QuietCallWalks ==
    ASSUME TypeOK, HandsInv,
           \/ Compact \/ QueueClear \/ QueueResume \/ ResumeArm \/ ResumeCancel
           \/ SessionCloseCheck \/ SessionClose \/ SessionRestore
           \/ ResumeContinue \/ ResumeInflight \/ Wake
    PROVE  \E th \in Threads : Walks(th)
<1> USE ThreadSet DEF TypeOK, turnVars, threadVars
<1>a. ASSUME NEW th \in {Main, Runner}, NEW x \in Outside, NEW j \in Jobs,
             pc[th] \in {"idle", "closing", "inflight"}, pc' = [pc EXCEPT ![th] = x],
             \/ job' = job \/ job' = [job EXCEPT ![th] = j],
             UNCHANGED <<nturn, done, leftover, term, hand>>
      PROVE  \E u \in Threads : Walks(u)
  <2>1. hand[th] = {} /\ th \in Threads BY <1>a DEF HandsInv, Carries
  <2>2. Carries(th)' BY <1>a, <2>1 DEF Carries
  <2>3. pc'[th] \in Outside /\ pc[th] \in Outside BY <1>a, <2>1 DEF Outside
  <2>4. Walks(th) BY <1>a, <2>1, <2>2, <2>3 DEF Walks
  <2>5. QED BY <2>1, <2>4
<1>b. UNCHANGED <<pc, job, hand, nturn, done, leftover, term>>
        => \E th \in Threads : Walks(th)
  <2> SUFFICES ASSUME UNCHANGED <<pc, job, hand, nturn, done, leftover, term>>
               PROVE  Walks(Main)
    OBVIOUS
  <2>1. Carries(Main)' BY DEF HandsInv, Carries
  <2>2. QED BY <2>1 DEF Walks
<1>c. {"check", "hold", "closing", "idle"} \subseteq Outside
      /\ {"compact", "resume", "wake"} \subseteq Jobs
  BY DEF Outside, Jobs
<1>1. CASE Compact BY <1>1, <1>a, <1>c DEF Compact
<1>2. CASE QueueClear BY <1>2, <1>b DEF QueueClear
<1>3. CASE QueueResume
  <2>1. "compact" \in Jobs BY <1>c
  <2>2. QED BY <1>3, <1>a, <1>c, <2>1 DEF QueueResume
<1>4. CASE ResumeArm BY <1>4, <1>b DEF ResumeArm
<1>5. CASE ResumeCancel
  <2>1. "compact" \in Jobs BY <1>c
  <2>2. QED BY <1>5, <1>a, <1>c, <2>1 DEF ResumeCancel
<1>6. CASE SessionCloseCheck
  <2>1. "compact" \in Jobs BY <1>c
  <2>2. QED BY <1>6, <1>a, <1>c, <2>1 DEF SessionCloseCheck
<1>7. CASE SessionClose
  <2>1. "compact" \in Jobs BY <1>c
  <2>2. QED BY <1>7, <1>a, <1>c, <2>1 DEF SessionClose
<1>8. CASE SessionRestore BY <1>8, <1>b DEF SessionRestore
<1>9. CASE ResumeContinue BY <1>9, <1>a, <1>c DEF ResumeContinue
<1>10. CASE ResumeInflight
  <2>1. "compact" \in Jobs BY <1>c
  <2>2. QED BY <1>10, <1>a, <1>c, <2>1 DEF ResumeInflight
<1>11. CASE Wake BY <1>11, <1>a, <1>c DEF Wake
<1>12. QED BY <1>1, <1>2, <1>3, <1>4, <1>5, <1>6, <1>7, <1>8, <1>9, <1>10, <1>11

\* Every step walks, registers a turn, or is one of the four that end one.
LEMMA WalkSteps ==
    ASSUME TypeOK, HandsInv, [Next]_vars
    PROVE  \/ \E th \in Threads : Walks(th)
           \/ \E th \in Threads : StartRegister(th) /\ ~Busy
           \/ \E t \in Turns : Finish(t) \/ CloseSteering(t) \/ SetDone(t) \/ Settle(t)
<1> USE ThreadSet
<1>a. {"owner", "parent", "report", "schedule"} \subseteq Sources BY DEF Sources
<1>1. CASE MainCall BY <1>1, <1>a, MessageCallWalks, QuietCallWalks DEF MainCall
<1>2. CASE RunnerStep BY <1>2, <1>a, MessageCallWalks, QuietCallWalks DEF RunnerStep
<1>3. CASE \E th \in Threads : Starting(th) BY <1>3, StartingWalks
<1>4. CASE \E th \in Threads : QueueAddThenKick(th)
  <2>1. PICK th \in Threads : QueueAddThenKick(th) BY <1>4
  <2>2. pc[th] = "add" /\ pc'[th] \in {"idle", "hold"} /\ hand'[th] = {} /\ job' = job
    BY <2>1 DEF QueueAddThenKick, TypeOK
  <2>3. Carries(th)' BY <2>2 DEF Carries
  <2>4. \A u \in Threads : u # th => pc'[u] = pc[u] /\ hand'[u] = hand[u]
    BY <2>1 DEF QueueAddThenKick, TypeOK
  <2>5. Walks(th) BY <2>1, <2>2, <2>3, <2>4 DEF Walks, Outside, QueueAddThenKick, turnVars
  <2>6. QED BY <2>5
<1>5. CASE \E t \in Turns : Drain(t) \/ GoalAfterTurn(t)
  <2>1. PICK t \in Turns : Drain(t) \/ GoalAfterTurn(t) BY <1>5
  <2>2. t \in Threads /\ Carries(t) BY DEF HandsInv
  <2>3. CASE Drain(t)
    <3>1. UNCHANGED <<pc, hand, job>> BY <2>3 DEF Drain, threadVars
    <3>2. Carries(t)' BY <2>2, <3>1 DEF Carries
    <3>3. Walks(t) BY <2>3, <3>1, <3>2 DEF Drain, Walks
    <3>4. QED BY <2>2, <3>3
  <2>4. CASE GoalAfterTurn(t)
    <3>1. pc[t] = "goal" /\ pc'[t] \in {"idle", "check"} /\ hand' = hand
      BY <2>2, <2>4 DEF GoalAfterTurn, TypeOK
    <3>2. Carries(t)' BY <2>2, <3>1 DEF Carries
    <3>3. \A u \in Threads : u # t => pc'[u] = pc[u] /\ job'[u] = job[u]
      BY <2>4 DEF GoalAfterTurn, TypeOK
    <3>4. Walks(t) BY <2>4, <3>1, <3>2, <3>3 DEF Walks, Outside, GoalAfterTurn
    <3>5. QED BY <2>2, <3>4
  <2>5. QED BY <2>1, <2>3, <2>4
<1>6. CASE \E t \in Turns : Worker(t) BY <1>5, <1>6 DEF Worker
<1>7. CASE UNCHANGED vars
  <2>1. Carries(Main) BY DEF HandsInv
  <2>2. Carries(Main)' BY <1>7, <2>1 DEF Carries, vars
  <2>3. Walks(Main) BY <1>7, <2>2 DEF Walks, vars
  <2>4. QED BY <2>3
<1>8. QED BY <1>1, <1>2, <1>3, <1>4, <1>6, <1>7 DEF Next

\* What a registration does to the threads and the turns.
LEMMA RegisterFacts ==
    ASSUME TypeOK, NEW th \in Threads, StartRegister(th), ~Busy
    PROVE  /\ nturn + 1 \in Turns /\ nturn' = nturn + 1 /\ Active = {} /\ pc[th] = "register"
           /\ UNCHANGED <<done, steering, leftover, term, queue, steeredTo, src, nmsg>>
           /\ \A u \in Threads : u # th => hand'[u] = hand[u] /\ job'[u] = job[u]
           /\ \A u \in Threads : u # th /\ u # nturn + 1 => pc'[u] = pc[u]
           /\ th # nturn + 1 => pc'[nturn + 1] = "run" /\ pc'[th] \in Outside
           /\ hand'[th] = {}
           /\ fate' = [m \in Msgs |-> IF m \in hand[th] THEN "started" ELSE fate[m]]
<1> USE DEF TypeOK
<1>1. nturn + 1 \in Turns /\ nturn' = nturn + 1 /\ Active = {} /\ pc[th] = "register"
  BY BoundsAssumption DEF StartRegister, Busy, Turns
<1>2. UNCHANGED <<done, steering, leftover, term, queue, steeredTo, src, nmsg>>
  BY DEF StartRegister
<1>3. /\ \A u \in Threads : u # th => hand'[u] = hand[u] /\ job'[u] = job[u]
      /\ hand'[th] = {}
      /\ fate' = [m \in Msgs |-> IF m \in hand[th] THEN "started" ELSE fate[m]]
  BY DEF StartRegister
<1>4. nturn + 1 \in Threads BY <1>1, ThreadSet
<1>5. /\ \A u \in Threads : u # th /\ u # nturn + 1 => pc'[u] = pc[u]
      /\ th # nturn + 1 => pc'[nturn + 1] = "run" /\ pc'[th] \in Outside
  <2>1. pc' = [pc EXCEPT ![nturn + 1] = "run",
                         ![th] = CASE job[th] = "queued" -> AfterKick(th)
                                   [] job[th] = "resume" -> "inflight"
                                   [] OTHER -> "idle"]
    BY DEF StartRegister
  <2>2. (CASE job[th] = "queued" -> AfterKick(th)
           [] job[th] = "resume" -> "inflight"
           [] OTHER -> "idle") \in Outside
    BY DEF AfterKick, Outside
  <2>3. QED BY <1>4, <2>1, <2>2
<1>6. QED BY <1>1, <1>2, <1>3, <1>5

\* Every step keeps the threads' hands.
LEMMA HandsStep == TypeOK /\ HandsInv /\ EndingsInv /\ [Next]_vars => HandsInv'
<1> SUFFICES ASSUME TypeOK, HandsInv, EndingsInv, [Next]_vars,
                    NEW u \in Threads
             PROVE  Carries(u)'
  BY DEF HandsInv
<1>0. Carries(u) BY DEF HandsInv
<1> USE DEF TypeOK
<1>1. CASE \E th \in Threads : Walks(th)
  <2>1. PICK th \in Threads : Walks(th) BY <1>1
  <2>2. CASE u = th BY <2>1, <2>2 DEF Walks
  <2>3. CASE u # th
    <3>1. pc'[u] = pc[u] /\ hand'[u] = hand[u] /\ job'[u] = job[u] BY <2>1, <2>3 DEF Walks
    <3>2. QED BY <1>0, <3>1 DEF Carries
  <2>4. QED BY <2>2, <2>3
<1>2. CASE \E th \in Threads : StartRegister(th) /\ ~Busy
  <2>1. PICK th \in Threads : StartRegister(th) /\ ~Busy BY <1>2
  <2>2. CASE u = th
    <3>1. hand'[u] = {} BY <2>1, <2>2, RegisterFacts
    <3>2. QED BY <3>1 DEF Carries
  <2>3. CASE u # th /\ u = nturn + 1
    <3>1. hand'[u] = hand[u] /\ u \in Turns /\ u > nturn
      BY <2>1, <2>3, RegisterFacts
    <3>2. pc[u] = "none" BY <3>1 DEF EndingsInv
    <3>3. QED BY <1>0, <3>1, <3>2 DEF Carries
  <2>4. CASE u # th /\ u # nturn + 1
    <3>1. pc'[u] = pc[u] /\ hand'[u] = hand[u] /\ job'[u] = job[u]
      BY <2>1, <2>4, RegisterFacts
    <3>2. QED BY <1>0, <3>1 DEF Carries
  <2>5. QED BY <2>2, <2>3, <2>4
<1>3. CASE \E t \in Turns : Finish(t) \/ CloseSteering(t) \/ SetDone(t) \/ Settle(t)
  <2>1. PICK t \in Turns : Finish(t) \/ CloseSteering(t) \/ SetDone(t) \/ Settle(t) BY <1>3
  <2>2. hand' = hand /\ job' = job /\ t \in Threads
    BY <2>1, ThreadSet DEF Finish, CloseSteering, SetDone, Settle
  <2>3. pc[t] \in {"run", "ending", "closed", "settle"}
    BY <2>1 DEF Finish, CloseSteering, SetDone, Settle
  <2>4. \A v \in Threads : v # t => pc'[v] = pc[v]
    BY <2>1 DEF Finish, CloseSteering, SetDone, Settle
  <2>5. CASE u = t BY <1>0, <2>2, <2>3, <2>5 DEF Carries
  <2>6. CASE u # t
    <3>1. pc'[u] = pc[u] BY <2>4, <2>6
    <3>2. QED BY <1>0, <2>2, <3>1 DEF Carries
  <2>7. QED BY <2>5, <2>6
<1>4. QED BY <1>1, <1>2, <1>3, WalkSteps

\* A turn is registered only when none runs, and ends step by step.
LEMMA EndingsStep == TypeOK /\ HandsInv /\ EndingsInv /\ [Next]_vars => EndingsInv'
<1> SUFFICES ASSUME TypeOK, HandsInv, EndingsInv, [Next]_vars PROVE EndingsInv'
  OBVIOUS
<1>a. Turns \subseteq Threads /\ Turns \subseteq Nat /\ nturn \in Nat
  BY ThreadSet DEF TypeOK, Turns
<1> USE DEF Active, Registered
<1>1. CASE \E th \in Threads : Walks(th)
  <2>1. PICK th \in Threads : Walks(th) BY <1>1
  <2>2. UNCHANGED <<nturn, done, leftover, term>> BY <2>1 DEF Walks
  <2>3. \A t \in Turns : \/ pc'[t] = pc[t]
                         \/ pc[t] \in Outside /\ pc'[t] \in Outside
    BY <1>a, <2>1 DEF Walks
  <2>4. Outside \cap {"none", "run", "ending", "closed", "settle"} = {} BY DEF Outside
  <2>5. \A t \in Turns :
          /\ t > nturn' => pc'[t] = "none"
          /\ pc'[t] \in {"run", "ending", "closed"} => t \in Active'
          /\ pc'[t] = "settle" => t \in done'
          /\ leftover'[t] # {} => pc'[t] \in {"closed", "settle"}
          /\ pc'[t] \in {"none", "run"} => term'[t] = "none"
    BY <2>2, <2>3, <2>4 DEF EndingsInv
  <2>6. QED BY <2>2, <2>5 DEF EndingsInv
<1>2. CASE \E th \in Threads : StartRegister(th) /\ ~Busy
  <2>1. PICK th \in Threads : StartRegister(th) /\ ~Busy BY <1>2
  <2>2. /\ nturn + 1 \in Turns /\ nturn' = nturn + 1 /\ Active = {} /\ pc[th] = "register"
        /\ UNCHANGED <<done, leftover, term>>
        /\ \A u \in Threads : u # th /\ u # nturn + 1 => pc'[u] = pc[u]
        /\ th # nturn + 1 => pc'[nturn + 1] = "run" /\ pc'[th] \in Outside
    BY <2>1, RegisterFacts
  <2>3. nturn + 1 > nturn /\ pc[nturn + 1] = "none" BY <1>a, <2>2 DEF EndingsInv
  <2>4. th # nturn + 1 BY <2>2, <2>3
  <2>5. done' \subseteq Registered' /\ Active' = {nturn'} BY <1>a, <2>2 DEF EndingsInv
  <2>6. ASSUME NEW t \in Turns
        PROVE  /\ t > nturn' => pc'[t] = "none"
               /\ pc'[t] \in {"run", "ending", "closed"} => t \in Active'
               /\ pc'[t] = "settle" => t \in done'
               /\ leftover'[t] # {} => pc'[t] \in {"closed", "settle"}
               /\ pc'[t] \in {"none", "run"} => term'[t] = "none"
    <3>1. CASE t = nturn + 1
      <4>1. pc'[t] = "run" /\ leftover'[t] = {} /\ term'[t] = "none"
        BY <2>2, <2>3, <2>4, <3>1 DEF EndingsInv
      <4>2. QED BY <4>1, <3>1, <2>2, <2>5, <1>a
    <3>2. CASE t = th
      <4>1. pc'[t] \in Outside /\ leftover'[t] = {} /\ t <= nturn
        BY <1>a, <2>2, <2>4, <3>2 DEF EndingsInv
      <4>2. QED BY <1>a, <2>2, <4>1 DEF Outside
    <3>3. CASE t # nturn + 1 /\ t # th
      <4>1. pc'[t] = pc[t] BY <1>a, <2>2, <3>3
      <4>2. pc[t] \notin {"run", "ending", "closed"} BY <2>2 DEF EndingsInv
      <4>3. QED BY <1>a, <2>2, <4>1, <4>2 DEF EndingsInv
    <3>4. QED BY <3>1, <3>2, <3>3
  <2>7. QED BY <2>5, <2>6 DEF EndingsInv
<1>3. CASE \E t \in Turns : Finish(t) \/ CloseSteering(t) \/ SetDone(t) \/ Settle(t)
  <2>1. PICK t \in Turns : Finish(t) \/ CloseSteering(t) \/ SetDone(t) \/ Settle(t) BY <1>3
  <2>2. CASE Finish(t)
    <3>1. /\ pc[t] = "run" /\ pc'[t] = "ending" /\ UNCHANGED <<nturn, done, leftover>>
          /\ \A u \in Turns : u # t => pc'[u] = pc[u] /\ term'[u] = term[u]
      BY <1>a, <2>2 DEF Finish, TypeOK
    <3>2. QED BY <3>1 DEF EndingsInv
  <2>3. CASE CloseSteering(t)
    <3>1. /\ pc[t] = "ending" /\ pc'[t] = "closed" /\ UNCHANGED <<nturn, done, term>>
          /\ \A u \in Turns : u # t => pc'[u] = pc[u] /\ leftover'[u] = leftover[u]
      BY <1>a, <2>3 DEF CloseSteering, TypeOK
    <3>2. QED BY <3>1 DEF EndingsInv
  <2>4. CASE SetDone(t)
    <3>1. /\ pc[t] = "closed" /\ pc'[t] = "settle" /\ UNCHANGED <<nturn, leftover, term>>
          /\ \A u \in Turns : u # t => pc'[u] = pc[u]
          /\ done' = done \cup {t}
      BY <1>a, <2>4 DEF SetDone, TypeOK
    <3>2. t = nturn /\ t \in Registered BY <3>1 DEF EndingsInv
    <3>3. Active' = Active \ {t} /\ done' \subseteq Registered' BY <3>1, <3>2 DEF EndingsInv
    <3>4. ASSUME NEW u \in Turns
          PROVE  /\ u > nturn' => pc'[u] = "none"
                 /\ pc'[u] \in {"run", "ending", "closed"} => u \in Active'
                 /\ pc'[u] = "settle" => u \in done'
                 /\ leftover'[u] # {} => pc'[u] \in {"closed", "settle"}
                 /\ pc'[u] \in {"none", "run"} => term'[u] = "none"
      BY <1>a, <3>1, <3>2, <3>3 DEF EndingsInv
    <3>5. QED BY <3>1, <3>3, <3>4 DEF EndingsInv
  <2>5. CASE Settle(t)
    <3>1. /\ pc[t] = "settle" /\ pc'[t] = "hold" /\ UNCHANGED <<nturn, done, term>>
          /\ leftover'[t] = {}
          /\ \A u \in Turns : u # t => pc'[u] = pc[u] /\ leftover'[u] = leftover[u]
      BY <1>a, <2>5 DEF Settle, TypeOK
    <3>2. QED BY <3>1 DEF EndingsInv
  <2>6. QED BY <2>1, <2>2, <2>3, <2>4, <2>5
<1>4. QED BY <1>1, <1>2, <1>3, WalkSteps

-----------------------------------------------------------------------------
(***************************************************************************)
(* What the queue's operations do to the messages it holds.                *)
(***************************************************************************)

\* The first entry leaves the queue with its messages.
LEMMA QueueTail ==
    ASSUME NEW q \in Seq(SUBSET Msgs), q # << >>, Distinct(q)
    PROVE  /\ \A m : m \in Queued(q) <=> m \in Head(q) \/ m \in Queued(Tail(q))
           /\ \A m : m \in Head(q) => m \notin Queued(Tail(q))
           /\ Distinct(Tail(q))
<1>1. /\ Len(q) \in Nat \ {0} /\ DOMAIN q = 1..Len(q) /\ Head(q) = q[1]
      /\ DOMAIN Tail(q) = 1..(Len(q) - 1)
      /\ \A i \in 1..(Len(q) - 1) : Tail(q)[i] = q[i + 1]
  OBVIOUS
<1>a. \A m : m \in Queued(q) <=> \E i \in 1..Len(q) : m \in q[i] BY <1>1 DEF Queued
<1>b. \A m : m \in Queued(Tail(q)) <=> \E i \in 1..(Len(q) - 1) : m \in q[i + 1]
  BY <1>1 DEF Queued
<1>2. \A m : m \in Queued(q) <=> m \in Head(q) \/ m \in Queued(Tail(q))
  <2> SUFFICES ASSUME NEW m
               PROVE  (\E i \in 1..Len(q) : m \in q[i])
                        <=> m \in q[1] \/ \E i \in 1..(Len(q) - 1) : m \in q[i + 1]
    <3>1. Head(q) = q[1] BY <1>1
    <3>2. QED BY <1>a, <1>b, <3>1, Zenon
  <2>1. ASSUME NEW i \in 1..Len(q), m \in q[i]
        PROVE  m \in q[1] \/ \E j \in 1..(Len(q) - 1) : m \in q[j + 1]
    <3>1. CASE i = 1 BY <2>1, <3>1
    <3>2. CASE i # 1
      <4>1. i - 1 \in 1..(Len(q) - 1) /\ (i - 1) + 1 = i BY <1>1, <3>2
      <4>2. QED BY <2>1, <4>1
    <3>3. QED BY <3>1, <3>2
  <2>2. ASSUME m \in q[1] PROVE \E i \in 1..Len(q) : m \in q[i]
    BY <1>1, <2>2
  <2>3. ASSUME NEW j \in 1..(Len(q) - 1), m \in q[j + 1]
        PROVE  \E i \in 1..Len(q) : m \in q[i]
    <3>1. j + 1 \in 1..Len(q) BY <1>1
    <3>2. QED BY <2>3, <3>1
  <2>4. QED BY <2>1, <2>2, <2>3
<1>3. \A m : m \in Head(q) => m \notin Queued(Tail(q))
  <2> SUFFICES ASSUME NEW j \in 1..(Len(q) - 1), NEW m \in q[1], m \in q[j + 1]
               PROVE  FALSE
    BY <1>1 DEF Queued
  <2>1. 1 \in DOMAIN q /\ j + 1 \in DOMAIN q /\ j + 1 # 1 BY <1>1
  <2>2. QED BY <2>1 DEF Distinct
<1>4. Distinct(Tail(q))
  <2> SUFFICES ASSUME NEW i \in 1..(Len(q) - 1), NEW j \in 1..(Len(q) - 1),
                      NEW m \in q[i + 1], m \in q[j + 1]
               PROVE  i = j
    BY <1>1 DEF Distinct
  <2>1. i + 1 \in DOMAIN q /\ j + 1 \in DOMAIN q BY <1>1
  <2>2. i + 1 = j + 1 BY <2>1 DEF Distinct
  <2>3. QED BY <2>2, <1>1
<1>5. QED BY <1>2, <1>3, <1>4

\* An entry put back at the head brings its messages.
LEMMA QueueHead ==
    ASSUME NEW q \in Seq(SUBSET Msgs), NEW S \in SUBSET Msgs, Distinct(q),
           \A m \in S : m \notin Queued(q)
    PROVE  /\ \A m : m \in Queued(<<S>> \o q) <=> m \in S \/ m \in Queued(q)
           /\ Distinct(<<S>> \o q)
<1> DEFINE r == <<S>> \o q
<1>1. /\ Len(q) \in Nat /\ DOMAIN q = 1..Len(q) /\ DOMAIN r = 1..(Len(q) + 1) /\ r[1] = S
      /\ \A i \in 1..(Len(q) + 1) : i # 1 => r[i] = q[i - 1] /\ i - 1 \in DOMAIN q
  OBVIOUS
<1>a. \A i \in 1..Len(q) : i + 1 \in DOMAIN r /\ r[i + 1] = q[i]
  <2> SUFFICES ASSUME NEW i \in 1..Len(q) PROVE i + 1 \in DOMAIN r /\ r[i + 1] = q[i]
    OBVIOUS
  <2>1. i + 1 \in 1..(Len(q) + 1) /\ i + 1 # 1 /\ (i + 1) - 1 = i BY <1>1
  <2>2. QED BY <1>1, <2>1
<1> HIDE DEF r
<1>2. \A m : m \in Queued(r) <=> m \in S \/ m \in Queued(q)
  <2> SUFFICES ASSUME NEW m
               PROVE  (\E i \in DOMAIN r : m \in r[i]) <=> m \in S \/ \E i \in DOMAIN q : m \in q[i]
    BY DEF Queued
  <2>1. 1 \in DOMAIN r BY <1>1
  <2>2. QED BY <1>1, <1>a, <2>1
<1>3. Distinct(r)
  <2> SUFFICES ASSUME NEW i \in DOMAIN r, NEW j \in DOMAIN r, NEW m \in r[i], m \in r[j]
               PROVE  i = j
    BY DEF Distinct
  <2>1. CASE i = 1 /\ j # 1
    <3>1. m \in S /\ m \in q[j - 1] /\ j - 1 \in DOMAIN q BY <1>1, <2>1
    <3>2. QED BY <3>1 DEF Queued
  <2>2. CASE i # 1 /\ j = 1
    <3>1. m \in S /\ m \in q[i - 1] /\ i - 1 \in DOMAIN q BY <1>1, <2>2
    <3>2. QED BY <3>1 DEF Queued
  <2>3. CASE i # 1 /\ j # 1
    <3>1. m \in q[i - 1] /\ i - 1 \in DOMAIN q /\ m \in q[j - 1] /\ j - 1 \in DOMAIN q
      BY <1>1, <2>3
    <3>2. i - 1 = j - 1 BY <3>1 DEF Distinct
    <3>3. QED BY <1>1, <3>2
  <2>4. QED BY <2>1, <2>2, <2>3
<1>4. QED BY <1>2, <1>3 DEF r

\* So does the entry of a source, which is none without messages.
LEMMA QueueEntry ==
    ASSUME NEW q \in Seq(SUBSET Msgs), NEW S \in SUBSET Msgs, Distinct(q),
           \A m \in S : m \notin Queued(q)
    PROVE  /\ \A m : m \in Queued(Entry(S) \o q) <=> m \in S \/ m \in Queued(q)
           /\ Distinct(Entry(S) \o q)
<1>1. CASE S = {}
  <2>1. Entry(S) \o q = q BY <1>1 DEF Entry
  <2>2. QED BY <1>1, <2>1
<1>2. CASE S # {}
  <2>1. Entry(S) = <<S>> BY <1>2 DEF Entry
  <2>2. QED BY <2>1, QueueHead
<1>3. QED BY <1>1, <1>2

\* An entry added at the end brings its messages.
LEMMA QueueAppend ==
    ASSUME NEW q \in Seq(SUBSET Msgs), NEW S \in SUBSET Msgs, Distinct(q),
           \A m \in S : m \notin Queued(q)
    PROVE  /\ \A m : m \in Queued(Append(q, S)) <=> m \in S \/ m \in Queued(q)
           /\ Distinct(Append(q, S))
<1> DEFINE r == Append(q, S)
<1>1. /\ Len(q) \in Nat /\ DOMAIN q = 1..Len(q) /\ DOMAIN r = 1..(Len(q) + 1)
      /\ r[Len(q) + 1] = S /\ \A i \in 1..Len(q) : r[i] = q[i]
  OBVIOUS
<1> HIDE DEF r
<1>2. /\ \A i \in DOMAIN r : i = Len(q) + 1 \/ i \in DOMAIN q
      /\ DOMAIN q \subseteq DOMAIN r /\ Len(q) + 1 \in DOMAIN r
  BY <1>1
<1>3. \A m : m \in Queued(r) <=> m \in S \/ m \in Queued(q)
  <2> SUFFICES ASSUME NEW m
               PROVE  (\E i \in DOMAIN r : m \in r[i]) <=> m \in S \/ \E i \in DOMAIN q : m \in q[i]
    BY DEF Queued
  <2>1. QED BY <1>1, <1>2
<1>4. Distinct(r)
  <2> SUFFICES ASSUME NEW i \in DOMAIN r, NEW j \in DOMAIN r, NEW m \in r[i], m \in r[j]
               PROVE  i = j
    BY DEF Distinct
  <2>1. CASE i \in DOMAIN q /\ j \in DOMAIN q BY <1>1, <2>1 DEF Distinct
  <2>2. CASE i = Len(q) + 1 /\ j \in DOMAIN q BY <1>1, <2>2 DEF Queued
  <2>3. CASE i \in DOMAIN q /\ j = Len(q) + 1 BY <1>1, <2>3 DEF Queued
  <2>4. QED BY <1>2, <2>1, <2>2, <2>3
<1>5. QED BY <1>3, <1>4 DEF r

\* An entry taken out of the middle leaves with its messages.
LEMMA QueueRemove ==
    ASSUME NEW q \in Seq(SUBSET Msgs), NEW k \in DOMAIN q, Distinct(q)
    PROVE  LET r == SubSeq(q, 1, k - 1) \o SubSeq(q, k + 1, Len(q)) IN
           /\ \A m : m \in Queued(r) <=> m \in Queued(q) /\ m \notin q[k]
           /\ Distinct(r)
<1> DEFINE r == SubSeq(q, 1, k - 1) \o SubSeq(q, k + 1, Len(q))
           pos(i) == IF i < k THEN i ELSE i + 1
<1>1. k \in 1..Len(q) /\ Len(q) \in Nat /\ DOMAIN q = 1..Len(q) OBVIOUS
<1>2. /\ SubSeq(q, 1, k - 1) \in Seq(SUBSET Msgs) /\ SubSeq(q, k + 1, Len(q)) \in Seq(SUBSET Msgs)
      /\ Len(SubSeq(q, 1, k - 1)) = k - 1 /\ Len(SubSeq(q, k + 1, Len(q))) = Len(q) - k
      /\ \A i \in 1..(k - 1) : SubSeq(q, 1, k - 1)[i] = q[i]
      /\ \A i \in 1..(Len(q) - k) : SubSeq(q, k + 1, Len(q))[i] = q[k + i]
  <2>1. k - 1 \in 0..Len(q) /\ k + 1 \in 1..(Len(q) + 1) BY <1>1
  <2>2. /\ SubSeq(q, 1, k - 1) \in Seq(SUBSET Msgs) /\ Len(SubSeq(q, 1, k - 1)) = k - 1
    BY <1>1, <2>1
  <2>3. \A i \in 1..(k - 1) : SubSeq(q, 1, k - 1)[i] = q[i] BY <1>1, <2>1
  <2>4. SubSeq(q, k + 1, Len(q)) \in Seq(SUBSET Msgs) BY <1>1, <2>1
  <2>5. Len(SubSeq(q, k + 1, Len(q))) = Len(q) - k BY <1>1, <2>1
  <2>6. \A i \in 1..(Len(q) - k) : SubSeq(q, k + 1, Len(q))[i] = q[k + i]
    BY <1>1, <2>1, <2>5
  <2>7. QED BY <2>2, <2>3, <2>4, <2>5, <2>6
<1>3. Len(r) = Len(q) - 1 /\ DOMAIN r = 1..(Len(q) - 1) BY SMTT(30), <1>1, <1>2
<1>4. \A i \in 1..(Len(q) - 1) : r[i] = q[pos(i)]
  <2> SUFFICES ASSUME NEW i \in 1..(Len(q) - 1) PROVE r[i] = q[pos(i)]
    OBVIOUS
  <2>1. CASE i < k
    <3>1. i \in 1..(k - 1) BY <1>1, <2>1
    <3>2. r[i] = SubSeq(q, 1, k - 1)[i] BY <1>1, <1>2, <3>1
    <3>3. QED BY <1>2, <2>1, <3>1, <3>2
  <2>2. CASE ~(i < k)
    <3>1. i - (k - 1) \in 1..(Len(q) - k) /\ k + (i - (k - 1)) = i + 1 BY <1>1, <2>2
    <3>2. r[i] = SubSeq(q, k + 1, Len(q))[i - (k - 1)]
      <4> DEFINE a == SubSeq(q, 1, k - 1)
                 b == SubSeq(q, k + 1, Len(q))
      <4>1. a \in Seq(SUBSET Msgs) /\ b \in Seq(SUBSET Msgs) BY <1>2
      <4>2. Len(a) = k - 1 /\ Len(b) = Len(q) - k BY <1>2
      <4> HIDE DEF a, b
      <4>3. i \in (Len(a) + 1)..(Len(a) + Len(b)) BY <1>1, <2>2, <4>2
      <4>4. (a \o b)[i] = b[i - Len(a)] BY <4>1, <4>3
      <4>5. QED BY <4>2, <4>4 DEF a, b
    <3>3. QED BY <1>2, <2>2, <3>1, <3>2
  <2>3. QED BY <2>1, <2>2
<1> HIDE DEF r
<1>5. \A i \in DOMAIN r : pos(i) \in DOMAIN q /\ pos(i) # k BY <1>1, <1>3
<1>6. \A j \in DOMAIN q : j # k => \E i \in DOMAIN r : pos(i) = j
  <2> SUFFICES ASSUME NEW j \in DOMAIN q, j # k PROVE \E i \in DOMAIN r : pos(i) = j
    OBVIOUS
  <2>1. CASE j < k
    <3>1. j \in DOMAIN r /\ pos(j) = j BY <1>1, <1>3, <2>1
    <3>2. QED BY <3>1
  <2>2. CASE ~(j < k)
    <3>1. j - 1 \in DOMAIN r /\ pos(j - 1) = j BY <1>1, <1>3, <2>2
    <3>2. QED BY <3>1
  <2>3. QED BY <2>1, <2>2
<1>7. \A i, j \in DOMAIN r : pos(i) = pos(j) => i = j BY <1>1, <1>3
<1> HIDE DEF pos
<1>8. ASSUME NEW m PROVE m \in Queued(r) <=> m \in Queued(q) /\ m \notin q[k]
  <2>1. ASSUME NEW i \in DOMAIN r, m \in r[i] PROVE m \in Queued(q) /\ m \notin q[k]
    <3>1. m \in q[pos(i)] /\ pos(i) \in DOMAIN q /\ pos(i) # k BY <1>3, <1>4, <1>5, <2>1
    <3>2. QED BY <3>1 DEF Queued, Distinct
  <2>2. ASSUME NEW j \in DOMAIN q, m \in q[j], m \notin q[k] PROVE m \in Queued(r)
    <3>1. PICK i \in DOMAIN r : pos(i) = j BY <1>6, <2>2
    <3>2. m \in r[i] BY <1>3, <1>4, <2>2, <3>1
    <3>3. QED BY <3>2 DEF Queued
  <2>3. QED BY <2>1, <2>2 DEF Queued
<1>9. Distinct(r)
  <2> SUFFICES ASSUME NEW i \in DOMAIN r, NEW j \in DOMAIN r, NEW m \in r[i], m \in r[j]
               PROVE  i = j
    BY DEF Distinct
  <2>1. /\ pos(i) \in DOMAIN q /\ pos(j) \in DOMAIN q /\ m \in q[pos(i)] /\ m \in q[pos(j)]
    BY <1>3, <1>4, <1>5
  <2>2. pos(i) = pos(j) BY <2>1 DEF Distinct
  <2>3. QED BY <1>7, <2>2
<1>10. QED BY <1>8, <1>9 DEF r

-----------------------------------------------------------------------------
(***************************************************************************)
(* Where the messages are, one lemma per move.                             *)
(***************************************************************************)

\* The step does not touch message m.
Stays(m) ==
    /\ m \in Queued(queue') <=> m \in Queued(queue)
    /\ \A t \in Turns : /\ m \in steering'[t] <=> m \in steering[t]
                        /\ m \in leftover'[t] <=> m \in leftover[t]
    /\ \A th \in Threads : m \in hand'[th] <=> m \in hand[th]
    /\ fate'[m] = fate[m] /\ steeredTo'[m] = steeredTo[m] /\ src'[m] = src[m]
    /\ m > nmsg' => m > nmsg

\* A turn that completed stays completed.
EndsStay == \A t \in Turns : term[t] = "completed" => term'[t] = "completed"

\* A message that the step does not touch keeps what holds of it.
LEMMA StaysInv ==
    ASSUME TypeOK, NEW m \in Msgs, MessageInv(m), Stays(m), EndsStay
    PROVE  MessageInv(m)'
<1>1. steeredTo[m] # 0 => steeredTo[m] \in Turns BY DEF TypeOK, Turns
<1>2. OneHome(m)'
  BY DEF MessageInv, OneHome, Stays, Nowhere, OnlyQueued, OnlyHeld, OnlySteered, OnlyLeft,
         NotQueued, NotHeld, NotSteered, NotLeft, IntoTurn
<1>3. LeftCompleted(m)' BY <1>1 DEF MessageInv, LeftCompleted, Stays, EndsStay
<1>4. QED BY <1>2, <1>3 DEF MessageInv, Stays

\* Where a message is tells what became of it and where else it is not.
LEMMA Whereabouts ==
    ASSUME TypeOK, NEW m \in Msgs, MessageInv(m)
    PROVE  /\ m \in Queued(queue) => fate[m] = "pending" /\ OnlyQueued(m)
           /\ \A th \in Threads : m \in hand[th] => fate[m] = "pending" /\ OnlyHeld(m)
           /\ \A t \in Turns : m \in steering[t] =>
                fate[m] = "pending" /\ OnlySteered(m) /\ steeredTo[m] = t
           /\ \A t \in Turns : m \in leftover[t] =>
                fate[m] = "pending" /\ OnlyLeft(m) /\ steeredTo[m] = t
           /\ m \in Queued(queue) \/ (\E th \in Threads : m \in hand[th]) =>
                steeredTo[m] = 0 \/ term[steeredTo[m]] = "completed"
           /\ m > nmsg => Nowhere(m) /\ steeredTo[m] = 0 /\ fate[m] = "unsent"
<1>1. steeredTo[m] # 0 => steeredTo[m] \in Turns BY DEF TypeOK, Turns
<1>2. OneHome(m) BY DEF MessageInv
<1> USE DEF Nowhere, OnlyQueued, OnlyHeld, OnlySteered, OnlyLeft,
            NotQueued, NotHeld, NotSteered, NotLeft
<1>3. m \in Queued(queue) => fate[m] = "pending" /\ OnlyQueued(m) BY <1>2 DEF OneHome
<1>4. ASSUME NEW th \in Threads, m \in hand[th] PROVE fate[m] = "pending" /\ OnlyHeld(m)
  BY <1>2, <1>4 DEF OneHome
<1>5. ASSUME NEW t \in Turns, m \in steering[t]
      PROVE  fate[m] = "pending" /\ OnlySteered(m) /\ steeredTo[m] = t
  BY <1>2, <1>5 DEF OneHome
<1>6. ASSUME NEW t \in Turns, m \in leftover[t]
      PROVE  fate[m] = "pending" /\ OnlyLeft(m) /\ steeredTo[m] = t
  BY <1>2, <1>6 DEF OneHome
<1>7. ASSUME m \in Queued(queue) \/ \E th \in Threads : m \in hand[th]
      PROVE  steeredTo[m] = 0 \/ term[steeredTo[m]] = "completed"
  <2>1. fate[m] = "pending" /\ NotSteered(m) /\ NotLeft(m) BY <1>3, <1>4, <1>7
  <2>2. QED BY <1>1, <2>1 DEF MessageInv, LeftCompleted
<1>8. m > nmsg => Nowhere(m) /\ steeredTo[m] = 0 /\ fate[m] = "unsent"
  BY <1>2 DEF MessageInv, OneHome
<1>9. QED BY <1>3, <1>4, <1>5, <1>6, <1>7, <1>8

\* The first entry goes from the queue to the hand of the thread that starts it.
LEMMA KickPopMessages ==
    ASSUME TypeOK, MessagesInv, NEW th \in Threads, KickPop(th)
    PROVE  Distinct(queue') /\ \A m \in Msgs : MessageInv(m)'
<1>a. /\ pc[th] = "pop" /\ hand[th] = {} BY DEF KickPop, MessagesInv, HandsInv, Carries
<1>b. UNCHANGED <<nmsg, src, fate, steeredTo, steering, leftover, term>>
  BY DEF KickPop, msgVars, turnVars
<1>c. EndsStay BY <1>b DEF EndsStay
<1>1. CASE Busy \/ queue = << >>
  <2>1. UNCHANGED <<queue, hand>> BY <1>1 DEF KickPop
  <2>2. \A m \in Msgs : Stays(m) BY <1>b, <2>1 DEF Stays
  <2>3. QED BY <1>c, <2>1, <2>2, StaysInv DEF MessagesInv
<1>2. CASE ~(Busy \/ queue = << >>)
  <2>1. /\ queue # << >> /\ queue' = Tail(queue) /\ hand'[th] = Head(queue)
        /\ \A u \in Threads : u # th => hand'[u] = hand[u]
    BY <1>2 DEF KickPop, TypeOK
  <2>2. /\ \A m : m \in Queued(queue) <=> m \in Head(queue) \/ m \in Queued(queue')
        /\ \A m : m \in Head(queue) => m \notin Queued(queue')
        /\ Distinct(queue')
    BY <2>1, QueueTail DEF TypeOK, MessagesInv
  <2>3. ASSUME NEW m \in Msgs PROVE MessageInv(m)'
    <3>0. MessageInv(m) BY DEF MessagesInv
    <3>1. CASE m \in Head(queue)
      <4>1. /\ fate[m] = "pending" /\ OnlyQueued(m)
            /\ steeredTo[m] = 0 \/ term[steeredTo[m]] = "completed"
        BY <2>2, <3>0, <3>1, Whereabouts
      <4>2. m \in hand'[th] /\ \A u \in Threads : u # th => m \notin hand'[u]
        BY <2>1, <3>1, <4>1 DEF OnlyQueued, NotHeld
      <4>3. OnlyHeld(m)'
        BY <1>b, <2>2, <3>1, <4>1, <4>2
        DEF OnlyQueued, OnlyHeld, NotQueued, NotSteered, NotLeft
      <4>4. OneHome(m)' BY <1>b, <4>1, <4>3 DEF OneHome
      <4>5. QED BY <1>b, <3>0, <4>1, <4>4 DEF MessageInv, LeftCompleted
    <3>2. CASE m \notin Head(queue)
      <4>1. \A u \in Threads : m \in hand'[u] <=> m \in hand[u] BY <1>a, <2>1, <3>2
      <4>2. Stays(m) BY <1>b, <2>2, <3>2, <4>1 DEF Stays
      <4>3. QED BY <1>c, <3>0, <4>2, StaysInv
    <3>3. QED BY <3>1, <3>2
  <2>4. QED BY <2>2, <2>3
<1>3. QED BY <1>1, <1>2

\* The messages in a thread's hand meet their end, and nothing else moves.
HandEnds(th, end) ==
    /\ UNCHANGED <<queue, steering, leftover, nmsg, src, steeredTo, term>>
    /\ hand'[th] = {} /\ \A u \in Threads : u # th => hand'[u] = hand[u]
    /\ \A m \in Msgs : fate'[m] = IF m \in hand[th] THEN end ELSE fate[m]

\* A start takes its messages, or is refused with them.
LEMMA HandEndsMessages ==
    ASSUME TypeOK, MessagesInv, NEW th \in Threads, NEW end \in {"started", "refused"},
           HandEnds(th, end)
    PROVE  Distinct(queue') /\ \A m \in Msgs : MessageInv(m)'
<1> USE DEF HandEnds
<1>1. EndsStay BY DEF EndsStay
<1>2. ASSUME NEW m \in Msgs PROVE MessageInv(m)'
  <2>0. MessageInv(m) BY DEF MessagesInv
  <2>1. CASE m \in hand[th]
    <3>1. /\ OnlyHeld(m) /\ fate'[m] = end
          /\ steeredTo[m] = 0 \/ term[steeredTo[m]] = "completed"
      BY <2>0, <2>1, Whereabouts
    <3>2. Nowhere(m)'
      BY <2>1, <3>1 DEF OnlyHeld, Nowhere, NotQueued, NotHeld, NotSteered, NotLeft
    <3>3. ~(m > nmsg) BY <2>0, <2>1, Whereabouts DEF Nowhere, NotHeld
    <3>4. QED BY <3>1, <3>2, <3>3 DEF MessageInv, OneHome, LeftCompleted
  <2>2. CASE m \notin hand[th]
    <3>1. Stays(m) BY <2>2 DEF Stays
    <3>2. QED BY <1>1, <2>0, <3>1, StaysInv
  <2>3. QED BY <2>1, <2>2
<1>3. QED BY <1>2 DEF MessagesInv

\* The thread's entry goes into the queue, at one of its ends.
HandQueues(th) ==
    /\ UNCHANGED <<fate, steering, leftover, nmsg, src, steeredTo, term>>
    /\ hand'[th] = {} /\ \A u \in Threads : u # th => hand'[u] = hand[u]
    /\ queue' \in {<<hand[th]>> \o queue, Append(queue, hand[th])}

\* A refused entry is put back, or a message that found no turn is queued.
LEMMA HandQueuesMessages ==
    ASSUME TypeOK, MessagesInv, NEW th \in Threads, HandQueues(th)
    PROVE  Distinct(queue') /\ \A m \in Msgs : MessageInv(m)'
<1> USE DEF HandQueues
<1>1. EndsStay BY DEF EndsStay
<1>2. \A m \in hand[th] : m \in Msgs BY DEF TypeOK
<1>3. \A m \in hand[th] : m \notin Queued(queue)
  <2> SUFFICES ASSUME NEW m \in hand[th] PROVE m \notin Queued(queue)
    OBVIOUS
  <2>1. m \in Msgs /\ MessageInv(m) BY <1>2 DEF MessagesInv
  <2>2. OnlyHeld(m) BY <2>1, Whereabouts
  <2>3. QED BY <2>2 DEF OnlyHeld, NotQueued
<1>4. /\ \A m : m \in Queued(queue') <=> m \in hand[th] \/ m \in Queued(queue)
      /\ Distinct(queue')
  <2>1. queue \in Seq(SUBSET Msgs) /\ hand[th] \in SUBSET Msgs /\ Distinct(queue)
    BY DEF TypeOK, MessagesInv
  <2>2. CASE queue' = <<hand[th]>> \o queue BY <1>3, <2>1, <2>2, QueueHead
  <2>3. CASE queue' = Append(queue, hand[th]) BY <1>3, <2>1, <2>3, QueueAppend
  <2>4. QED BY <2>2, <2>3
<1>5. ASSUME NEW m \in Msgs PROVE MessageInv(m)'
  <2>0. MessageInv(m) BY DEF MessagesInv
  <2>1. CASE m \in hand[th]
    <3>1. /\ fate[m] = "pending" /\ OnlyHeld(m)
          /\ steeredTo[m] = 0 \/ term[steeredTo[m]] = "completed"
      BY <2>0, <2>1, Whereabouts
    <3>2. OnlyQueued(m)'
      BY <1>4, <2>1, <3>1 DEF OnlyHeld, OnlyQueued, NotHeld, NotSteered, NotLeft
    <3>3. QED BY <2>0, <3>1, <3>2 DEF MessageInv, OneHome, LeftCompleted
  <2>2. CASE m \notin hand[th]
    <3>1. Stays(m) BY <1>4, <2>2 DEF Stays
    <3>2. QED BY <1>1, <2>0, <3>1, StaysInv
  <2>3. QED BY <2>1, <2>2
<1>6. QED BY <1>4, <1>5

\* The messages steered into a running turn are taken by its loop, or withdrawn;
\* or the turn's end sets them aside.
LEMMA UnreadMessages ==
    ASSUME TypeOK, MessagesInv, NEW t \in Turns, NEW n \in Msgs,
           Drain(t) \/ CloseSteering(t) \/ SteerCancel(n)
    PROVE  Distinct(queue') /\ \A m \in Msgs : MessageInv(m)'
<1>1. UNCHANGED <<queue, hand, nmsg, src, steeredTo, term>>
  BY DEF Drain, CloseSteering, SteerCancel, threadVars, msgVars
<1>2. EndsStay BY <1>1 DEF EndsStay
<1>3. \A m \in Msgs : Stays(m) => MessageInv(m)' BY <1>2, StaysInv DEF MessagesInv
<1>4. CASE Drain(t)
  <2>1. /\ steering'[t] = {} /\ \A u \in Turns : u # t => steering'[u] = steering[u]
        /\ \A m \in Msgs : fate'[m] = IF m \in steering[t] THEN "taken" ELSE fate[m]
        /\ leftover' = leftover
    BY <1>4 DEF Drain, TypeOK
  <2>2. ASSUME NEW m \in Msgs PROVE MessageInv(m)'
    <3>0. MessageInv(m) BY DEF MessagesInv
    <3>1. CASE m \in steering[t]
      <4>1. OnlySteered(m) /\ steeredTo[m] = t /\ ~(m > nmsg)
        BY <3>0, <3>1, Whereabouts DEF Nowhere, NotSteered
      <4>2. Nowhere(m)'
        BY <1>1, <2>1, <4>1 DEF OnlySteered, Nowhere, NotQueued, NotHeld, NotSteered, NotLeft
      <4>3. fate'[m] = "taken" BY <2>1, <3>1
      <4>4. QED BY <1>1, <4>1, <4>2, <4>3 DEF MessageInv, OneHome, LeftCompleted
    <3>2. CASE m \notin steering[t]
      <4>1. Stays(m) BY <1>1, <2>1, <3>2 DEF Stays
      <4>2. QED BY <1>3, <4>1
    <3>3. QED BY <3>1, <3>2
  <2>3. QED BY <1>1, <2>2 DEF MessagesInv
<1>5. CASE CloseSteering(t)
  <2>1. /\ steering'[t] = {} /\ \A u \in Turns : u # t => steering'[u] = steering[u]
        /\ leftover'[t] = steering[t] /\ \A u \in Turns : u # t => leftover'[u] = leftover[u]
        /\ fate' = fate /\ leftover[t] = {}
    BY <1>5 DEF CloseSteering, TypeOK, msgVars, MessagesInv, EndingsInv
  <2>2. ASSUME NEW m \in Msgs PROVE MessageInv(m)'
    <3>0. MessageInv(m) BY DEF MessagesInv
    <3>1. CASE m \in steering[t]
      <4>1. OnlySteered(m) /\ steeredTo[m] = t /\ fate[m] = "pending"
        BY <3>0, <3>1, Whereabouts
      <4>2. OnlyLeft(m)'
        BY <1>1, <2>1, <4>1
        DEF OnlySteered, OnlyLeft, NotQueued, NotHeld, NotSteered, NotLeft, IntoTurn
      <4>3. m \in leftover'[t] BY <2>1, <3>1
      <4>4. QED BY <1>1, <2>1, <3>0, <4>1, <4>2, <4>3 DEF MessageInv, OneHome, LeftCompleted
    <3>2. CASE m \notin steering[t]
      <4>1. Stays(m) BY <1>1, <2>1, <3>2 DEF Stays
      <4>2. QED BY <1>3, <4>1
    <3>3. QED BY <3>1, <3>2
  <2>3. QED BY <1>1, <2>2 DEF MessagesInv
<1>6. CASE SteerCancel(n)
  <2>1. PICK u \in Active : n \in steering[u] /\ steering' = [steering EXCEPT ![u] = @ \ {n}]
    BY <1>6 DEF SteerCancel
  <2>2. u \in Turns BY BoundsAssumption DEF Active, Registered, Turns, TypeOK
  <2>3. /\ fate'[n] = "withdrawn" /\ \A m \in Msgs : m # n => fate'[m] = fate[m]
        /\ leftover' = leftover /\ steering'[u] = steering[u] \ {n}
        /\ \A v \in Turns : v # u => steering'[v] = steering[v]
    BY <1>6, <2>1, <2>2 DEF SteerCancel, TypeOK
  <2>4. ASSUME NEW m \in Msgs PROVE MessageInv(m)'
    <3>0. MessageInv(m) BY DEF MessagesInv
    <3>1. CASE m = n
      <4>1. OnlySteered(m) /\ steeredTo[m] = u /\ ~(m > nmsg)
        BY <2>1, <2>2, <3>0, <3>1, Whereabouts DEF Nowhere, NotSteered
      <4>2. Nowhere(m)'
        BY <1>1, <2>3, <3>1, <4>1
        DEF OnlySteered, Nowhere, NotQueued, NotHeld, NotSteered, NotLeft
      <4>3. QED BY <1>1, <2>3, <3>1, <4>1, <4>2 DEF MessageInv, OneHome, LeftCompleted
    <3>2. CASE m # n
      <4>1. Stays(m) BY <1>1, <2>2, <2>3, <3>2 DEF Stays
      <4>2. QED BY <1>3, <4>1
    <3>3. QED BY <3>1, <3>2
  <2>5. QED BY <1>1, <2>4 DEF MessagesInv
<1>7. QED BY <1>4, <1>5, <1>6

\* What a turn left unread is queued after a completed turn, and given back
\* after any other; a report is dropped.
LEMMA SettleMessages ==
    ASSUME TypeOK, MessagesInv, NEW t \in Turns, Settle(t)
    PROVE  Distinct(queue') /\ \A m \in Msgs : MessageInv(m)'
<1> DEFINE reports == {m \in leftover[t] : src[m] = "report"}
           owners == {m \in leftover[t] : src[m] = "owner"}
           parents == {m \in leftover[t] : src[m] = "parent"}
           queues == term[t] = "completed"
<1>1. /\ UNCHANGED <<nmsg, src, steeredTo, steering, hand, term>>
      /\ leftover'[t] = {} /\ \A u \in Turns : u # t => leftover'[u] = leftover[u]
      /\ queue' = IF queues THEN Entry(owners) \o Entry(parents) \o queue ELSE queue
  BY DEF Settle, TypeOK
<1>2. \A m \in Msgs : fate'[m] = CASE m \in reports -> "unreported"
                                   [] m \in leftover[t] \ reports /\ ~queues -> "returned"
                                   [] OTHER -> fate[m]
  BY DEF Settle
<1>3. EndsStay BY <1>1 DEF EndsStay
<1>4. \A m \in Msgs : Stays(m) => MessageInv(m)' BY <1>3, StaysInv DEF MessagesInv
<1>5. /\ owners \in SUBSET Msgs /\ parents \in SUBSET Msgs /\ leftover[t] \in SUBSET Msgs
      /\ queue \in Seq(SUBSET Msgs)
  BY DEF TypeOK
<1>6. \A m \in leftover[t] : /\ fate[m] = "pending" /\ OnlyLeft(m) /\ steeredTo[m] = t
                             /\ ~(m > nmsg)
  BY <1>5, Whereabouts DEF MessagesInv, Nowhere, NotLeft
<1>7. \A m \in leftover[t] : m \notin Queued(queue) BY <1>6 DEF OnlyLeft, NotQueued
<1>8. \A m \in leftover[t] : m \in reports \/ m \in owners \/ m \in parents
  <2> SUFFICES ASSUME NEW m \in leftover[t] PROVE m \in reports \/ m \in owners \/ m \in parents
    OBVIOUS
  <2>1. src[m] # "schedule" /\ src[m] \in Sources
    BY <1>5, <1>6 DEF OnlyLeft, IntoTurn, TypeOK
  <2>2. QED BY <2>1 DEF Sources
<1>9. /\ Distinct(queue')
      /\ queues => \A m : m \in Queued(queue') <=> m \in owners \/ m \in parents \/ m \in Queued(queue)
      /\ ~queues => queue' = queue
  <2>1. CASE queues
    <3>1. /\ \A m : m \in Queued(Entry(parents) \o queue) <=> m \in parents \/ m \in Queued(queue)
          /\ Distinct(Entry(parents) \o queue)
      BY <1>5, <1>7, QueueEntry DEF MessagesInv
    <3>2. Entry(parents) \in Seq(SUBSET Msgs) /\ Entry(owners) \in Seq(SUBSET Msgs)
      BY <1>5, EntryType
    <3>3. Entry(parents) \o queue \in Seq(SUBSET Msgs) BY <1>5, <3>2
    <3>4. \A m \in owners : m \notin Queued(Entry(parents) \o queue) BY <1>7, <3>1
    <3>5. /\ \A m : m \in Queued(Entry(owners) \o (Entry(parents) \o queue))
                      <=> m \in owners \/ m \in Queued(Entry(parents) \o queue)
          /\ Distinct(Entry(owners) \o (Entry(parents) \o queue))
      <4> HIDE DEF owners, parents
      <4>1. QED BY <1>5, <3>1, <3>3, <3>4, QueueEntry
    <3>6. queue' = Entry(owners) \o (Entry(parents) \o queue)
      <4>1. queue' = Entry(owners) \o Entry(parents) \o queue BY <1>1, <2>1
      <4> HIDE DEF owners, parents
      <4>2. QED BY <1>5, <3>2, <4>1
    <3>7. QED BY <2>1, <3>1, <3>5, <3>6
  <2>2. CASE ~queues BY <1>1, <2>2 DEF MessagesInv
  <2>3. QED BY <2>1, <2>2
<1> HIDE DEF owners, parents
<1>10. ASSUME NEW m \in Msgs PROVE MessageInv(m)'
  <2>0. MessageInv(m) BY DEF MessagesInv
  <2>1. CASE m \in leftover[t] /\ (m \in reports \/ ~queues)
    <3>1. fate'[m] \in {"unreported", "returned"} BY <1>2, <2>1
    <3>2. m \notin Queued(queue')
      <4>1. m \in reports => m \notin owners /\ m \notin parents BY DEF owners, parents
      <4>2. QED BY <1>7, <1>9, <2>1, <4>1
    <3>3. Nowhere(m)'
      BY <1>1, <1>6, <2>1, <3>2
      DEF OnlyLeft, Nowhere, NotQueued, NotHeld, NotSteered, NotLeft
    <3>4. QED BY <1>1, <1>6, <2>1, <3>1, <3>3 DEF MessageInv, OneHome, LeftCompleted
  <2>2. CASE m \in leftover[t] /\ m \notin reports /\ queues
    <3>1. fate'[m] = "pending" BY <1>2, <1>6, <2>2
    <3>2. m \in Queued(queue') BY <1>8, <1>9, <2>2
    <3>3. OnlyQueued(m)'
      BY <1>1, <1>6, <2>2, <3>2 DEF OnlyLeft, OnlyQueued, NotHeld, NotSteered, NotLeft
    <3>4. QED BY <1>1, <1>6, <2>2, <3>1, <3>3 DEF MessageInv, OneHome, LeftCompleted
  <2>3. CASE m \notin leftover[t]
    <3>1. m \notin owners /\ m \notin parents BY <2>3 DEF owners, parents
    <3>2. fate'[m] = fate[m] BY <1>2, <2>3
    <3>3. m \in Queued(queue') <=> m \in Queued(queue) BY <1>9, <3>1
    <3>4. Stays(m) BY <1>1, <2>3, <3>2, <3>3 DEF Stays
    <3>5. QED BY <1>4, <3>4
  <2>4. QED BY <2>1, <2>2, <2>3
<1>11. QED BY <1>9, <1>10

\* The queue is emptied, or the entry of a deleted task leaves it.
LEMMA QueueDropMessages ==
    ASSUME TypeOK, MessagesInv, NEW n \in Msgs, QueueClear \/ QueueDiscard(n)
    PROVE  Distinct(queue') /\ \A m \in Msgs : MessageInv(m)'
<1>1. UNCHANGED <<nmsg, src, steeredTo, steering, leftover, hand, term>>
  BY DEF QueueClear, QueueDiscard, turnVars, threadVars
<1>2. EndsStay BY <1>1 DEF EndsStay
<1>3. \E S \in SUBSET Msgs :
        /\ S \subseteq Queued(queue) /\ Distinct(queue')
        /\ \A m \in Msgs : fate'[m] = IF m \in S THEN "cleared" ELSE fate[m]
        /\ \A m \in Msgs : m \in Queued(queue') <=> m \in Queued(queue) /\ m \notin S
  <2>1. CASE QueueClear
    <3>1. queue' = << >> BY <2>1 DEF QueueClear
    <3>2. Distinct(queue') /\ \A m : m \notin Queued(queue') BY <3>1 DEF Distinct, Queued
    <3>3. \A m \in Msgs : fate'[m] = IF m \in Queued(queue) THEN "cleared" ELSE fate[m]
      BY <2>1 DEF QueueClear
    <3>4. Queued(queue) \in SUBSET Msgs
      <4>1. \A i \in DOMAIN queue : queue[i] \in SUBSET Msgs BY DEF TypeOK
      <4>2. QED BY <4>1 DEF Queued
    <3>5. QED BY <3>2, <3>3, <3>4
  <2>2. CASE QueueDiscard(n)
    <3>1. PICK i \in DOMAIN queue :
            /\ queue[i] = {n}
            /\ queue' = SubSeq(queue, 1, i - 1) \o SubSeq(queue, i + 1, Len(queue))
      BY <2>2 DEF QueueDiscard
    <3>2. /\ \A m : m \in Queued(queue') <=> m \in Queued(queue) /\ m \notin {n}
          /\ Distinct(queue')
      BY <3>1, QueueRemove DEF TypeOK, MessagesInv
    <3>3. {n} \subseteq Queued(queue) BY <3>1 DEF Queued
    <3>4. \A m \in Msgs : fate'[m] = IF m \in {n} THEN "cleared" ELSE fate[m]
      BY <2>2 DEF QueueDiscard, TypeOK
    <3>5. {n} \in SUBSET Msgs OBVIOUS
    <3>6. QED BY <3>2, <3>3, <3>4, <3>5
  <2>3. QED BY <2>1, <2>2
<1>4. PICK S \in SUBSET Msgs :
        /\ S \subseteq Queued(queue) /\ Distinct(queue')
        /\ \A m \in Msgs : fate'[m] = IF m \in S THEN "cleared" ELSE fate[m]
        /\ \A m \in Msgs : m \in Queued(queue') <=> m \in Queued(queue) /\ m \notin S
  BY <1>3
<1>5. ASSUME NEW m \in Msgs PROVE MessageInv(m)'
  <2>0. MessageInv(m) BY DEF MessagesInv
  <2>1. CASE m \in S
    <3>1. OnlyQueued(m) /\ ~(m > nmsg)
      BY <1>4, <2>0, <2>1, Whereabouts DEF Nowhere, NotQueued
    <3>2. Nowhere(m)'
      BY <1>1, <1>4, <2>1, <3>1
      DEF OnlyQueued, Nowhere, NotQueued, NotHeld, NotSteered, NotLeft
    <3>3. QED BY <1>1, <1>4, <2>1, <3>1, <3>2 DEF MessageInv, OneHome, LeftCompleted
  <2>2. CASE m \notin S
    <3>1. Stays(m) BY <1>1, <1>4, <2>2 DEF Stays
    <3>2. QED BY <1>2, <2>0, <3>1, StaysInv
  <2>3. QED BY <2>1, <2>2
<1>6. QED BY <1>4, <1>5

\* A call brings the next message, and touches no other.
Brings(m) ==
    /\ m = nmsg + 1 /\ nmsg' = m
    /\ UNCHANGED <<leftover, term>>
    /\ \A n \in Msgs : n # m => fate'[n] = fate[n] /\ steeredTo'[n] = steeredTo[n] /\ src'[n] = src[n]

\* Where the new message goes: nowhere when it is refused, into the hand of the
\* thread that serves the call, into the queue, or into the running turn.
Refuses(m) ==
    /\ fate'[m] \in {"refused", "unreported"} /\ steeredTo' = steeredTo
    /\ UNCHANGED <<queue, hand, steering>>

TakesInHand(m, th) ==
    /\ fate'[m] = "pending" /\ steeredTo' = steeredTo /\ UNCHANGED <<queue, steering>>
    /\ hand[th] = {} /\ hand'[th] = {m} /\ \A u \in Threads : u # th => hand'[u] = hand[u]

Queues(m) ==
    /\ fate'[m] = "pending" /\ steeredTo' = steeredTo /\ UNCHANGED <<hand, steering>>
    /\ queue' = Append(queue, {m})

SteersInto(m, t) ==
    /\ fate'[m] = "pending" /\ steeredTo'[m] = t /\ src'[m] # "schedule"
    /\ UNCHANGED <<queue, hand>>
    /\ steering'[t] = steering[t] \cup {m}
    /\ \A u \in Turns : u # t => steering'[u] = steering[u]

\* A new message has one place, and disturbs no other.
LEMMA BringsMessages ==
    ASSUME TypeOK, MessagesInv, NEW m \in Msgs, NEW th \in Threads, NEW t \in Turns, Brings(m),
           Refuses(m) \/ TakesInHand(m, th) \/ Queues(m) \/ SteersInto(m, t)
    PROVE  Distinct(queue') /\ \A n \in Msgs : MessageInv(n)'
<1>1. EndsStay BY DEF Brings, EndsStay
<1>2. nmsg \in Nat /\ m > nmsg /\ ~(m > nmsg') /\ \A n \in Msgs : n > nmsg' => n > nmsg
  BY DEF Brings, TypeOK, Msgs
<1>3. Nowhere(m) /\ steeredTo[m] = 0 BY <1>2, Whereabouts DEF MessagesInv
<1>4. /\ Distinct(queue')
      /\ \A n : m # n => (n \in Queued(queue') <=> n \in Queued(queue))
      /\ Queues(m) => m \in Queued(queue')
  <2>1. CASE queue' = queue
    <3>1. ~Queues(m)
      <4>1. SUFFICES ASSUME Queues(m) PROVE FALSE
        OBVIOUS
      <4>2. queue = Append(queue, {m}) /\ queue \in Seq(SUBSET Msgs) /\ {m} \in SUBSET Msgs
        BY <2>1, <4>1 DEF Queues, TypeOK
      <4>3. Len(queue) = Len(queue) + 1 /\ Len(queue) \in Nat BY <4>2
      <4>4. QED BY <4>3
    <3>2. QED BY <2>1, <3>1 DEF MessagesInv
  <2>2. CASE Queues(m)
    <3>1. \A n \in {m} : n \notin Queued(queue) BY <1>3 DEF Nowhere, NotQueued
    <3>2. {m} \in SUBSET Msgs /\ queue \in Seq(SUBSET Msgs) /\ Distinct(queue)
      BY DEF TypeOK, MessagesInv
    <3>3. /\ \A n : n \in Queued(Append(queue, {m})) <=> n \in {m} \/ n \in Queued(queue)
          /\ Distinct(Append(queue, {m}))
      BY <3>1, <3>2, QueueAppend
    <3>4. QED BY <2>2, <3>3 DEF Queues
  <2>3. QED BY <2>1, <2>2 DEF Refuses, TakesInHand, SteersInto
<1>5. ASSUME NEW n \in Msgs PROVE MessageInv(n)'
  <2>0. MessageInv(n) BY DEF MessagesInv
  <2>1. CASE n # m
    <3>1. /\ \A u \in Turns : /\ n \in steering'[u] <=> n \in steering[u]
                              /\ n \in leftover'[u] <=> n \in leftover[u]
          /\ \A u \in Threads : n \in hand'[u] <=> n \in hand[u]
      BY <2>1 DEF Brings, Refuses, TakesInHand, Queues, SteersInto
    <3>2. Stays(n) BY <1>2, <1>4, <2>1, <3>1 DEF Stays, Brings
    <3>3. QED BY <1>1, <2>0, <3>2, StaysInv
  <2>2. CASE n = m /\ Refuses(m)
    <3>1. Nowhere(m)'
      BY <1>3, <2>2 DEF Brings, Refuses, Nowhere, NotQueued, NotHeld, NotSteered, NotLeft
    <3>2. QED BY <1>2, <2>2, <3>1 DEF Refuses, MessageInv, OneHome, LeftCompleted
  <2>3. CASE n = m /\ TakesInHand(m, th)
    <3>1. OnlyHeld(m)'
      BY <1>3, <2>3
      DEF Brings, TakesInHand, Nowhere, OnlyHeld, NotQueued, NotHeld, NotSteered, NotLeft
    <3>2. QED BY <1>2, <1>3, <2>3, <3>1 DEF TakesInHand, MessageInv, OneHome, LeftCompleted
  <2>4. CASE n = m /\ Queues(m)
    <3>1. OnlyQueued(m)'
      BY <1>3, <1>4, <2>4
      DEF Brings, Queues, Nowhere, OnlyQueued, NotHeld, NotSteered, NotLeft
    <3>2. QED BY <1>2, <1>3, <2>4, <3>1 DEF Queues, MessageInv, OneHome, LeftCompleted
  <2>5. CASE n = m /\ SteersInto(m, t)
    <3>1. OnlySteered(m)'
      BY <1>3, <2>5
      DEF Brings, SteersInto, Nowhere, OnlySteered, NotQueued, NotHeld, NotSteered, NotLeft,
          IntoTurn
    <3>2. m \in steering'[t] BY <2>5 DEF SteersInto
    <3>3. QED BY <1>2, <2>5, <3>1, <3>2 DEF SteersInto, MessageInv, OneHome, LeftCompleted
  <2>6. QED BY <2>1, <2>2, <2>3, <2>4, <2>5
<1>6. QED BY <1>4, <1>5

\* The turn a message is steered into is the one that runs.
LEMMA SteerableTurn ==
    ASSUME TypeOK, EndingsInv, NEW t \in Steerable
    PROVE  t \in Turns /\ t = nturn /\ Busy
BY BoundsAssumption DEF Steerable, Active, Registered, Turns, TypeOK, EndingsInv, Busy

\* Steering a message: into the running turn, refused, dropped, or on to the queue.
LEMMA SteerCases ==
    ASSUME TypeOK, MessagesInv, NEW m \in Msgs, NEW s \in {"owner", "parent", "report"},
           Steer(m, s)
    PROVE  /\ Brings(m)
           /\ \/ Refuses(m)
              \/ TakesInHand(m, From(s))
              \/ SteersInto(m, nturn) /\ nturn \in Turns /\ Busy
<1> USE ThreadSet DEF TypeOK
<1>1. hand[From(s)] = {} /\ m = nmsg + 1 /\ nmsg' = m /\ src' = [src EXCEPT ![m] = s]
  BY DEF Steer, Arrives, MessagesInv, HandsInv, Carries
<1>2. UNCHANGED <<queue, leftover, term>> BY DEF Steer
<1>3. CASE Steerable # {}
  <2> DEFINE t == CHOOSE u \in Steerable : TRUE
  <2>1. t \in Steerable BY <1>3
  <2>2. \/ fate' = [fate EXCEPT ![m] = "refused"] /\ UNCHANGED <<steering, steeredTo>>
        \/ /\ steering' = [steering EXCEPT ![t] = @ \cup {m}]
           /\ fate' = [fate EXCEPT ![m] = "pending"]
           /\ steeredTo' = [steeredTo EXCEPT ![m] = t]
    BY <1>3 DEF Steer
  <2>3. UNCHANGED hand BY <1>3 DEF Steer
  <2> HIDE DEF t
  <2>4. t \in Turns /\ t = nturn /\ Busy BY <2>1, SteerableTurn DEF MessagesInv
  <2>5. Brings(m) BY <1>1, <1>2, <2>2 DEF Brings
  <2>6. CASE fate' = [fate EXCEPT ![m] = "refused"] /\ UNCHANGED <<steering, steeredTo>>
    BY <1>2, <2>3, <2>5, <2>6 DEF Refuses
  <2>7. CASE /\ steering' = [steering EXCEPT ![t] = @ \cup {m}]
             /\ fate' = [fate EXCEPT ![m] = "pending"]
             /\ steeredTo' = [steeredTo EXCEPT ![m] = t]
    <3>1. SteersInto(m, t) BY <1>1, <1>2, <2>3, <2>4, <2>7 DEF SteersInto
    <3>2. QED BY <2>4, <2>5, <3>1
  <2>8. QED BY <2>2, <2>6, <2>7
<1>4. CASE ~(Steerable # {})
  <2>1. /\ UNCHANGED <<steering, steeredTo>>
        /\ \/ fate' = [fate EXCEPT ![m] = "unreported"] /\ UNCHANGED hand
           \/ /\ fate' = [fate EXCEPT ![m] = "pending"]
              /\ hand' = [hand EXCEPT ![From(s)] = {m}]
    BY <1>4 DEF Steer
  <2>2. Brings(m) BY <1>1, <1>2, <2>1 DEF Brings
  <2>3. Refuses(m) \/ TakesInHand(m, From(s)) BY <1>1, <1>2, <2>1 DEF Refuses, TakesInHand
  <2>4. QED BY <2>2, <2>3
<1>5. QED BY <1>3, <1>4

\* The other calls that bring a message.
LEMMA BringCases ==
    ASSUME TypeOK, MessagesInv, NEW m \in Msgs, NEW s \in Sources,
           TurnStart(m, s) \/ QueueAdd(m) \/ ScheduleStartOrQueue(m)
    PROVE  /\ Brings(m)
           /\ Refuses(m) \/ Queues(m) \/ \E th \in Threads : TakesInHand(m, th)
<1> USE ThreadSet DEF TypeOK
<1>1. CASE TurnStart(m, s)
  <2>1. /\ hand[From(s)] = {} /\ m = nmsg + 1 /\ nmsg' = m /\ src' = [src EXCEPT ![m] = s]
        /\ hand' = [hand EXCEPT ![From(s)] = {m}] /\ fate' = [fate EXCEPT ![m] = "pending"]
        /\ UNCHANGED <<queue, steeredTo, steering, leftover, term>>
    BY <1>1 DEF TurnStart, Arrives, turnVars, MessagesInv, HandsInv, Carries
  <2>2. TakesInHand(m, From(s)) BY <2>1 DEF TakesInHand
  <2>3. Brings(m) BY <2>1 DEF Brings
  <2>4. QED BY <2>2, <2>3
<1>2. CASE QueueAdd(m)
  <2>1. /\ m = nmsg + 1 /\ nmsg' = m /\ src' = [src EXCEPT ![m] = "owner"]
        /\ \/ fate' = [fate EXCEPT ![m] = "refused"] /\ queue' = queue
           \/ fate' = [fate EXCEPT ![m] = "pending"] /\ queue' = Append(queue, {m})
        /\ UNCHANGED <<hand, steeredTo, steering, leftover, term>>
    BY <1>2 DEF QueueAdd, Arrives, turnVars, threadVars
  <2>2. Refuses(m) \/ Queues(m) BY <2>1 DEF Refuses, Queues
  <2>3. Brings(m) BY <2>1 DEF Brings
  <2>4. QED BY <2>2, <2>3
<1>3. CASE ScheduleStartOrQueue(m)
  <2>1. /\ hand[Runner] = {} /\ m = nmsg + 1 /\ nmsg' = m /\ src' = [src EXCEPT ![m] = "schedule"]
        /\ hand' = [hand EXCEPT ![Runner] = {m}] /\ fate' = [fate EXCEPT ![m] = "pending"]
        /\ UNCHANGED <<queue, steeredTo, steering, leftover, term>>
    BY <1>3 DEF ScheduleStartOrQueue, Arrives, turnVars, MessagesInv, HandsInv, Carries
  <2>2. TakesInHand(m, Runner) BY <2>1 DEF TakesInHand
  <2>3. Brings(m) BY <2>1 DEF Brings
  <2>4. QED BY <2>2, <2>3
<1>4. QED BY <1>1, <1>2, <1>3

-----------------------------------------------------------------------------
(***************************************************************************)
(* The steps, as far as messages go, and the invariant.                    *)
(***************************************************************************)

\* A step that moves no message and starts and ends no turn.
Quiet ==
    /\ UNCHANGED <<queue, steering, leftover, hand, fate, steeredTo, src, nmsg, nturn, done>>
    /\ EndsStay

\* A refused start: its messages are refused, or stay in its hand.
LEMMA RefusedCases ==
    ASSUME TypeOK, NEW th \in Threads, NEW code, StartRefused(th, code)
    PROVE  Quiet \/ (HandEnds(th, "refused") /\ UNCHANGED <<nturn, done>>)
<1>1. UNCHANGED <<nmsg, src, steeredTo, queue, steering, leftover, term, nturn, done>>
  BY DEF StartRefused, turnVars
<1>2. \/ UNCHANGED <<fate, hand>>
      \/ /\ fate' = [m \in Msgs |-> IF m \in hand[th] THEN "refused" ELSE fate[m]]
         /\ hand' = [hand EXCEPT ![th] = {}]
  BY DEF StartRefused
<1>3. EndsStay BY <1>1 DEF EndsStay
<1>4. CASE UNCHANGED <<fate, hand>> BY <1>1, <1>3, <1>4 DEF Quiet
<1>5. CASE /\ fate' = [m \in Msgs |-> IF m \in hand[th] THEN "refused" ELSE fate[m]]
           /\ hand' = [hand EXCEPT ![th] = {}]
  BY <1>1, <1>5 DEF HandEnds, TypeOK
<1>6. QED BY <1>2, <1>4, <1>5

\* A thread that starts a turn.
LEMMA StartingCases ==
    ASSUME TypeOK, NEW th \in Threads, Starting(th)
    PROVE  \/ Quiet \/ (KickPop(th) /\ UNCHANGED <<nturn, done>>)
           \/ (HandEnds(th, "refused") /\ UNCHANGED <<nturn, done>>)
           \/ (StartRegister(th) /\ ~Busy)
           \/ (HandQueues(th) /\ UNCHANGED <<nturn, done>>)
<1> USE DEF turnVars, msgVars
<1>1. CASE KickHold(th) BY <1>1 DEF KickHold, Quiet, EndsStay
<1>2. CASE KickPop(th) BY <1>2 DEF KickPop
<1>3. CASE StartCheck(th)
  <2>1. CASE closed BY <1>3, <2>1, RefusedCases DEF StartCheck
  <2>2. CASE ~closed BY <1>3, <2>2 DEF StartCheck, Quiet, EndsStay
  <2>3. QED BY <2>1, <2>2
<1>4. CASE StartRegister(th) BY <1>4, RefusedCases DEF StartRegister
<1>5. CASE PutBack(th) BY <1>5 DEF PutBack, HandQueues, TypeOK
<1>6. QED BY <1>1, <1>2, <1>3, <1>4, <1>5 DEF Starting

\* Every step is of one of these kinds.
LEMMA MessageSteps ==
    ASSUME TypeOK, MessagesInv, [Next]_vars
    PROVE  \/ Quiet
           \/ \E th \in Threads :
                \/ KickPop(th) /\ UNCHANGED <<nturn, done>>
                \/ HandEnds(th, "refused") /\ UNCHANGED <<nturn, done>>
                \/ StartRegister(th) /\ ~Busy
                \/ HandQueues(th) /\ UNCHANGED <<nturn, done>>
           \/ \E t \in Turns : Drain(t) \/ CloseSteering(t) \/ SetDone(t) \/ Settle(t)
           \/ \E m \in Msgs : SteerCancel(m) \/ QueueDiscard(m)
           \/ QueueClear
           \/ \E m \in Msgs :
                /\ Brings(m) /\ UNCHANGED <<nturn, done>>
                /\ \/ Refuses(m) \/ Queues(m) \/ \E th \in Threads : TakesInHand(m, th)
                   \/ SteersInto(m, nturn) /\ nturn \in Turns /\ Busy
<1> USE ThreadSet DEF turnVars, msgVars, threadVars
<1>a. {"owner", "parent", "report", "schedule"} \subseteq Sources BY DEF Sources
<1>b. ASSUME NEW m \in Msgs, NEW s \in Sources,
             TurnStart(m, s) \/ QueueAdd(m) \/ ScheduleStartOrQueue(m)
      PROVE  /\ Brings(m) /\ UNCHANGED <<nturn, done>>
             /\ Refuses(m) \/ Queues(m) \/ \E th \in Threads : TakesInHand(m, th)
  <2>1. UNCHANGED <<nturn, done>> BY <1>b DEF TurnStart, QueueAdd, ScheduleStartOrQueue
  <2>2. QED BY <1>b, <2>1, BringCases
<1>c. ASSUME NEW m \in Msgs, NEW s \in {"owner", "parent", "report"}, Steer(m, s)
      PROVE  /\ Brings(m) /\ UNCHANGED <<nturn, done>>
             /\ \/ Refuses(m) \/ Queues(m) \/ \E th \in Threads : TakesInHand(m, th)
                \/ SteersInto(m, nturn) /\ nturn \in Turns /\ Busy
  <2>1. UNCHANGED <<nturn, done>> BY <1>c DEF Steer
  <2>2. QED BY <1>c, <2>1, SteerCases
<1>d. ASSUME \/ Compact \/ QueueResume \/ ResumeArm \/ ResumeCancel
             \/ SessionCloseCheck \/ SessionClose \/ SessionRestore
             \/ ResumeContinue \/ ResumeInflight \/ Wake
      PROVE  Quiet
  BY <1>d DEF Quiet, EndsStay, Compact, QueueResume, ResumeArm, ResumeCancel, SessionCloseCheck,
              SessionClose, SessionRestore, ResumeContinue, ResumeInflight, Wake
<1>1. CASE MainCall
  <2>1. CASE \E m \in Msgs : TurnStart(m, "owner") \/ QueueAdd(m) BY <1>a, <1>b, <2>1
  <2>2. CASE \E m \in Msgs : Steer(m, "owner") BY <1>c, <2>2
  <2>3. QED BY <1>1, <1>d, <2>1, <2>2 DEF MainCall
<1>2. CASE RunnerStep
  <2>1. CASE \E m \in Msgs : TurnStart(m, "parent") \/ ScheduleStartOrQueue(m)
    BY <1>a, <1>b, <2>1
  <2>2. CASE \E m \in Msgs : Steer(m, "parent") \/ Steer(m, "report") BY <1>c, <2>2
  <2>3. QED BY <1>2, <1>d, <2>1, <2>2 DEF RunnerStep
<1>3. CASE \E th \in Threads : Starting(th) BY <1>3, StartingCases
<1>4. CASE \E th \in Threads : QueueAddThenKick(th)
  <2>1. PICK th \in Threads : QueueAddThenKick(th) BY <1>4
  <2>2. /\ UNCHANGED <<nmsg, src, steeredTo, steering, leftover, term, nturn, done>>
        /\ hand' = [hand EXCEPT ![th] = {}]
        /\ \/ /\ fate' = [m \in Msgs |-> IF m \in hand[th] THEN "refused" ELSE fate[m]]
              /\ queue' = queue
           \/ fate' = fate /\ queue' = Append(queue, hand[th])
    BY <2>1 DEF QueueAddThenKick
  <2>3. HandEnds(th, "refused") \/ HandQueues(th) BY <2>2 DEF HandEnds, HandQueues, TypeOK
  <2>4. QED BY <2>2, <2>3
<1>5. CASE \E t \in Turns : Worker(t)
  <2>1. PICK t \in Turns : Worker(t) BY <1>5
  <2>2. CASE Finish(t)
    <3>1. EndsStay
      <4>1. pc[t] = "run" /\ \A u \in Turns : u # t => term'[u] = term[u]
        BY <2>2 DEF Finish, TypeOK
      <4>2. term[t] = "none" BY <4>1 DEF MessagesInv, EndingsInv
      <4>3. QED BY <4>1, <4>2 DEF EndsStay
    <3>2. QED BY <2>2, <3>1 DEF Finish, Quiet
  <2>3. CASE GoalAfterTurn(t) BY <2>3 DEF GoalAfterTurn, Quiet, EndsStay
  <2>4. QED BY <2>1, <2>2, <2>3 DEF Worker
<1>6. CASE UNCHANGED vars BY <1>6 DEF vars, Quiet, EndsStay
<1>7. QED BY <1>1, <1>2, <1>3, <1>4, <1>5, <1>6 DEF Next

\* A start that registers its turn takes its messages.
LEMMA RegisterEnds ==
    ASSUME TypeOK, NEW th \in Threads, StartRegister(th), ~Busy
    PROVE  HandEnds(th, "started")
<1>1. /\ UNCHANGED <<steering, leftover, term, queue, steeredTo, src, nmsg>>
      /\ \A u \in Threads : u # th => hand'[u] = hand[u]
      /\ hand'[th] = {}
      /\ fate' = [m \in Msgs |-> IF m \in hand[th] THEN "started" ELSE fate[m]]
  BY RegisterFacts
<1>2. QED BY <1>1 DEF HandEnds

\* Every step of the queue, the threads and the turns keeps the invariant.
LEMMA MessagesStep == TypeOK /\ MessagesInv /\ [Next]_vars => MessagesInv'
<1> SUFFICES ASSUME TypeOK, MessagesInv, [Next]_vars PROVE MessagesInv'
  OBVIOUS
<1>1. HandsInv' /\ EndingsInv' BY HandsStep, EndingsStep DEF MessagesInv
<1>a. 1 \in Turns BY BoundsAssumption DEF Turns
<1>2. Distinct(queue') /\ \A m \in Msgs : MessageInv(m)'
  <2>1. CASE Quiet
    <3>1. \A m \in Msgs : Stays(m) /\ EndsStay BY <2>1 DEF Quiet, Stays
    <3>2. \A m \in Msgs : MessageInv(m)' BY <3>1, StaysInv DEF MessagesInv
    <3>3. QED BY <2>1, <3>2 DEF Quiet, MessagesInv
  <2>2. CASE \E th \in Threads : KickPop(th) BY <2>2, KickPopMessages
  <2>3. CASE \E th \in Threads : HandEnds(th, "refused") BY <2>3, HandEndsMessages
  <2>4. CASE \E th \in Threads : StartRegister(th) /\ ~Busy
    BY <2>4, RegisterEnds, HandEndsMessages
  <2>5. CASE \E th \in Threads : HandQueues(th) BY <2>5, HandQueuesMessages
  <2>6. CASE Msgs = {}
    <3>1. queue' \in Seq(SUBSET Msgs) /\ Distinct(queue')
      <4>1. queue' \in Seq(SUBSET Msgs) BY TypeStep DEF TypeOK
      <4>2. QED BY <2>6, <4>1 DEF Distinct
    <3>2. QED BY <2>6, <3>1
  <2>7. CASE \E t \in Turns : Drain(t) \/ CloseSteering(t)
    <3>1. CASE \E n \in Msgs : TRUE BY <2>7, <3>1, UnreadMessages
    <3>2. QED BY <2>6, <3>1
  <2>8. CASE \E t \in Turns : Settle(t) BY <2>8, SettleMessages
  <2>9. CASE \E t \in Turns : SetDone(t)
    <3>1. /\ UNCHANGED <<queue, steering, leftover, hand, fate, steeredTo, src, nmsg>>
          /\ EndsStay
      BY <2>9 DEF SetDone, msgVars, EndsStay
    <3>2. \A m \in Msgs : Stays(m) /\ EndsStay BY <3>1 DEF Stays
    <3>3. \A m \in Msgs : MessageInv(m)' BY <3>2, StaysInv DEF MessagesInv
    <3>4. QED BY <3>1, <3>3 DEF MessagesInv
  <2>10. CASE \E m \in Msgs : SteerCancel(m) BY <1>a, <2>10, UnreadMessages
  <2>11. CASE \E m \in Msgs : QueueDiscard(m) BY <2>11, QueueDropMessages
  <2>12. CASE QueueClear
    <3>1. CASE \E n \in Msgs : TRUE BY <2>12, <3>1, QueueDropMessages
    <3>2. QED BY <2>6, <3>1
  <2>13. CASE \E m \in Msgs :
                /\ Brings(m)
                /\ \/ Refuses(m) \/ Queues(m) \/ \E th \in Threads : TakesInHand(m, th)
                   \/ SteersInto(m, nturn) /\ nturn \in Turns
    BY <1>a, <2>13, ThreadSet, BringsMessages
  <2>14. QED BY <2>1, <2>2, <2>3, <2>4, <2>5, <2>7, <2>8, <2>9, <2>10, <2>11, <2>12, <2>13,
                MessageSteps
<1>3. QED BY <1>1, <1>2 DEF MessagesInv

\* The invariant holds at the start and is kept.
LEMMA MessagesAlways == Spec => []MessagesInv
<1>1. Init => MessagesInv
  <2> SUFFICES ASSUME Init PROVE MessagesInv
    OBVIOUS
  <2> USE DEF Init
  <2>1. HandsInv BY DEF HandsInv, Carries
  <2>2. EndingsInv BY ThreadSet DEF EndingsInv, Active, Registered
  <2>3. Distinct(queue) /\ Queued(queue) = {} BY DEF Distinct, Queued
  <2>4. \A m \in Msgs : MessageInv(m)
    BY <2>3 DEF MessageInv, OneHome, Nowhere, NotQueued, NotHeld, NotSteered, NotLeft,
                LeftCompleted
  <2>5. QED BY <2>1, <2>2, <2>3, <2>4 DEF MessagesInv
<1>2. QED BY <1>1, MessagesStep, TypeCorrect, PTL DEF Spec

-----------------------------------------------------------------------------
(***************************************************************************)
(* What the invariant means for the properties of TurnQueue.               *)
(***************************************************************************)

\* The kinds of place that can hold a message.
LEMMA PlaceKinds ==
    ASSUME NEW p \in Places
    PROVE  /\ p = <<p[1], p[2]>>
           /\ \/ p[1] = "steering" /\ p[2] \in Turns /\ At(p) = steering[p[2]]
              \/ p[1] = "leftover" /\ p[2] \in Turns /\ At(p) = leftover[p[2]]
              \/ p[1] = "hand" /\ p[2] \in Threads /\ At(p) = hand[p[2]]
              \/ p[1] = "queue" /\ p[2] \in DOMAIN queue /\ At(p) = queue[p[2]]
<1>1. \/ p \in {"steering", "leftover"} \X Turns
      \/ p \in {"hand"} \X Threads
      \/ p \in {"queue"} \X DOMAIN queue
  BY DEF Places
<1>2. CASE p \in {"steering", "leftover"} \X Turns
  <2>1. p = <<p[1], p[2]>> /\ p[1] \in {"steering", "leftover"} /\ p[2] \in Turns BY <1>2
  <2>2. CASE p[1] = "steering" BY <2>1, <2>2 DEF At
  <2>3. CASE p[1] = "leftover" BY <2>1, <2>3 DEF At
  <2>4. QED BY <2>1, <2>2, <2>3
<1>3. CASE p \in {"hand"} \X Threads
  <2>1. p = <<p[1], p[2]>> /\ p[1] = "hand" /\ p[2] \in Threads BY <1>3
  <2>2. QED BY <2>1 DEF At
<1>4. CASE p \in {"queue"} \X DOMAIN queue
  <2>1. p = <<p[1], p[2]>> /\ p[1] = "queue" /\ p[2] \in DOMAIN queue BY <1>4
  <2>2. QED BY <2>1 DEF At
<1>5. QED BY <1>1, <1>2, <1>3, <1>4

\* A message in one of the four kinds of memory is in a place.
LEMMA PlacesHold ==
    ASSUME NEW m, \/ m \in Queued(queue)
                  \/ \E t \in Turns : m \in steering[t] \/ m \in leftover[t]
                  \/ \E th \in Threads : m \in hand[th]
    PROVE  \E p \in Places : m \in At(p)
<1>1. CASE m \in Queued(queue)
  <2>1. PICK i \in DOMAIN queue : m \in queue[i] BY <1>1 DEF Queued
  <2>2. <<"queue", i>> \in Places BY DEF Places
  <2>3. At(<<"queue", i>>) = queue[i] BY DEF At
  <2>4. QED BY <2>1, <2>2, <2>3
<1>2. CASE \E t \in Turns : m \in steering[t] \/ m \in leftover[t]
  <2>1. PICK t \in Turns : m \in steering[t] \/ m \in leftover[t] BY <1>2
  <2>2. <<"steering", t>> \in Places /\ <<"leftover", t>> \in Places BY DEF Places
  <2>3. At(<<"steering", t>>) = steering[t] /\ At(<<"leftover", t>>) = leftover[t] BY DEF At
  <2>4. QED BY <2>1, <2>2, <2>3
<1>3. CASE \E th \in Threads : m \in hand[th]
  <2>1. PICK th \in Threads : m \in hand[th] BY <1>3
  <2>2. <<"hand", th>> \in Places BY DEF Places
  <2>3. At(<<"hand", th>>) = hand[th] BY DEF At
  <2>4. QED BY <2>1, <2>2, <2>3
<1>4. QED BY <1>1, <1>2, <1>3

\* No hand-over of the manager between the queue, a starting thread, a turn and
\* its end loses or repeats a message: a pending one is in exactly one place,
\* and one that met its end is in none (turns.py: start_turn, steer,
\* _close_steering, _settle_steering, _start_next_queued).
THEOREM MessagesAreKeptOnceTheorem == Spec => []MessagesAreKeptOnce
<1>1. TypeOK /\ MessagesInv => MessagesAreKeptOnce
  <2> SUFFICES ASSUME TypeOK, MessagesInv, NEW m \in Msgs
               PROVE  /\ fate[m] = "pending" <=> \E p \in Places : m \in At(p)
                      /\ \A p, q \in Places : m \in At(p) /\ m \in At(q) => p = q
    BY DEF MessagesAreKeptOnce
  <2>0. MessageInv(m) /\ OneHome(m) BY DEF MessagesInv, MessageInv
  <2> USE DEF OnlyQueued, OnlyHeld, OnlySteered, OnlyLeft, IntoTurn,
              NotQueued, NotHeld, NotSteered, NotLeft
  <2>a. \A i \in DOMAIN queue : m \in queue[i] => m \in Queued(queue) BY DEF Queued
  <2>1. ASSUME fate[m] = "pending" PROVE \E p \in Places : m \in At(p)
    <3>1. \/ m \in Queued(queue)
          \/ \E t \in Turns : m \in steering[t] \/ m \in leftover[t]
          \/ \E th \in Threads : m \in hand[th]
      BY <2>0, <2>1 DEF OneHome
    <3>2. QED BY <3>1, PlacesHold
  <2>2. ASSUME NEW p \in Places, m \in At(p) PROVE fate[m] = "pending"
    BY <2>0, <2>2, <2>a, PlaceKinds, Whereabouts
  <2>3. ASSUME NEW p \in Places, NEW q \in Places, m \in At(p), m \in At(q) PROVE p = q
    <3>1. p[1] = q[1] /\ p[2] = q[2]
      <4>1. CASE m \in Queued(queue)
        <5>1. OnlyQueued(m) BY <2>0, <4>1, Whereabouts
        <5>2. /\ p[1] = "queue" /\ p[2] \in DOMAIN queue /\ m \in queue[p[2]]
              /\ q[1] = "queue" /\ q[2] \in DOMAIN queue /\ m \in queue[q[2]]
          BY <2>3, <5>1, PlaceKinds
        <5>3. QED BY <5>2 DEF MessagesInv, Distinct
      <4>2. CASE \E th \in Threads : m \in hand[th]
        <5>1. OnlyHeld(m) BY <2>0, <4>2, Whereabouts
        <5>2. /\ p[1] = "hand" /\ p[2] \in Threads /\ m \in hand[p[2]]
              /\ q[1] = "hand" /\ q[2] \in Threads /\ m \in hand[q[2]]
          BY <2>3, <2>a, <5>1, PlaceKinds
        <5>3. QED BY <5>1, <5>2
      <4>3. CASE \E t \in Turns : m \in steering[t]
        <5>1. OnlySteered(m) BY <2>0, <4>3, Whereabouts
        <5>2. /\ p[1] = "steering" /\ p[2] \in Turns /\ m \in steering[p[2]]
              /\ q[1] = "steering" /\ q[2] \in Turns /\ m \in steering[q[2]]
          BY <2>3, <2>a, <5>1, PlaceKinds
        <5>3. QED BY <5>1, <5>2
      <4>4. CASE \E t \in Turns : m \in leftover[t]
        <5>1. OnlyLeft(m) BY <2>0, <4>4, Whereabouts
        <5>2. /\ p[1] = "leftover" /\ p[2] \in Turns /\ m \in leftover[p[2]]
              /\ q[1] = "leftover" /\ q[2] \in Turns /\ m \in leftover[q[2]]
          BY <2>3, <2>a, <5>1, PlaceKinds
        <5>3. QED BY <5>1, <5>2
      <4>5. QED BY <2>3, <2>a, <4>1, <4>2, <4>3, <4>4, PlaceKinds
    <3>2. QED BY <3>1, PlaceKinds
  <2>4. QED BY <2>1, <2>2, <2>3
<1>2. QED BY <1>1, MessagesAlways, TypeCorrect, PTL

\* A message sent into a turn that was stopped, failed or cancelled is never
\* queued or started afterwards: only a turn that completed lets what it left
\* unread run (_settle_steering).
THEOREM StoppedMessagesDoNotRunTheorem == Spec => []StoppedMessagesDoNotRun
<1>1. TypeOK /\ MessagesInv => StoppedMessagesDoNotRun
  <2> SUFFICES ASSUME TypeOK, MessagesInv, NEW m \in Msgs, steeredTo[m] # 0,
                      fate[m] = "started" \/ m \in Queued(queue)
               PROVE  term[steeredTo[m]] = "completed"
    BY DEF StoppedMessagesDoNotRun
  <2>0. MessageInv(m) /\ steeredTo[m] \in Turns BY DEF MessagesInv, TypeOK, Turns
  <2>1. CASE m \in Queued(queue) BY <2>0, <2>1, Whereabouts
  <2>2. CASE fate[m] = "started"
    <3>1. NotSteered(m) /\ NotLeft(m) BY <2>0, <2>2 DEF MessageInv, OneHome, Nowhere
    <3>2. QED BY <2>0, <2>2, <3>1 DEF MessageInv, LeftCompleted, NotSteered, NotLeft
  <2>3. QED BY <2>1, <2>2
<1>2. QED BY <1>1, MessagesAlways, TypeCorrect, PTL

-----------------------------------------------------------------------------
(***************************************************************************)
(* TurnQueue implements SessionTurns.                                      *)
(***************************************************************************)

\* What becomes of each message gives what SessionTurns says of the set.
LEMMA BecomeFrom ==
    ASSUME TypeOK', NEW S, NEW end,
           \A m \in Msgs : fate'[m] = IF m \in S THEN end ELSE fate[m]
    PROVE  Promise!Become(S, end)
<1>1. fate' \in [Msgs -> Fates] BY DEF TypeOK
<1>2. fate' = [m \in Msgs |-> IF m \in S THEN end ELSE fate[m]] BY <1>1
<1>3. QED BY <1>2 DEF Promise!Become

\* Messages that wait are refused or cleared.
LEMMA GivesBack ==
    ASSUME TypeOK', NEW S \in SUBSET Msgs, NEW end \in {"refused", "cleared"},
           \A m \in S : fate[m] = "pending",
           \A m \in Msgs : fate'[m] = IF m \in S THEN end ELSE fate[m],
           UNCHANGED <<steeredTo, nturn, done>>
    PROVE  Promise!GiveBack
<1>1. Promise!Become(S, end) BY BecomeFrom
<1>2. S \in SUBSET Promise!Waiting BY DEF Promise!Waiting
<1>3. UNCHANGED <<steeredTo, nturn, Busy>> BY DEF Busy, Active, Registered
<1>4. QED BY <1>1, <1>2, <1>3 DEF Promise!GiveBack

\* A turn starts with the messages in the hand of the thread that starts it.
LEMMA StartsTurn ==
    ASSUME TypeOK, TypeOK', MessagesInv, NEW th \in Threads, StartRegister(th), ~Busy
    PROVE  Promise!StartTurn
<1>1. nturn' = nturn + 1 /\ UNCHANGED <<done, steeredTo>> BY RegisterFacts
<1>2. Busy'
  <2>1. nturn + 1 \notin done BY DEF MessagesInv, EndingsInv, Registered, TypeOK
  <2>2. nturn \in Nat BY DEF TypeOK
  <2>3. nturn + 1 \in Active' BY <1>1, <2>1, <2>2 DEF Active, Registered
  <2>4. QED BY <2>3 DEF Busy
<1>3. hand[th] \in SUBSET Promise!Waiting
  <2>1. \A m \in hand[th] : m \in Msgs BY DEF TypeOK
  <2>2. \A m \in hand[th] : fate[m] = "pending" BY <2>1, Whereabouts DEF MessagesInv
  <2>3. QED BY <2>1, <2>2 DEF Promise!Waiting
<1>4. Promise!Become(hand[th], "started")
  <2>1. HandEnds(th, "started") BY RegisterEnds
  <2>2. QED BY <2>1, BecomeFrom DEF HandEnds
<1>5. QED BY <1>1, <1>2, <1>3, <1>4 DEF Promise!StartTurn

\* The running turn's loop takes what was sent into it, all of it.
LEMMA LoopTakes ==
    ASSUME TypeOK, TypeOK', MessagesInv, NEW t \in Turns, Drain(t)
    PROVE  Promise!Take
<1>1. UNCHANGED <<steeredTo, nturn, done>> BY DEF Drain
<1>2. /\ pc[t] = "run" /\ t = nturn /\ Busy /\ leftover[t] = {} /\ term[t] = "none"
  <2>1. pc[t] = "run" /\ t \in Active /\ leftover[t] = {} /\ term[t] = "none"
    BY DEF Drain, MessagesInv, EndingsInv
  <2>2. QED BY <2>1 DEF MessagesInv, EndingsInv, Busy
<1>3. \A m \in Msgs : m \in steering[t] <=> fate[m] = "pending" /\ steeredTo[m] = nturn
  <2> SUFFICES ASSUME NEW m \in Msgs
               PROVE  m \in steering[t] <=> fate[m] = "pending" /\ steeredTo[m] = t
    BY <1>2
  <2>1. MessageInv(m) BY DEF MessagesInv
  <2>2. m \in steering[t] => fate[m] = "pending" /\ steeredTo[m] = t BY <2>1, Whereabouts
  <2>3. ASSUME fate[m] = "pending", steeredTo[m] = t PROVE m \in steering[t]
    <3>1. t # 0 BY DEF Turns
    <3>2. QED BY <1>2, <2>1, <2>3, <3>1 DEF MessageInv, LeftCompleted
  <2>4. QED BY <2>2, <2>3
<1>4. \A m \in Msgs : fate'[m] = IF m \in steering[t] THEN "taken" ELSE fate[m] BY DEF Drain
<1>5. Promise!Become({m \in Promise!Waiting : steeredTo[m] = nturn}, "taken")
  <2>1. \A m \in Msgs : m \in {n \in Promise!Waiting : steeredTo[n] = nturn} <=> m \in steering[t]
    BY <1>3 DEF Promise!Waiting
  <2>2. \A m \in Msgs : fate'[m] = IF m \in {n \in Promise!Waiting : steeredTo[n] = nturn}
                                     THEN "taken" ELSE fate[m]
    BY <1>4, <2>1
  <2>3. QED BY <2>2, BecomeFrom
<1>6. UNCHANGED <<steeredTo, nturn, Busy>> BY <1>1 DEF Busy, Active, Registered
<1>7. QED BY <1>2, <1>5, <1>6 DEF Promise!Take

\* The owner withdraws an unread message from the running turn.
LEMMA OwnerWithdraws ==
    ASSUME TypeOK, TypeOK', MessagesInv, NEW m \in Msgs, SteerCancel(m)
    PROVE  Promise!Withdraw(m)
<1>1. UNCHANGED <<steeredTo, nturn, done>> /\ fate' = [fate EXCEPT ![m] = "withdrawn"]
  BY DEF SteerCancel
<1>2. PICK t \in Active : m \in steering[t] BY DEF SteerCancel
<1>3. t \in Turns /\ t = nturn /\ Busy
  <2>1. t \in Turns BY BoundsAssumption DEF Active, Registered, Turns, TypeOK
  <2>2. t = nturn /\ Busy BY DEF MessagesInv, EndingsInv, Busy
  <2>3. QED BY <2>1, <2>2
<1>4. fate[m] = "pending" /\ steeredTo[m] = nturn BY <1>2, <1>3, Whereabouts DEF MessagesInv
<1>5. Promise!Become({m}, "withdrawn")
  <2>1. \A n \in Msgs : fate'[n] = IF n \in {m} THEN "withdrawn" ELSE fate[n]
    BY <1>1 DEF TypeOK
  <2>2. QED BY <2>1, BecomeFrom
<1>6. UNCHANGED <<steeredTo, nturn, Busy>> BY <1>1 DEF Busy, Active, Registered
<1>7. QED BY <1>3, <1>4, <1>5, <1>6 DEF Promise!Withdraw, Promise!Waiting

\* The last turn's done is set: no turn runs.
LEMMA TurnEnds ==
    ASSUME TypeOK, MessagesInv, NEW t \in Turns, SetDone(t)
    PROVE  Promise!EndTurn
<1>1. UNCHANGED <<fate, steeredTo, nturn>> /\ done' = done \cup {t} /\ pc[t] = "closed"
  BY DEF SetDone, msgVars
<1>2. t \in Active /\ Active \subseteq {nturn} BY <1>1 DEF MessagesInv, EndingsInv
<1>3. Busy /\ ~Busy' BY <1>1, <1>2 DEF Busy, Active, Registered
<1>4. QED BY <1>1, <1>3 DEF Promise!EndTurn

\* What the ended turn left unread goes back, unless the turn completed.
LEMMA SettleGivesBack ==
    ASSUME TypeOK, TypeOK', MessagesInv, NEW t \in Turns, Settle(t)
    PROVE  Promise!GiveBack
<1> DEFINE reports == {m \in leftover[t] : src[m] = "report"}
           S == IF term[t] = "completed" THEN reports ELSE leftover[t]
<1>1. UNCHANGED <<steeredTo, nturn, done>> /\ pc[t] = "settle" BY DEF Settle
<1>2. UNCHANGED <<steeredTo, nturn, Busy>> BY <1>1 DEF Busy, Active, Registered
<1>3. \A m \in Msgs : fate'[m] = CASE m \in reports -> "unreported"
                                   [] m \in leftover[t] \ reports /\ ~(term[t] = "completed") -> "returned"
                                   [] OTHER -> fate[m]
  BY DEF Settle
<1>4. leftover[t] \in SUBSET Msgs BY DEF TypeOK
<1>5. \A m \in leftover[t] : fate[m] = "pending" /\ steeredTo[m] = t
  BY <1>4, Whereabouts DEF MessagesInv
<1>6. t = nturn => ~Busy
  <2>1. t \in done /\ Active \subseteq {nturn} BY <1>1 DEF MessagesInv, EndingsInv
  <2>2. QED BY <2>1 DEF Busy, Active
<1>7. S \in SUBSET Promise!Waiting /\ reports \in SUBSET S BY <1>4, <1>5 DEF Promise!Waiting
<1>8. \A m \in S : steeredTo[m] # 0 /\ (steeredTo[m] = nturn => ~Busy)
  BY <1>5, <1>6 DEF Turns
<1>9. fate' = [m \in Msgs |-> IF m \in reports THEN "unreported"
                              ELSE IF m \in S THEN "returned" ELSE fate[m]]
  <2>1. fate' \in [Msgs -> Fates] BY DEF TypeOK
  <2>2. \A m \in Msgs : fate'[m] = IF m \in reports THEN "unreported"
                                   ELSE IF m \in S THEN "returned" ELSE fate[m]
    BY <1>3
  <2> HIDE DEF reports, S
  <2>3. QED BY <2>1, <2>2
<1> HIDE DEF reports, S
<1>10. QED BY <1>2, <1>7, <1>8, <1>9 DEF Promise!GiveBack

\* A call brings the next message, to wait or to be turned away; into the
\* running turn, when there is one that reads.
LEMMA CallReceives ==
    ASSUME TypeOK, TypeOK', MessagesInv, NEW m \in Msgs, Brings(m), UNCHANGED <<nturn, done>>,
           \/ Refuses(m) \/ Queues(m) \/ \E th \in Threads : TakesInHand(m, th)
           \/ SteersInto(m, nturn) /\ Busy
    PROVE  Promise!Receive(m) \/ Promise!ReceiveInto(m)
<1>1. UNCHANGED <<nturn, Busy>> BY DEF Busy, Active, Registered
<1>2. fate[m] = "unsent"
  <2>1. m > nmsg BY DEF Brings, TypeOK
  <2>2. QED BY <2>1, Whereabouts DEF MessagesInv
<1>3. Promise!Become({m}, fate'[m])
  <2>1. \A n \in Msgs : fate'[n] = IF n \in {m} THEN fate'[m] ELSE fate[n] BY DEF Brings
  <2>2. QED BY <2>1, BecomeFrom
<1>4. CASE \/ Refuses(m) \/ Queues(m) \/ \E th \in Threads : TakesInHand(m, th)
  <2>1. fate'[m] \in {"pending", "refused", "unreported"} /\ steeredTo' = steeredTo
    BY <1>4 DEF Refuses, Queues, TakesInHand
  <2>2. QED BY <1>1, <1>2, <1>3, <2>1 DEF Promise!Receive
<1>5. CASE SteersInto(m, nturn) /\ Busy
  <2>1. fate'[m] = "pending" BY <1>5 DEF SteersInto
  <2>2. steeredTo' = [steeredTo EXCEPT ![m] = nturn]
    <3>1. steeredTo' \in [Msgs -> 0..MaxTurns] /\ steeredTo \in [Msgs -> 0..MaxTurns] BY DEF TypeOK
    <3>2. steeredTo'[m] = nturn /\ \A n \in Msgs : n # m => steeredTo'[n] = steeredTo[n]
      BY <1>5 DEF SteersInto, Brings
    <3>3. QED BY <3>1, <3>2
  <2>3. QED BY <1>1, <1>2, <1>3, <1>5, <2>1, <2>2 DEF Promise!ReceiveInto
<1>6. QED BY <1>4, <1>5

\* Each step of the queue, the threads and the turns is a step of the promise, or
\* none that it sees.
LEMMA PromiseStep ==
    TypeOK /\ TypeOK' /\ MessagesInv /\ [Next]_vars => [Promise!SessionNext]_(Promise!sessionVars)
<1> SUFFICES ASSUME TypeOK, TypeOK', MessagesInv, [Next]_vars
             PROVE  Promise!SessionNext \/ UNCHANGED Promise!sessionVars
  OBVIOUS
<1> USE DEF Promise!SessionNext
<1>a. UNCHANGED <<fate, steeredTo, nturn, done>> => UNCHANGED Promise!sessionVars
  BY DEF Promise!sessionVars, Busy, Active, Registered
<1>1. CASE Quiet BY <1>1, <1>a DEF Quiet
<1>2. CASE \E th \in Threads : KickPop(th) /\ UNCHANGED <<nturn, done>>
  BY <1>2, <1>a DEF KickPop, msgVars
<1>3. CASE \E th \in Threads : HandEnds(th, "refused") /\ UNCHANGED <<nturn, done>>
  <2>1. PICK th \in Threads : HandEnds(th, "refused") /\ UNCHANGED <<nturn, done>> BY <1>3
  <2>2. hand[th] \in SUBSET Msgs /\ \A m \in hand[th] : fate[m] = "pending"
    <3>1. hand[th] \in SUBSET Msgs BY DEF TypeOK
    <3>2. QED BY <3>1, Whereabouts DEF MessagesInv
  <2>3. Promise!GiveBack BY <2>1, <2>2, GivesBack DEF HandEnds
  <2>4. QED BY <2>3
<1>4. CASE \E th \in Threads : StartRegister(th) /\ ~Busy BY <1>4, StartsTurn
<1>5. CASE \E th \in Threads : HandQueues(th) /\ UNCHANGED <<nturn, done>>
  BY <1>5, <1>a DEF HandQueues
<1>6. CASE \E t \in Turns : Drain(t) BY <1>6, LoopTakes
<1>7. CASE \E t \in Turns : CloseSteering(t) BY <1>7, <1>a DEF CloseSteering, msgVars
<1>8. CASE \E t \in Turns : SetDone(t) BY <1>8, TurnEnds
<1>9. CASE \E t \in Turns : Settle(t) BY <1>9, SettleGivesBack
<1>10. CASE \E m \in Msgs : SteerCancel(m) BY <1>10, OwnerWithdraws
<1>11. CASE QueueClear
  <2>1. \A m \in Msgs : fate'[m] = IF m \in Queued(queue) THEN "cleared" ELSE fate[m]
    BY <1>11 DEF QueueClear
  <2>2. Queued(queue) \in SUBSET Msgs
    <3>1. \A i \in DOMAIN queue : queue[i] \in SUBSET Msgs BY DEF TypeOK
    <3>2. QED BY <3>1 DEF Queued
  <2>3. \A m \in Queued(queue) : fate[m] = "pending" BY <2>2, Whereabouts DEF MessagesInv
  <2>4. UNCHANGED <<steeredTo, nturn, done>> BY <1>11 DEF QueueClear, turnVars
  <2>5. Promise!GiveBack BY <2>1, <2>2, <2>3, <2>4, GivesBack
  <2>6. QED BY <2>5
<1>12. CASE \E m \in Msgs : QueueDiscard(m)
  <2>1. PICK m \in Msgs : QueueDiscard(m) BY <1>12
  <2>2. \A n \in Msgs : fate'[n] = IF n \in {m} THEN "cleared" ELSE fate[n]
    BY <2>1 DEF QueueDiscard, TypeOK
  <2>3. m \in Queued(queue)
    <3>1. PICK i \in DOMAIN queue : queue[i] = {m} BY <2>1 DEF QueueDiscard
    <3>2. QED BY <3>1 DEF Queued
  <2>4. \A n \in {m} : fate[n] = "pending" BY <2>3, Whereabouts DEF MessagesInv
  <2>5. UNCHANGED <<steeredTo, nturn, done>> BY <2>1 DEF QueueDiscard, turnVars
  <2>6. {m} \in SUBSET Msgs OBVIOUS
  <2>7. Promise!GiveBack BY <2>2, <2>4, <2>5, <2>6, GivesBack
  <2>8. QED BY <2>7
<1>13. CASE \E m \in Msgs :
              /\ Brings(m) /\ UNCHANGED <<nturn, done>>
              /\ \/ Refuses(m) \/ Queues(m) \/ \E th \in Threads : TakesInHand(m, th)
                 \/ SteersInto(m, nturn) /\ nturn \in Turns /\ Busy
  BY <1>13, CallReceives
<1>14. QED BY <1>1, <1>2, <1>3, <1>4, <1>5, <1>6, <1>7, <1>8, <1>9, <1>10, <1>11, <1>12, <1>13,
              MessageSteps

\* The prompt queue, the threads and the lock of turns.py implement
\* SessionTurns: turns run one after the other, a turn takes only what was sent
\* into it while it ran, and a message that met its end is never touched again.
THEOREM KeepsThePromiseTheorem == Spec => KeepsThePromise
<1>1. Init => Promise!SessionInit
  BY DEF Init, Promise!SessionInit, Busy, Active, Registered
<1>2. QED BY <1>1, PromiseStep, MessagesAlways, TypeCorrect, PTL
          DEF Spec, KeepsThePromise, Promise!SessionSpec

=============================================================================
