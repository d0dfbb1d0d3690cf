--------------------------- MODULE TurnQueueProofs ---------------------------
(***************************************************************************)
(* What TurnQueue promises for any number of turns, messages and calls.    *)
(***************************************************************************)
EXTENDS TurnQueue, TLAPS

-----------------------------------------------------------------------------
(***************************************************************************)
(* Types, one lemma per group of actions.                                  *)
(***************************************************************************)

\* The threads: the request thread, the runner and the turns' workers.
LEMMA ThreadSet ==
    /\ Main \in Threads /\ Runner \in Threads /\ Turns \subseteq Threads
    /\ Main \notin Turns /\ Runner \notin Turns
    /\ \A s : From(s) \in {Main, Runner}
BY BoundsAssumption DEF Main, Runner, Threads, Turns, From

\* A refused start leaves its message somewhere typed.
LEMMA RefusedType ==
    ASSUME TypeOK, NEW th \in Threads, NEW code, StartRefused(th, code)
    PROVE  TypeOK'
<1> USE DEF TypeOK, turnVars
<1>1. pc' \in [Threads -> Labels] BY DEF StartRefused, Labels
<1>2. hold' \in BOOLEAN
  <2>1. hold' = (hold /\ ~(job[th] = "resume" /\ code = "SESSION_CLOSED")) BY DEF StartRefused
  <2>2. QED BY <2>1
<1>3. fate' \in [Msgs -> Fates] /\ hand' \in [Threads -> SUBSET Msgs]
  BY DEF StartRefused, Fates
<1>4. job' \in [Threads -> Jobs] BY DEF StartRefused, Jobs
<1>5. QED BY <1>1, <1>2, <1>3, <1>4 DEF StartRefused

\* Starting a turn, by any thread.
LEMMA StartingType ==
    ASSUME TypeOK, NEW th \in Threads, Starting(th)
    PROVE  TypeOK'
<1> USE DEF TypeOK, AfterKick
<1>1. CASE KickHold(th)
  <2>1. pc' \in [Threads -> Labels] BY <1>1 DEF KickHold, Labels
  <2>2. QED BY <1>1, <2>1 DEF KickHold, msgVars, turnVars
<1>2. CASE KickPop(th)
  <2>1. pc' \in [Threads -> Labels]
    <3>1. {"goal", "idle", "check"} \subseteq Labels BY DEF Labels
    <3>2. \E x \in {"goal", "idle", "check"} : pc' = [pc EXCEPT ![th] = x]
      BY <1>2 DEF KickPop
    <3>3. QED BY <3>1, <3>2
  <2>2. /\ queue' \in Seq(SUBSET Msgs) /\ hand' \in [Threads -> SUBSET Msgs]
        /\ job' \in [Threads -> Jobs]
    <3>1. CASE Busy \/ queue = << >> BY <1>2, <3>1 DEF KickPop
    <3>2. CASE ~(Busy \/ queue = << >>)
      <4>1. queue # << >> /\ queue' = Tail(queue) /\ hand' = [hand EXCEPT ![th] = Head(queue)]
            /\ job' = [job EXCEPT ![th] = "queued"]
        BY <1>2, <3>2 DEF KickPop
      <4>2. Head(queue) \in SUBSET Msgs /\ Tail(queue) \in Seq(SUBSET Msgs) BY <4>1
      <4>3. QED BY <4>1, <4>2 DEF Jobs
    <3>3. QED BY <3>1, <3>2
  <2>3. QED BY <1>2, <2>1, <2>2 DEF KickPop, msgVars, turnVars
<1>3. CASE StartCheck(th)
  <2>1. CASE closed BY <1>3, <2>1, RefusedType DEF StartCheck
  <2>2. CASE ~closed
    <3>1. pc' \in [Threads -> Labels] BY <1>3, <2>2 DEF StartCheck, Labels
    <3>2. QED BY <1>3, <2>2, <3>1 DEF StartCheck, msgVars, turnVars
  <2>3. QED BY <2>1, <2>2
<1>4. CASE StartRegister(th)
  <2>1. CASE Busy BY <1>4, <2>1, RefusedType DEF StartRegister
  <2>2. CASE ~Busy
    <3>1. nturn + 1 \in Turns /\ nturn + 1 \in 0..MaxTurns /\ nturn' = nturn + 1
      BY <1>4, <2>2, BoundsAssumption DEF StartRegister, Turns
    <3>2. nturn + 1 \in Threads BY <3>1, ThreadSet
    <3>3. pc' \in [Threads -> Labels]
      <4>1. {"goal", "idle", "inflight", "run"} \subseteq Labels BY DEF Labels
      <4>2. PICK x : /\ x \in {"goal", "idle", "inflight"}
                     /\ pc' = [pc EXCEPT ![nturn + 1] = "run", ![th] = x]
        <5>1. pc' = [pc EXCEPT ![nturn + 1] = "run",
                               ![th] = CASE job[th] = "queued" -> AfterKick(th)
                                         [] job[th] = "resume" -> "inflight"
                                         [] OTHER -> "idle"]
          BY <1>4, <2>2 DEF StartRegister
        <5>2. (CASE job[th] = "queued" -> AfterKick(th)
                 [] job[th] = "resume" -> "inflight"
                 [] OTHER -> "idle") \in {"goal", "idle", "inflight"}
          OBVIOUS
        <5>3. QED BY <5>1, <5>2
      <4>3. QED BY <3>2, <4>1, <4>2
    <3>4. /\ fate' \in [Msgs -> Fates] /\ hand' \in [Threads -> SUBSET Msgs]
          /\ job' \in [Threads -> Jobs]
      <4>1. /\ fate' = [m \in Msgs |-> IF m \in hand[th] THEN "started" ELSE fate[m]]
            /\ hand' = [hand EXCEPT ![th] = {}] /\ job' = [job EXCEPT ![th] = "direct"]
        BY <1>4, <2>2 DEF StartRegister
      <4>2. "started" \in Fates /\ "direct" \in Jobs BY DEF Fates, Jobs
      <4>3. QED BY <4>1, <4>2
    <3>5. open' \subseteq Turns /\ compact' \subseteq Turns
      BY <1>4, <2>2, <3>1 DEF StartRegister
    <3>6. QED BY <1>4, <2>2, <3>1, <3>3, <3>4, <3>5 DEF StartRegister
  <2>3. QED BY <2>1, <2>2
<1>5. CASE PutBack(th)
  <2>1. pc' \in [Threads -> Labels] /\ hand' \in [Threads -> SUBSET Msgs]
    BY <1>5 DEF PutBack, Labels
  <2>2. queue' \in Seq(SUBSET Msgs)
    <3>1. hand[th] \in SUBSET Msgs /\ queue' = <<hand[th]>> \o queue BY <1>5 DEF PutBack
    <3>2. <<hand[th]>> \in Seq(SUBSET Msgs) BY <3>1
    <3>3. QED BY <3>1, <3>2
  <2>3. QED BY <1>5, <2>1, <2>2 DEF PutBack, msgVars, turnVars
<1>6. QED BY <1>1, <1>2, <1>3, <1>4, <1>5 DEF Starting

\* A set of messages of one source makes at most one entry.
LEMMA EntryType ==
    ASSUME NEW S \in SUBSET Msgs
    PROVE  Entry(S) \in Seq(SUBSET Msgs)
<1>1. << >> \in Seq(SUBSET Msgs) /\ <<S>> \in Seq(SUBSET Msgs) OBVIOUS
<1>2. QED BY <1>1 DEF Entry

\* A turn's worker, from its agent loop to the goal it asks at the end.
LEMMA WorkerType ==
    ASSUME TypeOK, NEW t \in Turns, Worker(t)
    PROVE  TypeOK'
<1> USE DEF TypeOK
<1>0. t \in Threads BY ThreadSet
<1>1. CASE Drain(t)
  <2>1. fate' \in [Msgs -> Fates] BY <1>1 DEF Drain, Fates
  <2>2. steering' \in [Turns -> SUBSET Msgs] BY <1>1 DEF Drain
  <2>3. QED BY <1>1, <2>1, <2>2 DEF Drain, threadVars
<1>2. CASE Finish(t)
  <2>1. pc' \in [Threads -> Labels] BY <1>2 DEF Finish, Labels
  <2>2. PICK o \in Terminals :
          /\ term' = [term EXCEPT ![t] = o]
          /\ hold' \in IF "session.resume" \in Calls /\ o = "failed" THEN {hold, TRUE} ELSE {hold}
    BY <1>2 DEF Finish
  <2>3. term' \in [Turns -> Terminals \cup {"none"}] /\ hold' \in BOOLEAN BY <2>2
  <2>4. QED BY <1>2, <2>1, <2>3 DEF Finish, msgVars
<1>3. CASE CloseSteering(t)
  <2>1. pc' \in [Threads -> Labels] BY <1>3 DEF CloseSteering, Labels
  <2>2. steering' \in [Turns -> SUBSET Msgs] /\ leftover' \in [Turns -> SUBSET Msgs]
    BY <1>3 DEF CloseSteering
  <2>3. QED BY <1>3, <2>1, <2>2 DEF CloseSteering, msgVars
<1>4. CASE SetDone(t)
  <2>1. pc' \in [Threads -> Labels] BY <1>4 DEF SetDone, Labels
  <2>2. QED BY <1>4, <2>1 DEF SetDone, msgVars
<1>5. CASE Settle(t)
  <2> DEFINE reports == {m \in leftover[t] : src[m] = "report"}
             owners == {m \in leftover[t] : src[m] = "owner"}
             parents == {m \in leftover[t] : src[m] = "parent"}
  <2>1. pc' \in [Threads -> Labels] BY <1>5 DEF Settle, Labels
  <2>2. queue' \in Seq(SUBSET Msgs)
    <3>1. owners \in SUBSET Msgs /\ parents \in SUBSET Msgs OBVIOUS
    <3>2. Entry(owners) \in Seq(SUBSET Msgs) /\ Entry(parents) \in Seq(SUBSET Msgs)
      BY <3>1, EntryType
    <3>3. queue' = queue \/ queue' = Entry(owners) \o Entry(parents) \o queue
      BY <1>5 DEF Settle
    <3>4. Entry(owners) \o Entry(parents) \in Seq(SUBSET Msgs) BY <3>2
    <3>5. Entry(owners) \o Entry(parents) \o queue \in Seq(SUBSET Msgs) BY <3>4
    <3>6. QED BY <3>3, <3>5
  <2>3. fate' \in [Msgs -> Fates]
    <3>1. fate' = [m \in Msgs |->
                     CASE m \in reports -> "unreported"
                       [] m \in leftover[t] \ reports /\ ~(term[t] = "completed") -> "returned"
                       [] OTHER -> fate[m]]
      BY <1>5 DEF Settle
    <3>2. "unreported" \in Fates /\ "returned" \in Fates BY DEF Fates
    <3>3. QED BY <3>1, <3>2
  <2>4. leftover' \in [Turns -> SUBSET Msgs] BY <1>5 DEF Settle
  <2>5. QED BY <1>5, <2>1, <2>2, <2>3, <2>4 DEF Settle
<1>6. CASE GoalAfterTurn(t)
  <2>1. {"idle", "check"} \subseteq Labels /\ "goal" \in Jobs BY DEF Labels, Jobs
  <2>2. pc' \in [Threads -> Labels] /\ job' \in [Threads -> Jobs] /\ nauto' \in 0..MaxAuto
    <3>1. \/ pc' = [pc EXCEPT ![t] = "idle"] /\ UNCHANGED <<nauto, job>>
          \/ /\ nauto < MaxAuto /\ nauto' = nauto + 1
             /\ job' = [job EXCEPT ![t] = "goal"] /\ pc' = [pc EXCEPT ![t] = "check"]
      BY <1>6 DEF GoalAfterTurn
    <3>2. CASE pc' = [pc EXCEPT ![t] = "idle"] /\ UNCHANGED <<nauto, job>>
      BY <1>0, <2>1, <3>2
    <3>3. CASE /\ nauto < MaxAuto /\ nauto' = nauto + 1
               /\ job' = [job EXCEPT ![t] = "goal"] /\ pc' = [pc EXCEPT ![t] = "check"]
      BY <1>0, <2>1, <3>3, BoundsAssumption
    <3>4. QED BY <3>1, <3>2, <3>3
  <2>3. QED BY <1>6, <2>2 DEF GoalAfterTurn, msgVars
<1>7. QED BY <1>1, <1>2, <1>3, <1>4, <1>5, <1>6 DEF Worker

\* A message that arrives is the next one, and typed.
LEMMA ArrivesType ==
    ASSUME TypeOK, NEW th \in Threads, NEW m \in Msgs, NEW s \in Sources, Arrives(th, m, s)
    PROVE  nmsg' \in 0..MaxMsgs /\ src' \in [Msgs -> Sources]
BY BoundsAssumption DEF TypeOK, Arrives, Msgs

\* The calls that bring a message.
LEMMA MessageCallType ==
    ASSUME TypeOK, NEW m \in Msgs, NEW s \in Sources,
           TurnStart(m, s) \/ Steer(m, s) \/ QueueAdd(m) \/ ScheduleStartOrQueue(m)
    PROVE  TypeOK'
<1> USE DEF TypeOK
<1>0. From(s) \in Threads /\ Main \in Threads /\ Runner \in Threads BY ThreadSet
<1>a. /\ {"check", "add", "idle"} \subseteq Labels /\ {"direct", "schedule"} \subseteq Jobs
      /\ {"pending", "refused", "unreported"} \subseteq Fates
      /\ {"owner", "schedule"} \subseteq Sources
  BY DEF Labels, Jobs, Fates, Sources
<1>1. CASE TurnStart(m, s)
  <2>1. nmsg' \in 0..MaxMsgs /\ src' \in [Msgs -> Sources]
    BY <1>0, <1>1, ArrivesType DEF TurnStart
  <2>2. /\ pc' \in [Threads -> Labels] /\ job' \in [Threads -> Jobs]
        /\ fate' \in [Msgs -> Fates] /\ hand' \in [Threads -> SUBSET Msgs]
    BY <1>0, <1>1, <1>a DEF TurnStart
  <2>3. QED BY <1>1, <2>1, <2>2 DEF TurnStart, turnVars
<1>2. CASE Steer(m, s)
  <2>1. nmsg' \in 0..MaxMsgs /\ src' \in [Msgs -> Sources]
    BY <1>0, <1>2, ArrivesType DEF Steer
  <2>2. CASE Steerable # {}
    <3> DEFINE t == CHOOSE u \in Steerable : TRUE
    <3>1. t \in Turns BY <2>2, BoundsAssumption DEF Steerable, Active, Registered, Turns
    <3>2. \/ fate' = [fate EXCEPT ![m] = "refused"] /\ UNCHANGED <<steering, steeredTo>>
          \/ /\ steering' = [steering EXCEPT ![t] = @ \cup {m}]
             /\ fate' = [fate EXCEPT ![m] = "pending"]
             /\ steeredTo' = [steeredTo EXCEPT ![m] = t]
      BY <1>2, <2>2 DEF Steer
    <3> HIDE DEF t
    <3>3. /\ fate' \in [Msgs -> Fates] /\ steering' \in [Turns -> SUBSET Msgs]
          /\ steeredTo' \in [Msgs -> 0..MaxTurns]
      <4>1. CASE fate' = [fate EXCEPT ![m] = "refused"] /\ UNCHANGED <<steering, steeredTo>>
        BY <4>1, <1>a
      <4>2. CASE /\ steering' = [steering EXCEPT ![t] = @ \cup {m}]
                 /\ fate' = [fate EXCEPT ![m] = "pending"]
                 /\ steeredTo' = [steeredTo EXCEPT ![m] = t]
        <5>1. fate' \in [Msgs -> Fates] BY <4>2, <1>a
        <5>2. steering' \in [Turns -> SUBSET Msgs] BY <3>1, <4>2
        <5>3. t \in 0..MaxTurns BY <3>1 DEF Turns
        <5>4. steeredTo' \in [Msgs -> 0..MaxTurns] BY <5>3, <4>2
        <5>5. QED BY <5>1, <5>2, <5>4
      <4>3. QED BY <3>2, <4>1, <4>2
    <3>4. QED BY <1>2, <2>1, <2>2, <3>3 DEF Steer
  <2>3. CASE ~(Steerable # {})
    <3>1. \/ fate' = [fate EXCEPT ![m] = "unreported"] /\ UNCHANGED <<pc, hand>>
          \/ /\ fate' = [fate EXCEPT ![m] = "pending"]
             /\ hand' = [hand EXCEPT ![From(s)] = {m}]
             /\ pc' = [pc EXCEPT ![From(s)] = "add"]
      BY <1>2, <2>3 DEF Steer
    <3>2. {m} \in SUBSET Msgs OBVIOUS
    <3>3. /\ pc' \in [Threads -> Labels] /\ hand' \in [Threads -> SUBSET Msgs]
          /\ fate' \in [Msgs -> Fates]
      <4>1. CASE fate' = [fate EXCEPT ![m] = "unreported"] /\ UNCHANGED <<pc, hand>>
        BY <4>1, <1>a
      <4>2. CASE /\ fate' = [fate EXCEPT ![m] = "pending"]
                 /\ hand' = [hand EXCEPT ![From(s)] = {m}]
                 /\ pc' = [pc EXCEPT ![From(s)] = "add"]
        BY <4>2, <3>2, <1>0, <1>a
      <4>3. QED BY <3>1, <4>1, <4>2
    <3>4. QED BY <1>2, <2>1, <2>3, <3>3 DEF Steer
  <2>4. QED BY <2>2, <2>3
<1>3. CASE QueueAdd(m)
  <2>1. nmsg' \in 0..MaxMsgs /\ src' \in [Msgs -> Sources]
    BY <1>0, <1>3, <1>a, ArrivesType DEF QueueAdd
  <2>2. queue' \in Seq(SUBSET Msgs) /\ qadded' \subseteq Msgs /\ fate' \in [Msgs -> Fates]
    <3>1. \/ fate' = [fate EXCEPT ![m] = "refused"] /\ UNCHANGED <<queue, qadded>>
          \/ /\ queue' = Append(queue, {m})
             /\ qadded' = qadded \cup {m}
             /\ fate' = [fate EXCEPT ![m] = "pending"]
      BY <1>3 DEF QueueAdd
    <3>2. {m} \in SUBSET Msgs OBVIOUS
    <3>3. Append(queue, {m}) \in Seq(SUBSET Msgs) BY <3>2
    <3>4. QED BY <3>1, <3>3, <1>a
  <2>3. QED BY <1>3, <2>1, <2>2 DEF QueueAdd, turnVars, threadVars
<1>4. CASE ScheduleStartOrQueue(m)
  <2>1. nmsg' \in 0..MaxMsgs /\ src' \in [Msgs -> Sources]
    BY <1>0, <1>4, <1>a, ArrivesType DEF ScheduleStartOrQueue
  <2>2. /\ pc' \in [Threads -> Labels] /\ job' \in [Threads -> Jobs]
        /\ fate' \in [Msgs -> Fates] /\ hand' \in [Threads -> SUBSET Msgs]
    BY <1>0, <1>4, <1>a DEF ScheduleStartOrQueue
  <2>3. QED BY <1>4, <2>1, <2>2 DEF ScheduleStartOrQueue, turnVars
<1>5. QED BY <1>1, <1>2, <1>3, <1>4

\* The calls that bring no message.
LEMMA QuietCallType ==
    ASSUME TypeOK,
           \/ Compact \/ QueueClear \/ QueueResume \/ ResumeArm \/ ResumeCancel
           \/ SessionCloseCheck \/ SessionClose \/ SessionRestore
           \/ ResumeContinue \/ ResumeInflight \/ Wake
    PROVE  TypeOK'
<1> USE ThreadSet DEF TypeOK
<1>a. /\ {"check", "hold", "idle", "closing"} \subseteq Labels
      /\ {"compact", "resume", "wake"} \subseteq Jobs
  BY DEF Labels, Jobs
<1>1. CASE Compact
  <2>1. nauto' \in 0..MaxAuto BY <1>1, BoundsAssumption DEF Compact
  <2>2. pc' \in [Threads -> Labels] /\ job' \in [Threads -> Jobs] BY <1>1, <1>a DEF Compact
  <2>3. QED BY <1>1, <2>1, <2>2 DEF Compact, msgVars
<1>2. CASE QueueClear
  <2>1. fate' \in [Msgs -> Fates] BY <1>2 DEF QueueClear, Fates
  <2>2. queue' \in Seq(SUBSET Msgs) BY <1>2 DEF QueueClear
  <2>3. QED BY <1>2, <2>1, <2>2 DEF QueueClear, turnVars, threadVars
<1>3. CASE QueueResume
  <2>1. pc' \in [Threads -> Labels] BY <1>3, <1>a DEF QueueResume
  <2>2. QED BY <1>3, <2>1 DEF QueueResume, msgVars, turnVars
<1>4. CASE ResumeArm BY <1>4 DEF ResumeArm, msgVars, turnVars, threadVars
<1>5. CASE ResumeCancel
  <2>1. pc' \in [Threads -> Labels] BY <1>5, <1>a DEF ResumeCancel
  <2>2. QED BY <1>5, <2>1 DEF ResumeCancel, msgVars, turnVars
<1>6. CASE SessionCloseCheck
  <2>1. pc' \in [Threads -> Labels] BY <1>6, <1>a DEF SessionCloseCheck
  <2>2. QED BY <1>6, <2>1 DEF SessionCloseCheck, msgVars, turnVars
<1>7. CASE SessionClose
  <2>1. pc' \in [Threads -> Labels] BY <1>7, <1>a DEF SessionClose
  <2>2. QED BY <1>7, <2>1 DEF SessionClose, msgVars, turnVars
<1>8. CASE SessionRestore BY <1>8 DEF SessionRestore, msgVars, turnVars, threadVars
<1>9. CASE ResumeContinue
  <2>1. nauto' \in 0..MaxAuto BY <1>9, BoundsAssumption DEF ResumeContinue
  <2>2. pc' \in [Threads -> Labels] /\ job' \in [Threads -> Jobs]
    BY <1>9, <1>a DEF ResumeContinue
  <2>3. QED BY <1>9, <2>1, <2>2 DEF ResumeContinue, msgVars
<1>10. CASE ResumeInflight
  <2>1. pc' \in [Threads -> Labels] BY <1>10, <1>a DEF ResumeInflight
  <2>2. QED BY <1>10, <2>1 DEF ResumeInflight, msgVars, turnVars
<1>11. CASE Wake
  <2>1. nauto' \in 0..MaxAuto BY <1>11, BoundsAssumption DEF Wake
  <2>2. pc' \in [Threads -> Labels] /\ job' \in [Threads -> Jobs] BY <1>11, <1>a DEF Wake
  <2>3. QED BY <1>11, <2>1, <2>2 DEF Wake, msgVars
<1>12. QED BY <1>1, <1>2, <1>3, <1>4, <1>5, <1>6, <1>7, <1>8, <1>9, <1>10, <1>11

\* The calls that withdraw a message.
LEMMA MoveType ==
    ASSUME TypeOK, NEW m \in Msgs, SteerCancel(m) \/ QueueDiscard(m)
    PROVE  TypeOK'
<1> USE DEF TypeOK
<1>a. {"withdrawn", "cleared"} \subseteq Fates BY DEF Fates
<1>1. CASE SteerCancel(m)
  <2>1. PICK t \in Active : steering' = [steering EXCEPT ![t] = @ \ {m}]
    BY <1>1 DEF SteerCancel
  <2>2. t \in Turns BY BoundsAssumption DEF Active, Registered, Turns
  <2>3. steering' \in [Turns -> SUBSET Msgs] BY <2>1, <2>2
  <2>4. fate' \in [Msgs -> Fates] BY <1>1, <1>a DEF SteerCancel
  <2>5. QED BY <1>1, <2>3, <2>4 DEF SteerCancel, threadVars
<1>2. CASE QueueDiscard(m)
  <2>1. PICK i \in DOMAIN queue :
          queue' = SubSeq(queue, 1, i - 1) \o SubSeq(queue, i + 1, Len(queue))
    BY <1>2 DEF QueueDiscard
  <2>2. i \in 1..Len(queue) /\ Len(queue) \in Nat OBVIOUS
  <2>3. SubSeq(queue, 1, i - 1) \in Seq(SUBSET Msgs)
    BY <2>2
  <2>4. SubSeq(queue, i + 1, Len(queue)) \in Seq(SUBSET Msgs)
    BY <2>2
  <2>5. queue' \in Seq(SUBSET Msgs) BY SMTT(30), <2>1, <2>3, <2>4
  <2>6. fate' \in [Msgs -> Fates] BY <1>2, <1>a DEF QueueDiscard
  <2>7. QED BY <1>2, <2>5, <2>6 DEF QueueDiscard, turnVars, threadVars
<1>3. QED BY <1>1, <1>2

\* queue_add on behalf of a steered message or a scheduled task.
LEMMA MoveAddType ==
    ASSUME TypeOK, NEW th \in Threads, QueueAddThenKick(th)
    PROVE  TypeOK'
<1> USE DEF TypeOK
<1>a. {"idle", "hold"} \subseteq Labels /\ "refused" \in Fates
  BY DEF Labels, Fates
<1>1. hand' \in [Threads -> SUBSET Msgs] BY DEF QueueAddThenKick
<1>2. CASE Len(queue) >= MaxQueueDepth
  <2>1. /\ fate' = [n \in Msgs |-> IF n \in hand[th] THEN "refused" ELSE fate[n]]
        /\ pc' = [pc EXCEPT ![th] = "idle"] /\ UNCHANGED <<queue, qadded>>
    BY <1>2 DEF QueueAddThenKick
  <2>2. fate' \in [Msgs -> Fates] /\ pc' \in [Threads -> Labels] BY <2>1, <1>a
  <2>3. QED BY <1>1, <2>1, <2>2 DEF QueueAddThenKick, turnVars
<1>3. CASE ~(Len(queue) >= MaxQueueDepth)
  <2>1. /\ queue' = Append(queue, hand[th]) /\ qadded' = qadded \cup hand[th]
        /\ pc' = [pc EXCEPT ![th] = "hold"] /\ UNCHANGED fate
    BY <1>3 DEF QueueAddThenKick
  <2>2. hand[th] \in SUBSET Msgs OBVIOUS
  <2>3. queue' \in Seq(SUBSET Msgs) /\ qadded' \subseteq Msgs BY <2>1, <2>2
  <2>4. pc' \in [Threads -> Labels] BY <2>1, <1>a
  <2>5. QED BY <1>1, <2>1, <2>3, <2>4 DEF QueueAddThenKick, turnVars
<1>4. QED BY <1>2, <1>3

\* Every step keeps the types.
LEMMA TypeStep == TypeOK /\ [Next]_vars => TypeOK'
<1> SUFFICES ASSUME TypeOK, [Next]_vars PROVE TypeOK'
  OBVIOUS
<1>1. CASE MainCall
  <2>1. "owner" \in Sources /\ Main \in Threads BY ThreadSet DEF Sources
  <2>2. QED BY <1>1, <2>1, MessageCallType, QuietCallType, MoveType DEF MainCall
<1>2. CASE RunnerStep
  <2>1. "parent" \in Sources /\ "report" \in Sources /\ "schedule" \in Sources BY DEF Sources
  <2>2. QED BY <1>2, <2>1, MessageCallType, QuietCallType DEF RunnerStep
<1>3. CASE \E th \in Threads : Starting(th)
  BY <1>3, StartingType
<1>4. CASE \E th \in Threads : QueueAddThenKick(th)
  BY <1>4, MoveAddType
<1>5. CASE \E t \in Turns : Worker(t)
  BY <1>5, WorkerType
<1>6. CASE UNCHANGED vars BY <1>6 DEF vars, TypeOK
<1>7. QED BY <1>1, <1>2, <1>3, <1>4, <1>5, <1>6 DEF Next

\* Whatever the bounds and the calls, every variable keeps its type: the
\* manager's queue, turns and threads (turns.py) never leave their shapes.
THEOREM TypeCorrect == Spec => []TypeOK
<1>1. Init => TypeOK
  <2> SUFFICES ASSUME Init PROVE TypeOK
    OBVIOUS
  <2> USE DEF Init, TypeOK
  <2>1. /\ nturn \in 0..MaxTurns /\ nmsg \in 0..MaxMsgs /\ nauto \in 0..MaxAuto
    BY BoundsAssumption
  <2>2. src \in [Msgs -> Sources] /\ fate \in [Msgs -> Fates] BY DEF Sources, Fates
  <2>3. queue \in Seq(SUBSET Msgs) OBVIOUS
  <2>4. steering \in [Turns -> SUBSET Msgs] /\ leftover \in [Turns -> SUBSET Msgs] OBVIOUS
  <2>5. term \in [Turns -> Terminals \cup {"none"}] OBVIOUS
  <2>6. steeredTo \in [Msgs -> 0..MaxTurns] BY BoundsAssumption
  <2>7. pc \in [Threads -> Labels] BY DEF Labels
  <2>8. job \in [Threads -> Jobs] /\ hand \in [Threads -> SUBSET Msgs] BY DEF Jobs
  <2>9. QED BY <2>1, <2>2, <2>3, <2>4, <2>5, <2>6, <2>7, <2>8
<1>2. QED BY <1>1, TypeStep, PTL DEF Spec

-----------------------------------------------------------------------------
(***************************************************************************)
(* One running turn, and a reader for every unread message.                *)
(***************************************************************************)

\* start_turn registers a turn, with nothing running.
Registers(th) ==
    /\ ~Busy /\ nturn' = nturn + 1 /\ done' = done /\ steering' = steering
    /\ pc[th] = "register"
    /\ open' = open \cup {nturn + 1} /\ compact' \subseteq compact \cup {nturn + 1}
    /\ \E x \in Labels \ {"closed"} : pc' = [pc EXCEPT ![nturn + 1] = "run", ![th] = x]

\* At most one thread goes on, and not to where a worker has closed its turn.
MovesOn ==
    \/ pc' = pc
    \/ \E th \in Threads, x \in Labels \ {"closed"} :
          pc[th] # "none" /\ pc' = [pc EXCEPT ![th] = x]

\* A step of any thread that leaves the turns alone.
Elsewhere == UNCHANGED <<nturn, open, done, compact, steering>> /\ MovesOn

\* A refused start leaves the turns alone.
LEMMA RefusedElsewhere ==
    ASSUME TypeOK, NEW th \in Threads, NEW code, pc[th] # "none", StartRefused(th, code)
    PROVE  Elsewhere
<1>1. {"putback", "add", "idle"} \subseteq Labels \ {"closed"} BY DEF Labels
<1>2. \E x \in {"putback", "add", "idle"} : pc' = [pc EXCEPT ![th] = x]
  BY DEF StartRefused
<1>3. QED BY <1>1, <1>2 DEF StartRefused, Elsewhere, MovesOn, turnVars

\* What a thread that starts a turn does to the turns.
LEMMA StartingSteps ==
    ASSUME TypeOK, NEW th \in Threads, Starting(th)
    PROVE  Elsewhere \/ Registers(th)
<1>a. {"goal", "idle", "check", "pop", "register", "inflight", "run"} \subseteq Labels \ {"closed"}
  BY DEF Labels
<1>b. AfterKick(th) \in {"goal", "idle"} BY DEF AfterKick
<1> USE DEF Elsewhere, MovesOn, turnVars
<1>1. CASE KickHold(th)
  <2>1. \E x \in {"goal", "idle", "pop"} : pc' = [pc EXCEPT ![th] = x]
    BY <1>1, <1>b DEF KickHold
  <2>2. QED BY <1>1, <1>a, <2>1 DEF KickHold
<1>2. CASE KickPop(th)
  <2>1. \E x \in {"goal", "idle", "check"} : pc' = [pc EXCEPT ![th] = x]
    BY <1>2, <1>b DEF KickPop
  <2>2. QED BY <1>2, <1>a, <2>1 DEF KickPop
<1>3. CASE StartCheck(th)
  <2>1. CASE closed BY <1>3, <2>1, RefusedElsewhere DEF StartCheck
  <2>2. CASE ~closed
    <3>1. pc[th] # "none" /\ pc' = [pc EXCEPT ![th] = "register"]
      BY <1>3, <2>2 DEF StartCheck
    <3>2. QED BY <1>3, <1>a, <2>2, <3>1 DEF StartCheck
  <2>3. QED BY <2>1, <2>2
<1>4. CASE StartRegister(th)
  <2>1. CASE Busy BY <1>4, <2>1, RefusedElsewhere DEF StartRegister
  <2>2. CASE ~Busy
    <3>1. \E x \in {"goal", "idle", "inflight"} :
            pc' = [pc EXCEPT ![nturn + 1] = "run", ![th] = x]
      <4>1. pc' = [pc EXCEPT ![nturn + 1] = "run",
                             ![th] = CASE job[th] = "queued" -> AfterKick(th)
                                       [] job[th] = "resume" -> "inflight"
                                       [] OTHER -> "idle"]
        BY <1>4, <2>2 DEF StartRegister
      <4>2. (CASE job[th] = "queued" -> AfterKick(th)
               [] job[th] = "resume" -> "inflight"
               [] OTHER -> "idle") \in {"goal", "idle", "inflight"}
        BY <1>b
      <4>3. QED BY <4>1, <4>2
    <3>2. /\ nturn' = nturn + 1 /\ open' = open \cup {nturn + 1}
          /\ done' = done /\ steering' = steering /\ pc[th] = "register"
          /\ compact' \subseteq compact \cup {nturn + 1}
      BY <1>4, <2>2 DEF StartRegister
    <3>3. QED BY <2>2, <1>a, <3>1, <3>2 DEF Registers
  <2>3. QED BY <2>1, <2>2
<1>5. CASE PutBack(th)
  <2>1. \E x \in {"goal", "idle"} : pc' = [pc EXCEPT ![th] = x]
    BY <1>5, <1>b DEF PutBack
  <2>2. QED BY <1>5, <1>a, <2>1 DEF PutBack
<1>6. QED BY <1>1, <1>2, <1>3, <1>4, <1>5 DEF Starting

\* The calls that bring a message but do not steer it.
LEMMA CallsElsewhere ==
    ASSUME TypeOK, NEW m \in Msgs, NEW s \in Sources,
           \/ TurnStart(m, s) \/ QueueAdd(m) \/ QueueDiscard(m) \/ ScheduleStartOrQueue(m)
    PROVE  Elsewhere
<1> USE ThreadSet DEF Elsewhere, turnVars
<1>a. {"check", "add"} \subseteq Labels \ {"closed"} BY DEF Labels
<1>b. \A th \in Threads, x \in {"check", "add"} :
        pc[th] # "none" /\ pc' = [pc EXCEPT ![th] = x] => MovesOn
  BY <1>a DEF MovesOn
<1>1. CASE TurnStart(m, s)
  <2>1. From(s) \in Threads /\ pc[From(s)] # "none" /\ pc' = [pc EXCEPT ![From(s)] = "check"]
    BY <1>1 DEF TurnStart, Arrives
  <2>2. QED BY <1>1, <1>b, <2>1 DEF TurnStart
<1>2. CASE QueueAdd(m) BY <1>2 DEF QueueAdd, threadVars, MovesOn
<1>3. CASE QueueDiscard(m) BY <1>3 DEF QueueDiscard, threadVars, MovesOn
<1>4. CASE ScheduleStartOrQueue(m)
  <2>1. pc[Runner] # "none" /\ \E x \in {"add", "check"} : pc' = [pc EXCEPT ![Runner] = x]
    BY <1>4 DEF ScheduleStartOrQueue, Arrives
  <2>2. QED BY <1>4, <1>b, <2>1 DEF ScheduleStartOrQueue
<1>5. QED BY <1>1, <1>2, <1>3, <1>4

\* The calls that bring no message.
LEMMA QuietElsewhere ==
    ASSUME TypeOK,
           \/ Compact \/ QueueClear \/ QueueResume \/ ResumeArm \/ ResumeCancel
           \/ SessionCloseCheck \/ SessionClose \/ SessionRestore
           \/ ResumeContinue \/ ResumeInflight \/ Wake
    PROVE  Elsewhere
<1> USE ThreadSet DEF Elsewhere, turnVars
<1>a. {"check", "hold", "closing", "idle"} \subseteq Labels \ {"closed"} BY DEF Labels
<1>b. \A th \in Threads, x \in {"check", "hold", "closing", "idle"} :
        pc[th] # "none" /\ pc' = [pc EXCEPT ![th] = x] => MovesOn
  BY <1>a DEF MovesOn
<1>5. CASE Compact
  <2>1. pc[Main] # "none" /\ pc' = [pc EXCEPT ![Main] = "check"] BY <1>5 DEF Compact
  <2>2. QED BY <1>5, <1>b, <2>1 DEF Compact
<1>6. CASE QueueClear BY <1>6 DEF QueueClear, threadVars, MovesOn
<1>7. CASE QueueResume
  <2>1. pc[Main] # "none" /\ pc' = [pc EXCEPT ![Main] = "hold"] BY <1>7 DEF QueueResume
  <2>2. QED BY <1>7, <1>b, <2>1 DEF QueueResume
<1>8. CASE ResumeArm BY <1>8 DEF ResumeArm, threadVars, MovesOn
<1>9. CASE ResumeCancel
  <2>1. pc[Main] # "none" /\ pc' = [pc EXCEPT ![Main] = "hold"] BY <1>9 DEF ResumeCancel
  <2>2. QED BY <1>9, <1>b, <2>1 DEF ResumeCancel
<1>10. CASE SessionCloseCheck
  <2>1. pc[Main] # "none" /\ pc' = [pc EXCEPT ![Main] = "closing"] BY <1>10 DEF SessionCloseCheck
  <2>2. QED BY <1>10, <1>b, <2>1 DEF SessionCloseCheck
<1>11. CASE SessionClose
  <2>1. pc[Main] # "none" /\ pc' = [pc EXCEPT ![Main] = "idle"] BY <1>11 DEF SessionClose
  <2>2. QED BY <1>11, <1>b, <2>1 DEF SessionClose
<1>12. CASE SessionRestore BY <1>12 DEF SessionRestore, threadVars, MovesOn
<1>13. CASE ResumeContinue
  <2>1. pc[Runner] # "none" /\ pc' = [pc EXCEPT ![Runner] = "check"] BY <1>13 DEF ResumeContinue
  <2>2. QED BY <1>13, <1>b, <2>1 DEF ResumeContinue
<1>14. CASE ResumeInflight
  <2>1. pc[Runner] # "none" /\ pc' = [pc EXCEPT ![Runner] = "idle"] BY <1>14 DEF ResumeInflight
  <2>2. QED BY <1>14, <1>b, <2>1 DEF ResumeInflight
<1>15. CASE Wake
  <2>1. pc[Runner] # "none" /\ pc' = [pc EXCEPT ![Runner] = "check"] BY <1>15 DEF Wake
  <2>2. QED BY <1>15, <1>b, <2>1 DEF Wake
<1>16. QED BY <1>5, <1>6, <1>7, <1>8, <1>9, <1>10, <1>11, <1>12, <1>13, <1>14, <1>15

\* A message steered, withdrawn or taken: only an open running turn gains one.
Steers ==
    /\ UNCHANGED <<nturn, open, done, compact>> /\ MovesOn
    /\ \A t \in Turns : steering'[t] # {} => steering[t] # {} \/ t \in Steerable

\* Each step that moves steered messages is of that form.
LEMMA SteeringSteps ==
    ASSUME TypeOK, NEW m \in Msgs, NEW s \in Sources, NEW u \in Turns,
           Steer(m, s) \/ SteerCancel(m) \/ Drain(u)
    PROVE  Steers
<1> USE ThreadSet DEF TypeOK, Steers
<1>1. CASE Steer(m, s)
  <2>1. CASE Steerable # {}
    <3> DEFINE v == CHOOSE w \in Steerable : TRUE
    <3>1. v \in Steerable BY <2>1
    <3>2. steering' = steering \/ steering' = [steering EXCEPT ![v] = @ \cup {m}]
      BY <1>1, <2>1 DEF Steer
    <3>3. UNCHANGED <<nturn, open, done, compact, pc>> BY <1>1, <2>1 DEF Steer
    <3> HIDE DEF v
    <3>4. \A t \in Turns : steering'[t] # {} => steering[t] # {} \/ t \in Steerable
      BY <3>1, <3>2
    <3>5. QED BY <3>3, <3>4 DEF MovesOn
  <2>2. CASE ~(Steerable # {})
    <3>1. pc' = pc \/ pc' = [pc EXCEPT ![From(s)] = "add"] BY <1>1, <2>2 DEF Steer
    <3>2. pc[From(s)] # "none" /\ From(s) \in Threads BY <1>1 DEF Steer, Arrives
    <3>3. MovesOn BY <3>1, <3>2 DEF MovesOn, Labels
    <3>4. UNCHANGED <<nturn, open, done, compact, steering>> BY <1>1, <2>2 DEF Steer
    <3>5. QED BY <3>3, <3>4
  <2>3. QED BY <2>1, <2>2
<1>2. CASE SteerCancel(m)
  <2>1. PICK t \in Active : steering' = [steering EXCEPT ![t] = @ \ {m}]
    BY <1>2 DEF SteerCancel
  <2>2. t \in Turns BY BoundsAssumption DEF Active, Registered, Turns
  <2>3. \A w \in Turns : steering'[w] # {} => steering[w] # {} BY <2>1, <2>2
  <2>4. QED BY <1>2, <2>3 DEF SteerCancel, threadVars, MovesOn
<1>3. CASE Drain(u)
  <2>1. steering' = [steering EXCEPT ![u] = {}] BY <1>3 DEF Drain
  <2>2. QED BY <1>3, <2>1 DEF Drain, threadVars, MovesOn
<1>4. QED BY <1>1, <1>2, <1>3

\* A worker's other steps: it closes its turn's steering, sets done, or leaves
\* the turns alone.
LEMMA WorkerSteps ==
    ASSUME TypeOK, NEW t \in Turns, Worker(t)
    PROVE  Elsewhere \/ Steers \/ CloseSteering(t) \/ SetDone(t)
<1> USE DEF Elsewhere
<1>0. t \in Threads BY ThreadSet
<1>a. {"ending", "hold", "idle", "check"} \subseteq Labels \ {"closed"} BY DEF Labels
<1>b. \A x \in {"ending", "hold", "idle", "check"} :
        pc[t] # "none" /\ pc' = [pc EXCEPT ![t] = x] => MovesOn
  BY <1>0, <1>a DEF MovesOn
<1>1. CASE Drain(t)
  <2>1. MovesOn /\ UNCHANGED <<nturn, open, done, compact>>
    BY <1>1 DEF Drain, threadVars, MovesOn
  <2>2. \A u \in Turns : steering'[u] # {} => steering[u] # {} BY <1>1 DEF Drain, TypeOK
  <2>3. QED BY <2>1, <2>2 DEF Steers
<1>2. CASE Finish(t)
  <2>1. pc[t] # "none" /\ pc' = [pc EXCEPT ![t] = "ending"] BY <1>2 DEF Finish
  <2>2. QED BY <1>2, <1>b, <2>1 DEF Finish
<1>3. CASE Settle(t)
  <2>1. pc[t] # "none" /\ pc' = [pc EXCEPT ![t] = "hold"] BY <1>3 DEF Settle
  <2>2. QED BY <1>3, <1>b, <2>1 DEF Settle
<1>4. CASE GoalAfterTurn(t)
  <2>1. pc[t] # "none" /\ \E x \in {"idle", "check"} : pc' = [pc EXCEPT ![t] = x]
    BY <1>4 DEF GoalAfterTurn
  <2>2. QED BY <1>4, <1>b, <2>1 DEF GoalAfterTurn
<1>5. QED BY <1>1, <1>2, <1>3, <1>4 DEF Worker

\* Every step is one of five kinds, as far as the turns are concerned.
LEMMA TurnSteps ==
    ASSUME TypeOK, [Next]_vars
    PROVE  \/ Elsewhere \/ Steers
           \/ \E th \in Threads : Registers(th)
           \/ \E t \in Turns : CloseSteering(t) \/ SetDone(t)
<1>1. CASE MainCall
  <2>1. "owner" \in Sources BY DEF Sources
  <2>2. CASE \E m \in Msgs : Steer(m, "owner") \/ SteerCancel(m)
    BY <2>1, <2>2, SteeringSteps, BoundsAssumption DEF Turns
  <2>3. CASE \E m \in Msgs : TurnStart(m, "owner") \/ QueueAdd(m) \/ QueueDiscard(m)
    BY <2>1, <2>3, CallsElsewhere
  <2>4. CASE \/ Compact \/ QueueClear \/ QueueResume \/ ResumeArm \/ ResumeCancel
             \/ SessionCloseCheck \/ SessionClose \/ SessionRestore
    BY <2>4, QuietElsewhere
  <2>5. QED BY <1>1, <2>2, <2>3, <2>4 DEF MainCall
<1>2. CASE RunnerStep
  <2>1. "parent" \in Sources /\ "report" \in Sources BY DEF Sources
  <2>2. CASE \E m \in Msgs : Steer(m, "parent") \/ Steer(m, "report")
    BY <2>1, <2>2, SteeringSteps, BoundsAssumption DEF Turns
  <2>3. CASE \E m \in Msgs : TurnStart(m, "parent") \/ ScheduleStartOrQueue(m)
    BY <2>1, <2>3, CallsElsewhere
  <2>4. CASE ResumeContinue \/ ResumeInflight \/ Wake
    BY <2>4, QuietElsewhere
  <2>5. QED BY <1>2, <2>2, <2>3, <2>4 DEF RunnerStep
<1>3. CASE \E th \in Threads : Starting(th)
  BY <1>3, StartingSteps
<1>4. CASE \E th \in Threads : QueueAddThenKick(th)
  <2>1. PICK th \in Threads : QueueAddThenKick(th) BY <1>4
  <2>2. {"idle", "hold"} \subseteq Labels \ {"closed"} BY DEF Labels
  <2>3. pc[th] # "none" /\ \E x \in {"idle", "hold"} : pc' = [pc EXCEPT ![th] = x]
    BY <2>1 DEF QueueAddThenKick
  <2>4. QED BY <2>1, <2>2, <2>3 DEF QueueAddThenKick, Elsewhere, MovesOn, turnVars
<1>5. CASE \E t \in Turns : Worker(t)
  BY <1>5, WorkerSteps
<1>6. CASE UNCHANGED vars BY <1>6 DEF vars, Elsewhere, MovesOn
<1>7. QED BY <1>1, <1>2, <1>3, <1>4, <1>5, <1>6 DEF Next

\* However the request thread, the runners and the ending workers interleave,
\* start_turn never leaves the session with two turns whose done is not set.
THEOREM OneActiveTurnTheorem == Spec => []OneActiveTurn
<1>1. Init => OneActiveTurn
  BY DEF Init, OneActiveTurn, Active, Registered
<1>2. TypeOK /\ OneActiveTurn /\ [Next]_vars => OneActiveTurn'
  <2> SUFFICES ASSUME TypeOK, OneActiveTurn, [Next]_vars PROVE OneActiveTurn'
    OBVIOUS
  <2> USE DEF OneActiveTurn, Active, Registered
  <2>1. CASE Elsewhere BY <2>1 DEF Elsewhere
  <2>2. CASE Steers BY <2>2 DEF Steers
  <2>3. CASE \E th \in Threads : Registers(th)
    <3>1. Active = {} /\ nturn' = nturn + 1 /\ done' = done BY <2>3 DEF Registers, Busy
    <3>2. nturn \in Nat BY DEF TypeOK
    <3>3. Active' \subseteq {nturn + 1} BY <3>1, <3>2
    <3>4. QED BY <3>3
  <2>4. CASE \E t \in Turns : CloseSteering(t) BY <2>4 DEF CloseSteering
  <2>5. CASE \E t \in Turns : SetDone(t)
    <3>1. nturn' = nturn /\ done \subseteq done' BY <2>5 DEF SetDone
    <3>2. QED BY <3>1
  <2>6. QED BY <2>1, <2>2, <2>3, <2>4, <2>5, TurnSteps
<1>3. QED BY <1>1, <1>2, TypeCorrect, PTL DEF Spec

\* The strengthening of UnreadMessagesHaveAReader: a worker runs only for a
\* registered turn, and one that has closed its steering is not open.
ReadersInv ==
    /\ \A t \in Turns : t > nturn => pc[t] = "none"
    /\ \A t \in Turns : pc[t] = "closed" => t \notin open
    /\ UnreadMessagesHaveAReader

\* One step of any thread keeps the strengthening.
LEMMA ReadersStep == TypeOK /\ ReadersInv /\ [Next]_vars => ReadersInv'
<1> SUFFICES ASSUME TypeOK, ReadersInv, [Next]_vars PROVE ReadersInv'
  OBVIOUS
<1> USE BoundsAssumption DEF ReadersInv
<1>a. nturn \in Nat /\ pc \in [Threads -> Labels] /\ Turns \subseteq Threads /\ Turns \subseteq Nat
  BY ThreadSet DEF TypeOK, Turns
<1>b. UnreadMessagesHaveAReader
      <=> \A t \in Turns : steering[t] # {} => t \in 1..nturn /\ t \notin done /\ t \in open
                                               /\ t \notin compact
  BY DEF UnreadMessagesHaveAReader, Steerable, Active, Registered
<1>c. UnreadMessagesHaveAReader'
      <=> \A t \in Turns : steering'[t] # {} => t \in 1..nturn' /\ t \notin done' /\ t \in open'
                                                /\ t \notin compact'
  BY DEF UnreadMessagesHaveAReader, Steerable, Active, Registered
<1>d. MovesOn /\ nturn' = nturn /\ open' = open
      => /\ \A t \in Turns : t > nturn' => pc'[t] = "none"
         /\ \A t \in Turns : pc'[t] = "closed" => t \notin open'
  <2> SUFFICES ASSUME MovesOn, nturn' = nturn, open' = open
               PROVE  /\ \A t \in Turns : t > nturn => pc'[t] = "none"
                      /\ \A t \in Turns : pc'[t] = "closed" => t \notin open
    OBVIOUS
  <2>1. CASE pc' = pc BY <2>1
  <2>2. CASE \E th \in Threads, x \in Labels \ {"closed"} :
               pc[th] # "none" /\ pc' = [pc EXCEPT ![th] = x]
    <3>1. PICK th \in Threads, x \in Labels \ {"closed"} :
            pc[th] # "none" /\ pc' = [pc EXCEPT ![th] = x]
      BY <2>2
    <3>2. \A t \in Turns : t > nturn => t # th BY <3>1
    <3>3. \A t \in Turns : t # th => pc'[t] = pc[t] BY <3>1, <1>a
    <3>4. x # "closed" /\ pc'[th] = x BY <3>1, <1>a
    <3>5. QED BY <3>2, <3>3, <3>4
  <2>3. QED BY <2>1, <2>2 DEF MovesOn
<1>1. CASE Elsewhere
  <2>1. UnreadMessagesHaveAReader' BY <1>1, <1>b, <1>c DEF Elsewhere
  <2>2. QED BY <1>1, <1>d, <2>1 DEF Elsewhere
<1>2. CASE Steers
  <2>1. \A t \in Steerable : t \in 1..nturn /\ t \notin done /\ t \in open /\ t \notin compact
    BY DEF Steerable, Active, Registered
  <2>2. UnreadMessagesHaveAReader' BY <1>2, <1>b, <1>c, <2>1 DEF Steers
  <2>3. QED BY <1>2, <1>d, <2>2 DEF Steers
<1>3. CASE \E th \in Threads : Registers(th)
  <2>1. PICK th \in Threads : Registers(th) BY <1>3
  <2>2. PICK x \in Labels \ {"closed"} : pc' = [pc EXCEPT ![nturn + 1] = "run", ![th] = x]
    BY <2>1 DEF Registers
  <2>3. pc[th] = "register" /\ nturn' = nturn + 1 /\ open' = open \cup {nturn + 1}
    BY <2>1 DEF Registers
  <2>4. \A t \in Turns : t > nturn => t # th BY <2>3
  <2>5. \A t \in Turns : t # th /\ t # nturn + 1 => pc'[t] = pc[t] BY <2>2, <1>a
  <2>6. \A t \in Turns : t > nturn' => pc'[t] = "none" BY <2>3, <2>4, <2>5, <1>a
  <2>7. \A t \in Turns : pc'[t] = "closed" => t \notin open'
    <3> SUFFICES ASSUME NEW t \in Turns, pc'[t] = "closed" PROVE t \notin open'
      OBVIOUS
    <3>1. t # th
      <4>1. pc'[th] = x BY <2>2, <1>a
      <4>2. QED BY <4>1
    <3>2. t # nturn + 1
      <4>1. SUFFICES ASSUME t = nturn + 1 PROVE FALSE
        OBVIOUS
      <4>2. pc'[t] = "run" BY <4>1, <2>2, <3>1, <1>a
      <4>3. QED BY <4>2
    <3>3. pc[t] = "closed" BY <3>1, <3>2, <2>5
    <3>4. QED BY <3>2, <3>3, <2>3
  <2>8. UnreadMessagesHaveAReader'
    <3>1. /\ done' = done /\ steering' = steering /\ compact' \subseteq compact \cup {nturn + 1}
      BY <2>1 DEF Registers
    <3>2. QED BY <1>a, <1>b, <1>c, <2>3, <3>1
  <2>9. QED BY <2>6, <2>7, <2>8
<1>4. CASE \E t \in Turns : CloseSteering(t)
  <2>1. PICK t \in Turns : CloseSteering(t) BY <1>4
  <2>2. /\ pc[t] = "ending" /\ pc' = [pc EXCEPT ![t] = "closed"] /\ open' = open \ {t}
        /\ steering' = [steering EXCEPT ![t] = {}]
        /\ UNCHANGED <<nturn, done, compact>>
    BY <2>1 DEF CloseSteering
  <2>3. \A u \in Turns : u > nturn' => pc'[u] = "none" BY <2>2, <1>a
  <2>4. \A u \in Turns : pc'[u] = "closed" => u \notin open' BY <2>2, <1>a
  <2>5. UnreadMessagesHaveAReader'
    <3>1. steering'[t] = {} /\ \A u \in Turns : u # t => steering'[u] = steering[u]
      BY <2>2 DEF TypeOK
    <3>2. QED BY <1>b, <1>c, <2>2, <3>1
  <2>6. QED BY <2>3, <2>4, <2>5
<1>5. CASE \E t \in Turns : SetDone(t)
  <2>1. PICK t \in Turns : SetDone(t) BY <1>5
  <2>2. /\ pc[t] = "closed" /\ pc' = [pc EXCEPT ![t] = "settle"] /\ done' = done \cup {t}
        /\ UNCHANGED <<nturn, open, compact, steering>>
    BY <2>1 DEF SetDone
  <2>3. \A u \in Turns : u > nturn' => pc'[u] = "none" BY <2>2, <1>a
  <2>4. \A u \in Turns : pc'[u] = "closed" => u \notin open' BY <2>2, <1>a
  <2>5. UnreadMessagesHaveAReader' BY <1>b, <1>c, <2>2
  <2>6. QED BY <2>3, <2>4, <2>5
<1>6. QED BY <1>1, <1>2, <1>3, <1>4, <1>5, TurnSteps

\* The strengthening holds in every state.
LEMMA ReadersAlways == Spec => []ReadersInv
<1>1. Init => ReadersInv
  <2> SUFFICES ASSUME Init PROVE ReadersInv
    OBVIOUS
  <2>1. \A t \in Turns : pc[t] = "none" BY ThreadSet DEF Init
  <2>2. UnreadMessagesHaveAReader BY DEF Init, UnreadMessagesHaveAReader
  <2>3. QED BY <2>1, <2>2 DEF ReadersInv
<1>2. QED BY <1>1, ReadersStep, TypeCorrect, PTL DEF Spec

\* A message steered into a turn is never left in one nobody will drain: the
\* turn that holds it is registered, not done, and open (steer against
\* _close_steering, which share the manager's lock).
THEOREM UnreadMessagesHaveAReaderTheorem == Spec => []UnreadMessagesHaveAReader
<1>1. ReadersInv => UnreadMessagesHaveAReader BY DEF ReadersInv
<1>2. QED BY <1>1, ReadersAlways, PTL

-----------------------------------------------------------------------------
(***************************************************************************)
(* Who runs the queue.  QueuedMessagesRun fails; what holds of every step  *)
(* instead is that a queue somebody will kick stays one, but for four      *)
(* steps that leave entries behind and kick nothing.                       *)
(***************************************************************************)

\* The thread is on its way to a kick, or to the turn that a kick has chosen.
WillKick(th) == pc[th] \in {"settle", "hold", "pop", "check", "register"}

\* Somebody will start the first entry: the worker of the running turn kicks the queue
\* when it ends, a thread that will kick does so now.
Driven == Busy \/ \E th \in Threads : WillKick(th)

\* The queue may run, and nobody will run it.
Stranded == queue # << >> /\ ~hold /\ ~closed /\ ~Driven

\* A put-back after the turn that refused it has ended, queue_add alone, a session that
\* is restored, and a continuation that is noted after its turn has ended.
LeavesBehind ==
    \/ \E th \in Threads : PutBack(th)
    \/ \E m \in Msgs : QueueAdd(m)
    \/ SessionRestore
    \/ ResumeInflight

\* No other step strands a queue: neither the end of a turn, nor a start that is
\* refused, nor a kick that finds the queue held, nor the end of a hold.
QueuesAreKicked == [][Stranded' => Stranded \/ LeavesBehind]_vars

\* A thread that starts a turn registers it, hands over to one that runs, or finds the
\* queue held, empty or closed.
LEMMA StartingKicks ==
    ASSUME TypeOK, done \subseteq Registered, NEW th \in Threads, Starting(th), ~PutBack(th)
    PROVE  Stranded' => Stranded
<1> SUFFICES ASSUME Stranded' PROVE Stranded OBVIOUS
<1> USE DEF Stranded, Driven, WillKick, turnVars
<1>0. pc \in [Threads -> Labels] BY DEF TypeOK
<1>1. CASE KickHold(th)
  <2>1. ~hold /\ pc' = [pc EXCEPT ![th] = "pop"] BY <1>1 DEF KickHold
  <2>2. pc'[th] = "pop" BY <1>0, <2>1
  <2>3. QED BY <2>2
<1>2. CASE KickPop(th)
  <2>1. CASE Busy \/ queue = << >>
    <3>1. UNCHANGED <<queue, nturn, done>> BY <1>2, <2>1 DEF KickPop
    <3>2. Busy' = Busy BY <3>1 DEF Busy, Active, Registered
    <3>3. QED BY <2>1, <3>1, <3>2
  <2>2. CASE ~(Busy \/ queue = << >>)
    <3>1. pc' = [pc EXCEPT ![th] = "check"] BY <1>2, <2>2 DEF KickPop
    <3>2. pc'[th] = "check" BY <1>0, <3>1
    <3>3. QED BY <3>2
  <2>3. QED BY <2>1, <2>2
<1>3. CASE StartCheck(th)
  <2>1. ~closed' /\ closed' = closed BY <1>3 DEF StartCheck, StartRefused
  <2>2. pc' = [pc EXCEPT ![th] = "register"] BY <1>3, <2>1 DEF StartCheck
  <2>3. pc'[th] = "register" BY <1>0, <2>2
  <2>4. QED BY <2>3
<1>4. CASE StartRegister(th)
  <2>1. CASE Busy
    <3>1. UNCHANGED <<nturn, done>> BY <1>4, <2>1 DEF StartRegister, StartRefused
    <3>2. Busy' BY <2>1, <3>1 DEF Busy, Active, Registered
    <3>3. QED BY <3>2
  <2>2. CASE ~Busy
    <3>1. /\ nturn' = nturn + 1 /\ done' = done
          /\ pc' = [pc EXCEPT ![nturn + 1] = "run",
                              ![th] = CASE job[th] = "queued" -> AfterKick(th)
                                        [] job[th] = "resume" -> "inflight"
                                        [] OTHER -> "idle"]
          /\ UNCHANGED <<queue, hold, closed>>
      BY <1>4, <2>2 DEF StartRegister
    <3>2. pc[th] = "register" BY <1>4 DEF StartRegister
    <3>3. nturn \in Nat /\ nturn + 1 \notin done BY DEF TypeOK, Registered
    <3>4. nturn + 1 \in Active' BY <3>1, <3>3 DEF Active, Registered
    <3>5. QED BY <3>4 DEF Busy
  <2>3. QED BY <2>1, <2>2
<1>5. QED BY <1>1, <1>2, <1>3, <1>4 DEF Starting

\* A worker drives the queue until it has kicked it.
LEMMA WorkerKicks ==
    ASSUME TypeOK, NEW t \in Turns, Worker(t)
    PROVE  Stranded' => Stranded
<1> SUFFICES ASSUME Stranded' PROVE Stranded OBVIOUS
<1> USE DEF Stranded, Driven, WillKick
<1>0. pc \in [Threads -> Labels] /\ t \in Threads BY ThreadSet DEF TypeOK
<1>1. CASE Drain(t)
  <2>1. UNCHANGED <<queue, hold, closed, pc, nturn, done>> BY <1>1 DEF Drain, threadVars
  <2>2. QED BY <2>1 DEF Busy, Active, Registered
<1>2. CASE Finish(t) \/ CloseSteering(t)
  <2>a. hold => hold'
    <3>1. CASE Finish(t)
      <4>1. hold' = hold \/ hold' = TRUE BY <3>1 DEF Finish
      <4>2. QED BY <4>1
    <3>2. CASE CloseSteering(t) BY <3>2 DEF CloseSteering
    <3>3. QED BY <1>2, <3>1, <3>2
  <2>1. /\ pc[t] \in {"run", "ending"} /\ UNCHANGED <<queue, closed, nturn, done>>
        /\ pc' = [pc EXCEPT ![t] = "ending"] \/ pc' = [pc EXCEPT ![t] = "closed"]
    BY <1>2 DEF Finish, CloseSteering
  <2>2. \A th \in Threads : WillKick(th) => pc'[th] = pc[th] BY <1>0, <2>1
  <2>3. Busy' = Busy BY <2>1 DEF Busy, Active, Registered
  <2>4. QED BY <2>a, <2>1, <2>2, <2>3
<1>3. CASE SetDone(t)
  <2>1. pc'[t] = "settle" BY <1>0, <1>3 DEF SetDone
  <2>2. QED BY <1>0, <2>1
<1>4. CASE Settle(t)
  <2>1. pc'[t] = "hold" BY <1>0, <1>4 DEF Settle
  <2>2. QED BY <1>0, <2>1
<1>5. CASE GoalAfterTurn(t)
  <2>1. /\ pc[t] = "goal" /\ UNCHANGED <<queue, hold, closed, nturn, done>>
        /\ \E x \in {"idle", "check"} : pc' = [pc EXCEPT ![t] = x]
    BY <1>5 DEF GoalAfterTurn
  <2>2. \A th \in Threads : WillKick(th) => pc'[th] = pc[th] BY <1>0, <2>1
  <2>3. Busy' = Busy BY <2>1 DEF Busy, Active, Registered
  <2>4. QED BY <2>1, <2>2, <2>3
<1>6. QED BY <1>1, <1>2, <1>3, <1>4, <1>5 DEF Worker

\* A free thread takes a call, or goes on with one, and leaves queue and turns as they are.
LEMMA FreeThreadKicks ==
    ASSUME TypeOK, UNCHANGED <<nturn, done>>,
           queue' # << >> => queue # << >>, hold /\ ~closed' => hold', closed => closed',
           NEW th \in Threads, pc[th] \in {"idle", "closing", "add"}, NEW x,
           pc' = pc \/ pc' = [pc EXCEPT ![th] = x]
    PROVE  Stranded' => Stranded
<1>1. pc \in [Threads -> Labels] BY DEF TypeOK
<1>2. \A u \in Threads : WillKick(u) => pc'[u] = pc[u] BY <1>1 DEF WillKick
<1>3. Busy' = Busy BY DEF Busy, Active, Registered
<1>4. QED BY <1>2, <1>3 DEF Stranded, Driven, WillKick

\* The calls that kick at once.
LEMMA KicksNow ==
    ASSUME TypeOK, NEW th \in Threads, pc' = [pc EXCEPT ![th] = "hold"]
    PROVE  Driven'
<1>1. pc'[th] = "hold" BY DEF TypeOK
<1>2. QED BY <1>1 DEF Driven, WillKick

\* The desktop's calls and the runner's.
LEMMA CallsKick ==
    ASSUME TypeOK, MainCall \/ RunnerStep, ~LeavesBehind
    PROVE  Stranded' => Stranded
<1> USE DEF msgVars, turnVars, threadVars
<1>0. Main \in Threads /\ Runner \in Threads /\ \A s : From(s) \in {Main, Runner}
  BY ThreadSet
<1>1. ASSUME NEW m \in Msgs, NEW s, TurnStart(m, s) PROVE Stranded' => Stranded
  BY <1>0, <1>1, FreeThreadKicks DEF TurnStart, Arrives
<1>2. ASSUME NEW m \in Msgs, NEW s, Steer(m, s) PROVE Stranded' => Stranded
  <2>1. pc[From(s)] = "idle" /\ UNCHANGED <<nturn, done, queue, hold, closed>>
    BY <1>2 DEF Steer, Arrives
  <2>2. pc' = pc \/ pc' = [pc EXCEPT ![From(s)] = "add"] BY <1>2 DEF Steer
  <2>3. QED BY <1>0, <2>1, <2>2, FreeThreadKicks
<1>3. CASE \E m \in Msgs : SteerCancel(m)
  BY <1>0, <1>3, FreeThreadKicks DEF SteerCancel
<1>4. CASE \E m \in Msgs : QueueDiscard(m)
  <2>1. PICK m \in Msgs : QueueDiscard(m) BY <1>4
  <2>2. \E i \in DOMAIN queue : TRUE BY <2>1 DEF QueueDiscard
  <2>3. queue # << >> BY <2>2
  <2>4. QED BY <1>0, <2>1, <2>3, FreeThreadKicks DEF QueueDiscard
<1>5. CASE Compact \/ QueueClear \/ ResumeArm \/ SessionCloseCheck \/ SessionClose
  BY <1>0, <1>5, FreeThreadKicks
  DEF Compact, QueueClear, ResumeArm, SessionCloseCheck, SessionClose
<1>6. CASE QueueResume \/ ResumeCancel
  BY <1>0, <1>6, KicksNow DEF QueueResume, ResumeCancel, Stranded
<1>7. CASE ResumeContinue \/ Wake \/ \E m \in Msgs : ScheduleStartOrQueue(m)
  BY <1>0, <1>7, FreeThreadKicks DEF ResumeContinue, Wake, ScheduleStartOrQueue, Arrives
<1>8. QED
  BY <1>1, <1>2, <1>3, <1>4, <1>5, <1>6, <1>7 DEF MainCall, RunnerStep, LeavesBehind

\* The turns that are done were registered.
LEMMA DoneStep ==
    ASSUME TypeOK, ReadersInv, done \subseteq Registered, [Next]_vars
    PROVE  (done \subseteq Registered)'
<1> USE DEF Registered
<1>1. nturn \in Nat /\ Turns \subseteq Nat BY DEF TypeOK, Turns
<1>2. CASE Elsewhere \/ Steers \/ \E t \in Turns : CloseSteering(t)
  BY <1>2 DEF Elsewhere, Steers, CloseSteering
<1>3. CASE \E th \in Threads : Registers(th) BY <1>1, <1>3 DEF Registers
<1>4. CASE \E t \in Turns : SetDone(t)
  <2>1. PICK t \in Turns : SetDone(t) BY <1>4
  <2>2. t \in 1..nturn BY <1>1, <2>1 DEF SetDone, ReadersInv, Turns
  <2>3. QED BY <2>1, <2>2 DEF SetDone
<1>5. QED BY <1>2, <1>3, <1>4, TurnSteps

\* The queue "auto-runs after the live turn" (queue_add): whatever the threads do, only
\* the four steps named above leave a queue that may run with nobody to run it.
THEOREM QueuesAreKickedTheorem == Spec => QueuesAreKicked
<1>1. Init => done \subseteq Registered BY DEF Init
<1>2. ASSUME TypeOK, done \subseteq Registered, [Next]_vars
      PROVE  Stranded' => Stranded \/ LeavesBehind
  <2>1. CASE MainCall \/ RunnerStep BY <1>2, <2>1, CallsKick
  <2>2. ASSUME NEW th \in Threads, Starting(th) PROVE Stranded' => Stranded \/ LeavesBehind
    BY <1>2, <2>2, StartingKicks DEF LeavesBehind
  <2>3. ASSUME NEW th \in Threads, QueueAddThenKick(th) PROVE Stranded' => Stranded
    <3>1. CASE Len(queue) >= MaxQueueDepth
      <4>1. /\ pc[th] = "add" /\ pc' = [pc EXCEPT ![th] = "idle"]
            /\ UNCHANGED <<queue, nturn, done, hold, closed>>
        BY <2>3, <3>1 DEF QueueAddThenKick, turnVars
      <4>2. pc[th] \in {"idle", "closing", "add"} BY <4>1
      <4>3. QED BY <1>2, <4>1, <4>2, FreeThreadKicks
    <3>2. CASE ~(Len(queue) >= MaxQueueDepth)
      BY <1>2, <2>3, <3>2, KicksNow DEF QueueAddThenKick, Stranded
    <3>3. QED BY <3>1, <3>2
  <2>4. CASE \E t \in Turns : Worker(t) BY <1>2, <2>4, WorkerKicks
  <2>5. CASE UNCHANGED vars
    BY <2>5 DEF vars, Stranded, Driven, WillKick, Busy, Active, Registered
  <2>6. QED BY <1>2, <2>1, <2>2, <2>3, <2>4, <2>5 DEF Next
<1>3. Spec => [](TypeOK /\ done \subseteq Registered)
  BY <1>1, TypeCorrect, ReadersAlways, DoneStep, PTL DEF Spec
<1>4. TypeOK /\ done \subseteq Registered /\ [Next]_vars
        => [Stranded' => Stranded \/ LeavesBehind]_vars
  BY <1>2
<1>5. QED BY <1>3, <1>4, PTL DEF Spec, QueuesAreKicked

=============================================================================
