--------------------------- MODULE AgentLoopProofs ---------------------------
(***************************************************************************)
(* What AgentLoop promises for any number of messages and of model calls,  *)
(* and ToolRound for any number of rounds and of tool calls.               *)
(***************************************************************************)
EXTENDS AgentLoop, ToolRound, FiniteSetTheorems, TLAPS

\* Past the head of the loop there is a model call left to make.
CallsLeft == pc \in {"take", "append", "prepare"} => calls < MaxCalls

\* The loop holds messages of its own only between taking and placing them.
HandsEmpty == taken # {} => pc = "append" \/ (pc = "branch" /\ reply # "tools")

LoopInv == LoopTypeOK /\ CallsLeft /\ HandsEmpty /\ EachMessageIsReadOnce

\* The places of the messages while they stay where they are.
LEMMA MessagesStay ==
    ASSUME EachMessageIsReadOnce, UNCHANGED <<steering, taken, history, dropped, nsent>>
    PROVE  EachMessageIsReadOnce'
BY DEF EachMessageIsReadOnce

\* The owner's calls: only Steer adds a message, a new one.
LEMMA OwnerStep == LoopInv /\ Owner => LoopInv'
<1> SUFFICES ASSUME LoopInv, Owner PROVE LoopInv' OBVIOUS
<1> USE DEF LoopInv, CallsLeft, HandsEmpty, loopVars
<1>1. CASE Steer
  <2>1. nsent \in Nat /\ nsent + 1 \in Msgs /\ nsent + 1 \in 0..MaxMsgs
    BY <1>1, LoopAssumption DEF Steer, Msgs, LoopTypeOK
  <2>2. urgent' \subseteq Msgs /\ steering' \subseteq Msgs BY <1>1, <2>1 DEF Steer, LoopTypeOK
  <2>3. LoopTypeOK' BY <1>1, <2>1, <2>2 DEF Steer, LoopTypeOK
  <2>4. /\ 1..(nsent + 1) = 1..nsent \cup {nsent + 1} /\ nsent + 1 \notin 1..nsent
    BY <2>1
  <2>5. EachMessageIsReadOnce' BY <1>1, <2>4 DEF Steer, EachMessageIsReadOnce
  <2>6. QED BY <1>1, <2>3, <2>5 DEF Steer
<1>2. CASE SteerPromote
  <2>1. LoopTypeOK'
    <3>1. PICK m \in steering \ urgent : urgent' = urgent \cup {m} BY <1>2 DEF SteerPromote
    <3>2. urgent' \subseteq Msgs BY <3>1 DEF LoopTypeOK
    <3>3. QED BY <1>2, <3>2 DEF SteerPromote, LoopTypeOK
  <2>2. QED BY <1>2, <2>1, MessagesStay DEF SteerPromote
<1>3. CASE OwnerWrote \/ InterruptStep
  <2>1. LoopTypeOK' BY <1>3 DEF OwnerWrote, InterruptStep, LoopTypeOK
  <2>2. QED BY <1>3, <2>1, MessagesStay DEF OwnerWrote, InterruptStep
<1>4. CASE Cancel
  <2>1. LoopTypeOK' BY <1>4 DEF Cancel, LoopTypeOK, ownerVars
  <2>2. QED BY <1>4, <2>1, MessagesStay DEF Cancel, ownerVars
<1>5. QED BY <1>1, <1>2, <1>3, <1>4 DEF Owner

\* The head of the loop, the model call and the round of tools move no message.
LEMMA QuietLoopStep ==
    ASSUME LoopInv,
           Top \/ Prepare \/ ModelReplies \/ ModelFails \/ ModelCancelled \/ StepInterrupted
               \/ EmptyReply \/ FinalAnswer \/ GoesOn \/ ToolsStart \/ ToolsEnd
    PROVE  LoopInv'
<1> USE DEF LoopInv, CallsLeft, HandsEmpty, ownerVars, Return
<1>1. CASE Top
  <2>1. LoopTypeOK' BY <1>1 DEF Top, LoopTypeOK, Outcomes
  <2>2. calls < MaxCalls \/ pc' = "end" BY <1>1, LoopAssumption DEF Top, LoopTypeOK
  <2>3. QED BY <1>1, <2>1, <2>2, MessagesStay DEF Top
<1>2. CASE Prepare
  <2>1. calls + 1 \in 0..MaxCalls BY <1>2, LoopAssumption DEF Prepare, LoopTypeOK
  <2>2. LoopTypeOK' BY <1>2, <2>1 DEF Prepare, LoopTypeOK
  <2>3. QED BY <1>2, <2>2, MessagesStay DEF Prepare
<1>3. CASE ModelReplies \/ StepInterrupted
  <2>1. LoopTypeOK' BY <1>3 DEF ModelReplies, StepInterrupted, LoopTypeOK, Replies
  <2>2. QED BY <1>3, <2>1, MessagesStay DEF ModelReplies, StepInterrupted
<1>4. CASE ModelFails \/ ModelCancelled
  <2>1. LoopTypeOK' BY <1>4 DEF ModelFails, ModelCancelled, LoopTypeOK, Outcomes
  <2>2. QED BY <1>4, <2>1, MessagesStay DEF ModelFails, ModelCancelled
<1>5. CASE EmptyReply
  <2>1. LoopTypeOK' BY <1>5 DEF EmptyReply, LoopTypeOK, Outcomes
  <2>2. QED BY <1>5, <2>1, MessagesStay DEF EmptyReply
<1>6. CASE FinalAnswer
  <2>1. LoopTypeOK' BY <1>6 DEF FinalAnswer, LoopTypeOK, Outcomes
  <2>2. QED BY <1>6, <2>1, MessagesStay DEF FinalAnswer
<1>7. CASE GoesOn \/ ToolsStart \/ ToolsEnd
  <2>1. LoopTypeOK' BY <1>7 DEF GoesOn, ToolsStart, ToolsEnd, LoopTypeOK, Outcomes
  <2>2. QED BY <1>7, <2>1, MessagesStay DEF GoesOn, ToolsStart, ToolsEnd
<1>8. QED BY <1>1, <1>2, <1>3, <1>4, <1>5, <1>6, <1>7

\* The steps that move messages: the list is taken whole, and what was taken is
\* placed whole.
LEMMA MovingLoopStep ==
    ASSUME LoopInv, TakeDrain \/ TakeAppend \/ Collect \/ AnswerStands \/ AnswerMessages
    PROVE  LoopInv'
<1> USE DEF LoopInv, CallsLeft, HandsEmpty, ownerVars, Return
<1>1. CASE TakeDrain
  <2>1. LoopTypeOK' BY <1>1 DEF TakeDrain, LoopTypeOK
  <2>2. EachMessageIsReadOnce' BY <1>1 DEF TakeDrain, EachMessageIsReadOnce
  <2>3. QED BY <1>1, <2>1, <2>2 DEF TakeDrain
<1>2. CASE TakeAppend
  <2>1. wrote' \in BOOLEAN
    <3>1. wrote' = (wrote /\ taken = {}) BY <1>2 DEF TakeAppend
    <3>2. QED BY <3>1
  <2>2. LoopTypeOK' BY <1>2, <2>1 DEF TakeAppend, LoopTypeOK
  <2>3. EachMessageIsReadOnce' BY <1>2 DEF TakeAppend, EachMessageIsReadOnce
  <2>4. QED BY <1>2, <2>2, <2>3 DEF TakeAppend
<1>3. CASE Collect
  <2>1. LoopTypeOK' BY <1>3 DEF Collect, LoopTypeOK
  <2>2. taken = {} BY <1>3 DEF Collect
  <2>3. EachMessageIsReadOnce' BY <1>3, <2>2 DEF Collect, EachMessageIsReadOnce
  <2>4. QED BY <1>3, <2>1, <2>2, <2>3 DEF Collect
<1>4. CASE AnswerStands
  <2>1. LoopTypeOK' BY <1>4 DEF AnswerStands, LoopTypeOK, Outcomes
  <2>2. EachMessageIsReadOnce' BY <1>4 DEF AnswerStands, EachMessageIsReadOnce
  <2>3. QED BY <1>4, <2>1, <2>2 DEF AnswerStands
<1>5. CASE AnswerMessages
  <2>1. LoopTypeOK' BY <1>5 DEF AnswerMessages, LoopTypeOK
  <2>2. EachMessageIsReadOnce' BY <1>5 DEF AnswerMessages, EachMessageIsReadOnce
  <2>3. QED BY <1>5, <2>1, <2>2 DEF AnswerMessages
<1>6. QED BY <1>1, <1>2, <1>3, <1>4, <1>5

\* The invariant of the loop holds in every state of every turn.
LEMMA LoopInvCorrect == LoopSpec => []LoopInv
<1>1. LoopInit => LoopInv
  <2> SUFFICES ASSUME LoopInit PROVE LoopInv OBVIOUS
  <2>0. 0 \in 0..MaxMsgs /\ 0 \in 0..MaxCalls BY LoopAssumption
  <2>1. LoopTypeOK BY <2>0 DEF LoopInit, LoopTypeOK, Replies, Outcomes
  <2>2. 1..0 = {} OBVIOUS
  <2>3. EachMessageIsReadOnce BY <2>2 DEF LoopInit, EachMessageIsReadOnce
  <2>4. QED BY <2>1, <2>3 DEF LoopInit, LoopInv, CallsLeft, HandsEmpty
<1>2. LoopInv /\ [LoopNext]_agentVars => LoopInv'
  <2> SUFFICES ASSUME LoopInv, [LoopNext]_agentVars PROVE LoopInv' OBVIOUS
  <2>1. CASE Loop BY <2>1, QuietLoopStep, MovingLoopStep DEF Loop
  <2>2. CASE UNCHANGED agentVars
    BY <2>2 DEF agentVars, LoopInv, LoopTypeOK, CallsLeft, HandsEmpty, EachMessageIsReadOnce
  <2>3. QED BY <2>1, <2>2, OwnerStep DEF LoopNext
<1>3. QED BY <1>1, <1>2, PTL DEF LoopSpec

\* Every variable of the loop keeps its type; above all, the model is never
\* called more often than max_iters allows (the head of AgentLoop.turn).
THEOREM LoopTypesTheorem == LoopSpec => []LoopTypeOK
BY LoopInvCorrect, PTL DEF LoopInv

\* However the owner's calls fall between the loop's takes, no message is read
\* twice and none leaves the books (collect_steering, _take_steering).
THEOREM EachMessageIsReadOnceTheorem == LoopSpec => []EachMessageIsReadOnce
BY LoopInvCorrect, PTL DEF LoopInv

\* A dropped message was taken by the call that answered the checklist note with
\* nothing, and no request the model saw contains one.
DroppedInv ==
    /\ answered => checked
    /\ dropped # {} => pc = "end" /\ outcome = "answer" /\ checked
    /\ request \subseteq history

\* Only the answer that stands drops messages, and only it ends the turn with them.
LEMMA DroppedStep == LoopInv /\ DroppedInv /\ [LoopNext]_agentVars => DroppedInv'
<1> SUFFICES ASSUME LoopInv, DroppedInv, [LoopNext]_agentVars PROVE DroppedInv' OBVIOUS
<1> USE DEF DroppedInv, ownerVars, loopVars, Return
<1>1. CASE Owner
  BY <1>1 DEF Owner, Steer, SteerPromote, OwnerWrote, InterruptStep, Cancel
<1>2. CASE Top \/ Prepare \/ ModelReplies \/ ModelFails \/ ModelCancelled \/ StepInterrupted
  BY <1>2 DEF Top, Prepare, ModelReplies, ModelFails, ModelCancelled, StepInterrupted
<1>3. CASE TakeDrain \/ TakeAppend \/ Collect \/ AnswerMessages
  BY <1>3 DEF TakeDrain, TakeAppend, Collect, AnswerMessages
<1>4. CASE AnswerStands BY <1>4 DEF AnswerStands
<1>5. CASE EmptyReply \/ FinalAnswer BY <1>5 DEF EmptyReply, FinalAnswer
<1>6. CASE GoesOn \/ ToolsStart \/ ToolsEnd BY <1>6 DEF GoesOn, ToolsStart, ToolsEnd
<1>7. CASE UNCHANGED agentVars BY <1>7 DEF agentVars
<1>8. QED BY <1>1, <1>2, <1>3, <1>4, <1>5, <1>6, <1>7 DEF LoopNext, Loop

\* A turn that ends leaves nothing in its hands: what it took is in the history, but
\* for one way out, the empty reply to the checklist note (AgentLoop.turn).
EndedTurnsPlacedTheirMessages ==
    /\ pc = "end" => taken = {}
    /\ dropped # {} => pc = "end" /\ outcome = "answer" /\ checked
    /\ dropped \cap request = {}

\* NoMessageIsDropped fails; it fails by the empty reply to the note alone, and what
\* is dropped was in no request.
THEOREM EndedTurnsTheorem == LoopSpec => []EndedTurnsPlacedTheirMessages
<1>1. LoopInit => DroppedInv BY DEF LoopInit, DroppedInv
<1>2. LoopInv /\ DroppedInv => EndedTurnsPlacedTheirMessages
  BY DEF LoopInv, DroppedInv, HandsEmpty, EachMessageIsReadOnce, EndedTurnsPlacedTheirMessages
<1>3. QED BY <1>1, <1>2, LoopInvCorrect, DroppedStep, PTL DEF LoopSpec

-----------------------------------------------------------------------------
(***************************************************************************)
(* The round of tool calls.  Where the coordinator is says where the calls *)
(* are: told before the group, idle behind it; what a call is said to have *)
(* done agrees with the handler it entered; and what is stored of a round  *)
(* is what its calls were told, the events first, the messages at its end. *)
(***************************************************************************)

InRound == at \in {"prepare", "run", "yield", "finally"}

RoundTypes ==
    /\ round \in 0..MaxRounds
    /\ kind \in Seq({"reader", "barrier"}) /\ Size <= NCalls
    /\ at \in {"model", "prepare", "run", "yield", "finally", "over", "crashed"}
    /\ first \in Nat /\ next \in Nat
    /\ call \in [Calls -> Places]
    /\ callVerdict \in [Calls -> Verdicts \cup {"none"}]
    /\ ran \subseteq Pairs
    /\ asked \subseteq Pairs
    /\ messages \subseteq Pairs \X Verdicts
    /\ events \subseteq Pairs \X Verdicts

\* Where the calls are.
PhaseInv ==
    /\ ~InRound =>
         /\ first = 1 /\ next = 1 /\ results = {}
         /\ \A i \in Calls : call[i] = "idle" /\ callVerdict[i] = "none"
    /\ at \in {"prepare", "run", "yield"} =>
         /\ first \in 1..Size
         /\ \A i \in Calls : (i < first => call[i] = "told") /\ (i > Last => call[i] = "idle")
    /\ at = "prepare" =>
         /\ next \in first..(Last + 1)
         /\ \A i \in first..Last :
              IF i < next THEN call[i] \in {"ready", "decided"} ELSE call[i] = "idle"
    /\ at \in {"prepare", "run"} => results = 1..(first - 1)
    /\ at = "run" => \A i \in first..Last : call[i] # "idle"
    /\ at = "yield" =>
         /\ 1..(first - 1) \subseteq results /\ results \subseteq 1..Last
         /\ \A i \in first..Last : call[i] = "told"
    /\ at = "finally" =>
         /\ \A i \in Calls : call[i] \in {"idle", "told"}
         /\ results = {i \in Calls : call[i] = "told"} /\ results \subseteq 1..Size

\* What is said of a call while it is there.
Agrees(place, verdict, entered) ==
    /\ place \in {"idle", "ready", "running", "entered"} => verdict = "none"
    /\ place \in {"decided", "ran", "told"} => verdict \in Verdicts
    /\ place = "entered" => entered
    /\ verdict = "ok" => entered
    /\ entered => place \in {"entered", "ran", "told"} /\ verdict # "refused"
VerdictInv ==
    InRound => \A i \in Calls : Agrees(call[i], callVerdict[i], <<round, i>> \in ran)

\* What is stored of a call.
HistoryInv ==
    /\ \A p \in asked : p[1] <= round
    /\ ran \subseteq asked
    /\ InRound => \A i \in 1..Size : <<round, i>> \in asked
    /\ \A e \in events \cup messages :
         /\ e[1] \in asked
         /\ e[2] = "ok" => e[1] \in ran
         /\ e[2] = "refused" => e[1] \notin ran
    /\ \A e \in events, m \in messages : e[1] = m[1] => e = m
    /\ InRound =>
         /\ \A m \in messages : m[1][1] < round
         /\ \A e \in events : e[1][1] = round =>
              call[e[1][2]] = "told" /\ e[2] = callVerdict[e[1][2]]

\* The calls of the rounds that ended have their messages.
StoredInv ==
    /\ at \in {"model", "over"} => \A p \in ran : \E m \in messages : m[1] = p
    /\ InRound => \A p \in ran : p[1] < round => \E m \in messages : m[1] = p

RoundInv == RoundTypes /\ PhaseInv /\ VerdictInv /\ HistoryInv /\ StoredInv

\* The group is an interval of the calls, and one that is not a reader is alone in it.
LEMMA GroupIsAnInterval ==
    ASSUME kind \in Seq({"reader", "barrier"}), first \in 1..Size
    PROVE  /\ Group = first..Last
           /\ Last \in first..Size
           /\ \A i \in Group : kind[i] = "barrier" => i = first /\ i = Last
<1>1. Size \in Nat /\ first \in Nat BY DEF Size
<1>2. Group = GroupFrom(first) BY <1>1 DEF Group
<1>3. CASE kind[first] = "barrier"
  <2>1. Group = {first} BY <1>2, <1>3 DEF GroupFrom
  <2>2. Cardinality(Group) = 1 BY <2>1, FS_Singleton
  <2>3. Last = first BY <1>1, <2>2 DEF Last
  <2>4. QED BY <1>1, <2>1, <2>3
<1>4. CASE kind[first] # "barrier"
  <2>1. Group = {i \in first..Size : \A j \in first..i : kind[j] = "reader"}
    BY <1>2, <1>4 DEF GroupFrom
  <2>2. IsFiniteSet(first..Size) BY <1>1, FS_Interval
  <2>3. Group \in SUBSET (first..Size) BY <2>1
  <2>4. IsFiniteSet(Group) /\ Cardinality(Group) \in Nat
    BY <2>2, <2>3, FS_Subset, FS_CardinalityType
  <2>5. \A a, b \in Nat : Cardinality(a..b) = (IF a > b THEN 0 ELSE b - a + 1)
    BY FS_Interval
  <2>6. kind[first] = "reader"
    BY <1>4 DEF Size
  <2>7. first \in Group BY <1>1, <2>1, <2>6
  <2>8. ASSUME NEW i \in Group PROVE i <= Last
    <3>1. i \in Nat /\ i >= first BY <1>1, <2>3
    <3>2. first..i \in SUBSET Group BY <1>1, <2>1, <3>1
    <3>3. Cardinality(first..i) <= Cardinality(Group) BY <2>4, <3>2, FS_Subset
    <3>4. QED BY <1>1, <2>4, <2>5, <3>1, <3>3 DEF Last
  <2>9. ASSUME NEW i \in first..Last, i \notin Group PROVE FALSE
    <3>1. i \in Nat /\ i >= first /\ i # first BY <1>1, <2>7, <2>9
    <3>2. ASSUME NEW k \in Group, k >= i PROVE FALSE
      <4>1. k \in first..Size /\ \A j \in first..k : kind[j] = "reader" BY <2>1
      <4>2. i \in first..Size /\ \A j \in first..i : kind[j] = "reader"
        BY <1>1, <3>1, <3>2, <4>1
      <4>3. QED BY <2>1, <2>9, <4>2
    <3>3. Group \in SUBSET (first..(i - 1)) BY <1>1, <2>3, <3>1, <3>2
    <3>4. IsFiniteSet(first..(i - 1)) /\ i - 1 \in Nat BY <1>1, <3>1, FS_Interval
    <3>5. Cardinality(Group) <= Cardinality(first..(i - 1)) BY <3>3, <3>4, FS_Subset
    <3>6. Cardinality(first..(i - 1)) = i - first BY <1>1, <2>5, <3>1, <3>4
    <3>7. QED BY <1>1, <2>4, <2>9, <3>1, <3>5, <3>6 DEF Last
  <2>10. Last \in Nat /\ Last >= first BY <1>1, <2>4, <2>7, <2>8 DEF Last
  <2>11. Group = first..Last
    <3>1. \A i \in Group : i \in first..Last BY <1>1, <2>3, <2>8, <2>10
    <3>2. QED BY <2>9, <3>1
  <2>12. Last \in Group BY <2>10, <2>11
  <2>13. \A i \in Group : kind[i] = "reader" BY <1>1, <2>1
  <2>14. QED BY <1>1, <2>3, <2>10, <2>11, <2>12, <2>13
<1>5. QED BY <1>3, <1>4


\* The same of the group that comes next.
GroupFits == kind \in Seq({"reader", "barrier"}) /\ first \in 1..Size => Last \in first..Size
LEMMA NextGroupFits == GroupFits'
<1>1. GroupFits BY GroupIsAnInterval DEF GroupFits
<1>2. QED BY <1>1, PTL

\* A call of the turn by its round and its place in it.
LEMMA PairParts ==
    /\ \A p \in Pairs : p = <<p[1], p[2]>> /\ p[1] \in 1..MaxRounds /\ p[2] \in Calls
    /\ \A r \in 1..MaxRounds, i \in Calls : <<r, i>> \in Pairs
    /\ \A e \in Pairs \X Verdicts : e = <<e[1], e[2]>> /\ e[1] \in Pairs /\ e[2] \in Verdicts
BY DEF Pairs

\* The group is the same while the calls and its first one are.
LEMMA GroupStays ==
    ASSUME UNCHANGED <<kind, first>>
    PROVE  Size' = Size /\ Group' = Group /\ Last' = Last
BY DEF Size, Group, GroupFrom, Last

\* Nothing that the invariant speaks of moves.
LEMMA RoundRests ==
    ASSUME RoundInv, UNCHANGED <<round, kind, at, first, next, call, ran, callVerdict, results,
                                 asked, messages, events>>
    PROVE  RoundInv'
<1> USE GroupStays DEF RoundInv
<1>1. RoundTypes' BY DEF RoundTypes
<1>2. PhaseInv' BY DEF PhaseInv, InRound
<1>3. VerdictInv' BY DEF VerdictInv, InRound
<1>4. HistoryInv' BY DEF HistoryInv, InRound
<1>5. StoredInv' BY DEF StoredInv, InRound
<1>6. QED BY <1>1, <1>2, <1>3, <1>4, <1>5

\* One call of the group goes on: what it is said to have done agrees with its handler,
\* and the event stored when it is told says the same.
LEMMA WorkerKeeps ==
    ASSUME RoundInv, at = "run", UNCHANGED workVars,
           NEW i \in Calls, NEW place \in Places \ {"idle", "ready", "decided"},
           NEW verdict \in Verdicts \cup {"none"},
           call[i] \notin {"idle", "told"},
           call' = [call EXCEPT ![i] = place],
           callVerdict' = [callVerdict EXCEPT ![i] = verdict],
           ran' = ran \/ (ran' = ran \cup {<<round, i>>} /\ place = "entered"),
           Agrees(place, verdict, <<round, i>> \in ran'),
           \/ events' = events
           \/ /\ events' = events \cup {<<<<round, i>>, verdict>>}
              /\ place = "told" /\ ran' = ran
    PROVE  RoundInv'
<1> USE PairParts DEF RoundInv
<1>1. /\ UNCHANGED <<round, kind, at, first, next, results, asked, messages>>
      /\ Size' = Size /\ Last' = Last /\ InRound /\ InRound'
  BY GroupStays DEF workVars, InRound
<1>2. /\ call' \in [Calls -> Places] /\ callVerdict' \in [Calls -> Verdicts \cup {"none"}]
      /\ call'[i] = place /\ callVerdict'[i] = verdict
      /\ \A j \in Calls : j # i => call'[j] = call[j] /\ callVerdict'[j] = callVerdict[j]
  BY DEF RoundTypes
<1>3. /\ Last \in first..Size /\ first \in Nat /\ Size \in Nat /\ Size <= NCalls
      /\ first >= 1 /\ i \in Nat
  BY GroupIsAnInterval DEF RoundTypes, PhaseInv, Size, Calls
<1>4. i \in first..Last /\ i \in 1..Size
  BY <1>3 DEF PhaseInv
<1>5. <<round, i>> \in asked BY <1>1, <1>4 DEF HistoryInv
<1>6. /\ <<round, i>> \in Pairs /\ round \in 1..MaxRounds /\ ran' \subseteq Pairs
  BY <1>5 DEF RoundTypes
<1>7. events' \subseteq Pairs \X Verdicts
  <2>1. place = "told" => verdict \in Verdicts BY DEF Agrees
  <2>2. QED BY <1>6, <2>1 DEF RoundTypes
<1>8. RoundTypes' BY <1>1, <1>2, <1>6, <1>7 DEF RoundTypes
<1>9. PhaseInv' BY <1>1, <1>2, <1>3, <1>4 DEF PhaseInv
<1>10. \A j \in Calls : j # i => (<<round, j>> \in ran' <=> <<round, j>> \in ran)
  OBVIOUS
<1>11. VerdictInv' BY <1>1, <1>2, <1>10 DEF VerdictInv
<1>12. HistoryInv'
  <2>1. ran' \subseteq asked BY <1>5 DEF HistoryInv
  <2>2. ASSUME NEW e \in events \cup messages
        PROVE  /\ e[1] \in asked
               /\ e[2] = "ok" => e[1] \in ran'
               /\ e[2] = "refused" => e[1] \notin ran'
    <3>1. e[1] # <<round, i>>
      <4>1. CASE e \in events /\ e[1] = <<round, i>>
        <5>1. e[1][1] = round /\ e[1][2] = i BY <4>1
        <5>2. QED BY <1>1, <4>1, <5>1 DEF HistoryInv
      <4>2. CASE e \in messages /\ e[1] = <<round, i>>
        <5>1. e[1][1] = round BY <4>2
        <5>2. QED BY <1>1, <1>6, <4>2, <5>1 DEF HistoryInv
      <4>3. QED BY <4>1, <4>2
    <3>2. QED BY <3>1 DEF HistoryInv
  <2>3. ASSUME NEW e \in events', e \notin events
        PROVE  /\ e = <<<<round, i>>, verdict>> /\ place = "told"
               /\ e[1] = <<round, i>> /\ e[2] = verdict /\ e[1][1] = round /\ e[1][2] = i
    BY <2>3
  <2>4. ASSUME NEW e \in events' \cup messages'
        PROVE  /\ e[1] \in asked
               /\ e[2] = "ok" => e[1] \in ran'
               /\ e[2] = "refused" => e[1] \notin ran'
    <3>1. CASE e \in events \cup messages BY <2>2, <3>1
    <3>2. CASE e \notin events \cup messages
      BY <1>1, <1>5, <2>3, <2>4, <3>2 DEF Agrees
    <3>3. QED BY <3>1, <3>2
  <2>5. ASSUME NEW e \in events', NEW m \in messages', e[1] = m[1] PROVE e = m
    <3>1. CASE e \in events BY <1>1, <2>5, <3>1 DEF HistoryInv
    <3>2. CASE e \notin events
      <4>1. e[1][1] = round BY <2>3, <3>2
      <4>2. m[1][1] < round BY <1>1 DEF HistoryInv
      <4>3. QED BY <1>6, <2>5, <4>1, <4>2
    <3>3. QED BY <3>1, <3>2
  <2>6. ASSUME NEW e \in events', e[1][1] = round
        PROVE  call'[e[1][2]] = "told" /\ e[2] = callVerdict'[e[1][2]]
    <3>1. CASE e \in events
      <4>1. call[e[1][2]] = "told" /\ e[2] = callVerdict[e[1][2]]
        BY <1>1, <2>6, <3>1 DEF HistoryInv
      <4>2. e[1][2] \in Calls /\ e[1][2] # i BY <4>1, <3>1 DEF RoundTypes
      <4>3. QED BY <1>2, <4>1, <4>2
    <3>2. CASE e \notin events BY <1>2, <2>3, <3>2
    <3>3. QED BY <3>1, <3>2
  <2>7. QED BY <1>1, <2>1, <2>4, <2>5, <2>6 DEF HistoryInv
<1>13. StoredInv'
  <2>1. ASSUME NEW p \in ran', p[1] < round PROVE p \in ran
    BY <1>6, <2>1
  <2>2. QED BY <1>1, <2>1 DEF StoredInv
<1>14. QED BY <1>8, <1>9, <1>11, <1>12, <1>13


\* A worker: the gate, the handler, its result, the event of its end.
LEMMA WorkerStep ==
    ASSUME RoundInv, NEW i \in Calls, Worker(i)
    PROVE  RoundInv'
<1> DEFINE entered == <<round, i>> \in ran
<1>1. RoundTypes BY DEF RoundInv
<1>2. at = "run" => Agrees(call[i], callVerdict[i], entered)
  BY DEF RoundInv, VerdictInv, InRound
<1>3. callVerdict = [callVerdict EXCEPT ![i] = callVerdict[i]] BY <1>1 DEF RoundTypes
<1>4. callVerdict[i] \in Verdicts \cup {"none"} BY <1>1 DEF RoundTypes
<1>5. ASSUME Start(i) PROVE RoundInv'
  <2>1. CASE /\ call[i] = "ready"
             /\ call' = [call EXCEPT ![i] = "running"] /\ UNCHANGED callVerdict
    <3>1. at = "run" /\ ran' = ran /\ events' = events /\ UNCHANGED workVars
      BY <1>5 DEF Start
    <3>2. Agrees("running", callVerdict[i], <<round, i>> \in ran')
      BY <1>2, <2>1, <3>1 DEF Agrees
    <3>3. "running" \in Places \ {"idle", "ready", "decided"} BY DEF Places
    <3>4. callVerdict' = [callVerdict EXCEPT ![i] = callVerdict[i]] BY <1>3, <2>1
    <3>5. QED BY <1>4, <2>1, <3>1, <3>2, <3>3, <3>4, WorkerKeeps
  <2>2. CASE /\ call[i] = "decided" \/ (call[i] = "ready" /\ roundToken)
             /\ call' = [call EXCEPT ![i] = "ran"]
             /\ callVerdict' =
                  [callVerdict EXCEPT ![i] = IF roundToken THEN "cancelled" ELSE @]
    <3> DEFINE verdict == IF roundToken THEN "cancelled" ELSE callVerdict[i]
    <3>1. at = "run" /\ ran' = ran /\ events' = events /\ UNCHANGED workVars
      BY <1>5 DEF Start
    <3>2. Agrees("ran", verdict, <<round, i>> \in ran') /\ verdict \in Verdicts \cup {"none"}
      BY <1>2, <1>4, <2>2, <3>1 DEF Agrees, Verdicts
    <3>3. "ran" \in Places \ {"idle", "ready", "decided"} BY DEF Places
    <3>4. callVerdict' = [callVerdict EXCEPT ![i] = verdict] BY <1>1, <2>2 DEF RoundTypes
    <3> HIDE DEF verdict
    <3>5. QED BY <2>2, <3>1, <3>2, <3>3, <3>4, WorkerKeeps
  <2>3. QED BY <1>5, <2>1, <2>2 DEF Start
<1>6. ASSUME Enter(i) PROVE RoundInv'
  <2>1. /\ at = "run" /\ call[i] = "running" /\ call' = [call EXCEPT ![i] = "entered"]
        /\ ran' = ran \cup {<<round, i>>} /\ events' = events /\ UNCHANGED workVars
        /\ callVerdict' = callVerdict
    BY <1>6 DEF Enter
  <2>2. Agrees("entered", callVerdict[i], <<round, i>> \in ran') BY <1>2, <2>1 DEF Agrees
  <2>3. "entered" \in Places \ {"idle", "ready", "decided"} BY DEF Places
  <2>4. callVerdict' = [callVerdict EXCEPT ![i] = callVerdict[i]] BY <1>3, <2>1
  <2>5. QED BY <1>4, <2>1, <2>2, <2>3, <2>4, WorkerKeeps
<1>7. ASSUME NotEntered(i) PROVE RoundInv'
  <2>1. /\ at = "run" /\ call[i] = "running" /\ call' = [call EXCEPT ![i] = "ran"]
        /\ ran' = ran /\ events' = events /\ UNCHANGED workVars
    BY <1>7 DEF NotEntered
  <2>2. PICK v \in {"cancelled", "failed"} : callVerdict' = [callVerdict EXCEPT ![i] = v]
    BY <1>7 DEF NotEntered
  <2>3. Agrees("ran", v, <<round, i>> \in ran') /\ v \in Verdicts \cup {"none"}
    BY <1>2, <2>1 DEF Agrees, Verdicts
  <2>4. "ran" \in Places \ {"idle", "ready", "decided"} BY DEF Places
  <2>5. QED BY <2>1, <2>2, <2>3, <2>4, WorkerKeeps
<1>8. ASSUME NEW v \in Verdicts, Leave(i, v) PROVE RoundInv'
  <2>1. /\ at = "run" /\ call[i] = "entered" /\ call' = [call EXCEPT ![i] = "ran"]
        /\ ran' = ran /\ events' = events /\ UNCHANGED workVars
        /\ callVerdict' = [callVerdict EXCEPT ![i] = v] /\ v \in {"ok", "failed", "cancelled"}
    BY <1>8 DEF Leave
  <2>2. Agrees("ran", v, <<round, i>> \in ran') BY <1>2, <1>8, <2>1 DEF Agrees
  <2>3. "ran" \in Places \ {"idle", "ready", "decided"} BY DEF Places
  <2>4. QED BY <1>8, <2>1, <2>2, <2>3, WorkerKeeps
<1>9. ASSUME NEW stored \in BOOLEAN, Complete(i, stored) PROVE RoundInv'
  <2>1. /\ at = "run" /\ call[i] = "ran" /\ call' = [call EXCEPT ![i] = "told"]
        /\ ran' = ran /\ UNCHANGED workVars /\ callVerdict' = callVerdict
        /\ events' = events \/ events' = events \cup {<<<<round, i>>, callVerdict[i]>>}
    BY <1>9 DEF Complete, Told
  <2>2. Agrees("told", callVerdict[i], <<round, i>> \in ran') BY <1>2, <2>1 DEF Agrees
  <2>3. "told" \in Places \ {"idle", "ready", "decided"} BY DEF Places
  <2>4. callVerdict' = [callVerdict EXCEPT ![i] = callVerdict[i]] BY <1>3, <2>1
  <2>5. QED BY <1>4, <2>1, <2>2, <2>3, <2>4, WorkerKeeps
<1>10. QED BY <1>5, <1>6, <1>7, <1>8, <1>9 DEF Worker


\* The assistant message is stored before any of its calls runs.
LEMMA BeginRoundKeeps ==
    ASSUME RoundInv, BeginRound
    PROVE  RoundInv'
<1> USE PairParts, RoundAssumption DEF RoundInv
<1>1. PICK n \in 1..(NCalls - Cardinality(asked)) :
         /\ kind' \in [1..n -> {"reader", "barrier"}]
         /\ asked' = asked \cup ({round + 1} \X (1..n))
  BY DEF BeginRound
<1>2. /\ at = "model" /\ at' = "prepare" /\ round < MaxRounds /\ round' = round + 1
      /\ UNCHANGED <<first, next, call, callVerdict, results, ran, messages, events>>
      /\ ~InRound /\ InRound'
  BY DEF BeginRound, InRound
<1>3. first = 1 /\ next = 1 /\ results = {} /\ \A i \in Calls : call[i] = "idle"
  BY <1>2 DEF PhaseInv
<1>4. Cardinality(asked) \in Nat
  <2>1. \A a, b \in Int : IsFiniteSet(a..b) BY FS_Interval
  <2>2. IsFiniteSet(Pairs)
    <3>1. IsFiniteSet(1..MaxRounds) /\ IsFiniteSet(Calls)
      <4>1. 1 \in Int /\ MaxRounds \in Int /\ NCalls \in Int OBVIOUS
      <4>2. QED BY <2>1, <4>1 DEF Calls
    <3>2. QED BY <3>1, FS_Product DEF Pairs
  <2>3. IsFiniteSet(asked) BY <2>2, FS_Subset DEF RoundTypes
  <2>4. QED BY <2>3, FS_CardinalityType
<1>5. n \in 1..NCalls BY <1>1, <1>4
<1>6. kind' \in Seq({"reader", "barrier"}) /\ Size' = n
  <2>1. n \in Nat /\ kind' \in [1..n -> {"reader", "barrier"}] BY <1>1, <1>5
  <2>2. QED BY <2>1 DEF Size
<1>7. Last' \in 1..Size'
  <2>1. first' \in 1..Size' BY <1>2, <1>3, <1>5, <1>6
  <2>2. QED BY <1>2, <1>3, <1>6, <2>1, NextGroupFits DEF GroupFits
<1>8. round' \in 1..MaxRounds /\ round \in Nat BY <1>2 DEF RoundTypes
<1>9. \A i \in 1..n : <<round + 1, i>> \in Pairs BY <1>2, <1>5, <1>8 DEF Calls
<1>10. asked' \subseteq Pairs BY <1>1, <1>9 DEF RoundTypes
<1>11. RoundTypes' BY <1>2, <1>5, <1>6, <1>8, <1>10 DEF RoundTypes
<1>12. PhaseInv' BY <1>2, <1>3, <1>5, <1>6, <1>7 DEF PhaseInv, Calls
<1>13. \A p \in asked : p[1] < round + 1
  <2>1. \A p \in asked : p[1] \in Nat /\ p[1] <= round BY DEF HistoryInv, RoundTypes
  <2>2. QED BY <1>8, <2>1
<1>14. \A e \in events \cup messages : e[1] \in asked BY DEF HistoryInv
<1>15. \A i \in Calls : <<round + 1, i>> \notin ran
  <2>1. ran \subseteq asked BY DEF HistoryInv
  <2>2. QED BY <1>8, <1>13, <2>1
<1>16. VerdictInv'
  <2>1. \A i \in Calls : call'[i] = "idle" /\ callVerdict'[i] = "none"
    BY <1>2 DEF PhaseInv
  <2>2. \A i \in Calls : <<round', i>> \notin ran' BY <1>2, <1>15
  <2>3. QED BY <2>1, <2>2 DEF VerdictInv, Agrees
<1>17. HistoryInv'
  <2>1. \A p \in asked' : p[1] <= round + 1
    <3>1. \A p \in asked : p[1] <= round + 1 BY <1>8, <1>13 DEF RoundTypes
    <3>2. \A p \in {round + 1} \X (1..n) : p[1] = round + 1 OBVIOUS
    <3>3. QED BY <1>1, <1>8, <3>1, <3>2
  <2>2. \A i \in 1..n : <<round + 1, i>> \in asked' BY <1>1
  <2>3. ran' \subseteq asked' /\ asked \subseteq asked' BY <1>1, <1>2 DEF HistoryInv
  <2>4. \A m \in messages : m[1][1] < round + 1 BY <1>13, <1>14
  <2>5. \A e \in events : e[1][1] # round + 1 BY <1>8, <1>13, <1>14
  <2>6. \A e \in events' \cup messages' :
           /\ e[1] \in asked'
           /\ e[2] = "ok" => e[1] \in ran'
           /\ e[2] = "refused" => e[1] \notin ran'
    BY <1>2, <2>3 DEF HistoryInv
  <2>7. \A e \in events', m \in messages' : e[1] = m[1] => e = m BY <1>2 DEF HistoryInv
  <2>8. QED BY <1>2, <1>6, <2>1, <2>2, <2>3, <2>4, <2>5, <2>6, <2>7 DEF HistoryInv
<1>18. StoredInv' BY <1>2 DEF StoredInv
<1>19. QED BY <1>11, <1>12, <1>16, <1>17, <1>18

\* The coordinator goes on to the next part of the round, or ends the turn.
LEMMA PhasesKeep ==
    ASSUME RoundInv, EndTurn \/ GroupCancelled \/ Dispatch \/ Drain
    PROVE  RoundInv'
<1> USE RoundAssumption DEF RoundInv
<1>1. UNCHANGED <<round, kind, first, next, call, ran, callVerdict, results, asked, messages,
                  events>>
  BY DEF EndTurn, GroupCancelled, Dispatch, Drain, coordVars
<1>2. Size' = Size /\ Group' = Group /\ Last' = Last BY <1>1, GroupStays
<1>3. \/ at = "model" /\ at' = "over"
      \/ at = "prepare" /\ at' = "finally" /\ next = first
      \/ at = "prepare" /\ at' = "run" /\ next = Last + 1
      \/ at = "run" /\ at' = "yield" /\ \A i \in Group : call[i] = "told"
  BY DEF EndTurn, GroupCancelled, Dispatch, Drain
<1>4. InRound' <=> InRound BY <1>3 DEF InRound
<1>5. RoundTypes' BY <1>1, <1>2, <1>3 DEF RoundTypes
<1>6. at # "model" => /\ Group = first..Last /\ Last \in first..Size
                      /\ first \in 1..Size /\ Size \in 0..NCalls
  <2>1. at # "model" => first \in 1..Size BY <1>3 DEF PhaseInv
  <2>2. QED BY <2>1, GroupIsAnInterval DEF RoundTypes, Size
<1>7. PhaseInv'
  <2>1. CASE at = "model" /\ at' = "over"
    BY <1>1, <1>2, <2>1 DEF PhaseInv, InRound
  <2>2. CASE at = "prepare" /\ at' = "finally" /\ next = first
    <3>1. \A i \in Calls : IF i < first THEN call[i] = "told" ELSE call[i] = "idle"
      BY <1>6, <2>2 DEF PhaseInv, Calls
    <3>2. results = {i \in Calls : call[i] = "told"}
      BY <1>6, <2>2, <3>1 DEF PhaseInv, Calls
    <3>3. results \subseteq 1..Size BY <1>6, <2>2 DEF PhaseInv
    <3>4. QED BY <1>1, <1>2, <1>4, <2>2, <3>1, <3>2, <3>3 DEF PhaseInv, InRound
  <2>3. CASE at = "prepare" /\ at' = "run" /\ next = Last + 1
    BY <1>1, <1>2, <1>4, <1>6, <2>3 DEF PhaseInv, InRound
  <2>4. CASE at = "run" /\ at' = "yield" /\ \A i \in Group : call[i] = "told"
    BY <1>1, <1>2, <1>4, <1>6, <2>4 DEF PhaseInv, InRound
  <2>5. QED BY <1>3, <2>1, <2>2, <2>3, <2>4
<1>8. VerdictInv' BY <1>1, <1>4 DEF VerdictInv
<1>9. HistoryInv' BY <1>1, <1>2, <1>4 DEF HistoryInv
<1>10. StoredInv' BY <1>1, <1>3, <1>4 DEF StoredInv
<1>11. QED BY <1>5, <1>7, <1>8, <1>9, <1>10


\* Where the group, its calls and the round are, while a round is under way.
LEMMA GroupNow ==
    ASSUME RoundInv, at \in {"prepare", "run", "yield"}
    PROVE  /\ Group = first..Last /\ Last \in first..Size /\ first \in 1..Size
           /\ Size \in 0..NCalls /\ InRound /\ round \in Nat
           /\ \A i \in Group : i \in Calls /\ i \in Nat
<1> USE RoundAssumption DEF RoundInv
<1>1. first \in 1..Size BY DEF PhaseInv
<1>2. Group = first..Last /\ Last \in first..Size
  BY <1>1, GroupIsAnInterval DEF RoundTypes
<1>3. Size \in 0..NCalls BY DEF RoundTypes, Size
<1>4. QED BY <1>1, <1>2, <1>3 DEF InRound, RoundTypes, Calls

\* Calls of the group are decided: none of them is told of or has run.
LEMMA DecidingKeeps ==
    ASSUME RoundInv, at = "prepare", at' \in {"prepare", "run"},
           UNCHANGED <<round, kind, first, ran, results, asked, messages, events>>,
           NEW some \in SUBSET Group,
           call' \in [Calls -> Places], callVerdict' \in [Calls -> Verdicts \cup {"none"}],
           \A i \in Calls \ some : call'[i] = call[i] /\ callVerdict'[i] = callVerdict[i],
           \A i \in some :
             \/ call'[i] = "ready" /\ callVerdict'[i] = "none"
             \/ call'[i] = "decided" /\ callVerdict'[i] \in Verdicts \ {"ok"},
           next' \in first..(Last + 1),
           at' = "prepare" => \A i \in Group :
             IF i < next' THEN call'[i] \in {"ready", "decided"} ELSE call'[i] = "idle",
           at' = "run" => \A i \in Group : call'[i] # "idle"
    PROVE  RoundInv'
<1> USE PairParts, GroupNow DEF RoundInv
<1>1. Size' = Size /\ Group' = Group /\ Last' = Last /\ InRound' BY GroupStays DEF InRound
<1>2. \A i \in some : i \in Calls /\ call[i] \in {"ready", "decided", "idle"}
  BY DEF PhaseInv
<1>3. \A i \in some : <<round, i>> \notin ran BY <1>2 DEF VerdictInv, Agrees
<1>4. RoundTypes' BY <1>1 DEF RoundTypes
<1>5. PhaseInv'
  <2>1. \A i \in Calls : (i < first => call'[i] = "told") /\ (i > Last => call'[i] = "idle")
    BY DEF PhaseInv
  <2>2. QED BY <1>1, <2>1 DEF PhaseInv
<1>6. VerdictInv'
  <2>1. ASSUME NEW i \in Calls PROVE Agrees(call'[i], callVerdict'[i], <<round, i>> \in ran)
    <3>1. CASE i \in some BY <1>3, <3>1 DEF Agrees
    <3>2. CASE i \notin some BY <3>2 DEF VerdictInv
    <3>3. QED BY <3>1, <3>2
  <2>2. QED BY <2>1 DEF VerdictInv
<1>7. HistoryInv'
  <2>1. ASSUME NEW e \in events, e[1][1] = round
        PROVE  call'[e[1][2]] = "told" /\ e[2] = callVerdict'[e[1][2]]
    <3>1. call[e[1][2]] = "told" /\ e[2] = callVerdict[e[1][2]] BY <2>1 DEF HistoryInv
    <3>2. e[1][2] \in Calls \ some BY <1>2, <3>1 DEF RoundTypes
    <3>3. QED BY <3>1, <3>2
  <2>2. QED BY <1>1, <2>1 DEF HistoryInv
<1>8. StoredInv' BY <1>1 DEF StoredInv
<1>9. QED BY <1>4, <1>5, <1>6, <1>7, <1>8

\* One call is refused, denied or made ready.
LEMMA PrepareCallKeeps ==
    ASSUME RoundInv, NEW said \in {"ready", "failed", "refused"}, PrepareCall(said)
    PROVE  RoundInv'
<1> USE GroupNow
<1>1. /\ at = "prepare" /\ next \in Group /\ next' = next + 1 /\ at' = at
      /\ UNCHANGED <<round, kind, first, ran, results, asked, messages, events>>
      /\ call' = [call EXCEPT ![next] = IF said = "ready" THEN "ready" ELSE "decided"]
      /\ callVerdict' = [callVerdict EXCEPT ![next] = IF said = "ready" THEN @ ELSE said]
  BY DEF PrepareCall, coordVars
<1>2. RoundTypes /\ PhaseInv /\ VerdictInv BY DEF RoundInv
<1>3. next \in Calls /\ next \in Nat BY <1>1
<1>4. /\ call' \in [Calls -> Places]
      /\ call'[next] = (IF said = "ready" THEN "ready" ELSE "decided")
      /\ \A i \in Calls : i # next => call'[i] = call[i]
  BY <1>1, <1>2, <1>3 DEF RoundTypes, Places
<1>5. /\ callVerdict' \in [Calls -> Verdicts \cup {"none"}]
      /\ callVerdict'[next] = (IF said = "ready" THEN callVerdict[next] ELSE said)
      /\ \A i \in Calls : i # next => callVerdict'[i] = callVerdict[i]
  BY <1>1, <1>2, <1>3 DEF RoundTypes, Verdicts
<1>6. call[next] = "idle" BY <1>1, <1>2, <1>3 DEF PhaseInv
<1>7. callVerdict[next] = "none" BY <1>1, <1>2, <1>3, <1>6 DEF VerdictInv, Agrees
<1>8. \A i \in {next} :
         \/ call'[i] = "ready" /\ callVerdict'[i] = "none"
         \/ call'[i] = "decided" /\ callVerdict'[i] \in Verdicts \ {"ok"}
  BY <1>4, <1>5, <1>7 DEF Verdicts
<1>9. next' \in first..(Last + 1) BY <1>1
<1>10. \A i \in Group :
         IF i < next' THEN call'[i] \in {"ready", "decided"} ELSE call'[i] = "idle"
  <2>1. ASSUME NEW i \in Group
        PROVE  IF i < next' THEN call'[i] \in {"ready", "decided"} ELSE call'[i] = "idle"
    <3>1. i \in Calls /\ i \in Nat /\ i \in first..Last BY <1>1
    <3>2. CASE i = next BY <1>1, <1>3, <1>4, <3>2
    <3>3. CASE i # next
      <4>1. IF i < next THEN call[i] \in {"ready", "decided"} ELSE call[i] = "idle"
        BY <1>1, <1>2, <3>1 DEF PhaseInv
      <4>2. QED BY <1>1, <1>3, <1>4, <3>1, <3>3, <4>1
    <3>4. QED BY <3>2, <3>3
  <2>2. QED BY <2>1
<1>11. {next} \in SUBSET Group BY <1>1
<1>12. \A i \in Calls \ {next} : call'[i] = call[i] /\ callVerdict'[i] = callVerdict[i]
  BY <1>4, <1>5
<1>13. QED BY <1>1, <1>4, <1>5, <1>8, <1>9, <1>10, <1>11, <1>12, DecidingKeeps


\* A cancellation decides the whole group, of which nothing has run.
LEMMA PrepareStoppedKeeps ==
    ASSUME RoundInv, PrepareStopped
    PROVE  RoundInv'
<1> USE GroupNow
<1>1. /\ at = "prepare" /\ next \in Group /\ at' = "run"
      /\ UNCHANGED <<round, kind, first, next, ran, results, asked, messages, events>>
      /\ call' = [i \in Calls |-> IF i \in Group THEN "decided" ELSE call[i]]
      /\ callVerdict' = [i \in Calls |-> IF i \in Group THEN "cancelled" ELSE callVerdict[i]]
  BY DEF PrepareStopped, coordVars
<1>2. RoundTypes BY DEF RoundInv
<1>3. call' \in [Calls -> Places] BY <1>1, <1>2 DEF RoundTypes, Places
<1>4. callVerdict' \in [Calls -> Verdicts \cup {"none"}] BY <1>1, <1>2 DEF RoundTypes, Verdicts
<1>5. \A i \in Calls \ Group : call'[i] = call[i] /\ callVerdict'[i] = callVerdict[i] BY <1>1
<1>6. \A i \in Group : call'[i] = "decided" /\ callVerdict'[i] = "cancelled" BY <1>1
<1>7. next' \in first..(Last + 1) BY <1>1
<1>8. "cancelled" \in Verdicts \ {"ok"} BY DEF Verdicts
<1>9. Group \in SUBSET Group OBVIOUS
<1>10. QED BY <1>1, <1>3, <1>4, <1>5, <1>6, <1>7, <1>8, <1>9, DecidingKeeps

\* A result is handed over; the event of a call that was not executed is stored here.
LEMMA YieldKeeps ==
    ASSUME RoundInv, NEW i \in Calls, NEW stop \in BOOLEAN, Yield(i, stop)
    PROVE  RoundInv'
<1> USE PairParts, GroupNow, RoundAssumption DEF RoundInv
<1>1. /\ at = "yield" /\ i \in Group \ results /\ \A j \in Group \ results : i <= j
      /\ results' = results \cup {i}
      /\ UNCHANGED <<round, kind, call, callVerdict, ran, asked, messages>>
      /\ events' = events \/ events' = events \cup {<<<<round, i>>, callVerdict[i]>>}
  BY DEF Yield, coordVars, Told
<1>2. \/ i < Last /\ UNCHANGED <<at, first, next>>
      \/ i = Last /\ at' = "finally" /\ UNCHANGED <<first, next>>
      \/ /\ i = Last /\ Last # Size
         /\ at' = "prepare" /\ first' = Last + 1 /\ next' = Last + 1
  BY DEF Yield
<1>3. /\ i \in first..Last /\ Last \in Nat /\ Last <= Size /\ first \in Nat /\ first >= 1
      /\ Size' = Size /\ InRound'
  BY <1>1, <1>2 DEF InRound, Size
<1>4. /\ \A k \in Calls : (k < first => call[k] = "told") /\ (k > Last => call[k] = "idle")
      /\ 1..(first - 1) \subseteq results /\ results \subseteq 1..Last
      /\ \A k \in first..Last : call[k] = "told"
  BY <1>1 DEF PhaseInv
<1>5. /\ call[i] = "told" /\ Agrees(call[i], callVerdict[i], <<round, i>> \in ran)
      /\ <<round, i>> \in asked
  <2>1. i \in 1..Size BY <1>1, <1>3
  <2>2. QED BY <1>1, <1>3, <1>4, <2>1 DEF VerdictInv, HistoryInv
<1>6. callVerdict[i] \in Verdicts BY <1>5 DEF Agrees
<1>7. ASSUME NEW e \in events', e \notin events
      PROVE  /\ e[1] = <<round, i>> /\ e[1][1] = round /\ e[1][2] = i /\ e[2] = callVerdict[i]
             /\ e \in Pairs \X Verdicts
  <2>1. <<round, i>> \in Pairs BY <1>5 DEF RoundTypes
  <2>2. QED BY <1>1, <1>6, <1>7, <2>1
<1>8. RoundTypes'
  <2>1. events' \subseteq Pairs \X Verdicts BY <1>7 DEF RoundTypes
  <2>2. first' \in Nat /\ next' \in Nat BY <1>2, <1>3 DEF RoundTypes
  <2>3. at' \in {"prepare", "yield", "finally"} BY <1>1, <1>2
  <2>4. QED BY <1>1, <1>3, <2>1, <2>2, <2>3 DEF RoundTypes
<1>9. PhaseInv'
  <2>1. CASE i < Last /\ UNCHANGED <<at, first, next>>
    <3>1. Last' = Last BY <1>1, <2>1, GroupStays
    <3>2. results' \subseteq 1..Last BY <1>1, <1>3, <1>4
    <3>3. QED BY <1>1, <1>3, <1>4, <2>1, <3>1, <3>2 DEF PhaseInv
  <2>2. ASSUME i = Last PROVE results' = 1..Last
    <3>1. ASSUME NEW j \in 1..Last PROVE j \in results'
      <4>1. CASE j < first BY <1>1, <1>3, <1>4, <3>1, <4>1
      <4>2. CASE j >= first
        <5>1. j \in Group BY <1>1, <1>3, <3>1, <4>2
        <5>2. j \in results \/ j = i BY <1>1, <1>3, <2>2, <3>1, <5>1
        <5>3. QED BY <1>1, <5>2
      <4>3. QED BY <1>3, <3>1, <4>1, <4>2
    <3>2. results' \subseteq 1..Last BY <1>1, <1>3, <1>4
    <3>3. QED BY <3>1, <3>2
  <2>3. \A k \in Calls : IF k <= Last THEN call[k] = "told" ELSE call[k] = "idle"
    BY <1>3, <1>4 DEF Calls
  <2>4. CASE i = Last /\ at' = "finally" /\ UNCHANGED <<first, next>>
    <3>1. results' = {k \in Calls : call[k] = "told"}
      <4>1. \A k \in 1..Last : k \in Calls /\ k <= Last BY <1>1, <1>3 DEF Calls
      <4>2. \A k \in Calls : call[k] = "told" => k \in 1..Last BY <1>3, <2>3 DEF Calls
      <4>3. \A k \in 1..Last : k \in Calls /\ call[k] = "told" BY <2>3, <4>1
      <4>4. QED BY <2>2, <2>4, <4>2, <4>3
    <3>2. results' \subseteq 1..Size'
      <4>1. Size \in Nat BY <1>1
      <4>2. 1..Last \subseteq 1..Size BY <1>3, <4>1
      <4>3. QED BY <1>3, <2>2, <2>4, <4>2
    <3>3. QED BY <1>1, <1>3, <2>3, <2>4, <3>1, <3>2 DEF PhaseInv
  <2>5. CASE /\ i = Last /\ Last # Size
             /\ at' = "prepare" /\ first' = Last + 1 /\ next' = Last + 1
    <3>1. first' \in 1..Size' /\ kind' \in Seq({"reader", "barrier"})
      BY <1>1, <1>3, <2>5 DEF RoundTypes
    <3>2. Last' \in first'..Size' BY <3>1, NextGroupFits DEF GroupFits
    <3>3. Last' \in Nat /\ Last' > Last BY <1>3, <2>5, <3>2
    <3>4. \A k \in Calls : k \in Nat BY DEF Calls
    <3>5. \A k \in Calls : (k < first' => call'[k] = "told") /\ (k > Last' => call'[k] = "idle")
      BY <1>1, <1>3, <2>3, <2>5, <3>3, <3>4
    <3>6. \A k \in first'..Last' : k \in Calls /\ call'[k] = "idle" /\ ~(k < next')
      <4>1. \A k \in first'..Last' : k \in Calls /\ k > Last /\ k \in Nat
        BY <1>1, <1>3, <2>5, <3>2, <3>3 DEF Calls
      <4>2. QED BY <1>1, <1>3, <2>3, <2>5, <4>1
    <3>7. results' = 1..(first' - 1) BY <1>3, <2>2, <2>5
    <3>8. next' \in first'..(Last' + 1) BY <1>3, <2>5, <3>3
    <3>9. QED BY <1>3, <2>5, <3>1, <3>5, <3>6, <3>7, <3>8 DEF PhaseInv
  <2>6. QED BY <1>2, <2>1, <2>4, <2>5
<1>10. VerdictInv' BY <1>1 DEF VerdictInv
<1>11. HistoryInv'
  <2>1. ASSUME NEW e \in events' \cup messages'
        PROVE  /\ e[1] \in asked
               /\ e[2] = "ok" => e[1] \in ran
               /\ e[2] = "refused" => e[1] \notin ran
    <3>1. CASE e \in events \cup messages BY <3>1 DEF HistoryInv
    <3>2. CASE e \notin events \cup messages BY <1>1, <1>5, <1>7, <2>1, <3>2 DEF Agrees
    <3>3. QED BY <3>1, <3>2
  <2>2. ASSUME NEW e \in events', NEW m \in messages', e[1] = m[1] PROVE e = m
    <3>1. CASE e \in events BY <1>1, <2>2, <3>1 DEF HistoryInv
    <3>2. CASE e \notin events
      <4>1. e[1][1] = round BY <1>7, <3>2
      <4>2. m[1][1] < round BY <1>1 DEF HistoryInv
      <4>3. QED BY <1>1, <2>2, <4>1, <4>2
    <3>3. QED BY <3>1, <3>2
  <2>3. ASSUME NEW e \in events', e[1][1] = round
        PROVE  call[e[1][2]] = "told" /\ e[2] = callVerdict[e[1][2]]
    <3>1. CASE e \in events BY <1>1, <2>3, <3>1 DEF HistoryInv
    <3>2. CASE e \notin events BY <1>5, <1>7, <3>2
    <3>3. QED BY <3>1, <3>2
  <2>4. QED BY <1>1, <1>3, <2>1, <2>2, <2>3 DEF HistoryInv
<1>12. StoredInv' BY <1>1, <1>3 DEF StoredInv, InRound
<1>13. QED BY <1>8, <1>9, <1>10, <1>11, <1>12


\* The round is left with the messages of the results kept: all of them, unless it crashes.
LEMMA LeavingKeeps ==
    ASSUME RoundInv, NoRound, at' \in {"model", "over", "crashed"},
           UNCHANGED <<round, ran, asked, events>>,
           NEW kept \in SUBSET results, kept # {} => at = "finally",
           messages' = messages \cup {Told(i) : i \in kept},
           at' # "crashed" => at = "finally" /\ kept = results
    PROVE  RoundInv'
<1> USE PairParts, RoundAssumption DEF RoundInv
<1>1. /\ kind' = << >> /\ first' = 1 /\ next' = 1 /\ results' = {}
      /\ \A i \in Calls : call'[i] = "idle" /\ callVerdict'[i] = "none"
      /\ call' = [i \in Calls |-> "idle"] /\ callVerdict' = [i \in Calls |-> "none"]
      /\ ~InRound'
  BY DEF NoRound, InRound
<1>2. at = "finally" =>
        /\ InRound /\ results = {i \in Calls : call[i] = "told"} /\ results \subseteq 1..Size
        /\ \A i \in Calls : call[i] \in {"idle", "told"}
  BY DEF PhaseInv, InRound
<1>3. ASSUME NEW i \in kept
      PROVE  /\ i \in Calls /\ call[i] = "told" /\ <<round, i>> \in asked /\ InRound
             /\ Agrees("told", callVerdict[i], <<round, i>> \in ran)
             /\ Told(i) = <<<<round, i>>, callVerdict[i]>>
  BY <1>2, <1>3 DEF Told, VerdictInv, HistoryInv
<1>4. ASSUME NEW m \in messages', m \notin messages
      PROVE  \E i \in kept : m = <<<<round, i>>, callVerdict[i]>>
  <2>1. PICK i \in kept : m = Told(i) BY <1>4
  <2>2. QED BY <1>3, <2>1
<1>5. RoundTypes'
  <2>1. messages' \subseteq Pairs \X Verdicts
    <3>1. ASSUME NEW i \in kept PROVE <<<<round, i>>, callVerdict[i]>> \in Pairs \X Verdicts
      BY <1>3, <3>1 DEF RoundTypes, Agrees
    <3>2. QED BY <1>4, <3>1 DEF RoundTypes
  <2>2. kind' \in Seq({"reader", "barrier"}) /\ Size' <= NCalls BY <1>1 DEF Size
  <2>3. QED BY <1>1, <2>1, <2>2 DEF RoundTypes, Places
<1>6. PhaseInv' BY <1>1 DEF PhaseInv, InRound
<1>7. VerdictInv' BY <1>1 DEF VerdictInv
<1>8. HistoryInv'
  <2>1. ASSUME NEW m \in messages'
        PROVE  /\ m[1] \in asked
               /\ m[2] = "ok" => m[1] \in ran
               /\ m[2] = "refused" => m[1] \notin ran
    <3>1. CASE m \in messages BY <3>1 DEF HistoryInv
    <3>2. CASE m \notin messages
      <4>1. PICK i \in kept : m = <<<<round, i>>, callVerdict[i]>> BY <1>4, <3>2
      <4>2. QED BY <1>3, <4>1 DEF Agrees
    <3>3. QED BY <3>1, <3>2
  <2>2. ASSUME NEW e \in events, NEW m \in messages', e[1] = m[1] PROVE e = m
    <3>1. CASE m \in messages BY <2>2, <3>1 DEF HistoryInv
    <3>2. CASE m \notin messages
      <4>1. PICK i \in kept : m = <<<<round, i>>, callVerdict[i]>> BY <1>4, <3>2
      <4>2. e[1] = <<round, i>> /\ e[1][1] = round /\ e[1][2] = i BY <2>2, <4>1
      <4>3. e[2] = callVerdict[i] BY <1>3, <4>2 DEF HistoryInv
      <4>4. e = <<e[1], e[2]>> BY DEF RoundTypes
      <4>5. QED BY <4>1, <4>2, <4>3, <4>4
    <3>3. QED BY <3>1, <3>2
  <2>3. QED BY <1>1, <2>1, <2>2 DEF HistoryInv
<1>9. StoredInv'
  <2>1. SUFFICES ASSUME at' # "crashed", NEW p \in ran PROVE \E m \in messages' : m[1] = p
    BY <1>1 DEF StoredInv
  <2>2. p \in Pairs /\ p[1] \in Nat /\ p[1] <= round /\ round \in Nat
    BY DEF RoundTypes, HistoryInv
  <2>3. CASE p[1] < round BY <1>2, <2>1, <2>3 DEF StoredInv
  <2>4. CASE p[1] = round
    <3>1. p = <<round, p[2]>> /\ p[2] \in Calls BY <2>2, <2>4
    <3>2. call[p[2]] = "told" BY <1>2, <2>1, <3>1 DEF VerdictInv, Agrees
    <3>3. p[2] \in kept BY <1>2, <2>1, <3>1, <3>2
    <3>4. Told(p[2]) \in messages' /\ Told(p[2])[1] = p BY <3>1, <3>3 DEF Told
    <3>5. QED BY <3>4
  <2>5. QED BY <2>2, <2>3, <2>4
<1>10. QED BY <1>5, <1>6, <1>7, <1>8, <1>9

\* The finally of the round stores every result, whatever ended the round.
LEMMA CloseRoundKeeps ==
    ASSUME RoundInv, NEW fails, CloseRound(fails)
    PROVE  RoundInv'
<1>1. /\ NoRound /\ at' \in {"model", "over"} /\ at = "finally"
      /\ UNCHANGED <<round, ran, asked, events>>
      /\ messages' = messages \cup {Told(i) : i \in results}
  BY DEF CloseRound
<1>2. results \in SUBSET results OBVIOUS
<1>3. QED BY <1>1, <1>2, LeavingKeeps

\* The messages are stored one by one: a crash may come between two of them.
LEMMA CrashKeeps ==
    ASSUME RoundInv, Crash
    PROVE  RoundInv'
<1>1. /\ NoRound /\ at' = "crashed" /\ UNCHANGED <<round, ran, asked, events>>
  BY DEF Crash
<1>2. CASE UNCHANGED messages
  <2>1. {} \in SUBSET results /\ messages' = messages \cup {Told(i) : i \in {}} BY <1>2
  <2>2. QED BY <1>1, <2>1, LeavingKeeps
<1>3. CASE /\ at = "finally"
           /\ \E n \in results :
                messages' = messages \cup {Told(i) : i \in {j \in results : j <= n}}
  <2>1. PICK n \in results :
          messages' = messages \cup {Told(i) : i \in {j \in results : j <= n}}
    BY <1>3
  <2>2. {j \in results : j <= n} \in SUBSET results OBVIOUS
  <2>3. QED BY <1>1, <1>3, <2>1, <2>2, LeavingKeeps
<1>4. QED BY <1>2, <1>3 DEF Crash

\* No round, nothing stored.
LEMMA RoundInitial ==
    ASSUME ToolRoundInit
    PROVE  RoundInv
<1> USE RoundAssumption DEF ToolRoundInit, InRound
<1>1. RoundTypes BY DEF RoundTypes, Places, Size
<1>2. PhaseInv BY DEF PhaseInv
<1>3. VerdictInv BY DEF VerdictInv
<1>4. HistoryInv BY DEF HistoryInv
<1>5. StoredInv BY DEF StoredInv
<1>6. QED BY <1>1, <1>2, <1>3, <1>4, <1>5 DEF RoundInv

\* Every step of the coordinator, of a worker, of another agent and of the owner.
LEMMA RoundStep ==
    ASSUME RoundInv, [ToolRoundNext]_roundVars
    PROVE  RoundInv'
<1>1. ASSUME Rival \/ CancelRound \/ UNCHANGED roundVars PROVE RoundInv'
  BY <1>1, RoundRests DEF Rival, CancelRound, roundVars
<1>2. ASSUME Coordinator PROVE RoundInv'
  BY <1>2, PhasesKeep, PrepareCallKeeps, PrepareStoppedKeeps, YieldKeeps, CloseRoundKeeps
     DEF Coordinator
<1>3. QED
  BY <1>1, <1>2, WorkerStep, BeginRoundKeeps, PhasesKeep, CrashKeeps DEF ToolRoundNext


\* However many calls run at once, in whatever order they end: the handler of a call that is
\* not a reader has the round for itself.
THEOREM BarriersRunAloneTheorem == ToolRoundSpec => []BarriersRunAlone
<1>1. RoundInv => BarriersRunAlone
  <2>1. SUFFICES ASSUME RoundInv, NEW i \in 1..Size, at = "run", call[i] = "entered",
                        kind[i] = "barrier", NEW j \in Calls \ {i}
                 PROVE  call[j] = IF j < i THEN "told" ELSE "idle"
    BY DEF BarriersRunAlone
  <2>2. /\ Group = first..Last /\ Last \in first..Size /\ first \in 1..Size
        /\ Size \in 0..NCalls
    BY <2>1, GroupNow
  <2>3. /\ \A k \in Calls : (k < first => call[k] = "told") /\ (k > Last => call[k] = "idle")
        /\ kind \in Seq({"reader", "barrier"})
    BY <2>1 DEF RoundInv, PhaseInv, RoundTypes
  <2>4. i \in Calls BY <2>2, RoundAssumption DEF Calls
  <2>5. i \in Group BY <2>1, <2>2, <2>3, <2>4
  <2>6. i = first /\ i = Last BY <2>1, <2>2, <2>3, <2>5, GroupIsAnInterval
  <2>7. QED BY <2>1, <2>2, <2>3, <2>6 DEF Calls
<1>2. QED BY RoundInitial, RoundStep, <1>1, PTL DEF ToolRoundSpec

\* Whatever ends a turn in this process, the calls that ran have their results.
THEOREM RanCallsHaveResultsTheorem == ToolRoundSpec => []RanCallsHaveResults
<1>1. RoundInv => RanCallsHaveResults
  <2>1. SUFFICES ASSUME RoundInv, at = "over", NEW p \in ran
                 PROVE  Restored(p[1], p[2]) # {}
    BY DEF RanCallsHaveResults
  <2>2. p = <<p[1], p[2]>> BY <2>1, PairParts DEF RoundInv, RoundTypes
  <2>3. \E m \in messages : m[1] = p BY <2>1 DEF RoundInv, StoredInv
  <2>4. QED BY <2>2, <2>3 DEF Restored
<1>2. QED BY RoundInitial, RoundStep, <1>1, PTL DEF ToolRoundSpec

\* Ids that are not repeated name one call of the turn.
LEMMA IdsNameOneCall ==
    ASSUME FreshIds, NEW p \in Pairs, NEW q \in Pairs, CallId(p[1], p[2]) = CallId(q[1], q[2])
    PROVE  p = q
<1> USE RoundAssumption, PairParts
<1>1. /\ p[1] \in Nat /\ q[1] \in Nat /\ p[1] >= 1 /\ q[1] >= 1
      /\ p[2] \in 1..NCalls /\ q[2] \in 1..NCalls
  BY DEF Calls
<1>2. (p[1] - 1) * NCalls + p[2] = (q[1] - 1) * NCalls + q[2] BY DEF CallId
<1>3. \A a, b \in Nat : a < b => a * NCalls + NCalls <= b * NCalls
  <2>1. SUFFICES ASSUME NEW a \in Nat, NEW b \in Nat, a < b
                 PROVE  a * NCalls + NCalls <= b * NCalls
    OBVIOUS
  <2>2. a * NCalls + NCalls = (a + 1) * NCalls OBVIOUS
  <2>3. PICK c \in Nat : b = a + 1 + c
    <3>1. b - a - 1 \in Nat /\ b = a + 1 + (b - a - 1) BY <2>1
    <3>2. QED BY <3>1
  <2>4. b * NCalls = (a + 1) * NCalls + c * NCalls BY <2>3
  <2>5. c * NCalls \in Nat BY <2>3
  <2>6. a * NCalls \in Nat BY <2>1
  <2>7. QED BY <2>2, <2>4, <2>5, <2>6
<1>4. p[1] = q[1]
  <2> DEFINE a == p[1] - 1  b == q[1] - 1
  <2>1. a \in Nat /\ b \in Nat BY <1>1
  <2>2. a * NCalls \in Nat /\ b * NCalls \in Nat BY <2>1
  <2>3. a * NCalls + p[2] = b * NCalls + q[2] BY <1>2
  <2> HIDE DEF a, b
  <2>4. ~(a < b) BY <1>1, <1>3, <2>1, <2>2, <2>3
  <2>5. ~(b < a) BY <1>1, <1>3, <2>1, <2>2, <2>3
  <2>6. a = b BY <2>1, <2>4, <2>5
  <2>7. QED BY <1>1, <2>6 DEF a, b
<1>5. p[2] = q[2] BY <1>1, <1>2, <1>4
<1>6. QED BY <1>4, <1>5

\* Two things in a set of one element are the same.
LEMMA OneElement ==
    ASSUME NEW S, Cardinality(S) = 1, NEW x \in S, NEW y \in S, IsFiniteSet(S)
    PROVE  x = y
<1>1. \E z : S = {z} BY FS_Singleton
<1>2. QED BY <1>1


\* What is looked for among the events of a turn is finite.
LEMMA EventsAreFinite ==
    ASSUME RoundInv
    PROVE  IsFiniteSet(events)
<1>1. \A a, b \in Int : IsFiniteSet(a..b) BY FS_Interval
<1>2. 1 \in Int /\ MaxRounds \in Int /\ NCalls \in Int BY RoundAssumption
<1>3. IsFiniteSet(1..MaxRounds) /\ IsFiniteSet(Calls) BY <1>1, <1>2 DEF Calls
<1>4. IsFiniteSet(Pairs) BY <1>3, FS_Product DEF Pairs
<1>5. IsFiniteSet(Verdicts)
  <2>1. /\ IsFiniteSet({"ok"}) /\ IsFiniteSet({"failed"})
        /\ IsFiniteSet({"cancelled"}) /\ IsFiniteSet({"refused"})
    BY FS_Singleton
  <2>2. IsFiniteSet({"ok"} \cup {"failed"}) /\ IsFiniteSet({"cancelled"} \cup {"refused"})
    BY <2>1, FS_Union
  <2>3. Verdicts = ({"ok"} \cup {"failed"}) \cup ({"cancelled"} \cup {"refused"})
    BY DEF Verdicts
  <2>4. QED BY <2>2, <2>3, FS_Union
<1>6. IsFiniteSet(Pairs \X Verdicts) BY <1>4, <1>5, FS_Product
<1>7. QED BY <1>6, FS_Subset DEF RoundInv, RoundTypes

\* When no id is repeated within the turn: whatever the crash, the stop or the cancellation,
\* and whichever events were lost, what is rebuilt of a call is what happened to it.
THEOREM RestoredIsTrueTheorem == ASSUME FreshIds PROVE ToolRoundSpec => []RestoredIsTrue
<1>1. ASSUME RoundInv PROVE RestoredIsTrue
  <2> USE PairParts DEF RoundInv
  <2>1. SUFFICES ASSUME NEW p \in asked, NEW m \in Restored(p[1], p[2])
                 PROVE  /\ m[1] = p
                        /\ m[2] = "ok" => p \in ran
                        /\ m[2] = "refused" => p \notin ran
                        /\ \A e \in events : e[1] = p => e = m
    BY <1>1 DEF RestoredIsTrue
  <2>2. p \in Pairs /\ p = <<p[1], p[2]>> BY <1>1, <2>1 DEF RoundTypes
  <2>3. CASE m \in messages /\ m[1] = p
    BY <1>1, <2>3 DEF HistoryInv
  <2>4. CASE m \notin messages \/ m[1] # p
    <3> DEFINE found == {e \in events : CallId(e[1][1], e[1][2]) = CallId(p[1], p[2])}
    <3>1. m \in found /\ Cardinality(found) = 1
      BY <2>1, <2>2, <2>4 DEF Restored, Observations
    <3>2. IsFiniteSet(found) BY <1>1, EventsAreFinite, FS_Subset
    <3>3. m \in events /\ CallId(m[1][1], m[1][2]) = CallId(p[1], p[2]) BY <3>1
    <3>4. m[1] \in Pairs BY <1>1, <3>3 DEF RoundTypes
    <3>5. m[1] = p BY <2>2, <3>3, <3>4, IdsNameOneCall
    <3>6. ASSUME NEW e \in events, e[1] = p PROVE e = m
      <4>1. e \in found BY <3>6
      <4>2. QED BY <3>1, <3>2, <4>1, OneElement
    <3>7. QED BY <1>1, <3>3, <3>5, <3>6 DEF HistoryInv
  <2>5. QED BY <2>3, <2>4
<1>2. QED BY RoundInitial, RoundStep, <1>1, PTL DEF ToolRoundSpec


-----------------------------------------------------------------------------
(***************************************************************************)
(* The gate of the shared pool: its counter is the calls that hold a slot, *)
(* so it never drifts, whatever leaves the pool and how.                   *)
(***************************************************************************)

\* The calls of this round that hold a slot.
InPool == IF at = "run" /\ Pooled THEN {i \in Group : call[i] \in {"running", "entered"}} ELSE {}

RestTypes ==
    /\ executed \subseteq Calls /\ ending \in BOOLEAN /\ roundToken \in BOOLEAN
    /\ rival \in {"none", "ticket", "works", "gone"}

\* Every slot in use is held, the limit is kept, and an agent that asked for a limit of
\* one works alone (_run_gated).
SlotsAreHeld ==
    /\ active = Cardinality(InPool) + (IF rival = "works" THEN 1 ELSE 0)
    /\ active <= Limit
    /\ rival = "works" => InPool = {}

GateInv == RestTypes /\ SlotsAreHeld

\* The calls in the pool can be counted.
LEMMA PoolIsFinite ==
    ASSUME RoundInv
    PROVE  /\ InPool \subseteq Calls /\ IsFiniteSet(InPool) /\ Cardinality(InPool) \in 0..NCalls
           /\ IsFiniteSet(Calls)
<1>1. IsFiniteSet(Calls) /\ Cardinality(Calls) = NCalls
  <2>1. 1 \in Int /\ NCalls \in Int /\ ~(1 > NCalls) BY RoundAssumption
  <2>2. IsFiniteSet(1..NCalls) /\ Cardinality(1..NCalls) = NCalls - 1 + 1 BY <2>1, FS_Interval
  <2>3. QED BY <2>1, <2>2 DEF Calls
<1>2. InPool \subseteq Calls BY GroupNow DEF InPool
<1>3. IsFiniteSet(InPool) /\ Cardinality(InPool) <= Cardinality(Calls)
  BY <1>1, <1>2, FS_Subset
<1>4. Cardinality(InPool) \in Nat BY <1>3, FS_CardinalityType
<1>5. QED BY <1>1, <1>2, <1>3, <1>4, RoundAssumption

\* No call enters or leaves the pool.
LEMMA PoolRests ==
    ASSUME GateInv, InPool' = InPool, UNCHANGED <<active, rival>>, RestTypes'
    PROVE  GateInv'
BY DEF GateInv, SlotsAreHeld

\* A worker takes a slot at the gate and gives it back when its call ends.
LEMMA WorkerHolds ==
    ASSUME RoundInv, GateInv, NEW i \in Calls, Worker(i)
    PROVE  GateInv'
<1> USE PoolIsFinite, RoundAssumption
<1>1. /\ at = "run" /\ at' = "run" /\ RestTypes' /\ rival' = rival
      /\ Group' = Group /\ (Pooled' <=> Pooled)
  <2>1. at = "run" /\ UNCHANGED workVars
    BY DEF Worker, Start, Enter, NotEntered, Leave, Complete
  <2>2. Group' = Group BY <2>1, GroupStays DEF workVars
  <2>3. QED BY <2>1, <2>2 DEF workVars, RestTypes, GateInv, Pooled
<1>2. call \in [Calls -> Places] BY DEF RoundInv, RoundTypes
<1>3. ASSUME NEW place, call' = [call EXCEPT ![i] = place]
      PROVE  call'[i] = place /\ \A j \in Calls : j # i => call'[j] = call[j]
  BY <1>2, <1>3
<1>4. Group \subseteq Calls BY <1>1, GroupNow
<1>5. call[i] \notin {"idle", "told"} => i \in Group
  BY <1>1, GroupNow DEF RoundInv, PhaseInv, Calls
<1>6. CASE Start(i)
  <2>1. CASE call[i] = "ready" /\ call' = [call EXCEPT ![i] = "running"] /\ active' = active + Slot
    <3>1. CASE Pooled
      <4>1. InPool' = InPool \cup {i} /\ i \notin InPool
        BY <1>1, <1>3, <1>4, <1>6, <2>1, <3>1 DEF InPool, Start
      <4>2. Cardinality(InPool') = Cardinality(InPool) + 1 BY <4>1, FS_AddElement
      <4>3. active' = active + 1 /\ active < Ceiling BY <1>6, <2>1, <3>1 DEF Slot, Start
      <4>4. rival # "works"
        BY <4>3 DEF Ceiling, GateInv, SlotsAreHeld
      <4>5. active' <= Limit
        BY <4>3 DEF Ceiling, GateInv, SlotsAreHeld
      <4>6. QED BY <1>1, <4>2, <4>3, <4>4, <4>5 DEF GateInv, SlotsAreHeld
    <3>2. CASE ~Pooled
      <4>1. InPool' = InPool BY <1>1, <3>2 DEF InPool
      <4>2. active' = active BY <2>1, <3>2 DEF Slot, GateInv, SlotsAreHeld
      <4>3. QED BY <1>1, <4>1, <4>2, PoolRests
    <3>3. QED BY <3>1, <3>2
  <2>2. CASE /\ call[i] \in {"decided", "ready"} /\ call' = [call EXCEPT ![i] = "ran"]
             /\ active' = active
    <3>1. InPool' = InPool BY <1>1, <1>3, <1>4, <2>2 DEF InPool
    <3>2. QED BY <1>1, <2>2, <3>1, PoolRests
  <2>3. QED BY <1>6, <2>1, <2>2 DEF Start
<1>7. CASE Enter(i)
  <2>1. InPool' = InPool BY <1>1, <1>3, <1>4, <1>7 DEF InPool, Enter
  <2>2. QED BY <1>1, <1>7, <2>1, PoolRests DEF Enter
<1>8. CASE NotEntered(i) \/ \E v \in Verdicts : Leave(i, v)
  <2>1. /\ call[i] \in {"running", "entered"} /\ call' = [call EXCEPT ![i] = "ran"]
        /\ active' = active - Slot
    BY <1>8 DEF NotEntered, Leave
  <2>2. CASE Pooled
    <3>1. InPool' = InPool \ {i} /\ i \in InPool
      BY <1>1, <1>3, <1>4, <1>5, <2>1, <2>2 DEF InPool
    <3>2. Cardinality(InPool') = Cardinality(InPool) - 1 BY <3>1, FS_RemoveElement
    <3>3. active' = active - 1 BY <2>1, <2>2 DEF Slot
    <3>4. QED BY <1>1, <3>1, <3>2, <3>3 DEF GateInv, SlotsAreHeld
  <2>3. CASE ~Pooled
    <3>1. InPool' = InPool BY <1>1, <2>3 DEF InPool
    <3>2. active' = active BY <2>1, <2>3 DEF Slot, GateInv, SlotsAreHeld
    <3>3. QED BY <1>1, <3>1, <3>2, PoolRests
  <2>4. QED BY <2>2, <2>3
<1>9. CASE \E stored \in BOOLEAN : Complete(i, stored)
  <2>1. InPool' = InPool BY <1>1, <1>3, <1>4, <1>9 DEF InPool, Complete
  <2>2. QED BY <1>1, <1>9, <2>1, PoolRests DEF Complete
<1>10. QED BY <1>6, <1>7, <1>8, <1>9 DEF Worker

\* The coordinator moves on only when nothing of the round is in the pool.
LEMMA CoordinatorHolds ==
    ASSUME RoundInv, GateInv, BeginRound \/ EndTurn \/ Coordinator
    PROVE  GateInv'
<1>1. CASE \E o \in {"ready", "failed", "refused"} : PrepareCall(o)
  <2>1. at = "prepare" /\ at' = "prepare" /\ UNCHANGED <<active, rival, ending, roundToken>>
    BY <1>1 DEF PrepareCall, coordVars
  <2>2. next \in Calls BY <1>1, <2>1, GroupNow DEF PrepareCall
  <2>3. RestTypes' BY <1>1, <2>1, <2>2 DEF PrepareCall, coordVars, RestTypes, GateInv
  <2>4. InPool' = InPool BY <2>1 DEF InPool
  <2>5. QED BY <2>1, <2>3, <2>4, PoolRests
<1>2. CASE Dispatch
  <2>1. /\ at = "prepare" /\ UNCHANGED <<kind, first, call>> /\ next = Last + 1
        /\ UNCHANGED <<executed, ending, roundToken, active, rival>>
    BY <1>2 DEF Dispatch, coordVars
  <2>2. Group' = Group BY <2>1, GroupStays
  <2>3. \A i \in Group : call[i] \in {"ready", "decided"}
    BY <2>1, GroupNow DEF RoundInv, PhaseInv
  <2>4. InPool' = InPool BY <2>1, <2>2, <2>3 DEF InPool
  <2>5. RestTypes' BY <2>1 DEF RestTypes, GateInv
  <2>6. QED BY <2>1, <2>4, <2>5, PoolRests
<1>3. CASE PrepareStopped
  <2>1. /\ at = "prepare" /\ UNCHANGED <<kind, first, executed, ending, roundToken>>
        /\ UNCHANGED <<active, rival>>
        /\ call' = [i \in Calls |-> IF i \in Group THEN "decided" ELSE call[i]]
    BY <1>3 DEF PrepareStopped, coordVars
  <2>2. Group' = Group /\ Group \subseteq Calls BY <2>1, GroupStays, GroupNow
  <2>3. InPool' = InPool BY <2>1, <2>2 DEF InPool
  <2>4. RestTypes' BY <2>1 DEF RestTypes, GateInv
  <2>5. QED BY <2>1, <2>3, <2>4, PoolRests
<1>4. CASE Drain
  <2>1. /\ at = "run" /\ at' = "yield" /\ UNCHANGED <<executed, ending, roundToken, active, rival>>
        /\ \A i \in Group : call[i] = "told"
    BY <1>4 DEF Drain, coordVars
  <2>2. InPool' = InPool BY <2>1 DEF InPool
  <2>3. RestTypes' BY <2>1 DEF RestTypes, GateInv
  <2>4. QED BY <2>1, <2>2, <2>3, PoolRests
<1>5. CASE BeginRound \/ EndTurn \/ GroupCancelled
  <2>1. /\ at \in {"model", "prepare"} /\ at' \in {"prepare", "over", "finally"}
        /\ UNCHANGED <<executed, roundToken, active, rival>>
        /\ ending' = ending \/ ending' = TRUE
    BY <1>5 DEF BeginRound, EndTurn, GroupCancelled, coordVars
  <2>2. InPool' = InPool BY <2>1 DEF InPool
  <2>3. RestTypes' BY <2>1 DEF RestTypes, GateInv
  <2>4. QED BY <2>1, <2>2, <2>3, PoolRests
<1>6. CASE \E i \in Calls, stop \in BOOLEAN : Yield(i, stop)
  <2>1. /\ at = "yield" /\ at' \in {"yield", "finally", "prepare"}
        /\ UNCHANGED <<executed, roundToken, active, rival>>
    BY <1>6 DEF Yield, coordVars
  <2>2. ending' \in BOOLEAN
    <3>1. PICK i \in Calls, stop \in BOOLEAN : ending' = (i = Last /\ (stop \/ roundToken))
      BY <1>6, Zenon DEF Yield
    <3>2. QED BY <3>1
  <2>3. InPool' = InPool BY <2>1 DEF InPool
  <2>4. RestTypes' BY <2>1, <2>2 DEF RestTypes, GateInv
  <2>5. QED BY <2>1, <2>3, <2>4, PoolRests
<1>7. CASE \E fails \in BOOLEAN : CloseRound(fails)
  <2>1. /\ at = "finally" /\ at' \in {"over", "model"} /\ UNCHANGED <<roundToken, active, rival>>
        /\ executed' = {} /\ ending' = FALSE
    BY <1>7 DEF CloseRound, NoRound
  <2>2. InPool' = InPool BY <2>1 DEF InPool
  <2>3. RestTypes' BY <2>1 DEF RestTypes, GateInv
  <2>4. QED BY <2>1, <2>2, <2>3, PoolRests
<1>8. QED BY <1>1, <1>2, <1>3, <1>4, <1>5, <1>6, <1>7 DEF Coordinator

\* The other agent, the owner and the crash.
LEMMA OthersHold ==
    ASSUME RoundInv, GateInv, Rival \/ CancelRound \/ Crash \/ UNCHANGED roundVars
    PROVE  GateInv'
<1> USE PoolIsFinite, RoundAssumption
<1>1. CASE CancelRound \/ UNCHANGED roundVars
  <2>1. UNCHANGED <<kind, first, call, at, active, rival, executed, ending>>
        /\ roundToken' \in BOOLEAN
    BY <1>1 DEF CancelRound, roundVars, GateInv, RestTypes
  <2>2. Group' = Group BY <2>1, GroupStays
  <2>3. InPool' = InPool BY <2>1, <2>2 DEF InPool, Pooled
  <2>4. RestTypes' BY <2>1 DEF RestTypes, GateInv
  <2>5. QED BY <2>1, <2>3, <2>4, PoolRests
<1>2. CASE Crash
  <2>1. at' = "crashed" /\ active' = 0 /\ rival' = "gone" /\ executed' = {} /\ ending' = FALSE
        /\ roundToken' = roundToken
    BY <1>2 DEF Crash, NoRound
  <2>2. InPool' = {} BY <2>1 DEF InPool
  <2>3. Cardinality(InPool') = 0 BY <2>2, FS_EmptySet
  <2>4. SlotsAreHeld' BY <2>1, <2>2, <2>3 DEF SlotsAreHeld
  <2>5. RestTypes' BY <2>1 DEF RestTypes, GateInv
  <2>6. QED BY <2>4, <2>5 DEF GateInv
<1>3. CASE Rival
  <2>1. /\ UNCHANGED <<kind, first, call, at, executed, ending, roundToken>>
        /\ rival' \in {"ticket", "works", "gone"}
    BY <1>3 DEF Rival
  <2>2. Group' = Group BY <2>1, GroupStays
  <2>3. InPool' = InPool BY <2>1, <2>2 DEF InPool, Pooled
  <2>4. RestTypes' BY <2>1 DEF RestTypes, GateInv
  <2>5. CASE rival = "none" /\ rival' = "ticket" /\ active' = active
    BY <2>3, <2>4, <2>5 DEF GateInv, SlotsAreHeld
  <2>6. CASE rival = "ticket" /\ active < 1 /\ rival' = "works" /\ active' = active + 1
    <3>1. Cardinality(InPool) = 0 BY <2>6 DEF GateInv, SlotsAreHeld
    <3>2. InPool = {} BY <3>1, FS_EmptySet
    <3>3. QED BY <2>3, <2>4, <2>6, <3>1, <3>2 DEF GateInv, SlotsAreHeld
  <2>7. CASE rival = "works" /\ rival' = "gone" /\ active' = active - 1
    BY <2>3, <2>4, <2>7 DEF GateInv, SlotsAreHeld
  <2>8. QED BY <1>3, <2>5, <2>6, <2>7 DEF Rival
<1>4. QED BY <1>1, <1>2, <1>3

\* Nothing is lost at the gate.
LEMMA GateAlways == ToolRoundSpec => [](RoundInv /\ GateInv)
<1>1. ToolRoundInit => GateInv
  <2> SUFFICES ASSUME ToolRoundInit PROVE GateInv OBVIOUS
  <2>1. InPool = {} BY DEF ToolRoundInit, InPool
  <2>2. Cardinality(InPool) = 0 BY <2>1, FS_EmptySet
  <2>3. SlotsAreHeld BY <2>1, <2>2, RoundAssumption DEF ToolRoundInit, SlotsAreHeld
  <2>4. RestTypes BY DEF ToolRoundInit, RestTypes
  <2>5. QED BY <2>3, <2>4 DEF GateInv
<1>2. RoundInv /\ GateInv /\ [ToolRoundNext]_roundVars => GateInv'
  BY WorkerHolds, CoordinatorHolds, OthersHold DEF ToolRoundNext
<1>3. QED BY RoundInitial, RoundStep, <1>1, <1>2, PTL DEF ToolRoundSpec

\* However calls start, fail, are denied or cancelled, the counter of the pool is the
\* calls that hold a slot: the limit is kept and no slot is lost (_run_gated, its finally).
THEOREM SlotsAreHeldTheorem == ToolRoundSpec => []SlotsAreHeld
BY GateAlways, PTL DEF GateInv

\* The pointers into the round's calls.
PointersFit ==
    /\ first \in 1..(NCalls + 1) /\ next \in 1..(NCalls + 1)
    /\ results \subseteq Calls

\* They are moved to the next call of the round, or reset.
LEMMA PointersStep == RoundInv /\ PointersFit /\ [ToolRoundNext]_roundVars => PointersFit'
<1> SUFFICES ASSUME RoundInv, PointersFit, [ToolRoundNext]_roundVars PROVE PointersFit' OBVIOUS
<1> USE RoundAssumption DEF PointersFit
<1>1. CASE UNCHANGED <<first, next, results>> BY <1>1
<1>2. CASE first' = 1 /\ next' = 1 /\ results' = {} BY <1>2
<1>3. ASSUME NEW o, PrepareCall(o) PROVE PointersFit'
  <2>1. /\ next \in Group /\ at = "prepare" /\ next' = next + 1
        /\ UNCHANGED <<first, results>>
    BY <1>3 DEF PrepareCall
  <2>2. next \in 1..NCalls BY <2>1, GroupNow DEF Calls
  <2>3. QED BY <2>1, <2>2
<1>4. ASSUME NEW i \in Calls, NEW stop, Yield(i, stop) PROVE PointersFit'
  <2>1. /\ at = "yield" /\ results' = results \cup {i}
        /\ \/ UNCHANGED <<first, next>>
           \/ Last # Size /\ first' = Last + 1 /\ next' = Last + 1
    BY <1>4 DEF Yield
  <2>2. Last \in first..Size /\ Size \in 0..NCalls /\ first \in 1..Size BY <2>1, GroupNow
  <2>3. QED BY <2>1, <2>2
<1>5. CASE EndTurn \/ GroupCancelled \/ PrepareStopped \/ Dispatch \/ Drain
  BY <1>1, <1>5 DEF EndTurn, GroupCancelled, PrepareStopped, Dispatch, Drain
<1>6. ASSUME NEW i \in Calls, Worker(i) PROVE PointersFit'
  BY <1>1, <1>6 DEF Worker, Start, Enter, NotEntered, Leave, Complete, workVars
<1>7. CASE BeginRound \/ Rival \/ CancelRound \/ UNCHANGED roundVars
  BY <1>1, <1>7 DEF BeginRound, Rival, CancelRound, roundVars
<1>8. CASE (\E fails \in BOOLEAN : CloseRound(fails)) \/ Crash
  BY <1>2, <1>8 DEF CloseRound, Crash, NoRound
<1>9. QED
  BY <1>3, <1>4, <1>5, <1>6, <1>7, <1>8 DEF ToolRoundNext, Coordinator

\* The round's variables keep their types.
THEOREM RoundTypesTheorem == ToolRoundSpec => []ToolRoundTypeOK
<1>1. ASSUME RoundInv, GateInv, PointersFit PROVE ToolRoundTypeOK
  <2>1. RoundTypes /\ RestTypes BY <1>1 DEF RoundInv, GateInv
  <2>2. Size \in 0..NCalls /\ kind \in [1..Size -> {"reader", "barrier"}]
    BY <2>1 DEF RoundTypes, Size
  <2>3. kind \in UNION {[1..n -> {"reader", "barrier"}] : n \in 0..NCalls} BY <2>2
  <2>4. active \in 0..(NCalls + 1)
    BY <1>1, PoolIsFinite, RoundAssumption DEF GateInv, SlotsAreHeld
  <2>5. QED BY <1>1, <2>1, <2>3, <2>4 DEF RoundTypes, RestTypes, PointersFit, ToolRoundTypeOK
<1>2. ToolRoundInit => PointersFit BY RoundAssumption DEF ToolRoundInit, PointersFit
<1>3. QED BY <1>1, <1>2, GateAlways, PointersStep, PTL DEF ToolRoundSpec

=============================================================================
