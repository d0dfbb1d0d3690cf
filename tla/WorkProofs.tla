------------------------------ MODULE WorkProofs ------------------------------
(***************************************************************************)
(* The work around the turns.  What the owner's approvals are worth, for   *)
(* every set of asks and of conversations; that every active run of a      *)
(* scheduled task has something that will end it; and what is proved of    *)
(* each part, here, in OperationLedgerProofs and in TeamProofs, put        *)
(* together.                                                               *)
(***************************************************************************)
EXTENDS MCWork, OperationLedgerProofs, TeamProofs

-----------------------------------------------------------------------------
(***************************************************************************)
(* Approvals: types.                                                       *)
(***************************************************************************)

\* The grants an answer leaves are grants (ApprovalEngine._issue).
LEMMA GrantTypes ==
    ASSUME ApprovalsTypeOK, NEW a \in Asks
    PROVE  SessionGrant(a) \in Grants /\ ProjectGrant(a) \in Grants
<1>1. req[a] \in AskRequests /\ req[a] \in RequestType
  BY ApprovalAssumption DEF ApprovalsTypeOK
<1>2. req[a].session \in Sessions /\ req[a].rule \in Rules BY <1>1 DEF RequestType, Rules
<1>3. Kept(a) \in Targets BY <1>1 DEF Kept, Targets
<1>4. QED BY <1>2, <1>3 DEF SessionGrant, ProjectGrant, Grants

\* Every step of a tool's thread, of the owner and of the Engine keeps the types.
LEMMA ApprovalsTypeStep == ApprovalsTypeOK /\ [ApprovalsNext]_approvalVars => ApprovalsTypeOK'
<1> SUFFICES ASSUME ApprovalsTypeOK, [ApprovalsNext]_approvalVars PROVE ApprovalsTypeOK' OBVIOUS
<1> USE DEF ApprovalsTypeOK
<1>1. ASSUME NEW a \in Asks, Check(a) \/ RegisterAsk(a) \/ Poll(a) \/ CloseCard(a)
      PROVE  ApprovalsTypeOK'
  BY <1>1 DEF Check, RegisterAsk, Poll, CloseCard
<1>2. ASSUME NEW a \in Asks, NEW belated \in BOOLEAN, Missed(a, belated) PROVE ApprovalsTypeOK'
  <2>1. expired' \in [Asks -> {"no", "timeout", "turn_cancelled"}] BY <1>2 DEF Missed
  <2>2. where' \in [Asks -> {"new", "asking", "polling", "missed", "leaving", "left",
                             "granting", "done"}] BY <1>2 DEF Missed
  <2>3. QED BY <1>2, <2>1, <2>2 DEF Missed
<1>3. ASSUME NEW a \in Asks, Answer(a) PROVE ApprovalsTypeOK'
  <2>1. /\ where' \in [Asks -> {"new", "asking", "polling", "missed", "leaving", "left",
                                "granting", "done"}]
        /\ outcome' \in [Asks -> {"none", "granted", "denied", "cancelled", "gone"}]
    BY <1>3 DEF Answer
  <2>2. sessionGrants' \subseteq Grants /\ projectGrants' \subseteq Grants
    BY <1>3, GrantTypes DEF Answer
  <2>3. QED BY <1>3, <2>1, <2>2 DEF Answer
<1>4. ASSUME NEW a \in Asks, NEW stored \in BOOLEAN, StoreGrant(a, stored)
      PROVE  ApprovalsTypeOK'
  BY <1>4, GrantTypes DEF StoreGrant
<1>5. ASSUME NEW a \in Asks, NEW d \in Decisions, OwnerDecides(a, d) PROVE ApprovalsTypeOK'
  BY <1>5 DEF OwnerDecides, Resolve
<1>6. ASSUME NEW s \in Sessions, CutStep(s) \/ CancelTurn(s) PROVE ApprovalsTypeOK'
  BY <1>6 DEF CutStep, CancelTurn
<1>7. ASSUME NEW s \in Sessions, NEW a \in Asks, CutDenies(s, a) PROVE ApprovalsTypeOK'
  BY <1>7 DEF CutDenies, Resolve, Decisions
<1>8. ASSUME NEW g \in projectGrants, Revoke(g) PROVE ApprovalsTypeOK'
  BY <1>8 DEF Revoke
<1>9. CASE Restart BY <1>9 DEF Restart
<1>10. CASE UNCHANGED approvalVars BY <1>10 DEF approvalVars
<1>11. QED
  BY <1>1, <1>2, <1>3, <1>4, <1>5, <1>6, <1>7, <1>8, <1>9, <1>10
  DEF ApprovalsNext, ToolThread

-----------------------------------------------------------------------------
(***************************************************************************)
(* Approvals: where an ask is, and where the grants come from.             *)
(***************************************************************************)

Untouched(a) == decision[a] = "none" /\ expired[a] = "no" /\ outcome[a] = "none"

\* A card is open while its thread waits, and the tool is told last.
AskInv(a) ==
    /\ where[a] \in {"new", "asking"} => Untouched(a)
    /\ a \in cards => where[a] \in {"polling", "missed", "leaving"}
    /\ where[a] # "done" => outcome[a] = "none"
    /\ where[a] = "granting" => decision[a] = "allow_session" /\ expired[a] = "no"

\* Every grant, in memory or stored, is the lasting answer to some card.
GrantsInv ==
    /\ \A g \in sessionGrants \cup grantRows :
        \E b \in Asks : decision[b] = "allow_session" /\ g = SessionGrant(b)
    /\ \A g \in projectGrants :
        \E b \in Asks : decision[b] = "allow_project" /\ g = ProjectGrant(b)

ApprovalsInv == (\A a \in Asks : AskInv(a)) /\ GrantsInv /\ AllowedByTheOwner

\* What the owner decided on a card is never undone, and nothing happens any more to
\* an ask whose tool was answered (resolve_approval: the first decision stands).
LEMMA DecisionsStand ==
    ASSUME ApprovalsTypeOK, \A a \in Asks : AskInv(a), [ApprovalsNext]_approvalVars
    PROVE  /\ req' = req
           /\ \A b \in Asks : decision[b] # "none" => decision'[b] = decision[b]
           /\ \A b \in Asks : where[b] = "done" => expired'[b] = expired[b]
<1> USE DEF ApprovalsTypeOK
<1>1. ASSUME NEW a \in Asks, ToolThread(a)
      PROVE  /\ req' = req /\ decision' = decision
             /\ \A b \in Asks : where[b] = "done" => expired'[b] = expired[b]
  BY <1>1 DEF ToolThread, Check, RegisterAsk, Poll, Missed, CloseCard, Answer, StoreGrant
<1>2. ASSUME NEW a \in Asks, NEW d, Resolve(a, d)
      PROVE  \A b \in Asks : decision[b] # "none" => decision'[b] = decision[b]
  BY <1>2 DEF Resolve
<1>3. ASSUME NEW s \in Sessions, NEW a \in Asks, CutDenies(s, a)
      PROVE  /\ req' = req /\ expired' = expired
             /\ \A b \in Asks : decision[b] # "none" => decision'[b] = decision[b]
  BY <1>2, <1>3 DEF CutDenies
<1>4. ASSUME NEW a \in Asks, NEW d \in Decisions, OwnerDecides(a, d)
      PROVE  /\ req' = req /\ expired' = expired
             /\ \A b \in Asks : decision[b] # "none" => decision'[b] = decision[b]
  BY <1>2, <1>4 DEF OwnerDecides
<1>5. ASSUME NEW s \in Sessions, CutStep(s) \/ CancelTurn(s)
      PROVE  UNCHANGED <<req, decision, expired>>
  BY <1>5 DEF CutStep, CancelTurn
<1>6. ASSUME NEW g \in projectGrants, Revoke(g) PROVE UNCHANGED <<req, decision, expired>>
  BY <1>6 DEF Revoke
<1>7. CASE Restart BY <1>7 DEF Restart
<1>8. CASE UNCHANGED approvalVars BY <1>8 DEF approvalVars
<1>9. QED BY <1>1, <1>3, <1>4, <1>5, <1>6, <1>7, <1>8 DEF ApprovalsNext

\* A grant that find_grant returns for an ask not asked yet is the owner's lasting
\* answer to another card, and that answer covers the ask (_matches, _issue).
LEMMA GrantsCover ==
    ASSUME ApprovalsTypeOK, GrantsInv, NEW a \in Asks, AskInv(a), where[a] = "new",
           req[a].reusable, find_grant(a) # {}
    PROVE  \E b \in Asks \ {a} : Covers(b, a)
<1>1. PICK g \in find_grant(a) : TRUE OBVIOUS
<1>2. matches(g, a) BY <1>1 DEF find_grant
<1>3. decision[a] = "none" BY DEF AskInv, Untouched
<1>4. \A b \in Asks : req[b].target # AnyTarget
  BY ApprovalAssumption DEF ApprovalsTypeOK, RequestType, AnyTarget
<1>5. ASSUME NEW b \in Asks, decision[b] \in {"allow_session", "allow_project"},
             g.rule = req[b].rule, g.target = Kept(b),
             decision[b] = "allow_session" => req[b].session = req[a].session
      PROVE  b \in Asks \ {a} /\ Covers(b, a)
  BY <1>2, <1>3, <1>4, <1>5 DEF matches, Covers, Kept
<1>6. CASE g \in projectGrants
  <2>1. PICK b \in Asks : decision[b] = "allow_project" /\ g = ProjectGrant(b)
    BY <1>6 DEF GrantsInv
  <2>2. g.rule = req[b].rule /\ g.target = Kept(b) BY <2>1 DEF ProjectGrant
  <2>3. b \in Asks \ {a} /\ Covers(b, a) BY <1>5, <2>1, <2>2
  <2>4. QED BY <2>3
<1>7. CASE g \in sessionGrants /\ g.session = req[a].session
  <2>1. PICK b \in Asks : decision[b] = "allow_session" /\ g = SessionGrant(b)
    BY <1>7 DEF GrantsInv
  <2>2. g.rule = req[b].rule /\ g.target = Kept(b) /\ g.session = req[b].session
    BY <2>1 DEF SessionGrant
  <2>3. b \in Asks \ {a} /\ Covers(b, a) BY <1>5, <1>7, <2>1, <2>2
  <2>4. QED BY <2>3
<1>8. QED BY <1>1, <1>6, <1>7 DEF find_grant

\* The steps of one ask leave the others where they are.
LEMMA AskStep ==
    ASSUME ApprovalsTypeOK, \A a \in Asks : AskInv(a), [ApprovalsNext]_approvalVars
    PROVE  \A a \in Asks : AskInv(a)'
<1> USE DEF ApprovalsTypeOK
<1>1. ASSUME NEW a \in Asks, AskInv(a)',
             \A b \in Asks \ {a} :
                /\ UNCHANGED <<where[b], decision[b], expired[b], outcome[b]>>
                /\ b \in cards' <=> b \in cards
      PROVE  \A b \in Asks : AskInv(b)'
  <2> SUFFICES ASSUME NEW b \in Asks, b # a PROVE AskInv(b)' BY <1>1
  <2>1. AskInv(b) OBVIOUS
  <2>2. QED BY <1>1, <2>1 DEF AskInv, Untouched
<1>2. ASSUME NEW a \in Asks, ToolThread(a) PROVE \A b \in Asks : AskInv(b)'
  <2>1. AskInv(a) OBVIOUS
  <2>2. CASE Check(a) \/ RegisterAsk(a)
    <3>1. AskInv(a)' BY <2>1, <2>2 DEF Check, RegisterAsk, AskInv, Untouched
    <3>2. QED BY <1>1, <2>2, <3>1 DEF Check, RegisterAsk
  <2>3. CASE Poll(a) \/ CloseCard(a)
    <3>1. AskInv(a)' BY <2>1, <2>3 DEF Poll, CloseCard, AskInv, Untouched
    <3>2. QED BY <1>1, <2>3, <3>1 DEF Poll, CloseCard
  <2>4. ASSUME NEW belated \in BOOLEAN, Missed(a, belated) PROVE \A b \in Asks : AskInv(b)'
    <3>1. AskInv(a)' BY <2>1, <2>4 DEF Missed, AskInv, Untouched
    <3>2. QED BY <1>1, <2>4, <3>1 DEF Missed
  <2>5. CASE Answer(a)
    <3>1. AskInv(a)' BY <2>1, <2>5 DEF Answer, AskInv, Untouched
    <3>2. QED BY <1>1, <2>5, <3>1 DEF Answer
  <2>6. ASSUME NEW stored \in BOOLEAN, StoreGrant(a, stored) PROVE \A b \in Asks : AskInv(b)'
    <3>1. AskInv(a)' BY <2>1, <2>6 DEF StoreGrant, AskInv, Untouched
    <3>2. QED BY <1>1, <2>6, <3>1 DEF StoreGrant
  <2>7. QED BY <1>2, <2>2, <2>3, <2>4, <2>5, <2>6 DEF ToolThread
<1>3. ASSUME NEW a \in Asks, a \in cards,
             UNCHANGED <<where, expired, outcome, cards>>,
             \A b \in Asks \ {a} : decision'[b] = decision[b]
      PROVE  \A b \in Asks : AskInv(b)'
  <2>1. AskInv(a) OBVIOUS
  <2>2. AskInv(a)' BY <1>3, <2>1 DEF AskInv
  <2>3. QED BY <1>1, <1>3, <2>2
<1>4. ASSUME UNCHANGED <<where, decision, expired, outcome, cards>>
      PROVE  \A b \in Asks : AskInv(b)'
  BY <1>4 DEF AskInv, Untouched
<1>5. ASSUME NEW a \in Asks, NEW d \in Decisions, OwnerDecides(a, d)
      PROVE  \A b \in Asks : AskInv(b)'
  BY <1>3, <1>5 DEF OwnerDecides, Resolve
<1>6. ASSUME NEW s \in Sessions, CutStep(s) \/ CancelTurn(s) PROVE \A b \in Asks : AskInv(b)'
  BY <1>4, <1>6 DEF CutStep, CancelTurn
<1>7. ASSUME NEW s \in Sessions, NEW a \in Asks, CutDenies(s, a)
      PROVE  \A b \in Asks : AskInv(b)'
  BY <1>3, <1>4, <1>7 DEF CutDenies, Resolve
<1>8. ASSUME NEW g \in projectGrants, Revoke(g) PROVE \A b \in Asks : AskInv(b)'
  BY <1>4, <1>8 DEF Revoke
<1>9. CASE Restart
  <2>1. ASSUME NEW b \in Asks PROVE AskInv(b)'
    <3>1. AskInv(b) OBVIOUS
    <3>2. QED BY <1>9, <3>1 DEF Restart, AskInv, Untouched
  <2>2. QED BY <2>1
<1>10. CASE UNCHANGED approvalVars BY <1>4, <1>10 DEF approvalVars
<1>11. QED BY <1>2, <1>5, <1>6, <1>7, <1>8, <1>9, <1>10 DEF ApprovalsNext

\* A grant is added by an answer to a card only; a restart reads stored ones.
LEMMA GrantsStep ==
    ASSUME ApprovalsTypeOK, \A a \in Asks : AskInv(a), GrantsInv, [ApprovalsNext]_approvalVars
    PROVE  GrantsInv'
<1>1. /\ req' = req
      /\ \A b \in Asks : decision[b] # "none" => decision'[b] = decision[b]
  BY DecisionsStand
<1>2. \A b \in Asks : SessionGrant(b)' = SessionGrant(b) /\ ProjectGrant(b)' = ProjectGrant(b)
  BY <1>1 DEF SessionGrant, ProjectGrant, Kept
<1>3. /\ \A g \in sessionGrants' \cup grantRows' :
            \/ g \in sessionGrants \cup grantRows
            \/ \E b \in Asks : decision[b] = "allow_session" /\ g = SessionGrant(b)
      /\ \A g \in projectGrants' :
            \/ g \in projectGrants
            \/ \E b \in Asks : decision[b] = "allow_project" /\ g = ProjectGrant(b)
  <2>1. ASSUME NEW a \in Asks, Answer(a) PROVE <1>3!1 /\ <1>3!2
    BY <2>1 DEF Answer
  <2>2. ASSUME NEW a \in Asks, NEW stored \in BOOLEAN, StoreGrant(a, stored)
        PROVE  <1>3!1 /\ <1>3!2
    BY <2>2 DEF StoreGrant, AskInv
  <2>3. ASSUME NEW a \in Asks, ToolThread(a) PROVE <1>3!1 /\ <1>3!2
    BY <2>1, <2>2, <2>3 DEF ToolThread, Check, RegisterAsk, Poll, Missed, CloseCard
  <2>4. ASSUME NEW a \in Asks, NEW d \in Decisions, OwnerDecides(a, d) PROVE <1>3!1 /\ <1>3!2
    BY <2>4 DEF OwnerDecides
  <2>5. ASSUME NEW s \in Sessions, CutStep(s) \/ CancelTurn(s) PROVE <1>3!1 /\ <1>3!2
    BY <2>5 DEF CutStep, CancelTurn
  <2>6. ASSUME NEW s \in Sessions, NEW a \in Asks, CutDenies(s, a) PROVE <1>3!1 /\ <1>3!2
    BY <2>6 DEF CutDenies
  <2>7. CASE Restart \/ (\E g \in projectGrants : Revoke(g)) \/ UNCHANGED approvalVars
    BY <2>7 DEF Restart, Revoke, approvalVars
  <2>8. QED BY <2>3, <2>4, <2>5, <2>6, <2>7 DEF ApprovalsNext
<1>4. ASSUME NEW b \in Asks, decision[b] \in {"allow_session", "allow_project"}
      PROVE  decision'[b] = decision[b]
  BY <1>1, <1>4
<1>5. QED BY <1>2, <1>3, <1>4 DEF GrantsInv

\* A tool is told to go on by the answer to its own card, or by a grant that covers
\* it; and what was right when it was told stays right.
LEMMA AllowedStep ==
    ASSUME ApprovalsTypeOK, ApprovalsInv, [ApprovalsNext]_approvalVars
    PROVE  AllowedByTheOwner'
<1> DEFINE Own(a) == decision[a] \in {"allow_once", "allow_session", "allow_project"}
           Word(a) == expired[a] = "no" /\ (Own(a) \/ \E b \in Asks \ {a} : Covers(b, a))
<1> USE DEF ApprovalsTypeOK
<1>1. /\ req' = req
      /\ \A b \in Asks : decision[b] # "none" => decision'[b] = decision[b]
      /\ \A b \in Asks : where[b] = "done" => expired'[b] = expired[b]
  BY DecisionsStand DEF ApprovalsInv
<1>2. ASSUME NEW a \in Asks, Word(a), expired'[a] = expired[a] PROVE Word(a)'
  <2>1. \A b \in Asks : Covers(b, a) => Covers(b, a)' BY <1>1 DEF Covers
  <2>2. Own(a) => Own(a)' BY <1>1
  <2>3. QED BY <1>2, <2>1, <2>2
<1>3. ASSUME NEW a \in Asks, outcome'[a] = "granted"
      PROVE  Word(a) /\ expired'[a] = expired[a]
  <2>1. CASE outcome[a] = "granted"
    BY <1>1, <2>1 DEF ApprovalsInv, AskInv, AllowedByTheOwner
  <2>2. CASE outcome[a] # "granted"
    <3>1. ASSUME NEW b \in Asks, ToolThread(b) PROVE Word(a) /\ expired'[a] = expired[a]
      <4>1. /\ b = a /\ expired' = expired
            /\ Check(a) \/ Answer(a) \/ (\E stored \in BOOLEAN : StoreGrant(a, stored))
        BY <1>3, <2>2, <3>1
        DEF ToolThread, Check, RegisterAsk, Poll, Missed, CloseCard, Answer, StoreGrant
      <4>2. CASE Check(a)
        <5>1. where[a] = "new" /\ req[a].reusable /\ find_grant(a) # {}
          BY <1>3, <2>2, <4>2 DEF Check
        <5>2. expired[a] = "no" BY <5>1 DEF ApprovalsInv, AskInv, Untouched
        <5>3. \E c \in Asks \ {a} : Covers(c, a) BY <5>1, GrantsCover DEF ApprovalsInv
        <5>4. QED BY <4>1, <5>2, <5>3
      <4>3. CASE Answer(a) BY <1>3, <2>2, <4>1, <4>3 DEF Answer
      <4>4. CASE \E stored \in BOOLEAN : StoreGrant(a, stored)
        BY <4>1, <4>4 DEF StoreGrant, ApprovalsInv, AskInv
      <4>5. QED BY <4>1, <4>2, <4>3, <4>4
    <3>2. ASSUME ~(\E b \in Asks : ToolThread(b)) PROVE FALSE
      <4>1. CASE Restart BY <1>3, <2>2, <4>1 DEF Restart
      <4>2. CASE UNCHANGED outcome BY <1>3, <2>2, <4>2
      <4>3. QED
        BY <3>2, <4>1, <4>2
        DEF ApprovalsNext, OwnerDecides, CutStep, CancelTurn, CutDenies, Revoke, approvalVars
    <3>3. QED BY <3>1, <3>2
  <2>3. QED BY <2>1, <2>2
<1>4. QED BY <1>2, <1>3 DEF AllowedByTheOwner

\* Every variable of the approvals keeps its type, whatever sets of asks, sessions and
\* requests there are.
THEOREM ApprovalTypesTheorem == ApprovalsSpec => []ApprovalsTypeOK
<1>1. ApprovalsInit => ApprovalsTypeOK BY DEF ApprovalsInit, ApprovalsTypeOK
<1>2. QED BY <1>1, ApprovalsTypeStep, PTL DEF ApprovalsSpec

\* A tool that policy holds back runs only on the owner's word: on its own card,
\* never after that was shown as expired, or on a lasting answer to another card of
\* the same rule that covers it; no cut step, revocation, failed store or restart
\* turns into a permission (check, _answer_approval, _issue, resolve_approval).
THEOREM AllowedByTheOwnerTheorem == ApprovalsSpec => []AllowedByTheOwner
<1>1. ApprovalsInit => ApprovalsTypeOK /\ ApprovalsInv
  <2> SUFFICES ASSUME ApprovalsInit PROVE ApprovalsTypeOK /\ ApprovalsInv OBVIOUS
  <2>1. ApprovalsTypeOK BY DEF ApprovalsInit, ApprovalsTypeOK
  <2>2. (\A a \in Asks : AskInv(a)) /\ GrantsInv /\ AllowedByTheOwner
    BY DEF ApprovalsInit, AskInv, Untouched, GrantsInv, AllowedByTheOwner
  <2>3. QED BY <2>1, <2>2 DEF ApprovalsInv
<1>2. ApprovalsTypeOK /\ ApprovalsInv /\ [ApprovalsNext]_approvalVars => ApprovalsInv'
  <2> SUFFICES ASSUME ApprovalsTypeOK, ApprovalsInv, [ApprovalsNext]_approvalVars
               PROVE  ApprovalsInv'
    OBVIOUS
  <2>1. (\A a \in Asks : AskInv(a)') /\ GrantsInv' BY AskStep, GrantsStep DEF ApprovalsInv
  <2>2. AllowedByTheOwner' BY AllowedStep
  <2>3. QED BY <2>1, <2>2 DEF ApprovalsInv
<1>3. ApprovalsInv => AllowedByTheOwner BY DEF ApprovalsInv
<1>4. QED BY <1>1, <1>2, <1>3, ApprovalsTypeStep, PTL DEF ApprovalsSpec

-----------------------------------------------------------------------------
(***************************************************************************)
(* The scheduled runs.  Only the lock of the runner keeps the clock        *)
(* thread and the ends of turns apart, so the invariant says for each      *)
(* place of the thread what the queue and the conversation may be doing.   *)
(***************************************************************************)

\* What is under way; the places of the clock thread that only a run in its conversation
\* takes it to, and those at which it has a run in hand.
UnderWay == {"running", "needs_you"}
HereTicks == {"route", "starting", "started", "queueing", "kick"}
HandTicks == HereTicks \cup {"agent"}
Statuses == {"none", "deleted"} \cup ActiveStatus \cup FinalStatus

ScheduleTypes ==
    /\ kind \in {"agent", "here", "tool"}
    /\ runs \in [Runs -> Statuses]
    /\ tick \in {"idle", "due", "recover", "advance"} \cup HandTicks
    /\ recovered \in BOOLEAN
    /\ toRequeue \subseteq Runs /\ live \subseteq Runs /\ working \subseteq Runs
    /\ lined \subseteq Runs
    /\ conv \in {"free", "owner", "run", "ending", "gone"}

\* Only the runs of a conversation are queued.
KindInv ==
    /\ kind # "here" =>
         /\ conv = "free" /\ lined = {} /\ toRequeue = {} /\ tick \notin HereTicks
         /\ \A r \in Runs : runs[r] # "queued"
    /\ tick = "agent" => kind = "agent"

\* A conversation runs one turn.
ConvInv ==
    kind = "here" => IF conv = "run" THEN \E r \in Runs : working = {r} ELSE working = {}

\* Which runs are followed.
FollowInv ==
    /\ tick # "starting" => live \subseteq working
    /\ tick = "starting" => conv \in {"free", "owner", "gone"} /\ lined = {} /\ live = {cur}
    /\ tick = "started" => conv = "run" /\ cur \in working /\ cur \in live

\* What the row of a run says.
RowInv ==
    /\ \A r \in lined \cup working \cup toRequeue : runs[r] # "none"
    /\ kind = "here" => \A r \in (lined \ working) \cup (working \ live) : runs[r] \notin UnderWay
    /\ tick \in HandTicks => cur \in Runs /\ runs[cur] # "none"
    /\ tick = "queueing" => runs[cur] \notin UnderWay

\* What will end an active run: as ActiveRunsAreCarried says, or the clock thread, whose
\* kick is for a run that is in the queue.
Driven(r) ==
    \/ r \in working /\ (kind = "tool" \/ r \in live)
    \/ r \in lined /\ conv # "free"
    \/ ~recovered \/ r \in toRequeue
    \/ runs[r] = "queued" /\ conv = "gone"
InHand(r) == r = cur /\ tick \in HandTicks /\ (tick = "kick" => r \in lined)
DrivenInv == \A r \in Runs : runs[r] \in ActiveStatus => Driven(r) \/ InHand(r)

ScheduleInv == ScheduleTypes /\ KindInv /\ ConvInv /\ FollowInv /\ RowInv /\ DrivenInv

\* The sets of statuses and of places, member by member.
LEMMA ScheduleSets ==
    /\ ActiveStatus = {"queued"} \cup UnderWay
    /\ UnderWay = {"running", "needs_you"}
    /\ FinalStatus \cap (ActiveStatus \cup {"none", "deleted"}) = {}
    /\ HandTicks = {"route", "starting", "started", "queueing", "kick", "agent"}
    /\ HereTicks = HandTicks \ {"agent"}
    /\ Statuses = {"none", "deleted"} \cup ActiveStatus \cup FinalStatus
BY DEF ActiveStatus, UnderWay, FinalStatus, HandTicks, HereTicks, Statuses

\* One row is written, to a status it may have.
RowGets(r, S) ==
    /\ runs' \in [Runs -> Statuses]
    /\ runs'[r] \in S \cup {"deleted"}
    /\ \A q \in Runs : q # r => runs'[q] = runs[q]

\* A run that ends is written as ended.
LEMMA FinishWrites ==
    ASSUME ScheduleTypes, NEW r \in Runs, NEW s \in FinalStatus, NEW wait, FinishRun(r, s, wait)
    PROVE  RowGets(r, FinalStatus)
<1> DEFINE takes == pending[r] # 0 /\ TakesChange(pending[r], s, wait)
           final == IF takes /\ s = "failed" THEN "blocked" ELSE s
<1>1. runs' = [runs EXCEPT ![r] = IF @ = "deleted" THEN @ ELSE final] BY DEF FinishRun
<1>2. final \in FinalStatus BY DEF FinalStatus
<1> HIDE DEF final
<1>3. QED BY <1>1, <1>2 DEF RowGets, ScheduleTypes, Statuses

\* And one whose status changes as that.
LEMMA StatusWrites ==
    ASSUME ScheduleTypes, NEW r \in Runs, NEW s \in Statuses, Status(r, s)
    PROVE  RowGets(r, {s})
BY DEF Status, RowGets, ScheduleTypes, Statuses

\* The engine starts: what neither waits in a queue nor is followed has failed.
LEMMA RecoverKeeps ==
    ASSUME ScheduleInv, Recover
    PROVE  ScheduleInv'
<1> USE ScheduleSets DEF ScheduleInv, Recover
<1>1. ScheduleTypes' BY DEF ScheduleTypes, FinalStatus
<1>2. KindInv' BY DEF KindInv, ScheduleTypes
<1>3. ConvInv' BY DEF ConvInv
<1>4. FollowInv' BY DEF FollowInv
<1>5. RowInv' BY DEF RowInv, ScheduleTypes
<1>6. DrivenInv' BY DEF DrivenInv, Driven, InHand, FollowInv, ScheduleTypes
<1>7. QED BY <1>1, <1>2, <1>3, <1>4, <1>5, <1>6

\* What is left of the last process is taken up one run at a time.
LEMMA RequeueKeeps ==
    ASSUME ScheduleInv, NEW r \in Runs, NEW belated \in BOOLEAN, Requeue(r, belated)
    PROVE  ScheduleInv'
<1> USE ScheduleSets
<1>1. ScheduleTypes BY DEF ScheduleInv
<1>2. /\ tick = "recover" /\ r \in toRequeue /\ toRequeue' = toRequeue \ {r}
      /\ UNCHANGED <<kind, recovered, live, working, conv, lined>>
  BY DEF Requeue
<1>3. kind = "here" BY <1>2 DEF ScheduleInv, KindInv
<1>4. CASE belated \/ runs[r] = "deleted"
  <2>1. "skipped" \in FinalStatus BY DEF FinalStatus
  <2>2. RowGets(r, FinalStatus) BY <1>1, <1>4, <2>1, FinishWrites DEF Requeue
  <2>3. tick' \in {"idle", "recover"} BY <1>4 DEF Requeue
  <2> USE <1>2, <1>3, <2>2, <2>3 DEF ScheduleInv, RowGets
  <2>4. ScheduleTypes' BY <1>1 DEF ScheduleTypes
  <2>5. KindInv' /\ ConvInv' /\ FollowInv' BY DEF KindInv, ConvInv, FollowInv
  <2>6. RowInv' BY DEF RowInv, ScheduleTypes
  <2>7. DrivenInv' BY DEF DrivenInv, Driven, InHand, ScheduleTypes
  <2>8. QED BY <2>4, <2>5, <2>6, <2>7
<1>5. CASE ~(belated \/ runs[r] = "deleted")
  <2>1. tick' = "route" /\ cur' = r /\ runs' = runs BY <1>5 DEF Requeue, Unfinished
  <2> USE <1>2, <1>3, <2>1 DEF ScheduleInv
  <2>2. ScheduleTypes' BY <1>1 DEF ScheduleTypes
  <2>3. KindInv' /\ ConvInv' /\ FollowInv' BY DEF KindInv, ConvInv, FollowInv
  <2>4. RowInv' BY DEF RowInv, ScheduleTypes
  <2>5. DrivenInv' BY DEF DrivenInv, Driven, InHand, ScheduleTypes
  <2>6. QED BY <2>2, <2>3, <2>4, <2>5
<1>6. QED BY <1>4, <1>5

\* A step that moves the clock thread at most between places where it has no run in hand.
LEMMA QuietKeeps ==
    ASSUME ScheduleInv,
           UNCHANGED <<kind, runs, recovered, toRequeue, live, working, conv, lined>>,
           \/ tick' = tick /\ cur' = cur
           \/ /\ tick \in {"idle", "due", "advance"}
              /\ tick' \in {"idle", "due", "advance"}
    PROVE  ScheduleInv'
<1> USE ScheduleSets DEF ScheduleInv
<1>1. ScheduleTypes' BY DEF ScheduleTypes
<1>2. KindInv' /\ ConvInv' /\ FollowInv' BY DEF KindInv, ConvInv, FollowInv
<1>3. RowInv' BY DEF RowInv
<1>4. DrivenInv' BY DEF DrivenInv, Driven, InHand
<1>5. QED BY <1>1, <1>2, <1>3, <1>4

\* The queued runs of a conversation that is gone end.
LEMMA SettleGoneKeeps ==
    ASSUME ScheduleInv, SettleGone
    PROVE  ScheduleInv'
<1> USE ScheduleSets
<1>1. ScheduleTypes BY DEF ScheduleInv
<1>2. /\ conv = "gone" /\ tick = "idle"
      /\ UNCHANGED <<kind, tick, cur, recovered, toRequeue, live, working, conv, lined>>
  BY DEF SettleGone
<1>3. PICK r \in Runs : runs[r] = "queued" /\ FinishRun(r, "failed", FALSE) BY DEF SettleGone
<1>4. "failed" \in FinalStatus BY DEF FinalStatus
<1>5. RowGets(r, FinalStatus) BY <1>1, <1>3, <1>4, FinishWrites
<1> USE <1>2, <1>5 DEF ScheduleInv, RowGets
<1>6. ScheduleTypes' BY <1>1 DEF ScheduleTypes
<1>7. KindInv' /\ ConvInv' /\ FollowInv' BY DEF KindInv, ConvInv, FollowInv
<1>8. RowInv' BY DEF RowInv, ScheduleTypes
<1>9. DrivenInv' BY DEF DrivenInv, Driven, InHand, ScheduleTypes
<1>10. QED BY <1>6, <1>7, <1>8, <1>9

\* A run that is launched is in the hands of the thread of its kind.
LEMMA LaunchRunKeeps ==
    ASSUME ScheduleInv, NEW r \in Unused, ActiveRuns = {}, tick \in {"idle", "due"},
           runs' = [runs EXCEPT ![r] = "running"], cur' = r, tick' = GoesTo(kind),
           working' = IF kind = "tool" THEN working \cup {r} ELSE working,
           UNCHANGED <<kind, recovered, toRequeue, live, conv, lined>>
    PROVE  ScheduleInv'
<1> USE ScheduleSets DEF ScheduleInv
<1>1. /\ r \in Runs /\ runs[r] = "none" /\ runs' \in [Runs -> Statuses]
      /\ runs'[r] = "running"
      /\ \A q \in Runs : q # r => runs'[q] = runs[q]
  BY DEF Unused, ScheduleTypes
<1>2. \A q \in Runs : runs[q] \notin ActiveStatus BY DEF ActiveRuns
<1>3. kind \in {"agent", "here", "tool"} BY DEF ScheduleTypes
<1>4. /\ kind = "here" => tick' = "route"
      /\ kind = "agent" => tick' = "agent"
      /\ kind = "tool" => tick' \in {"advance", "idle"}
  BY <1>3 DEF GoesTo, After, KindInv
<1> USE <1>1, <1>3, <1>4
<1>5. ScheduleTypes' BY DEF ScheduleTypes
<1>6. KindInv' /\ ConvInv' /\ FollowInv' BY DEF KindInv, ConvInv, FollowInv
<1>7. RowInv' BY DEF RowInv, ScheduleTypes
<1>8. DrivenInv' BY <1>2 DEF DrivenInv, Driven, InHand
<1>9. QED BY <1>5, <1>6, <1>7, <1>8

\* A due run is skipped or launched.
LEMMA StartRunKeeps ==
    ASSUME ScheduleInv, NEW missed \in BOOLEAN, StartRun(missed)
    PROVE  ScheduleInv'
<1> USE ScheduleSets
<1>1. ScheduleTypes BY DEF ScheduleInv
<1>2. tick = "due" /\ UNCHANGED <<kind, recovered, toRequeue, live, conv, lined>>
  BY DEF StartRun
<1>3. PICK r \in Unused :
        \/ runs' = [runs EXCEPT ![r] = "skipped"] /\ tick' = "advance" /\ working' = working
        \/ /\ ActiveRuns = {}
           /\ runs' = [runs EXCEPT ![r] = "running"] /\ cur' = r /\ tick' = GoesTo(kind)
           /\ working' = IF kind = "tool" THEN working \cup {r} ELSE working
  BY DEF StartRun
<1>4. CASE runs' = [runs EXCEPT ![r] = "skipped"] /\ tick' = "advance" /\ working' = working
  <2>1. "skipped" \in FinalStatus BY DEF FinalStatus
  <2>2. r \in Runs /\ runs[r] = "none" BY <1>3 DEF Unused
  <2>3. RowGets(r, FinalStatus) BY <1>1, <1>4, <2>1, <2>2 DEF RowGets, ScheduleTypes
  <2> USE <1>2, <1>4, <2>2, <2>3 DEF ScheduleInv, RowGets
  <2>4. ScheduleTypes' BY <1>1 DEF ScheduleTypes
  <2>5. KindInv' /\ ConvInv' /\ FollowInv' BY DEF KindInv, ConvInv, FollowInv
  <2>6. RowInv' BY DEF RowInv, ScheduleTypes
  <2>7. DrivenInv' BY DEF DrivenInv, Driven, InHand, ScheduleTypes
  <2>8. QED BY <2>4, <2>5, <2>6, <2>7
<1>5. QED BY <1>2, <1>3, <1>4, LaunchRunKeeps

\* A run by hand is launched when no run of the task is active.
LEMMA RunNowKeeps ==
    ASSUME ScheduleInv, RunNow
    PROVE  ScheduleInv'
<1>1. PICK r \in Unused :
        /\ runs' = [runs EXCEPT ![r] = "running"] /\ cur' = r /\ tick' = GoesTo(kind)
        /\ working' = IF kind = "tool" THEN working \cup {r} ELSE working
  BY DEF RunNow
<1>2. QED BY <1>1, LaunchRunKeeps DEF RunNow

\* A session of its own is followed before its turn starts, or the run fails.
LEMMA StartAgentRunKeeps ==
    ASSUME ScheduleInv, NEW fails \in BOOLEAN, StartAgentRun(fails)
    PROVE  ScheduleInv'
<1> USE ScheduleSets
<1>1. ScheduleTypes BY DEF ScheduleInv
<1>2. /\ tick = "agent" /\ kind = "agent" /\ cur \in Runs /\ runs[cur] # "none"
      /\ UNCHANGED <<kind, cur, recovered, toRequeue, conv, lined>>
  BY DEF StartAgentRun, ScheduleInv, KindInv, RowInv
<1>3. tick' \in {"advance", "idle"} BY <1>2 DEF StartAgentRun, After, ScheduleInv, KindInv
<1>4. CASE fails
  <2>1. "failed" \in FinalStatus BY DEF FinalStatus
  <2>2. RowGets(cur, FinalStatus) BY <1>1, <1>2, <1>4, <2>1, FinishWrites DEF StartAgentRun
  <2>3. UNCHANGED <<live, working>> BY <1>4 DEF StartAgentRun
  <2> USE <1>2, <1>3, <2>2, <2>3 DEF ScheduleInv, RowGets
  <2>4. ScheduleTypes' BY <1>1 DEF ScheduleTypes
  <2>5. KindInv' /\ ConvInv' /\ FollowInv' BY DEF KindInv, ConvInv, FollowInv
  <2>6. RowInv' BY DEF RowInv, ScheduleTypes
  <2>7. DrivenInv' BY DEF DrivenInv, Driven, InHand, ScheduleTypes
  <2>8. QED BY <2>4, <2>5, <2>6, <2>7
<1>5. CASE ~fails
  <2>1. live' = live \cup {cur} /\ working' = working \cup {cur} /\ runs' = runs
    BY <1>5 DEF StartAgentRun, Unfinished
  <2> USE <1>2, <1>3, <2>1 DEF ScheduleInv
  <2>2. ScheduleTypes' BY <1>1 DEF ScheduleTypes
  <2>3. KindInv' /\ ConvInv' /\ FollowInv' BY DEF KindInv, ConvInv, FollowInv
  <2>4. RowInv' BY DEF RowInv
  <2>5. DrivenInv' BY DEF DrivenInv, Driven, InHand
  <2>6. QED BY <2>2, <2>3, <2>4, <2>5
<1>6. QED BY <1>4, <1>5

\* The thread goes on to a place where it has no run in hand.
LEMMA AfterPlaces == After \in {"advance", "recover", "idle"}
BY DEF After

\* The conversation is gone, free or busy.
LEMMA RouteKeeps ==
    ASSUME ScheduleInv, Route
    PROVE  ScheduleInv'
<1> USE ScheduleSets, AfterPlaces
<1>1. ScheduleTypes BY DEF ScheduleInv
<1>2. /\ tick = "route" /\ kind = "here" /\ cur \in Runs /\ runs[cur] # "none"
      /\ UNCHANGED <<kind, cur, recovered, toRequeue, working, conv, lined>>
  BY DEF Route, ScheduleInv, KindInv, RowInv
<1>3. CASE conv = "gone" /\ FinishRun(cur, "failed", FALSE) /\ tick' = After /\ live' = live
  <2>1. "failed" \in FinalStatus BY DEF FinalStatus
  <2>2. RowGets(cur, FinalStatus) BY <1>1, <1>2, <1>3, <2>1, FinishWrites
  <2> USE <1>2, <1>3, <2>2 DEF ScheduleInv, RowGets
  <2>3. ScheduleTypes' BY <1>1 DEF ScheduleTypes
  <2>4. KindInv' /\ ConvInv' /\ FollowInv' BY DEF KindInv, ConvInv, FollowInv
  <2>5. RowInv' BY DEF RowInv, ScheduleTypes
  <2>6. DrivenInv' BY DEF DrivenInv, Driven, InHand, ScheduleTypes
  <2>7. QED BY <2>3, <2>4, <2>5, <2>6
<1>4. CASE conv = "free" /\ lined = {} /\ live' = {cur} /\ tick' = "starting" /\ runs' = runs
  <2>1. working = {} /\ live = {} BY <1>2, <1>4 DEF ScheduleInv, ConvInv, FollowInv
  <2> USE <1>2, <1>4, <2>1 DEF ScheduleInv
  <2>3. ScheduleTypes' BY <1>1 DEF ScheduleTypes
  <2>4. KindInv' /\ ConvInv' /\ FollowInv' BY DEF KindInv, ConvInv, FollowInv
  <2>5. RowInv' BY DEF RowInv
  <2>6. DrivenInv' BY DEF DrivenInv, Driven, InHand
  <2>7. QED BY <2>3, <2>4, <2>5, <2>6
<1>5. CASE Status(cur, "queued") /\ tick' = "queueing" /\ live' = live
  <2>1. RowGets(cur, {"queued"}) BY <1>1, <1>2, <1>5, StatusWrites
  <2> USE <1>2, <1>5, <2>1 DEF ScheduleInv, RowGets
  <2>3. ScheduleTypes' BY <1>1 DEF ScheduleTypes
  <2>4. KindInv' /\ ConvInv' /\ FollowInv' BY DEF KindInv, ConvInv, FollowInv
  <2>5. RowInv' BY DEF RowInv, ScheduleTypes
  <2>6. DrivenInv' BY DEF DrivenInv, Driven, InHand, ScheduleTypes
  <2>7. QED BY <2>3, <2>4, <2>5, <2>6
<1>6. QED BY <1>3, <1>4, <1>5 DEF Route, Unfinished

\* The turn of the run starts, is refused by one that began meanwhile, or for good.
LEMMA StartRunTurnKeeps ==
    ASSUME ScheduleInv, NEW refused \in BOOLEAN, StartRunTurn(refused)
    PROVE  ScheduleInv'
<1> USE ScheduleSets, AfterPlaces
<1>1. ScheduleTypes BY DEF ScheduleInv
<1>2. /\ tick = "starting" /\ kind = "here" /\ cur \in Runs /\ runs[cur] # "none"
      /\ conv \in {"free", "owner", "gone"} /\ lined = {} /\ live = {cur} /\ working = {}
      /\ UNCHANGED <<kind, cur, recovered, toRequeue, lined>>
  BY DEF StartRunTurn, ScheduleInv, KindInv, RowInv, FollowInv, ConvInv
<1>3. CASE /\ conv = "free" /\ conv' = "run" /\ working' = working \cup {cur}
           /\ tick' = "started" /\ live' = live /\ runs' = runs
  <2> USE <1>2, <1>3 DEF ScheduleInv
  <2>1. ScheduleTypes' BY <1>1 DEF ScheduleTypes
  <2>2. KindInv' /\ ConvInv' /\ FollowInv' BY DEF KindInv, ConvInv, FollowInv
  <2>3. RowInv' BY DEF RowInv
  <2>4. DrivenInv' BY DEF DrivenInv, Driven, InHand
  <2>5. QED BY <2>1, <2>2, <2>3, <2>4
<1>4. CASE /\ live' = {} /\ Status(cur, "queued") /\ tick' = "queueing"
           /\ UNCHANGED <<conv, working>>
  <2>1. RowGets(cur, {"queued"}) BY <1>1, <1>2, <1>4, StatusWrites
  <2> USE <1>2, <1>4, <2>1 DEF ScheduleInv, RowGets
  <2>2. ScheduleTypes' BY <1>1 DEF ScheduleTypes
  <2>3. KindInv' /\ ConvInv' /\ FollowInv' BY DEF KindInv, ConvInv, FollowInv
  <2>4. RowInv' BY DEF RowInv, ScheduleTypes
  <2>5. DrivenInv' BY DEF DrivenInv, Driven, InHand, ScheduleTypes
  <2>6. QED BY <2>2, <2>3, <2>4, <2>5
<1>5. CASE /\ live' = {} /\ FinishRun(cur, "failed", FALSE) /\ tick' = After
           /\ UNCHANGED <<conv, working>>
  <2>1. "failed" \in FinalStatus BY DEF FinalStatus
  <2>2. RowGets(cur, FinalStatus) BY <1>1, <1>2, <1>5, <2>1, FinishWrites
  <2> USE <1>2, <1>5, <2>2 DEF ScheduleInv, RowGets
  <2>3. ScheduleTypes' BY <1>1 DEF ScheduleTypes
  <2>4. KindInv' /\ ConvInv' /\ FollowInv' BY DEF KindInv, ConvInv, FollowInv
  <2>5. RowInv' BY DEF RowInv, ScheduleTypes
  <2>6. DrivenInv' BY DEF DrivenInv, Driven, InHand, ScheduleTypes
  <2>7. QED BY <2>3, <2>4, <2>5, <2>6
<1>6. QED BY <1>3, <1>4, <1>5 DEF StartRunTurn, Unfinished

\* The row of the run that started says so.
LEMMA RecordStartKeeps ==
    ASSUME ScheduleInv, RecordStart
    PROVE  ScheduleInv'
<1> USE ScheduleSets, AfterPlaces
<1>1. ScheduleTypes BY DEF ScheduleInv
<1>2. /\ tick = "started" /\ kind = "here" /\ cur \in Runs /\ tick' = After
      /\ cur \in working /\ cur \in live
      /\ UNCHANGED <<kind, recovered, toRequeue, live, working, conv, lined>>
  BY DEF RecordStart, ScheduleInv, KindInv, RowInv, FollowInv
<1>3. RowGets(cur, {"running"}) BY <1>1, <1>2, StatusWrites DEF RecordStart
<1> USE <1>2, <1>3 DEF ScheduleInv, RowGets
<1>4. ScheduleTypes' BY <1>1 DEF ScheduleTypes
<1>5. KindInv' /\ ConvInv' /\ FollowInv' BY DEF KindInv, ConvInv, FollowInv
<1>6. RowInv' BY DEF RowInv, ScheduleTypes
<1>7. DrivenInv' BY DEF DrivenInv, Driven, InHand, ScheduleTypes
<1>8. QED BY <1>4, <1>5, <1>6, <1>7

\* The run is put in the queue, or fails.
LEMMA QueueRunKeeps ==
    ASSUME ScheduleInv, NEW full \in BOOLEAN, QueueRun(full)
    PROVE  ScheduleInv'
<1> USE ScheduleSets, AfterPlaces
<1>1. ScheduleTypes BY DEF ScheduleInv
<1>2. /\ tick = "queueing" /\ kind = "here" /\ cur \in Runs /\ runs[cur] # "none"
      /\ runs[cur] \notin UnderWay
      /\ UNCHANGED <<kind, cur, recovered, toRequeue, live, working, conv>>
  BY DEF QueueRun, ScheduleInv, KindInv, RowInv
<1>3. CASE full \/ conv = "gone"
  <2>1. "failed" \in FinalStatus BY DEF FinalStatus
  <2>2. RowGets(cur, FinalStatus) BY <1>1, <1>2, <1>3, <2>1, FinishWrites DEF QueueRun
  <2>3. tick' = After /\ lined' = lined BY <1>3 DEF QueueRun
  <2> USE <1>2, <2>2, <2>3 DEF ScheduleInv, RowGets
  <2>4. ScheduleTypes' BY <1>1 DEF ScheduleTypes
  <2>5. KindInv' /\ ConvInv' /\ FollowInv' BY DEF KindInv, ConvInv, FollowInv
  <2>6. RowInv' BY DEF RowInv, ScheduleTypes
  <2>7. DrivenInv' BY DEF DrivenInv, Driven, InHand, ScheduleTypes
  <2>8. QED BY <2>4, <2>5, <2>6, <2>7
<1>4. CASE ~(full \/ conv = "gone")
  <2>1. lined' = lined \cup {cur} /\ tick' = "kick" /\ runs' = runs
    BY <1>4 DEF QueueRun, Unfinished
  <2> USE <1>2, <2>1 DEF ScheduleInv
  <2>2. ScheduleTypes' BY <1>1 DEF ScheduleTypes
  <2>3. KindInv' /\ ConvInv' /\ FollowInv' BY DEF KindInv, ConvInv, FollowInv
  <2>4. RowInv' BY DEF RowInv
  <2>5. DrivenInv' BY DEF DrivenInv, Driven, InHand
  <2>6. QED BY <2>2, <2>3, <2>4, <2>5
<1>5. QED BY <1>3, <1>4

\* The first run of the queue starts: it is followed when its row says it is queued, and
\* what else waits has a turn to wait for.
LEMMA StartsQueuedKeeps ==
    ASSUME ScheduleInv, kind = "here", conv \in {"free", "ending"}, lined # {},
           tick \in {"kick", "idle"},
           NEW then \in {"advance", "recover", "idle"}, StartsQueued(then),
           UNCHANGED <<kind, recovered, toRequeue>>
    PROVE  ScheduleInv'
<1> USE ScheduleSets
<1>1. ScheduleTypes BY DEF ScheduleInv
<1>2. working = {} /\ live = {} BY DEF ScheduleInv, ConvInv, FollowInv
<1>3. PICK r \in lined :
        /\ lined' = lined \ {r} /\ conv' = "run" /\ working' = working \cup {r}
        /\ IF runs[r] = "queued" THEN live' = {r} /\ Status(r, "running")
           ELSE UNCHANGED live /\ Unfinished
        /\ tick' = then
  BY DEF StartsQueued
<1>4. r \in Runs /\ runs[r] # "none" /\ runs[r] \notin UnderWay
  BY <1>1, <1>2 DEF ScheduleInv, ScheduleTypes, RowInv
<1>5. CASE runs[r] = "queued"
  <2>1. RowGets(r, {"running"}) BY <1>1, <1>3, <1>4, <1>5, StatusWrites
  <2>2. live' = {r} BY <1>3, <1>5
  <2> USE <1>2, <1>3, <1>4, <2>1, <2>2 DEF ScheduleInv, RowGets
  <2>3. ScheduleTypes' BY <1>1 DEF ScheduleTypes
  <2>4. KindInv' /\ ConvInv' /\ FollowInv' BY DEF KindInv, ConvInv, FollowInv
  <2>5. RowInv' BY <1>1 DEF RowInv, ScheduleTypes
  <2>6. DrivenInv' BY <1>1 DEF DrivenInv, Driven, InHand, ScheduleTypes
  <2>7. QED BY <2>3, <2>4, <2>5, <2>6
<1>6. CASE runs[r] # "queued"
  <2>1. runs' = runs /\ live' = live BY <1>3, <1>6 DEF Unfinished
  <2> USE <1>2, <1>3, <1>4, <1>6, <2>1 DEF ScheduleInv
  <2>3. ScheduleTypes' BY <1>1 DEF ScheduleTypes
  <2>4. KindInv' /\ ConvInv' /\ FollowInv' BY DEF KindInv, ConvInv, FollowInv
  <2>5. RowInv' BY <1>1 DEF RowInv, ScheduleTypes
  <2>6. DrivenInv' BY <1>1 DEF DrivenInv, Driven, InHand, ScheduleTypes
  <2>7. QED BY <2>3, <2>4, <2>5, <2>6
<1>7. QED BY <1>5, <1>6

\* The kick starts the queue of a conversation that is free; otherwise a turn runs there,
\* or it is gone.
LEMMA KickRunKeeps ==
    ASSUME ScheduleInv, KickRun
    PROVE  ScheduleInv'
<1> USE ScheduleSets, AfterPlaces
<1>1. /\ tick = "kick" /\ kind = "here"
      /\ UNCHANGED <<kind, recovered, toRequeue>>
  BY DEF KickRun, ScheduleInv, KindInv
<1>2. CASE conv = "free" /\ lined # {}
  BY <1>1, <1>2, StartsQueuedKeeps DEF KickRun
<1>3. CASE ~(conv = "free" /\ lined # {})
  <2>1. tick' = After /\ UNCHANGED <<lined, conv, working, live, runs>>
    BY <1>3 DEF KickRun, StartsQueued, Unfinished
  <2> USE <1>1, <1>3, <2>1 DEF ScheduleInv
  <2>2. ScheduleTypes' BY DEF ScheduleTypes
  <2>3. KindInv' /\ ConvInv' /\ FollowInv' BY DEF KindInv, ConvInv, FollowInv
  <2>4. RowInv' BY DEF RowInv
  <2>5. DrivenInv' BY DEF DrivenInv, Driven, InHand
  <2>6. QED BY <2>2, <2>3, <2>4, <2>5
<1>4. QED BY <1>2, <1>3

\* A turn is over: the next run of the queue starts, or the conversation is free.
LEMMA TurnOverKeeps ==
    ASSUME ScheduleInv, TurnOver
    PROVE  ScheduleInv'
<1> USE ScheduleSets
<1>1. /\ conv = "ending" /\ kind = "here"
      /\ UNCHANGED <<kind, cur, recovered, toRequeue>>
  BY DEF TurnOver, ScheduleInv, KindInv
<1>2. CASE lined # {}
  <2>1. tick = "idle" /\ StartsQueued(tick) BY <1>2 DEF TurnOver
  <2>2. QED BY <1>1, <1>2, <2>1, StartsQueuedKeeps
<1>3. CASE lined = {}
  <2>1. conv' = "free" /\ UNCHANGED <<lined, working, live, tick, runs>>
    BY <1>3 DEF TurnOver, Unfinished
  <2> USE <1>1, <1>3, <2>1 DEF ScheduleInv
  <2>2. ScheduleTypes' BY DEF ScheduleTypes
  <2>3. KindInv' /\ ConvInv' /\ FollowInv' BY DEF KindInv, ConvInv, FollowInv
  <2>4. RowInv' BY DEF RowInv
  <2>5. DrivenInv' BY DEF DrivenInv, Driven, InHand
  <2>6. QED BY <2>2, <2>3, <2>4, <2>5
<1>4. QED BY <1>2, <1>3

\* The turn of a run asks, or is answered.
LEMMA RunAsksKeeps ==
    ASSUME ScheduleInv, NEW r \in Runs, RunAsks(r)
    PROVE  ScheduleInv'
<1> USE ScheduleSets
<1>1. ScheduleTypes BY DEF ScheduleInv
<1>2. PICK s \in UnderWay : Status(r, s) BY DEF RunAsks
<1>3. RowGets(r, UnderWay) BY <1>1, <1>2, StatusWrites DEF RowGets
<1>4. /\ tick = "idle" /\ r \in working /\ r \in live
      /\ UNCHANGED <<kind, tick, cur, recovered, toRequeue, live, working, conv, lined>>
  BY DEF RunAsks
<1> USE <1>3, <1>4 DEF ScheduleInv, RowGets
<1>5. ScheduleTypes' BY <1>1 DEF ScheduleTypes
<1>6. KindInv' /\ ConvInv' /\ FollowInv' BY DEF KindInv, ConvInv, FollowInv
<1>7. RowInv' BY <1>1 DEF RowInv, ScheduleTypes
<1>8. DrivenInv' BY <1>1 DEF DrivenInv, Driven, InHand, ScheduleTypes
<1>9. QED BY <1>5, <1>6, <1>7, <1>8

\* A turn ends: the run it is followed for ends with it.
LEMMA TurnTerminalKeeps ==
    ASSUME ScheduleInv, NEW r \in Runs, NEW how \in {"completed", "failed", "cancelled"},
           TurnTerminal(r, how)
    PROVE  ScheduleInv'
<1> USE ScheduleSets
<1>1. ScheduleTypes BY DEF ScheduleInv
<1>2. /\ tick = "idle" /\ r \in working /\ kind # "tool" /\ working' = working \ {r}
      /\ conv' = IF kind = "here" THEN "ending" ELSE conv
      /\ UNCHANGED <<kind, tick, cur, recovered, toRequeue, lined>>
  BY DEF TurnTerminal
<1>3. kind = "here" => conv = "run" /\ working = {r}
  BY <1>2 DEF ScheduleInv, ConvInv
<1>4. CASE r \in live
  <2>1. \A s \in {"completed", "failed", "cancelled", "blocked"} : s \in FinalStatus
    BY DEF FinalStatus
  <2>2. (IF r \in blocked /\ how = "completed" THEN "blocked" ELSE how) \in FinalStatus BY <2>1
  <2>3. RowGets(r, FinalStatus) BY <1>1, <1>4, <2>2, FinishWrites DEF TurnTerminal
  <2>4. live' = live \ {r} BY <1>4 DEF TurnTerminal
  <2> USE <1>2, <1>3, <1>4, <2>3, <2>4 DEF ScheduleInv, RowGets
  <2>5. ScheduleTypes' BY <1>1 DEF ScheduleTypes
  <2>6. KindInv' /\ ConvInv' /\ FollowInv' BY DEF KindInv, ConvInv, FollowInv
  <2>7. RowInv' BY <1>1 DEF RowInv, ScheduleTypes
  <2>8. DrivenInv' BY <1>1 DEF DrivenInv, Driven, InHand, ScheduleTypes
  <2>9. QED BY <2>5, <2>6, <2>7, <2>8
<1>5. CASE r \notin live
  <2>1. live' = live /\ runs' = runs BY <1>5 DEF TurnTerminal, Unfinished
  <2> USE <1>2, <1>3, <1>5, <2>1 DEF ScheduleInv
  <2>2. ScheduleTypes' BY <1>1 DEF ScheduleTypes
  <2>3. KindInv' /\ ConvInv' /\ FollowInv' BY DEF KindInv, ConvInv, FollowInv
  <2>4. RowInv' BY <1>1 DEF RowInv, ScheduleTypes
  <2>5. DrivenInv' BY <1>1 DEF DrivenInv, Driven, InHand, ScheduleTypes
  <2>6. QED BY <2>2, <2>3, <2>4, <2>5
<1>6. QED BY <1>4, <1>5

\* The owner's turns take the conversation and give it back.
LEMMA OwnerTurnsKeeps ==
    ASSUME ScheduleInv, OwnerTurns
    PROVE  ScheduleInv'
<1> USE ScheduleSets DEF ScheduleInv
<1>1. /\ kind = "here" /\ conv \in {"free", "owner"} /\ conv' \in {"owner", "ending"}
      /\ tick = "starting" => conv' = "owner"
      /\ UNCHANGED <<kind, runs, tick, cur, recovered, toRequeue, live, working, lined>>
  BY DEF OwnerTurns, FollowInv
<1> USE <1>1
<1>2. ScheduleTypes' BY DEF ScheduleTypes
<1>3. KindInv' /\ ConvInv' /\ FollowInv' BY DEF KindInv, ConvInv, FollowInv
<1>4. RowInv' BY DEF RowInv
<1>5. DrivenInv' BY DEF DrivenInv, Driven, InHand
<1>6. QED BY <1>2, <1>3, <1>4, <1>5

\* A tool ends, by itself or with the turn its result was handed to.
LEMMA ToolRunEnds ==
    ASSUME ScheduleInv, kind = "tool", NEW r \in Runs, NEW s \in FinalStatus, NEW wait,
           FinishRun(r, s, wait), working' = working \ {r}, live' = live \ {r},
           UNCHANGED <<kind, tick, cur, recovered, toRequeue, conv, lined>>
    PROVE  ScheduleInv'
<1> USE ScheduleSets
<1>1. ScheduleTypes BY DEF ScheduleInv
<1>2. RowGets(r, FinalStatus) BY <1>1, FinishWrites
<1> USE <1>2 DEF ScheduleInv, RowGets
<1>3. ScheduleTypes' BY <1>1 DEF ScheduleTypes
<1>4. KindInv' /\ ConvInv' /\ FollowInv' BY DEF KindInv, ConvInv, FollowInv
<1>5. RowInv' BY <1>1 DEF RowInv, KindInv, ScheduleTypes
<1>6. DrivenInv' BY <1>1 DEF DrivenInv, Driven, InHand, KindInv, ScheduleTypes
<1>7. QED BY <1>3, <1>4, <1>5, <1>6

\* The three ways a tool goes on.
LEMMA ToolsKeep ==
    ASSUME ScheduleInv, NEW r \in Runs
    PROVE  /\ \A s \in {"completed", "skipped", "failed", "blocked"}, wait \in BOOLEAN :
                ToolEnds(r, s, wait) => ScheduleInv'
           /\ \A how \in {"completed", "failed", "cancelled"} :
                HandedOverEnds(r, how) => ScheduleInv'
           /\ ToolHandsOver(r) => ScheduleInv'
<1> USE ScheduleSets
<1>1. \A s \in {"completed", "skipped", "failed", "blocked", "cancelled"} : s \in FinalStatus
  BY DEF FinalStatus
<1>2. ASSUME NEW s \in {"completed", "skipped", "failed", "blocked"}, NEW wait \in BOOLEAN,
             ToolEnds(r, s, wait)
      PROVE  ScheduleInv'
  <2>1. live' = live \ {r} BY <1>2 DEF ToolEnds
  <2>2. QED BY <1>1, <1>2, <2>1, ToolRunEnds DEF ToolEnds
<1>3. ASSUME NEW how \in {"completed", "failed", "cancelled"}, HandedOverEnds(r, how)
      PROVE  ScheduleInv'
  <2> DEFINE end == IF r \in blocked /\ how = "completed" THEN "blocked" ELSE how
  <2>1. end \in FinalStatus BY <1>1
  <2>2. FinishRun(r, end, FALSE) BY <1>3 DEF HandedOverEnds
  <2> HIDE DEF end
  <2>3. QED BY <1>3, <2>1, <2>2, ToolRunEnds DEF HandedOverEnds
<1>4. ASSUME ToolHandsOver(r) PROVE ScheduleInv'
  <2>1. /\ kind = "tool" /\ r \in working /\ live' = live \cup {r}
        /\ UNCHANGED <<kind, runs, tick, cur, recovered, toRequeue, working, conv, lined>>
    BY <1>4 DEF ToolHandsOver
  <2> USE <2>1 DEF ScheduleInv
  <2>2. ScheduleTypes' BY DEF ScheduleTypes
  <2>3. KindInv' /\ ConvInv' /\ FollowInv' BY DEF KindInv, ConvInv, FollowInv
  <2>4. RowInv' BY DEF RowInv
  <2>5. DrivenInv' BY DEF DrivenInv, Driven, InHand
  <2>6. QED BY <2>2, <2>3, <2>4, <2>5
<1>5. QED BY <1>2, <1>3, <1>4

\* A run that is taken out of the queue ends, or had begun.
LEMMA TakenOutKeeps ==
    ASSUME ScheduleInv, NEW r \in Runs, lined' = lined \ {r},
           \/ runs[r] = "queued" /\ FinishRun(r, "cancelled", FALSE)
           \/ r \in lined /\ runs[r] # "queued" /\ runs' = runs,
           UNCHANGED <<kind, tick, cur, recovered, toRequeue, live, working, conv>>
    PROVE  ScheduleInv'
<1> USE ScheduleSets
<1>1. ScheduleTypes BY DEF ScheduleInv
<1>2. CASE runs[r] = "queued" /\ FinishRun(r, "cancelled", FALSE)
  <2>1. "cancelled" \in FinalStatus BY DEF FinalStatus
  <2>2. RowGets(r, FinalStatus) BY <1>1, <1>2, <2>1, FinishWrites
  <2>3. kind = "here" BY <1>2 DEF ScheduleInv, KindInv
  <2> USE <1>2, <2>2, <2>3 DEF ScheduleInv, RowGets
  <2>4. ScheduleTypes' BY <1>1 DEF ScheduleTypes
  <2>5. KindInv' /\ ConvInv' /\ FollowInv' BY DEF KindInv, ConvInv, FollowInv
  <2>6. RowInv' BY <1>1 DEF RowInv, ScheduleTypes
  <2>7. DrivenInv' BY <1>1 DEF DrivenInv, Driven, InHand, ScheduleTypes
  <2>8. QED BY <2>4, <2>5, <2>6, <2>7
<1>3. CASE r \in lined /\ runs[r] # "queued" /\ runs' = runs
  <2>1. kind = "here" BY <1>3 DEF ScheduleInv, KindInv
  <2>2. runs[r] \in UnderWay => r \in working /\ r \in live
    BY <1>1, <1>3, <2>1 DEF ScheduleInv, RowInv
  <2> USE <1>3, <2>1, <2>2 DEF ScheduleInv
  <2>3. ScheduleTypes' BY <1>1 DEF ScheduleTypes
  <2>4. KindInv' /\ ConvInv' /\ FollowInv' BY DEF KindInv, ConvInv, FollowInv
  <2>5. RowInv' BY <1>1 DEF RowInv, ScheduleTypes
  <2>6. DrivenInv' BY <1>1 DEF DrivenInv, Driven, InHand, ScheduleTypes
  <2>7. QED BY <2>3, <2>4, <2>5, <2>6
<1>4. QED BY <1>2, <1>3

\* The acts of the owner, and a restart.
LEMMA SwitchKeeps ==
    ASSUME ScheduleInv, Switch
    PROVE  ScheduleInv'
<1>1. /\ tick = "idle"
      /\ UNCHANGED <<kind, tick, cur, recovered, toRequeue, live, working, conv>>
  BY DEF Switch
<1>2. CASE \E r \in Runs : /\ runs[r] = "queued"
                           /\ lined' = lined \ {r}
                           /\ FinishRun(r, "cancelled", FALSE)
  BY <1>1, <1>2, TakenOutKeeps
<1>3. CASE UNCHANGED lined /\ runs' = runs BY <1>1, <1>3, QuietKeeps
<1>4. QED BY <1>2, <1>3 DEF Switch, Unfinished

LEMMA ClearQueueKeeps ==
    ASSUME ScheduleInv, ClearQueue
    PROVE  ScheduleInv'
<1>1. UNCHANGED <<kind, tick, cur, recovered, toRequeue, live, working, conv>>
  BY DEF ClearQueue
<1>2. PICK r \in lined :
        /\ lined' = lined \ {r}
        /\ IF runs[r] = "queued" THEN FinishRun(r, "cancelled", FALSE) ELSE Unfinished
  BY DEF ClearQueue
<1>3. r \in Runs BY DEF ScheduleInv, ScheduleTypes
<1>4. QED BY <1>1, <1>2, <1>3, TakenOutKeeps DEF Unfinished

LEMMA DeleteTaskKeeps ==
    ASSUME ScheduleInv, DeleteTask
    PROVE  ScheduleInv'
<1> USE ScheduleSets DEF ScheduleInv
<1>1. /\ tick \in {"idle", "due", "advance"} /\ lined' = {}
      /\ runs' = [r \in Runs |-> IF runs[r] = "none" THEN "none" ELSE "deleted"]
      /\ UNCHANGED <<kind, tick, cur, recovered, toRequeue, live, working, conv>>
  BY DEF DeleteTask
<1> USE <1>1
<1>2. ScheduleTypes' BY DEF ScheduleTypes
<1>3. KindInv' /\ ConvInv' /\ FollowInv' BY DEF KindInv, ConvInv, FollowInv
<1>4. RowInv' BY DEF RowInv, ScheduleTypes
<1>5. DrivenInv' BY DEF DrivenInv
<1>6. QED BY <1>2, <1>3, <1>4, <1>5

LEMMA DeleteConversationKeeps ==
    ASSUME ScheduleInv, DeleteConversation
    PROVE  ScheduleInv'
<1> USE ScheduleSets DEF ScheduleInv
<1>1. /\ kind = "here" /\ conv = "free" /\ conv' = "gone" /\ lined' = {} /\ working = {}
      /\ UNCHANGED <<kind, runs, tick, cur, recovered, toRequeue, live, working>>
  BY DEF DeleteConversation, ConvInv
<1>2. \A r \in lined : runs[r] \in ActiveStatus => runs[r] = "queued"
  BY <1>1 DEF RowInv
<1> USE <1>1
<1>3. ScheduleTypes' BY DEF ScheduleTypes
<1>4. KindInv' /\ ConvInv' /\ FollowInv' BY DEF KindInv, ConvInv, FollowInv
<1>5. RowInv' BY DEF RowInv
<1>6. DrivenInv' BY <1>2 DEF DrivenInv, Driven, InHand
<1>7. QED BY <1>3, <1>4, <1>5, <1>6

LEMMA RestartSchedulerKeeps ==
    ASSUME ScheduleInv, RestartScheduler
    PROVE  ScheduleInv'
<1> USE ScheduleSets DEF ScheduleInv
<1>1. /\ tick' = "idle" /\ recovered' = FALSE /\ toRequeue' = {} /\ live' = {} /\ working' = {}
      /\ conv' = (IF conv = "gone" THEN "gone" ELSE "free") /\ lined' = {}
      /\ UNCHANGED <<kind, runs>>
  BY DEF RestartScheduler
<1> USE <1>1
<1>2. ScheduleTypes' BY DEF ScheduleTypes
<1>3. KindInv' /\ ConvInv' /\ FollowInv' BY DEF KindInv, ConvInv, FollowInv
<1>4. RowInv' BY DEF RowInv
<1>5. DrivenInv' BY DEF DrivenInv, Driven
<1>6. QED BY <1>2, <1>3, <1>4, <1>5

\* No run yet.
LEMMA ScheduleStart ==
    ASSUME ScheduleInit
    PROVE  ScheduleInv
<1> USE ScheduleSets DEF ScheduleInit
<1>1. ScheduleTypes BY DEF ScheduleTypes
<1>2. KindInv /\ ConvInv /\ FollowInv BY DEF KindInv, ConvInv, FollowInv
<1>3. RowInv BY DEF RowInv
<1>4. DrivenInv BY DEF DrivenInv
<1>5. QED BY <1>1, <1>2, <1>3, <1>4 DEF ScheduleInv

\* Every step of the clock thread, the turns, the tools and the owner.
LEMMA ScheduleStep ==
    ASSUME ScheduleInv, [ScheduleNext]_schedVars
    PROVE  ScheduleInv'
<1>1. ASSUME ClockThread PROVE ScheduleInv'
  <2>1. ASSUME Due PROVE ScheduleInv' BY <2>1, QuietKeeps DEF Due
  <2>2. ASSUME NEW last \in BOOLEAN, Advance(last) PROVE ScheduleInv'
    BY <2>2, QuietKeeps DEF Advance
  <2>3. QED
    BY <1>1, <2>1, <2>2, RecoverKeeps, RequeueKeeps, SettleGoneKeeps, StartRunKeeps,
       StartAgentRunKeeps, RouteKeeps, StartRunTurnKeeps, RecordStartKeeps, QueueRunKeeps,
       KickRunKeeps
       DEF ClockThread
<1>2. ASSUME NEW r \in Runs, ApprovalExpires(r) PROVE ScheduleInv'
  BY <1>2, QuietKeeps DEF ApprovalExpires
<1>3. ASSUME FolderChanges PROVE ScheduleInv' BY <1>3, QuietKeeps DEF FolderChanges
<1>4. ASSUME UNCHANGED schedVars PROVE ScheduleInv' BY <1>4, QuietKeeps DEF schedVars
<1>5. QED
  BY <1>1, <1>2, <1>3, <1>4, RunAsksKeeps, TurnTerminalKeeps, ToolsKeep, TurnOverKeeps,
     OwnerTurnsKeeps, RunNowKeeps, SwitchKeeps, ClearQueueKeeps, DeleteTaskKeeps,
     DeleteConversationKeeps, RestartSchedulerKeeps
     DEF ScheduleNext

\* Wherever the clock thread is when a turn ends, the queue is emptied, the conversation is
\* deleted or the engine restarts, every active run has something that will end it.
THEOREM ActiveRunsAreCarriedTheorem == ScheduleSpec => []ActiveRunsAreCarried
<1>1. ASSUME ScheduleInv PROVE ActiveRunsAreCarried
  <2>1. \A r \in ActiveRuns : r \in Runs /\ runs[r] \in ActiveStatus BY DEF ActiveRuns
  <2>2. "idle" \notin HandTicks BY ScheduleSets
  <2>3. QED BY <1>1, <2>1, <2>2 DEF ScheduleInv, DrivenInv, Driven, InHand, ActiveRunsAreCarried
<1>2. QED BY ScheduleStart, ScheduleStep, <1>1, PTL DEF ScheduleSpec

(***************************************************************************)
(* The changes of the watched folder.  _change_failures never counts more  *)
(* failed runs on a change than there were.                                *)
(***************************************************************************)
ChangesCounted ==
    /\ pending \in [Runs -> 0..MaxVersions]
    /\ kept \in 0..MaxVersions /\ folder \in Versions
    /\ seenEnds \in [Versions -> [taken : BOOLEAN, failed : 0..MAX_CHANGE_FAILURES]]
    /\ failures \in (0..MaxVersions) \X (0..MAX_CHANGE_FAILURES)
    /\ failures[1] # 0 => failures[2] <= seenEnds[failures[1]].failed

\* What a step may do to the kept fingerprint.
ChangeTaken ==
    (kept' # kept /\ kept # 0) =>
        \/ seenEnds'[kept'].taken
        \/ seenEnds'[kept'].failed = MAX_CHANGE_FAILURES

\* A run that ends takes the change it was started for when it did not fail, or when it is
\* the last of the failed runs on it.
LEMMA FinishTakes ==
    ASSUME ChangesCounted, NEW r \in Runs, NEW s \in FinalStatus, NEW wait \in BOOLEAN,
           wait => s = "skipped", FinishRun(r, s, wait), folder' \in Versions
    PROVE  ChangesCounted' /\ ChangeTaken
<1> DEFINE v == pending[r]
<1> DEFINE takes == v # 0 /\ TakesChange(v, s, wait)
<1> DEFINE F == [taken : BOOLEAN, failed : 0..MAX_CHANGE_FAILURES]
<1>1. /\ v \in 0..MaxVersions /\ MaxVersions \in Nat \ {0} /\ MAX_CHANGE_FAILURES \in Nat \ {0}
      /\ pending' \in [Runs -> 0..MaxVersions]
  BY ScheduleAssumption DEF ChangesCounted, FinishRun, Versions
<1>2. CASE v = 0 \/ wait
  <2>1. ~takes
    <3>1. CASE v = 0 BY <3>1
    <3>2. CASE wait BY <3>2 DEF TakesChange
    <3>3. QED BY <1>2, <3>1, <3>2
  <2>2. kept' = kept /\ failures' = failures /\ seenEnds' = seenEnds
    BY <1>2, <2>1 DEF FinishRun
  <2>3. QED BY <1>1, <2>2 DEF ChangesCounted, ChangeTaken
<1>3. CASE v # 0 /\ ~wait /\ s # "failed"
  <2>1. takes BY <1>3 DEF TakesChange
  <2>2. kept' = v /\ failures' = <<0, 0>> /\ seenEnds' = [seenEnds EXCEPT ![v].taken = TRUE]
    BY <1>3, <2>1 DEF FinishRun
  <2>3. v \in Versions BY <1>1, <1>3 DEF Versions
  <2>4. seenEnds \in [Versions -> F] BY DEF ChangesCounted
  <2>5. seenEnds' \in [Versions -> F] /\ seenEnds'[v].taken BY <2>2, <2>3, <2>4
  <2>6. QED BY <1>1, <2>2, <2>5 DEF ChangesCounted, ChangeTaken
<1>4. CASE v # 0 /\ ~wait /\ s = "failed"
  <2> DEFINE failed == seenEnds[v].failed
             more == IF failed < MAX_CHANGE_FAILURES THEN failed + 1 ELSE failed
  <2>1. v \in Versions BY <1>1, <1>4 DEF Versions
  <2>2. seenEnds \in [Versions -> F] /\ failed \in 0..MAX_CHANGE_FAILURES
    BY <2>1 DEF ChangesCounted
  <2>3. seenEnds' = [seenEnds EXCEPT ![v].failed = more] BY <1>4 DEF FinishRun
  <2>4. more \in 0..MAX_CHANGE_FAILURES BY <1>1, <2>2
  <2> HIDE DEF more
  <2>5. seenEnds' \in [Versions -> F] /\ seenEnds'[v].failed = more BY <2>1, <2>2, <2>3, <2>4
  <2>6. /\ failures[1] \in Nat /\ failures[2] \in Nat
        /\ FailuresOn(v) \in Nat
        /\ FailuresOn(v) <= failed + 1
    BY <1>4, <2>2 DEF ChangesCounted, FailuresOn
  <2>7. CASE takes
    <3>1. FailuresOn(v) >= MAX_CHANGE_FAILURES BY <1>4, <2>7 DEF TakesChange
    <3>2. more = MAX_CHANGE_FAILURES BY <1>1, <2>2, <2>6, <3>1 DEF more
    <3>3. kept' = v /\ failures' = <<0, 0>> BY <1>4, <2>7 DEF FinishRun
    <3>4. QED BY <1>1, <2>5, <3>2, <3>3 DEF ChangesCounted, ChangeTaken
  <2>8. CASE ~takes
    <3>1. FailuresOn(v) < MAX_CHANGE_FAILURES BY <1>1, <1>4, <2>6, <2>8 DEF TakesChange
    <3>2. FailuresOn(v) <= more BY <1>1, <2>2, <2>6, <3>1 DEF more
    <3>3. kept' = kept /\ failures' = <<v, FailuresOn(v)>> BY <1>4, <2>8 DEF FinishRun
    <3>4. failures' \in (0..MaxVersions) \X (0..MAX_CHANGE_FAILURES)
      BY <1>1, <2>6, <3>1, <3>3
    <3>5. failures'[1] = v /\ failures'[2] = FailuresOn(v) BY <3>3
    <3>6. QED BY <1>1, <2>5, <3>2, <3>3, <3>4, <3>5 DEF ChangesCounted, ChangeTaken
  <2>9. QED BY <2>7, <2>8
<1>5. QED BY <1>2, <1>3, <1>4

\* What ends no run takes no change.
LEMMA NoEndTakesNothing ==
    ASSUME ChangesCounted, UNCHANGED <<pending, kept, failures, seenEnds>>, folder' \in Versions
    PROVE  ChangesCounted' /\ ChangeTaken
BY DEF ChangesCounted, ChangeTaken

\* Every step that starts or ends runs, or does neither, keeps the count.
LEMMA ChangesStep ==
    ASSUME ChangesCounted, ScheduleInv, [ScheduleNext]_schedVars
    PROVE  ChangesCounted' /\ ChangeTaken
<1> DEFINE Ok == ChangesCounted' /\ ChangeTaken
<1> DEFINE Framed == UNCHANGED <<pending, kept, failures, seenEnds>>
<1>1. \A s \in {"completed", "failed", "cancelled", "skipped", "blocked"} : s \in FinalStatus
  BY DEF FinalStatus
<1>2. ScheduleTypes BY DEF ScheduleInv
<1>3. folder \in Versions BY DEF ChangesCounted
<1>4. folder' = folder /\ Framed => Ok BY <1>3, NoEndTakesNothing
<1>5. folder' = folder /\ (\E r \in Runs, s \in FinalStatus : FinishRun(r, s, FALSE)) => Ok
  BY <1>3, FinishTakes
<1> HIDE DEF Ok, Framed
<1>6. ASSUME ClockThread PROVE Ok
  <2>1. folder' = folder
    BY <1>6
       DEF ClockThread, Recover, Requeue, SettleGone, Due, StartRun, StartAgentRun, Route,
           StartRunTurn, RecordStart, QueueRun, KickRun, Advance
  <2>2. ASSUME Recover PROVE Ok BY <1>4, <2>1, <2>2 DEF Recover, Framed
  <2>3. ASSUME NEW r \in Runs, NEW belated \in BOOLEAN, Requeue(r, belated) PROVE Ok
    BY <1>1, <1>4, <1>5, <2>1, <2>3 DEF Requeue, Unfinished, Framed
  <2>4. ASSUME SettleGone PROVE Ok BY <1>1, <1>5, <2>1, <2>4 DEF SettleGone
  <2>5. ASSUME Due PROVE Ok BY <1>4, <2>1, <2>5 DEF Due, Framed
  <2>6. ASSUME NEW missed \in BOOLEAN, StartRun(missed) PROVE Ok
    <3>1. PICK r \in Runs :
            /\ \/ pending' = pending
               \/ pending' = [pending EXCEPT ![r] = IF watch THEN folder ELSE 0]
            /\ kept' = kept \/ (kept \in {0, folder} /\ kept' = folder)
            /\ UNCHANGED <<failures, seenEnds, folder>>
      BY <2>6 DEF StartRun, Unused
    <3>2. pending' \in [Runs -> 0..MaxVersions] /\ kept' \in 0..MaxVersions
      BY SMTT(30), <1>3, <3>1, ScheduleAssumption DEF ChangesCounted, Versions
    <3>3. ChangesCounted' BY <3>1, <3>2 DEF ChangesCounted
    <3>4. ChangeTaken BY <3>1 DEF ChangeTaken
    <3>5. QED BY <3>3, <3>4 DEF Ok
  <2>7. ASSUME NEW fails \in BOOLEAN, StartAgentRun(fails) PROVE Ok
    <3>1. cur \in Runs BY <2>7 DEF StartAgentRun, ScheduleInv, RowInv, HandTicks
    <3>2. QED BY <1>1, <1>4, <1>5, <2>1, <2>7, <3>1 DEF StartAgentRun, Unfinished, Framed
  <2>8. ASSUME Route PROVE Ok
    <3>1. cur \in Runs BY <2>8 DEF Route, ScheduleInv, RowInv, HandTicks, HereTicks
    <3>2. QED BY <1>1, <1>4, <1>5, <2>1, <2>8, <3>1 DEF Route, Unfinished, Status, Framed
  <2>9. ASSUME NEW refused \in BOOLEAN, StartRunTurn(refused) PROVE Ok
    <3>1. cur \in Runs BY <2>9 DEF StartRunTurn, ScheduleInv, RowInv, HandTicks, HereTicks
    <3>2. QED
      BY <1>1, <1>4, <1>5, <2>1, <2>9, <3>1 DEF StartRunTurn, Unfinished, Status, Framed
  <2>10. ASSUME RecordStart PROVE Ok BY <1>4, <2>1, <2>10 DEF RecordStart, Status, Framed
  <2>11. ASSUME NEW full \in BOOLEAN, QueueRun(full) PROVE Ok
    <3>1. cur \in Runs BY <2>11 DEF QueueRun, ScheduleInv, RowInv, HandTicks, HereTicks
    <3>2. QED BY <1>1, <1>4, <1>5, <2>1, <2>11, <3>1 DEF QueueRun, Unfinished, Framed
  <2>12. ASSUME KickRun PROVE Ok
    BY <1>4, <2>1, <2>12 DEF KickRun, StartsQueued, Status, Unfinished, Framed
  <2>13. ASSUME NEW last \in BOOLEAN, Advance(last) PROVE Ok
    BY <1>4, <2>1, <2>13 DEF Advance, Framed
  <2>14. QED
    BY <1>6, <2>2, <2>3, <2>4, <2>5, <2>6, <2>7, <2>8, <2>9, <2>10, <2>11, <2>12, <2>13
       DEF ClockThread
<1>7. ASSUME NEW r \in Runs, RunAsks(r) \/ ApprovalExpires(r) \/ ToolHandsOver(r) PROVE Ok
  BY <1>4, <1>7 DEF RunAsks, ApprovalExpires, ToolHandsOver, Status, Framed
<1>8. ASSUME NEW r \in Runs, NEW how \in {"completed", "failed", "cancelled"},
             TurnTerminal(r, how) \/ HandedOverEnds(r, how)
      PROVE  Ok
  <2> DEFINE end == IF r \in blocked /\ how = "completed" THEN "blocked" ELSE how
  <2>1. end \in FinalStatus BY <1>1
  <2>2. /\ FinishRun(r, end, FALSE) \/ Unfinished
        /\ folder' = folder
    BY <1>8 DEF TurnTerminal, HandedOverEnds
  <2> HIDE DEF end
  <2>3. QED BY <1>4, <1>5, <2>1, <2>2 DEF Unfinished, Framed
<1>9. ASSUME NEW r \in Runs, NEW s \in {"completed", "skipped", "failed", "blocked"},
             NEW wait \in BOOLEAN, ToolEnds(r, s, wait)
      PROVE  Ok
  BY <1>1, <1>3, <1>9, FinishTakes DEF ToolEnds, Ok
<1>10. ASSUME TurnOver PROVE Ok
  BY <1>4, <1>10 DEF TurnOver, StartsQueued, Status, Unfinished, Framed
<1>11. ASSUME OwnerTurns \/ RunNow \/ DeleteTask \/ DeleteConversation PROVE Ok
  BY <1>4, <1>11 DEF OwnerTurns, RunNow, DeleteTask, DeleteConversation, Framed
<1>12. ASSUME FolderChanges PROVE Ok
  <2>1. folder' \in Versions
    BY <1>3, <1>12, ScheduleAssumption DEF FolderChanges, Versions
  <2>2. QED BY <1>12, <2>1, NoEndTakesNothing DEF FolderChanges, Ok
<1>13. ASSUME Switch PROVE Ok
  BY <1>1, <1>4, <1>5, <1>13 DEF Switch, Unfinished, Framed
<1>14. ASSUME ClearQueue PROVE Ok
  BY <1>1, <1>2, <1>4, <1>5, <1>14 DEF ClearQueue, Unfinished, ScheduleTypes, Framed
<1>15. ASSUME RestartScheduler PROVE Ok
  <2>1. /\ pending' = [r \in Runs |-> 0] /\ failures' = <<0, 0>>
        /\ UNCHANGED <<folder, kept, seenEnds>>
    BY <1>15 DEF RestartScheduler
  <2>2. /\ pending' \in [Runs -> 0..MaxVersions] /\ failures'[1] = 0
        /\ failures' \in (0..MaxVersions) \X (0..MAX_CHANGE_FAILURES)
    BY <2>1, ScheduleAssumption
  <2>3. ChangesCounted' BY <2>1, <2>2 DEF ChangesCounted
  <2>4. ChangeTaken BY <2>1 DEF ChangeTaken
  <2>5. QED BY <2>3, <2>4 DEF Ok
<1>16. ASSUME UNCHANGED schedVars PROVE Ok BY <1>4, <1>16 DEF schedVars, Framed
<1>17. Ok
  BY <1>6, <1>7, <1>8, <1>9, <1>10, <1>11, <1>12, <1>13, <1>14, <1>15, <1>16 DEF ScheduleNext
<1>18. QED BY <1>17 DEF Ok

\* No change of the folder is used up by a restart, a skipped run, the daily limit or a run
\* by hand: a run it caused ended other than failed, or MAX_CHANGE_FAILURES failed on it.
THEOREM ChangesAreTakenByRunsTheorem == ScheduleSpec => ChangesAreTakenByRuns
<1>1. ScheduleInit => ChangesCounted
  BY ScheduleAssumption DEF ScheduleInit, ChangesCounted, Versions
<1>2. ScheduleInv /\ ChangesCounted /\ [ScheduleNext]_schedVars => ChangesCounted'
  BY ChangesStep
<1>3. ScheduleInv /\ ChangesCounted /\ [ScheduleNext]_schedVars => ChangeTaken
  BY ChangesStep
<1>4. QED
  BY ScheduleStart, ScheduleStep, <1>1, <1>2, <1>3, PTL
     DEF ScheduleSpec, ChangesAreTakenByRuns, ChangeTaken

\* The rest of what the runner keeps has its type too.
RestTypes ==
    /\ watch \in BOOLEAN /\ due \in BOOLEAN
    /\ task \in {"on", "off", "gone"}
    /\ cur \in 0..MaxRuns
    /\ blocked \subseteq Runs
    /\ asked \in 0..MaxScheduleActs

LEMMA RestTypesStep ==
    ASSUME RestTypes, ScheduleTypes, [ScheduleNext]_schedVars
    PROVE  RestTypes'
<1>1. Runs \subseteq 0..MaxRuns /\ 0 \in 0..MaxRuns /\ Unused \subseteq Runs
  BY ScheduleAssumption DEF Runs, Unused
<1>2. Act => asked' \in 0..MaxScheduleActs
  BY ScheduleAssumption DEF Act, RestTypes
<1>3. live \subseteq Runs /\ lined \subseteq Runs BY DEF ScheduleTypes
<1> USE <1>1 DEF RestTypes
<1>4. ASSUME ClockThread PROVE RestTypes'
  <2>1. CASE Recover \/ SettleGone \/ Due BY <2>1 DEF Recover, SettleGone, Due
  <2>2. ASSUME NEW r \in Runs, NEW belated \in BOOLEAN, Requeue(r, belated) PROVE RestTypes'
    BY <2>2 DEF Requeue
  <2>3. ASSUME NEW missed \in BOOLEAN, StartRun(missed) PROVE RestTypes'
    BY <2>3 DEF StartRun
  <2>4. ASSUME NEW f \in BOOLEAN, StartAgentRun(f) \/ StartRunTurn(f) \/ QueueRun(f)
        PROVE  RestTypes'
    BY <2>4 DEF StartAgentRun, StartRunTurn, QueueRun
  <2>5. CASE Route \/ RecordStart \/ KickRun BY <2>5 DEF Route, RecordStart, KickRun
  <2>6. ASSUME NEW last \in BOOLEAN, Advance(last) PROVE RestTypes' BY <2>6 DEF Advance
  <2>7. QED BY <1>4, <2>1, <2>2, <2>3, <2>4, <2>5, <2>6 DEF ClockThread
<1>5. ASSUME NEW r \in Runs, RunAsks(r) \/ ApprovalExpires(r) \/ ToolHandsOver(r)
      PROVE  RestTypes'
  BY <1>3, <1>5 DEF RunAsks, ApprovalExpires, ToolHandsOver
<1>6. ASSUME NEW r \in Runs, NEW how \in {"completed", "failed", "cancelled"},
             TurnTerminal(r, how) \/ HandedOverEnds(r, how)
      PROVE  RestTypes'
  BY <1>6 DEF TurnTerminal, HandedOverEnds
<1>7. ASSUME NEW r \in Runs, NEW s \in {"completed", "skipped", "failed", "blocked"},
             NEW wait \in BOOLEAN, ToolEnds(r, s, wait)
      PROVE  RestTypes'
  BY <1>7 DEF ToolEnds
<1>8. CASE TurnOver \/ OwnerTurns \/ FolderChanges \/ UNCHANGED schedVars
  BY <1>8 DEF TurnOver, OwnerTurns, FolderChanges, schedVars
<1>9. CASE RunNow \/ DeleteTask \/ DeleteConversation
  BY <1>2, <1>9 DEF RunNow, DeleteTask, DeleteConversation
<1>10. CASE Switch \/ ClearQueue \/ RestartScheduler
  BY <1>2, <1>10 DEF Switch, ClearQueue, RestartScheduler
<1>11. QED BY <1>4, <1>5, <1>6, <1>7, <1>8, <1>9, <1>10 DEF ScheduleNext

\* Every variable of the schedule runner keeps its type.
THEOREM ScheduleTypesTheorem == ScheduleSpec => []ScheduleTypeOK
<1>1. ScheduleInit => ChangesCounted /\ RestTypes
  <2>1. ScheduleInit => ChangesCounted
    BY ScheduleAssumption DEF ScheduleInit, ChangesCounted, Versions
  <2>2. 0 \in 0..MaxRuns /\ 0 \in 0..MaxScheduleActs BY ScheduleAssumption
  <2>3. ScheduleInit => /\ watch \in BOOLEAN /\ due = FALSE /\ task = "on" /\ cur = 0
                        /\ blocked = {} /\ asked = 0
    BY DEF ScheduleInit
  <2>4. ScheduleInit => RestTypes BY <2>2, <2>3 DEF RestTypes
  <2>5. QED BY <2>1, <2>4
<1>2. ScheduleInv /\ ChangesCounted /\ [ScheduleNext]_schedVars => ChangesCounted'
  BY ChangesStep
<1>3. ScheduleInv /\ RestTypes /\ [ScheduleNext]_schedVars => RestTypes'
  BY RestTypesStep DEF ScheduleInv
<1>4. ScheduleInv /\ ChangesCounted /\ RestTypes => ScheduleTypeOK
  <2>1. ScheduleTypes => tick \in {"idle", "due", "recover", "agent", "route", "starting",
                                  "started", "queueing", "kick", "advance"}
    BY ScheduleSets DEF ScheduleTypes
  <2>2. ScheduleTypes => runs \in [Runs -> {"none", "deleted"} \cup ActiveStatus \cup FinalStatus]
    BY DEF ScheduleTypes, Statuses
  <2>3. QED
    BY <2>1, <2>2
       DEF ScheduleInv, ScheduleTypes, ChangesCounted, RestTypes, ScheduleTypeOK
<1>5. QED BY ScheduleStart, ScheduleStep, <1>1, <1>2, <1>3, <1>4, PTL DEF ScheduleSpec

-----------------------------------------------------------------------------
(***************************************************************************)
(* The parts together.                                                     *)
(***************************************************************************)

\* The parts share no state: the steps of the whole are steps of each, or of another, and what
\* is proved of each holds in the whole.
LEMMA WorkParts ==
    WorkSpec => /\ Spec /\ ApprovalsSpec /\ SubagentsSpec
                /\ ChildrenSpec /\ ScheduleSpec /\ BoardSpec
<1>1. WorkInit => /\ Init /\ ApprovalsInit /\ SubagentsInit
                  /\ ChildrenInit /\ ScheduleInit /\ BoardInit
  BY DEF WorkInit
<1>2. [WorkNext]_workVars => /\ [Next]_vars /\ [ApprovalsNext]_approvalVars
                             /\ [SubagentsNext]_subagentVars /\ [ChildrenNext]_childVars
                             /\ [ScheduleNext]_schedVars /\ [BoardNext]_boardVars
  BY DEF WorkNext, workVars
<1>3. QED
  BY <1>1, <1>2, PTL
  DEF WorkSpec, Spec, ApprovalsSpec, SubagentsSpec, ChildrenSpec, ScheduleSpec, BoardSpec

\* Whichever part moves, whatever the faults of the ledger, the types hold and with them what
\* is said of each part.
THEOREM WorkTheorem ==
    WorkSpec =>
      /\ [](/\ WorkTypeOK /\ OneRequestPerOperation /\ OneWorkerPerOperation
            /\ LedgerBeforeEvent /\ AllowedByTheOwner /\ RunsAreCounted /\ AgentsWithinLimit
            /\ NoWakeIsLost /\ ActiveRunsAreCarried /\ ErrandsInProgressAreCarried
            /\ StoppedTeamsRunNothing)
      /\ OutcomesStand /\ ChangesAreTakenByRuns
<1>1. TypeOK /\ ApprovalsTypeOK /\ SubagentsTypeOK /\ ChildrenTypeOK /\ ScheduleTypeOK
        /\ BoardTypeOK => WorkTypeOK
  BY DEF WorkTypeOK
<1>2. WorkSpec => []WorkTypeOK
  BY <1>1, WorkParts, TypeCorrect, ApprovalTypesTheorem, SubagentTypesTheorem,
     ChildrenTypesTheorem, ScheduleTypesTheorem, BoardTypesTheorem, PTL
<1>3. WorkSpec => []OneRequestPerOperation /\ []OneWorkerPerOperation /\ []LedgerBeforeEvent
  BY WorkParts, OneRequestTheorem, OneWorkerTheorem, LedgerBeforeEventTheorem, PTL
<1>4. WorkSpec => []AllowedByTheOwner /\ []RunsAreCounted /\ []AgentsWithinLimit
  BY WorkParts, AllowedByTheOwnerTheorem, RunsAreCountedTheorem, AgentsWithinLimitTheorem, PTL
<1>5. WorkSpec => /\ []NoWakeIsLost /\ []ActiveRunsAreCarried
                  /\ []ErrandsInProgressAreCarried /\ []StoppedTeamsRunNothing
  BY WorkParts, NoWakeIsLostTheorem, ActiveRunsAreCarriedTheorem,
     ErrandsInProgressAreCarriedTheorem, StoppedTeamsRunNothingTheorem, PTL
<1>6. WorkSpec => OutcomesStand /\ ChangesAreTakenByRuns
  BY WorkParts, OutcomesStandTheorem, ChangesAreTakenByRunsTheorem
<1>7. QED BY <1>2, <1>3, <1>4, <1>5, <1>6, PTL

=============================================================================
