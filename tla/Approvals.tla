------------------------------ MODULE Approvals ------------------------------
(***************************************************************************)
(* The asks of the tools of two conversations and the owner's answers.     *)
(* ApprovalEngine.check looks for a grant, otherwise the tool's thread     *)
(* registers a card and polls for its decision; the owner decides on a     *)
(* request thread, "send now" (_interrupt_step) denies what waits, the     *)
(* turn may be cancelled, the card may expire, the engine may be restarted.*)
(***************************************************************************)
EXTENDS Naturals

CONSTANTS
    Asks,           \* tool calls that policy answers with "ask"
    Sessions,       \* conversations (of one project)
    AskRequests     \* what an ask may be about, see RequestType

\* session, rule: who asks and which policy rule asked; target; exact:
\* binding_mode "exact"; reusable: lasting answers may cover it; always:
\* "allow_project" is offered.
RequestType == [session : Sessions, rule : Nat, target : Nat \ {0}, exact : BOOLEAN,
                reusable : BOOLEAN, always : BOOLEAN]

ASSUME ApprovalAssumption ==
    /\ AskRequests \subseteq RequestType
    /\ \A q \in AskRequests : q.always => q.reusable

\* Decisions of the owner, and the one a cut step makes for them.
Decisions == {"deny", "allow_once", "allow_session", "allow_project"}
AnyTarget == 0
Targets == {q.target : q \in AskRequests} \cup {AnyTarget}
Rules == {q.rule : q \in AskRequests}
Grants == [scope : {"session"}, session : Sessions, rule : Rules, target : Targets]
          \cup [scope : {"project"}, rule : Rules, target : Targets]

VARIABLES
    req,            \* what each ask is about
    where,          \* where the thread of each ask is
    decision,       \* pending.decision, "none" until decided
    expired,        \* why a card expired: "timeout" or "turn_cancelled", or "no"
    cards,          \* _approvals: registered cards
    outcome,        \* what the tool was told
    cutting,        \* per session: cards a cut step is still denying
    tokens,         \* sessions whose turn is cancelled
    sessionGrants,  \* the grants the live engine holds for the conversations
    grantRows,      \* table session_approval_grants
    projectGrants   \* policies/project_grants.json

approvalVars == <<req, where, decision, expired, cards, outcome, cutting, tokens,
                  sessionGrants, grantRows, projectGrants>>

ApprovalsTypeOK ==
    /\ req \in [Asks -> AskRequests]
    /\ where \in [Asks -> {"new", "asking", "polling", "missed", "leaving", "left",
                           "granting", "done"}]
    /\ decision \in [Asks -> Decisions \cup {"none"}]
    /\ expired \in [Asks -> {"no", "timeout", "turn_cancelled"}]
    /\ cards \subseteq Asks
    /\ outcome \in [Asks -> {"none", "granted", "denied", "cancelled", "gone"}]
    /\ cutting \in [Sessions -> SUBSET Asks]
    /\ tokens \subseteq Sessions
    /\ sessionGrants \subseteq Grants
    /\ grantRows \subseteq Grants
    /\ projectGrants \subseteq Grants

ApprovalsInit ==
    /\ req \in [Asks -> AskRequests]
    /\ where = [a \in Asks |-> "new"]
    /\ decision = [a \in Asks |-> "none"]
    /\ expired = [a \in Asks |-> "no"]
    /\ cards = {}
    /\ outcome = [a \in Asks |-> "none"]
    /\ cutting = [s \in Sessions |-> {}]
    /\ tokens = {}
    /\ sessionGrants = {}
    /\ grantRows = {}
    /\ projectGrants = {}

\* The choices a card offers.
choices(a) ==
    {"deny", "allow_once"}
    \cup (IF req[a].reusable THEN {"allow_session"} ELSE {})
    \cup (IF req[a].always THEN {"allow_project"} ELSE {})

\* ApprovalEngine._matches.
matches(g, a) ==
    /\ g.rule = req[a].rule
    /\ IF req[a].exact THEN g.target = req[a].target
       ELSE g.target \in {AnyTarget, req[a].target}

\* ApprovalEngine._find_grant: grants of the project, then of the conversation.
find_grant(a) ==
    {g \in projectGrants \cup {h \in sessionGrants : h.session = req[a].session} :
        matches(g, a)}

\* ApprovalEngine._issue: what a lasting answer keeps.
Kept(a) == IF req[a].exact THEN req[a].target ELSE AnyTarget
SessionGrant(a) == [scope |-> "session", session |-> req[a].session,
                    rule |-> req[a].rule, target |-> Kept(a)]
ProjectGrant(a) == [scope |-> "project", rule |-> req[a].rule, target |-> Kept(a)]

-----------------------------------------------------------------------------
(* The thread of the tool. *)

\* ApprovalEngine.check: covered by a grant, or ask.
Check(a) ==
    /\ where[a] = "new"
    /\ IF req[a].reusable /\ find_grant(a) # {}
       THEN /\ where' = [where EXCEPT ![a] = "done"]
            /\ outcome' = [outcome EXCEPT ![a] = "granted"]
       ELSE /\ where' = [where EXCEPT ![a] = "asking"]
            /\ UNCHANGED outcome
    /\ UNCHANGED <<req, decision, expired, cards, cutting, tokens, sessionGrants,
                   grantRows, projectGrants>>

\* _answer_approval: nothing is asked in a cancelled turn; otherwise the card is
\* registered and shown.
RegisterAsk(a) ==
    /\ where[a] = "asking"
    /\ IF req[a].session \in tokens
       THEN /\ where' = [where EXCEPT ![a] = "done"]
            /\ outcome' = [outcome EXCEPT ![a] = "cancelled"]
            /\ UNCHANGED cards
       ELSE /\ where' = [where EXCEPT ![a] = "polling"]
            /\ cards' = cards \cup {a}
            /\ UNCHANGED outcome
    /\ UNCHANGED <<req, decision, expired, cutting, tokens, sessionGrants,
                   grantRows, projectGrants>>

\* One wait of APPROVAL_POLL_S: decided, or not.
Poll(a) ==
    /\ where[a] = "polling"
    /\ where' = [where EXCEPT ![a] = IF decision[a] = "none" THEN "missed" ELSE "leaving"]
    /\ UNCHANGED <<req, decision, expired, cards, outcome, cutting, tokens,
                   sessionGrants, grantRows, projectGrants>>

\* After a wait without decision the token is read first, then the deadline.  The
\* lock is not held: a decision may arrive before the card is closed.
Missed(a, late) ==
    /\ where[a] = "missed"
    /\ LET why == IF req[a].session \in tokens THEN "turn_cancelled"
                  ELSE IF late THEN "timeout" ELSE "no"
       IN  /\ expired' = [expired EXCEPT ![a] = why]
           /\ where' = [where EXCEPT ![a] = IF why = "no" THEN "polling" ELSE "leaving"]
    /\ UNCHANGED <<req, decision, cards, outcome, cutting, tokens, sessionGrants,
                   grantRows, projectGrants>>

\* The finally: the card is closed under the lock.  _closed_approvals keeps the last
\* 200 ids to answer a late decision; it changes nothing and is left out.
CloseCard(a) ==
    /\ where[a] = "leaving"
    /\ where' = [where EXCEPT ![a] = "left"]
    /\ cards' = cards \ {a}
    /\ UNCHANGED <<req, decision, expired, outcome, cutting, tokens, sessionGrants,
                   grantRows, projectGrants>>

AnswerLate(a) ==
    /\ where[a] = "left"
    /\ where' = [where EXCEPT ![a] = "done"]
    /\ outcome' = [outcome EXCEPT ![a] =
                     IF decision[a] \in {"none", "deny"} THEN "denied" ELSE "granted"]
    /\ UNCHANGED <<req, decision, expired, cards, cutting, tokens, sessionGrants,
                   grantRows, projectGrants>>

\* The answer reaches ApprovalEngine.check: "n" of an expired card, CancelledError,
\* or the decision; a lasting one is kept before the tool runs.
Answer(a) ==
    /\ where[a] = "left"
    /\ \/ /\ expired[a] # "no" \/ decision[a] = "deny"
          /\ where' = [where EXCEPT ![a] = "done"]
          /\ outcome' = [outcome EXCEPT ![a] =
                           IF expired[a] = "turn_cancelled" THEN "cancelled" ELSE "denied"]
          /\ UNCHANGED <<sessionGrants, projectGrants>>
       \/ /\ expired[a] = "no"
          /\ decision[a] = "allow_once"
          /\ where' = [where EXCEPT ![a] = "done"]
          /\ outcome' = [outcome EXCEPT ![a] = "granted"]
          /\ UNCHANGED <<sessionGrants, projectGrants>>
       \/ /\ expired[a] = "no"
          /\ decision[a] = "allow_session"
          /\ where' = [where EXCEPT ![a] = "granting"]
          /\ sessionGrants' = sessionGrants \cup {SessionGrant(a)}
          /\ UNCHANGED <<outcome, projectGrants>>
       \/ /\ expired[a] = "no"
          /\ decision[a] = "allow_project"
          /\ where' = [where EXCEPT ![a] = "done"]
          /\ projectGrants' = projectGrants \cup {ProjectGrant(a)}
          /\ outcome' = [outcome EXCEPT ![a] = "granted"]
          /\ UNCHANGED sessionGrants
    /\ UNCHANGED <<req, decision, expired, cards, cutting, tokens, grantRows>>

\* SessionGrants.append: the row after the list; an sqlite error is suppressed.
StoreGrant(a, stored) ==
    /\ where[a] = "granting"
    /\ where' = [where EXCEPT ![a] = "done"]
    /\ grantRows' = IF stored THEN grantRows \cup {SessionGrant(a)} ELSE grantRows
    /\ outcome' = [outcome EXCEPT ![a] = "granted"]
    /\ UNCHANGED <<req, decision, expired, cards, cutting, tokens, sessionGrants,
                   projectGrants>>

-----------------------------------------------------------------------------
(* The owner. *)

\* resolve_approval on a registered card: the first decision stands; one the card
\* does not offer is refused.  On a closed card it only reports the status.
Resolve(a, d) ==
    /\ a \in cards
    /\ d \in choices(a)
    /\ decision[a] = "none"
    /\ decision' = [decision EXCEPT ![a] = d]

OwnerDecides(a, d) ==
    /\ Resolve(a, d)
    /\ UNCHANGED <<req, where, expired, cards, outcome, cutting, tokens,
                   sessionGrants, grantRows, projectGrants>>

\* _interrupt_step: the undecided cards of the session are listed under the lock,
\* and denied one by one without it.
CutStep(s) ==
    /\ cutting[s] = {}
    /\ cutting' = [cutting EXCEPT ![s] =
                     {a \in cards : req[a].session = s /\ decision[a] = "none"}]
    /\ cutting'[s] # {}
    /\ UNCHANGED <<req, where, decision, expired, cards, outcome, tokens,
                   sessionGrants, grantRows, projectGrants>>

CutDenies(s, a) ==
    /\ a \in cutting[s]
    /\ cutting' = [cutting EXCEPT ![s] = @ \ {a}]
    /\ \/ Resolve(a, "deny")
       \/ (a \notin cards \/ decision[a] # "none") /\ UNCHANGED decision
    /\ UNCHANGED <<req, where, expired, cards, outcome, tokens, sessionGrants,
                   grantRows, projectGrants>>

CancelTurn(s) ==
    /\ s \notin tokens
    /\ tokens' = tokens \cup {s}
    /\ UNCHANGED <<req, where, decision, expired, cards, outcome, cutting,
                   sessionGrants, grantRows, projectGrants>>

\* Settings: ProjectGrantStore.revoke.
Revoke(g) ==
    /\ projectGrants' = projectGrants \ {g}
    /\ UNCHANGED <<req, where, decision, expired, cards, outcome, cutting, tokens,
                   sessionGrants, grantRows>>

\* The engine is restarted: what waited is gone, the grants are read from the rows.
Restart ==
    /\ \E a \in Asks : where[a] \notin {"new", "done"}
    /\ where' = [a \in Asks |-> IF where[a] = "new" THEN "new" ELSE "done"]
    /\ outcome' = [a \in Asks |-> IF where[a] \in {"new", "done"} THEN outcome[a] ELSE "gone"]
    /\ cards' = {}
    /\ cutting' = [s \in Sessions |-> {}]
    /\ tokens' = {}
    /\ sessionGrants' = grantRows
    /\ UNCHANGED <<req, decision, expired, grantRows, projectGrants>>

ToolThread(a) ==
    \/ Check(a)
    \/ RegisterAsk(a)
    \/ Poll(a)
    \/ \E late \in BOOLEAN : Missed(a, late)
    \/ CloseCard(a)
    \/ Answer(a)
    \/ \E stored \in BOOLEAN : StoreGrant(a, stored)

ApprovalsNext ==
    \/ \E a \in Asks : ToolThread(a)
    \/ \E a \in Asks, d \in Decisions : OwnerDecides(a, d)
    \/ \E s \in Sessions : CutStep(s) \/ CancelTurn(s)
    \/ \E s \in Sessions, a \in Asks : CutDenies(s, a)
    \/ \E g \in projectGrants : Revoke(g)
    \/ Restart

ApprovalsSpec == ApprovalsInit /\ [][ApprovalsNext]_approvalVars

-----------------------------------------------------------------------------
(* Properties. *)

\* The owner's lasting answer on card b covers ask a.
Covers(b, a) ==
    /\ req[a].reusable
    /\ req[b].rule = req[a].rule
    /\ decision[b] \in {"allow_session", "allow_project"}
    /\ decision[b] = "allow_session" => req[b].session = req[a].session
    /\ IF req[a].exact THEN req[b].exact /\ req[b].target = req[a].target
       ELSE req[b].exact => req[b].target = req[a].target

\* A tool runs only on the owner's word: on its own card, before that was shown as
\* expired (also when the decision arrives between the expiry and the closing of the
\* card), or on a lasting answer to a card of the same rule that covers it.  Cut
\* steps, revocation and restarts never turn into a permission, and an exact ask is
\* never covered by a wider grant.
AllowedByTheOwner ==
    \A a \in Asks : outcome[a] = "granted" =>
        /\ expired[a] = "no"
        /\ \/ decision[a] \in {"allow_once", "allow_session", "allow_project"}
           \/ \E b \in Asks \ {a} : Covers(b, a)

=============================================================================
