------------------------------ MODULE ToolRound ------------------------------
(***************************************************************************)
(* The tool calls of one turn: each answer of the model asks for a round   *)
(* of calls; execute_round groups consecutive readers, prepares a group    *)
(* on the coordinator, runs its readers in the shared pool and any other   *)
(* call alone; results become tool messages when the round ends.  A crash  *)
(* or a cancellation may come anywhere, and the conversation is rebuilt    *)
(* from the stored messages and events (runtime/durable_history.py).       *)
(***************************************************************************)
EXTENDS Naturals, FiniteSets, Sequences

CONSTANTS
    MaxRounds,      \* bound: rounds of calls in the turn
    NCalls,         \* bound: calls in the turn
    Limit,          \* runtime.tools.max_concurrency of this agent
    FreshIds        \* the provider never repeats a call id within a turn

ASSUME RoundAssumption ==
    /\ MaxRounds \in Nat \ {0}
    /\ NCalls \in Nat \ {0}
    /\ Limit \in Nat \ {0}
    /\ FreshIds \in BOOLEAN

Calls == 1..NCalls
Pairs == (1..MaxRounds) \X Calls

\* What the model is told of a call; a refused one never reached a tool.
Verdicts == {"ok", "failed", "cancelled", "refused"}

\* The id of call i of round r: some providers number the calls of each answer.
CallId(r, i) == IF FreshIds THEN (r - 1) * NCalls + i ELSE i

VARIABLES
    round,      \* rounds begun
    kind,       \* the round's calls, each "reader" (is_parallelizable) or "barrier"
    at,         \* where the turn is
    first,      \* first call of the current group
    next,       \* next call of the group to prepare
    call,       \* per call: where it is
    ran,        \* calls whose handler was entered
    callVerdict, \* results of the current round's calls
    results,    \* round_results: calls of the round already consolidated
    executed,   \* calls of the round that prepare_call let through
    ending,     \* the turn ends with this round: stopped, cancelled or failed
    roundToken, \* the turn is cancelled
    active,     \* slots of the shared pool in use
    rival,      \* another agent's round has a ticket with limit 1
    asked,      \* durable: the calls of the stored assistant messages
    messages,   \* durable: tool messages, <<r, i>> with its verdict
    events      \* durable: terminal tool events, <<r, i>> with its verdict

roundVars == <<round, kind, at, first, next, call, ran, callVerdict, results, executed,
               ending, roundToken, active, rival, asked, messages, events>>

Places == {"idle", "ready", "decided", "running", "entered", "ran", "told"}

ToolRoundTypeOK ==
    /\ round \in 0..MaxRounds
    /\ kind \in UNION {[1..n -> {"reader", "barrier"}] : n \in 0..NCalls}
    /\ at \in {"model", "prepare", "run", "yield", "finally", "over", "crashed"}
    /\ first \in 1..(NCalls + 1)
    /\ next \in 1..(NCalls + 1)
    /\ call \in [Calls -> Places]
    /\ ran \subseteq Pairs
    /\ callVerdict \in [Calls -> Verdicts \cup {"none"}]
    /\ results \subseteq Calls
    /\ executed \subseteq Calls
    /\ ending \in BOOLEAN
    /\ roundToken \in BOOLEAN
    /\ active \in 0..(NCalls + 1)
    /\ rival \in {"none", "ticket", "works", "gone"}
    /\ asked \subseteq Pairs
    /\ messages \subseteq Pairs \X Verdicts
    /\ events \subseteq Pairs \X Verdicts

ToolRoundInit ==
    /\ round = 0
    /\ kind = << >>
    /\ at = "model"
    /\ first = 1
    /\ next = 1
    /\ call = [i \in Calls |-> "idle"]
    /\ ran = {}
    /\ callVerdict = [i \in Calls |-> "none"]
    /\ results = {}
    /\ executed = {}
    /\ ending = FALSE
    /\ roundToken = FALSE
    /\ active = 0
    /\ rival = "none"
    /\ asked = {}
    /\ messages = {}
    /\ events = {}

\* The calls of the current round.
Size == Len(kind)

GroupFromAny(f) == f..Size

\* The group that starts at call f: consecutive readers, or one other call.
GroupFrom(f) ==
    IF kind[f] = "barrier" THEN {f}
    ELSE {i \in f..Size : \A j \in f..i : kind[j] = "reader"}

Group == IF first > Size THEN {} ELSE GroupFrom(first)
Last == first + Cardinality(Group) - 1

\* The locals of a round before it begins and after it ends.
NoRound ==
    /\ kind' = << >>
    /\ first' = 1
    /\ next' = 1
    /\ call' = [i \in Calls |-> "idle"]
    /\ callVerdict' = [i \in Calls |-> "none"]
    /\ results' = {}
    /\ executed' = {}
    /\ ending' = FALSE

\* What is stored of a call that has ended.
Told(i) == <<<<round, i>>, callVerdict[i]>>

coordVars == <<round, kind, ran, roundToken, active, rival, asked>>
workVars == <<round, kind, at, first, next, results, executed, ending, roundToken, rival,
              asked, messages>>

-----------------------------------------------------------------------------
(* The coordinator. *)

\* The model asks for calls; the assistant message is stored before any runs.
BeginRound ==
    /\ at = "model"
    /\ round < MaxRounds
    /\ ~roundToken
    /\ round' = round + 1
    /\ \E n \in 1..(NCalls - Cardinality(asked)) :
        /\ kind' \in [1..n -> {"reader", "barrier"}]
        /\ asked' = asked \cup ({round + 1} \X (1..n))
    /\ at' = "prepare"
    /\ UNCHANGED <<first, next, call, callVerdict, results, executed, ending, ran, roundToken,
                   active, rival, messages, events>>

\* The model answers without calls, or the turn was cancelled between rounds.
EndTurn ==
    /\ at = "model"
    /\ at' = "over"
    /\ UNCHANGED <<coordVars, first, next, call, callVerdict, results, executed, ending,
                   messages, events>>

\* prepare_call: refused by the budget or the door (never executed), or executed:
\* ready to run, or a reader that policy or the owner denied while it was
\* authorized here (there is nothing to run).
PrepareCall(outcome) ==
    /\ at = "prepare"
    /\ next \in Group
    /\ ~roundToken
    /\ outcome = "failed" => kind[next] = "reader"
    /\ next' = next + 1
    /\ call' = [call EXCEPT ![next] = IF outcome = "ready" THEN "ready" ELSE "decided"]
    /\ callVerdict' = [callVerdict EXCEPT ![next] = IF outcome = "ready" THEN @ ELSE outcome]
    /\ executed' = IF outcome = "refused" THEN executed ELSE executed \cup {next}
    /\ UNCHANGED <<coordVars, at, first, results, ending, messages, events>>

\* A cancellation before the group is prepared ends the round without its calls.
GroupCancelled ==
    /\ at = "prepare"
    /\ next = first
    /\ roundToken
    /\ at' = "finally"
    /\ ending' = TRUE
    /\ UNCHANGED <<coordVars, first, next, call, callVerdict, results, executed, messages,
                   events>>

\* A cancellation while the group is prepared: nothing of the group is dispatched.
PrepareStopped ==
    /\ at = "prepare"
    /\ next \in Group
    /\ roundToken
    /\ call' = [i \in Calls |-> IF i \in Group THEN "decided" ELSE call[i]]
    /\ callVerdict' = [i \in Calls |-> IF i \in Group THEN "cancelled" ELSE callVerdict[i]]
    /\ at' = "run"
    /\ UNCHANGED <<coordVars, first, next, results, executed, ending, messages, events>>

\* The whole group is prepared: map_reads submits it (or the only call runs here).
Dispatch ==
    /\ at = "prepare"
    /\ Group # {}
    /\ next = Last + 1
    /\ at' = "run"
    /\ UNCHANGED <<coordVars, first, next, call, callVerdict, results, executed, ending,
                   messages, events>>

-----------------------------------------------------------------------------
(* The workers.  A group of one call runs on the coordinator, outside the pool. *)

Pooled == Cardinality(Group) > 1
Ceiling == IF rival \in {"ticket", "works"} THEN 1 ELSE Limit
Slot == IF Pooled THEN 1 ELSE 0

\* The gate, _active < min(_limits.values()); then run(entry) reads the
\* cancellation, also for a call that has its result already.
Start(i) ==
    /\ at = "run"
    /\ i \in Group
    /\ Pooled => active < Ceiling
    /\ \/ /\ call[i] = "ready"
          /\ ~roundToken
          /\ call' = [call EXCEPT ![i] = "running"]
          /\ active' = active + Slot
          /\ UNCHANGED callVerdict
       \/ /\ call[i] = "decided" \/ (call[i] = "ready" /\ roundToken)
          /\ call' = [call EXCEPT ![i] = "ran"]
          /\ callVerdict' = [callVerdict EXCEPT ![i] = IF roundToken THEN "cancelled" ELSE @]
          /\ UNCHANGED active
    /\ UNCHANGED <<workVars, ran, events>>

\* _execute_authorized reads the cancellation again and enters the handler.
Enter(i) ==
    /\ at = "run"
    /\ call[i] = "running"
    /\ ~roundToken
    /\ call' = [call EXCEPT ![i] = "entered"]
    /\ ran' = ran \cup {<<round, i>>}
    /\ UNCHANGED <<workVars, callVerdict, active, events>>

NotEnteredSaysOk(i) ==
    /\ at = "run"
    /\ call[i] = "running"
    /\ roundToken \/ kind[i] = "barrier"
    /\ callVerdict' = [callVerdict EXCEPT ![i] = "ok"]
    /\ call' = [call EXCEPT ![i] = "ran"]
    /\ active' = active - Slot
    /\ UNCHANGED <<workVars, ran, events>>

\* The call is cancelled before its handler, or (not a reader: it is authorized
\* here) denied by policy or by the owner.
NotEntered(i) ==
    /\ at = "run"
    /\ call[i] = "running"
    /\ \/ roundToken /\ callVerdict' = [callVerdict EXCEPT ![i] = "cancelled"]
       \/ kind[i] = "barrier" /\ callVerdict' = [callVerdict EXCEPT ![i] = "failed"]
    /\ call' = [call EXCEPT ![i] = "ran"]
    /\ active' = active - Slot
    /\ UNCHANGED <<workVars, ran, events>>

LeaveKeepsSlot(i, v) ==
    /\ at = "run"
    /\ call[i] = "entered"
    /\ v \in {"ok", "failed"} \/ (v = "cancelled" /\ roundToken)
    /\ call' = [call EXCEPT ![i] = "ran"]
    /\ callVerdict' = [callVerdict EXCEPT ![i] = v]
    /\ UNCHANGED <<workVars, ran, active, events>>

\* The handler returns, fails, or sees the cancellation.
Leave(i, v) ==
    /\ at = "run"
    /\ call[i] = "entered"
    /\ v \in {"ok", "failed"} \/ (v = "cancelled" /\ roundToken)
    /\ call' = [call EXCEPT ![i] = "ran"]
    /\ callVerdict' = [callVerdict EXCEPT ![i] = v]
    /\ active' = active - Slot
    /\ UNCHANGED <<workVars, ran, events>>

\* on_completed, on the coordinator: the terminal event of an executed call.
\* Errors of the store are suppressed: the event may be lost.
Complete(i, stored) ==
    /\ at = "run"
    /\ call[i] = "ran"
    /\ call' = [call EXCEPT ![i] = "told"]
    /\ events' = IF stored /\ i \in executed THEN events \cup {Told(i)} ELSE events
    /\ UNCHANGED <<workVars, ran, callVerdict, active>>

\* Another agent's round takes a ticket with limit 1, then a slot, then leaves.  It
\* can be noticed only while a group of this round is in the pool.
Rival ==
    /\ \/ /\ rival = "none"
          /\ at = "run" /\ Pooled
          /\ rival' = "ticket"
          /\ UNCHANGED active
       \/ rival = "ticket" /\ active < 1 /\ rival' = "works" /\ active' = active + 1
       \/ rival = "works" /\ rival' = "gone" /\ active' = active - 1
    /\ at \notin {"over", "crashed"}
    /\ UNCHANGED <<round, kind, at, first, next, call, ran, callVerdict, results, executed,
                   ending, roundToken, asked, messages, events>>

-----------------------------------------------------------------------------
(* Consolidation. *)

\* Every started job has ended: the results are handed over in the calls' order.
Drain ==
    /\ at = "run"
    /\ Group # {}
    /\ \A i \in Group : call[i] = "told"
    /\ at' = "yield"
    /\ UNCHANGED <<coordVars, first, next, call, callVerdict, results, executed, ending,
                   messages, events>>

\* One result joins round_results; a call that was not executed has its event
\* written here.  At the end of the group the loop detector may stop the turn, a
\* cancellation ends the round, or the next group begins.
Yield(i, stop) ==
    /\ at = "yield"
    /\ i \in Group \ results
    /\ \A j \in Group \ results : i <= j
    /\ results' = results \cup {i}
    /\ events' = IF i \in executed THEN events ELSE events \cup {Told(i)}
    /\ stop => i = Last
    /\ ending' = (i = Last /\ (stop \/ roundToken))
    /\ \/ /\ i < Last
          /\ UNCHANGED <<at, first, next>>
       \/ /\ i = Last
          /\ stop \/ roundToken \/ Last = Size
          /\ at' = "finally"
          /\ UNCHANGED <<first, next>>
       \/ /\ i = Last
          /\ ~(stop \/ roundToken \/ Last = Size)
          /\ at' = "prepare"
          /\ first' = Last + 1
          /\ next' = Last + 1
    /\ UNCHANGED <<coordVars, call, callVerdict, executed, messages>>

CloseRoundUnstored(fails) ==
    /\ at = "finally"
    /\ messages' = IF ending \/ fails THEN messages ELSE messages \cup {Told(i) : i \in results}
    /\ at' = IF ending \/ fails THEN "over" ELSE "model"
    /\ NoRound
    /\ UNCHANGED <<round, ran, roundToken, active, rival, asked, events>>

\* The finally of the round: a tool message for every consolidated result, in
\* order.  When the projection of the round fails the results as they were are
\* stored and the error ends the turn, like a stop or a cancellation.
CloseRound(fails) ==
    /\ at = "finally"
    /\ messages' = messages \cup {Told(i) : i \in results}
    /\ at' = IF ending \/ fails THEN "over" ELSE "model"
    /\ NoRound
    /\ UNCHANGED <<round, ran, roundToken, active, rival, asked, events>>

CancelRound ==
    /\ ~roundToken
    /\ at \notin {"over", "crashed"}
    /\ roundToken' = TRUE
    /\ UNCHANGED <<round, kind, at, first, next, call, ran, callVerdict, results, executed,
                   ending, active, rival, asked, messages, events>>

\* The process dies; the tool messages are stored one by one.
Crash ==
    /\ at \notin {"over", "crashed"}
    /\ at' = "crashed"
    /\ \/ UNCHANGED messages
       \/ /\ at = "finally"
          /\ \E n \in results :
               messages' = messages \cup {Told(i) : i \in {j \in results : j <= n}}
    /\ NoRound
    /\ active' = 0
    /\ rival' = "gone"
    /\ UNCHANGED <<round, ran, roundToken, asked, events>>

Worker(i) ==
    \/ Start(i)
    \/ Enter(i)
    \/ NotEntered(i)
    \/ \E v \in Verdicts : Leave(i, v)
    \/ \E stored \in BOOLEAN : Complete(i, stored)

Coordinator ==
    \/ \E o \in {"ready", "failed", "refused"} : PrepareCall(o)
    \/ GroupCancelled
    \/ PrepareStopped
    \/ Dispatch
    \/ Drain
    \/ \E i \in Calls, stop \in BOOLEAN : Yield(i, stop)
    \/ \E fails \in BOOLEAN : CloseRound(fails)

ToolRoundNext ==
    \/ BeginRound
    \/ EndTurn
    \/ Coordinator
    \/ \E i \in Calls : Worker(i)
    \/ Rival
    \/ CancelRound
    \/ Crash

ToolRoundSpec == ToolRoundInit /\ [][ToolRoundNext]_roundVars

ToolRoundFairness ==
    /\ WF_roundVars(Coordinator)
    /\ \A i \in Calls : WF_roundVars(Worker(i))
    /\ WF_roundVars(rival # "none" /\ Rival)

ToolRoundFairSpec == ToolRoundSpec /\ ToolRoundFairness

-----------------------------------------------------------------------------
(* The conversation as it is rebuilt. *)

\* completed_observations: the terminal events of the turn by call id; an id with
\* two of them is ambiguous and gives none.
Observations(r, i) ==
    LET found == {e \in events : CallId(e[1][1], e[1][2]) = CallId(r, i)}
    IN  IF Cardinality(found) = 1 THEN found ELSE {}

\* complete_tool_pairs: the stored tool message of a call; else the observation
\* found for its id; else nothing ("unknown").
Restored(r, i) ==
    LET stored == {m \in messages : m[1] = <<r, i>>}
    IN  IF stored # {} THEN stored ELSE Observations(r, i)

-----------------------------------------------------------------------------
(* Properties. *)

\* Only readers run together: while the handler of another call runs, no call of
\* the round runs beside it, every earlier one has ended and no later one began.
BarriersRunAlone ==
    \A i \in 1..Size :
        (at = "run" /\ call[i] = "entered" /\ kind[i] = "barrier")
            => \A j \in Calls \ {i} : call[j] = IF j < i THEN "told" ELSE "idle"

\* What the rebuilt conversation says of a call is what happened to it: after a
\* crash, a cancellation or a stop, a call said to have worked entered its
\* handler, a refused one did not, and nothing contradicts its stored event.
RestoredIsTrue ==
    \A p \in asked :
        \A m \in Restored(p[1], p[2]) :
            /\ m[1] = p
            /\ m[2] = "ok" => p \in ran
            /\ m[2] = "refused" => p \notin ran
            /\ \A e \in events : e[1] = p => e = m

\* A turn that ended in this process never leaves a call that ran without its
\* result, even if its event was lost: cancellation, stop and failed projection
\* all pass through the round's finally.
RanCallsHaveResults ==
    at = "over" => \A p \in ran : Restored(p[1], p[2]) # {}

\* A round ends: the readers waiting at the gate are not starved by the ticket of
\* another agent, and a cancelled group is drained.
RoundsEnd ==
    (at \in {"prepare", "run", "yield", "finally"}) ~> (at \in {"model", "over", "crashed"})

=============================================================================
