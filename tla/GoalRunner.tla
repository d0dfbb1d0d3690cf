----------------------------- MODULE GoalRunner -----------------------------
(***************************************************************************)
(* The goal of one conversation.  The thread of a turn that ended folds it *)
(* into the goal and starts the next iteration (_goal_after_turn); the     *)
(* owner sets, pauses, resumes and clears it on a request thread, and the  *)
(* model reports on it while a turn runs.  GoalService reads the row first *)
(* and takes its lock only in _update, which changes some fields of the    *)
(* row as it is by then.                                                   *)
(***************************************************************************)
EXTENDS Naturals

CONSTANTS
    STALL_AFTER,    \* quiet iterations before a goal is stalled
    Caps,           \* caps of turns the owner may set, 0: none
    MaxGoalTurns,   \* bound: turns of the conversation
    MaxGoals,       \* bound: goals the owner sets
    MaxGoalActs     \* bound: other acts of the owner on the goal

ASSUME GoalAssumption ==
    /\ STALL_AFTER \in Nat \ {0}
    /\ Caps \subseteq Nat
    /\ MaxGoalTurns \in Nat /\ MaxGoals \in Nat /\ MaxGoalActs \in Nat

VARIABLES
    goal,           \* session_goals
    kinds,          \* turn of each thread: 0 an ordinary one, g one of goal g
    ended,          \* its terminal event, once it is done
    thread,         \* where each thread is: those of the turns, and the owner's
    change,         \* the fields that thread is about to write, or the goal it starts
    ahead,          \* a message is queued
    owed,           \* acts of the owner so far
    begun,          \* turns of the conversation so far
    ran,            \* history: turns of the current goal
    resumed         \* history: times the current goal was resumed by the owner

goalVars == <<goal, kinds, ended, thread, change, ahead, owed, begun, ran, resumed>>

\* A turn runs while the one before it wraps up: two threads are enough.
GoalTurns == {1, 2}
Owner == 0          \* the request thread of the owner
Threads == GoalTurns \cup {Owner}
InTurn == \E t \in GoalTurns : thread[t] = "running"

GoalStates == {"none", "pursuing", "paused", "waiting_limits", "achieved", "blocked",
               "stalled", "budget_limited", "cleared"}
Ends == {"completed", "cancelled", "failed", "limit"}
Fields == {"state", "iteration", "quiet", "id"}

GoalTypeOK ==
    /\ goal \in [id : 0..MaxGoals, state : GoalStates, cap : Caps \cup {0},
                 iteration : 0..(2 * MaxGoalTurns + 1), quiet : 0..STALL_AFTER,
                 report : {"progress", "achieved", "blocked"},
                 reportedAt : 0..(2 * MaxGoalTurns + 1)]
    /\ kinds \in [GoalTurns -> 0..MaxGoals]
    /\ ended \in [GoalTurns -> Ends \cup {"no"}]
    /\ thread \in [Threads -> {"idle", "running", "done", "kicked", "stopping", "writing",
                               "start", "begin", "beginning", "launch"}]
    /\ \A h \in Threads : DOMAIN change[h] \subseteq Fields
    /\ ahead \in BOOLEAN
    /\ owed \in 0..MaxGoalActs
    /\ begun \in 0..MaxGoalTurns
    /\ ran \in 0..MaxGoalTurns
    /\ resumed \in 0..MaxGoalActs

NoChange == [f \in {} |-> 0]

GoalInit ==
    /\ goal = [id |-> 0, state |-> "none", cap |-> 0, iteration |-> 0, quiet |-> 0,
               report |-> "progress", reportedAt |-> 0]
    /\ kinds = [t \in GoalTurns |-> 0]
    /\ ended = [t \in GoalTurns |-> "no"]
    /\ thread = [h \in Threads |-> "idle"]
    /\ change = [h \in Threads |-> NoChange]
    /\ ahead = FALSE
    /\ owed = 0
    /\ begun = 0
    /\ ran = 0
    /\ resumed = 0

\* _update: the fields of c on the row as it is now.
Updated(c) == [f \in DOMAIN goal |-> IF f \in DOMAIN c THEN c[f] ELSE goal[f]]

Writes(h) == DOMAIN change[h] # {}

\* A thread that is over has no turn any more.
Forgets(h, to) ==
    IF h \in GoalTurns /\ to = "idle"
    THEN kinds' = [kinds EXCEPT ![h] = 0] /\ ended' = [ended EXCEPT ![h] = "no"]
    ELSE UNCHANGED <<kinds, ended>>

\* Thread h goes to `to', remembering the fields c it will write.
Goes(h, to, c) ==
    /\ thread' = [thread EXCEPT ![h] = to]
    /\ change' = [change EXCEPT ![h] = c]
    /\ Forgets(h, to)

\* start_turn called by the thread h registers a turn of that kind.
Launches(h, kind, to) ==
    /\ ~InTurn
    /\ begun < MaxGoalTurns
    /\ begun' = begun + 1
    /\ LET now == [thread EXCEPT ![h] = to]
           t == CHOOSE u \in GoalTurns : now[u] = "idle"
       IN  /\ kinds' = [kinds EXCEPT ![t] = kind]
           /\ thread' = [now EXCEPT ![t] = "running"]
           /\ ended' = [ended EXCEPT ![t] = "no"]

-----------------------------------------------------------------------------
(* The turns. *)

\* session.turn.start by the owner.
UserTurn ==
    /\ thread[Owner] = "idle"
    /\ Launches(Owner, 0, "idle")
    /\ UNCHANGED <<goal, change, ahead, owed, ran, resumed>>

\* A message is queued behind the turn that runs.
QueueMessage ==
    /\ InTurn
    /\ ~ahead
    /\ ahead' = TRUE
    /\ UNCHANGED <<goal, kinds, ended, thread, change, owed, begun, ran, resumed>>

\* goal.update in a turn of any kind.  Its read and its write are taken together:
\* the turn that reports is the one that is folded next.
GoalReport(t, status) ==
    /\ thread[t] = "running"
    /\ goal.state = "pursuing"
    /\ goal' = [goal EXCEPT !.report = status, !.reportedAt = goal.iteration]
    /\ UNCHANGED <<kinds, ended, thread, change, ahead, owed, begun, ran, resumed>>

\* The terminal event and done.set.  A turn lasts longer than the wrap-up of the one
\* before it, and than a request: both have finished when it ends.
TurnEnds(t, how) ==
    /\ thread[t] = "running"
    /\ \A h \in Threads \ {t} : thread[h] = "idle"
    /\ thread' = [thread EXCEPT ![t] = "done"]
    /\ ended' = [ended EXCEPT ![t] = how]
    /\ UNCHANGED <<goal, kinds, change, ahead, owed, begun, ran, resumed>>

\* _start_next_queued: the queued message goes first.
Kick(t) ==
    /\ thread[t] = "done"
    /\ IF ahead /\ ~InTurn /\ begun < MaxGoalTurns
       THEN Launches(t, 0, "kicked") /\ ahead' = FALSE
       ELSE /\ thread' = [thread EXCEPT ![t] = "kicked"]
            /\ UNCHANGED <<kinds, ended, ahead, begun>>
    /\ UNCHANGED <<goal, change, owed, ran, resumed>>

\* after_turn of the goal as it is read.
IsReported(status) == goal.report = status /\ goal.reportedAt = goal.iteration
ExhaustedLate == goal.cap # 0 /\ goal.iteration > goal.cap
Exhausted == goal.cap # 0 /\ goal.iteration >= goal.cap

FoldStallsLate(how, gate, still) ==
    LET quiet == IF still THEN goal.quiet + 1 ELSE 0
    IN  CASE how = "completed" ->
                IF Exhausted
                THEN [go |-> FALSE, c |-> [state |-> "budget_limited", quiet |-> quiet]]
                ELSE [go |-> quiet <= STALL_AFTER, c |-> [quiet |-> quiet]]
          [] OTHER -> [go |-> FALSE, c |-> [state |-> "paused"]]

\* What after_turn writes, and whether the goal goes on.  gate: the verification did
\* not contradict a goal reported achieved; still: nothing moved in this turn.
Fold(how, gate, still) ==
    LET quiet == IF still THEN goal.quiet + 1 ELSE 0
    IN  CASE how = "cancelled" -> [go |-> FALSE, c |-> [state |-> "paused"]]
          [] how = "limit" -> [go |-> FALSE, c |-> [state |-> "waiting_limits"]]
          [] how = "failed" -> [go |-> FALSE, c |-> [state |-> "paused"]]
          [] how = "completed" /\ IsReported("blocked") ->
                [go |-> FALSE, c |-> [state |-> "blocked"]]
          [] how = "completed" /\ IsReported("achieved") /\ gate ->
                [go |-> FALSE, c |-> [state |-> "achieved"]]
          [] OTHER ->
                IF quiet >= STALL_AFTER
                THEN [go |-> FALSE, c |-> [state |-> "stalled", quiet |-> STALL_AFTER]]
                ELSE IF Exhausted
                THEN [go |-> FALSE, c |-> [state |-> "budget_limited", quiet |-> quiet]]
                ELSE [go |-> TRUE, c |-> [quiet |-> quiet]]

AfterTurnNoGoOn(t, gate, still) ==
    /\ thread[t] = "kicked"
    /\ IF goal.state # "pursuing" \/ kinds[t] = 0 THEN Goes(t, "idle", NoChange)
       ELSE LET f == Fold(ended[t], gate, still)
            IN  Goes(t, IF f.go THEN "writing" ELSE "stopping", f.c)
    /\ UNCHANGED <<goal, ahead, owed, begun, ran, resumed>>

\* _goal_after_turn reads the goal: an ordinary turn that was stopped pauses it,
\* another one lets it go on; a turn of a goal is folded into it.
AfterTurn(t, gate, still) ==
    /\ thread[t] = "kicked"
    /\ IF goal.state # "pursuing" THEN Goes(t, "idle", NoChange)
       ELSE IF kinds[t] = 0
       THEN Goes(t, IF ended[t] = "cancelled" THEN "stopping" ELSE "start", NoChange)
       ELSE LET f == Fold(ended[t], gate, still)
            IN  Goes(t, IF f.go THEN "writing" ELSE "stopping", f.c)
    /\ UNCHANGED <<goal, ahead, owed, begun, ran, resumed>>

\* The write of after_turn, or of the pause of an ordinary turn that was stopped
\* (refused when the goal is not pursued any more).
FoldWritten(t) ==
    /\ thread[t] \in {"stopping", "writing"}
    /\ goal' = IF Writes(t) THEN Updated(change[t])
               ELSE IF goal.state \in {"pursuing", "waiting_limits"}
               THEN [goal EXCEPT !.state = "paused"] ELSE goal
    /\ Goes(t, IF thread[t] = "writing" THEN "start" ELSE "idle", NoChange)
    /\ UNCHANGED <<ahead, owed, begun, ran, resumed>>

-----------------------------------------------------------------------------
(* start_goal_turn, on the thread of a turn that ended or of the owner. *)

\* The goal is pursued and the conversation free.
StartGoalTurn(h) ==
    /\ thread[h] = "start"
    /\ Goes(h, IF goal.state = "pursuing" /\ ~InTurn /\ ~ahead THEN "begin" ELSE "idle", NoChange)
    /\ UNCHANGED <<goal, ahead, owed, begun, ran, resumed>>

\* begin_iteration: read, then written.
BeginIteration(h) ==
    /\ thread[h] = "begin"
    /\ IF goal.state = "pursuing"
       THEN Goes(h, "beginning", [iteration |-> goal.iteration + 1])
       ELSE Goes(h, "idle", NoChange)
    /\ UNCHANGED <<goal, ahead, owed, begun, ran, resumed>>

IterationWritten(h) ==
    /\ thread[h] = "beginning"
    /\ goal' = Updated(change[h])
    /\ Goes(h, "launch", [id |-> goal.id])
    /\ UNCHANGED <<ahead, owed, begun, ran, resumed>>

\* start_turn for the goal begin_iteration returned: started, or refused because a
\* turn runs.
LaunchGoalTurn(h) ==
    /\ thread[h] = "launch"
    /\ change' = [change EXCEPT ![h] = NoChange]
    /\ \/ /\ Launches(h, change[h].id, "idle")
          /\ ran' = IF change[h].id = goal.id THEN ran + 1 ELSE ran
       \/ /\ InTurn
          /\ thread' = [thread EXCEPT ![h] = "idle"]
          /\ Forgets(h, "idle")
          /\ UNCHANGED <<begun, ran>>
    /\ UNCHANGED <<goal, ahead, owed, resumed>>

-----------------------------------------------------------------------------
(* The owner. *)

\* session.goal.set: a new goal, then its first turn.
GoalSet(cap) ==
    /\ thread[Owner] = "idle"
    /\ goal.id < MaxGoals
    /\ goal' = [id |-> goal.id + 1, state |-> "pursuing", cap |-> cap, iteration |-> 0,
                quiet |-> 0, report |-> "progress", reportedAt |-> 0]
    /\ Goes(Owner, "start", NoChange)
    /\ resumed' = 0
    /\ ran' = 0
    /\ UNCHANGED <<ahead, owed, begun>>

\* session.goal.pause, resume and clear read the goal first.
OwnerActs(to) ==
    /\ thread[Owner] = "idle"
    /\ owed < MaxGoalActs
    /\ owed' = owed + 1
    /\ \/ to = "paused" /\ goal.state \in {"pursuing", "waiting_limits"}
       \/ to = "pursuing" /\ goal.state \notin {"none", "achieved", "cleared"}
       \/ to = "cleared" /\ goal.state \notin {"none", "cleared"}
    /\ Goes(Owner, "writing", IF to = "pursuing" THEN [state |-> to, quiet |-> 0]
                              ELSE [state |-> to])
    /\ UNCHANGED <<goal, ahead, begun, ran, resumed>>

\* Their write; a resume starts the next turn.
OwnerWrites ==
    /\ thread[Owner] = "writing"
    /\ goal' = Updated(change[Owner])
    /\ resumed' = IF change[Owner].state = "pursuing" THEN resumed + 1 ELSE resumed
    /\ Goes(Owner, IF change[Owner].state = "pursuing" THEN "start" ELSE "idle", NoChange)
    /\ UNCHANGED <<ahead, owed, begun, ran>>

TurnWrapUp(t) ==
    \/ Kick(t)
    \/ \E gate, still \in BOOLEAN : AfterTurn(t, gate, still)
    \/ FoldWritten(t)

Starts(h) ==
    \/ StartGoalTurn(h)
    \/ BeginIteration(h)
    \/ IterationWritten(h)
    \/ LaunchGoalTurn(h)

GoalNext ==
    \/ UserTurn
    \/ QueueMessage
    \/ \E t \in GoalTurns, s \in {"progress", "achieved", "blocked"} : GoalReport(t, s)
    \/ \E t \in GoalTurns : TurnWrapUp(t)
    \/ \E t \in GoalTurns, how \in Ends : TurnEnds(t, how)
    \/ \E h \in Threads : Starts(h)
    \/ \E cap \in Caps : GoalSet(cap)
    \/ \E to \in {"paused", "pursuing", "cleared"} : OwnerActs(to)
    \/ OwnerWrites

GoalSpec == GoalInit /\ [][GoalNext]_goalVars

\* The threads run; how long a turn lasts is not assumed.
GoalFairness ==
    /\ \A t \in GoalTurns : WF_goalVars(TurnWrapUp(t) \/ Starts(t))
    /\ WF_goalVars(OwnerWrites \/ Starts(Owner))

GoalFairSpec == GoalSpec /\ GoalFairness

-----------------------------------------------------------------------------
(* Properties. *)

\* The cap of turns holds whatever happens between the turns: queued and refused
\* turns, reports, pauses, a goal set while the old one is folded.  Only the owner's
\* resume buys one turn more.
GoalTurnsWithinCap ==
    (goal.id # 0 /\ goal.cap # 0) => ran <= goal.cap + resumed

\* A goal that is pursued never just stands there: a turn runs or is queued, or the
\* state changes.  Each thread writes before it looks whether the conversation is
\* free, and a turn is done before its thread reads the goal.
PursuedGoalsGoOn ==
    (goal.state = "pursuing") ~>
        (InTurn \/ ahead \/ goal.state # "pursuing" \/ begun = MaxGoalTurns)

=============================================================================
