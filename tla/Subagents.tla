------------------------------ MODULE Subagents ------------------------------
(***************************************************************************)
(* AgentOrchestrator (agents/orchestrator.py): the coordinator's turn      *)
(* spawns agents, sends them instructions and cancels them, on one thread; *)
(* each run of an agent has a thread of its own, which writes the result   *)
(* and then hands on what was sent too late.  A finished agent runs again  *)
(* on an instruction, with a new token and a new queue.                    *)
(***************************************************************************)
EXTENDS Naturals, FiniteSets

CONSTANTS
    Instrs,         \* instructions of the coordinator (agent.message)
    MAX_CONCURRENT,
    MAX_TOTAL,
    MaxAgentRuns    \* bound: runs of one agent

ASSUME SubagentsAssumption ==
    MAX_CONCURRENT \in Nat /\ MAX_TOTAL \in Nat /\ MaxAgentRuns \in Nat \ {0}

Agents == 1..MAX_TOTAL
AgentRuns == 1..MaxAgentRuns

VARIABLES
    agentState,     \* [Agents -> state["state"]; "ended": completed, failed or budget]
    lastRun,        \* [Agents -> runs started, the last one is in state["spec"]]
    runAt,          \* [Agents -> [AgentRuns -> where the thread of the run is]]
    runEnd,         \* [Agents -> [AgentRuns -> how the runner returned]]
    inbox,          \* [Agents -> [AgentRuns -> the run's queue of messages]]
    late,           \* [Agents -> [AgentRuns -> what the ended run drained]]
    instr,          \* [Instrs -> "queued", or "settled": read, refused, or
                    \*  dropped with a cancelled run]
    spawned,        \* _spawned_total
    coord           \* what the coordinator's thread is doing, and to which agent

runVariables == <<runAt, runEnd, inbox, late>>
subagentVars == <<agentState, lastRun, runVariables, instr, spawned, coord>>

Terminal == {"ended", "cancelled"}

\* _count_running.
CountRunning == Cardinality({a \in Agents : agentState[a] \notin Terminal \cup {"none"}})

SubagentsTypeOK ==
    /\ agentState \in [Agents -> {"none", "running", "cancelling"} \cup Terminal]
    /\ lastRun \in [Agents -> 0..MaxAgentRuns]
    /\ runAt \in [Agents -> [AgentRuns -> {"none", "loop", "returned", "wrapup", "late", "over"}]]
    /\ runEnd \in [Agents -> [AgentRuns -> {"none"} \cup Terminal]]
    /\ inbox \in [Agents -> [AgentRuns -> SUBSET Instrs]]
    /\ late \in [Agents -> [AgentRuns -> SUBSET Instrs]]
    /\ instr \in [Instrs -> {"none", "queued", "settled"}]
    /\ spawned \in 0..MAX_TOTAL
    /\ coord \in {"idle", "spawn", "mark"} \X (Agents \cup {0})

ByRun(v) == [a \in Agents |-> [k \in AgentRuns |-> v]]
Idle == <<"idle", 0>>

SubagentsInit ==
    /\ agentState = [a \in Agents |-> "none"] /\ lastRun = [a \in Agents |-> 0]
    /\ runAt = ByRun("none") /\ runEnd = ByRun("none")
    /\ inbox = ByRun({}) /\ late = ByRun({})
    /\ instr = [i \in Instrs |-> "none"]
    /\ spawned = 0 /\ coord = Idle

\* The next run of a begins, with the other threads at `others': a thread, a token
\* and a queue of its own.
Begins(a, others) ==
    /\ lastRun[a] < MaxAgentRuns
    /\ lastRun' = [lastRun EXCEPT ![a] = @ + 1]
    /\ runAt' = [others EXCEPT ![a][lastRun[a] + 1] = "loop"]
    /\ agentState' = [agentState EXCEPT ![a] = "running"]

\* The thread of run k of a is over; nothing reads its end again.
Over(a, k) == runEnd' = [runEnd EXCEPT ![a][k] = "none"]

\* The instructions I have fate f.
Fated(I, f) == instr' = [i \in Instrs |-> IF i \in I THEN f ELSE instr[i]]

-----------------------------------------------------------------------------
(***************************************************************************)
(* The coordinator.                                                        *)
(***************************************************************************)

\* spawn, first hold of the lock: the limits are looked at and the agent counted.
SpawnChecks ==
    /\ coord = Idle
    /\ spawned < MAX_TOTAL
    /\ CountRunning < MAX_CONCURRENT
    /\ spawned' = spawned + 1
    /\ coord' = <<"spawn", 1 + Cardinality({a \in Agents : agentState[a] # "none"})>>
    /\ UNCHANGED <<agentState, lastRun, runVariables, instr>>

\* Second hold: it is registered and its thread starts; or its definition is not
\* known, and only the count stays.
SpawnRegisters ==
    /\ coord[1] = "spawn"
    /\ coord' = Idle
    /\ \/ Begins(coord[2], runAt)
       \/ UNCHANGED <<agentState, lastRun, runAt>>
    /\ UNCHANGED <<runEnd, inbox, late, instr, spawned>>

\* Mutant: a finished agent runs again whatever runs already.
DeliverUncounted(a, I, others) ==
    \/ /\ agentState[a] = "running"
       /\ inbox' = [inbox EXCEPT ![a][lastRun[a]] = @ \cup I]
       /\ Fated(I, "queued")
       /\ runAt' = others
       /\ UNCHANGED <<agentState, lastRun>>
    \/ /\ agentState[a] \in Terminal
       /\ Begins(a, others)
       /\ Fated(I, "settled")
       /\ inbox' = inbox

\* deliver, under the lock, when it does not raise: a running agent gets I in its
\* queue; a finished one runs again with I in its objective.
Deliver(a, I, others) ==
    \/ /\ agentState[a] = "running"
       /\ inbox' = [inbox EXCEPT ![a][lastRun[a]] = @ \cup I]
       /\ Fated(I, "queued")
       /\ runAt' = others
       /\ UNCHANGED <<agentState, lastRun>>
    \/ /\ agentState[a] \in Terminal
       /\ CountRunning < MAX_CONCURRENT
       /\ Begins(a, others)
       /\ Fated(I, "settled")
       /\ inbox' = inbox

\* AGENT_BUSY while it is being cancelled, LIMIT_CONCURRENT.
DeliverRaises(a) ==
    \/ agentState[a] = "cancelling"
    \/ agentState[a] \in Terminal /\ CountRunning >= MAX_CONCURRENT

\* agent.message.
AgentMessage(a, i) ==
    /\ coord = Idle
    /\ instr[i] = "none"
    /\ \/ Deliver(a, {i}, runAt)
       \/ /\ DeliverRaises(a)
          /\ Fated({i}, "settled")
          /\ UNCHANGED <<agentState, lastRun, runAt, inbox>>
    /\ UNCHANGED <<runEnd, late, spawned, coord>>

\* cancel, by agent.cancel, a deadline or the end of the session, without the lock:
\* it looks at the state, cancels the token of the run and writes the state.  The
\* session's token is linked to the run's and Stop may cancel it at any time, so a
\* run may return cancelled whatever its own token says.
CancelLooks(a) ==
    /\ coord = Idle
    /\ agentState[a] \notin Terminal \cup {"none"}
    /\ coord' = <<"mark", a>>
    /\ UNCHANGED <<agentState, lastRun, runVariables, instr, spawned>>

\* Mutant: the agent shows as cancelled at once.
CancelMarksEnded ==
    /\ coord[1] = "mark"
    /\ agentState' = [agentState EXCEPT ![coord[2]] = "cancelled"]
    /\ coord' = Idle
    /\ UNCHANGED <<lastRun, runVariables, instr, spawned>>

CancelMarks ==
    /\ coord[1] = "mark"
    /\ agentState' = [agentState EXCEPT ![coord[2]] = "cancelling"]
    /\ coord' = Idle
    /\ UNCHANGED <<lastRun, runVariables, instr, spawned>>

-----------------------------------------------------------------------------
(***************************************************************************)
(* The thread of run k of agent a.                                         *)
(***************************************************************************)

\* _coordinator_messages: the loop reads the queue of its own run.
RunReads(a, k) ==
    /\ runAt[a][k] = "loop" /\ inbox[a][k] # {}
    /\ Fated(inbox[a][k], "settled")
    /\ inbox' = [inbox EXCEPT ![a][k] = {}]
    /\ UNCHANGED <<agentState, lastRun, runAt, runEnd, late, spawned, coord>>

\* The runner returns.
RunReturns(a, k, how) ==
    /\ runAt[a][k] = "loop"
    /\ runAt' = [runAt EXCEPT ![a][k] = "returned"]
    /\ runEnd' = [runEnd EXCEPT ![a][k] = how]
    /\ UNCHANGED <<agentState, lastRun, inbox, late, instr, spawned, coord>>

\* _run_agent, under the lock: the result and the state.
RunWritesResult(a, k) ==
    /\ runAt[a][k] = "returned"
    /\ agentState' = [agentState EXCEPT ![a] = runEnd[a][k]]
    /\ runAt' = [runAt EXCEPT ![a][k] = "wrapup"]
    /\ UNCHANGED <<lastRun, runEnd, inbox, late, instr, spawned, coord>>

\* _drain of state["messages"], the queue of the last run by now; what a cancelled
\* run did not read is dropped.
RunDrains(a, k) ==
    LET I == inbox[a][lastRun[a]] IN
    /\ runAt[a][k] = "wrapup"
    /\ inbox' = [inbox EXCEPT ![a][lastRun[a]] = {}]
    /\ IF runEnd[a][k] = "cancelled" \/ I = {}
         THEN /\ runAt' = [runAt EXCEPT ![a][k] = "over"]
              /\ Over(a, k)
              /\ Fated(I, "settled")
              /\ late' = late
         ELSE /\ runAt' = [runAt EXCEPT ![a][k] = "late"]
              /\ late' = [late EXCEPT ![a][k] = I]
              /\ UNCHANGED <<instr, runEnd>>
    /\ UNCHANGED <<agentState, lastRun, spawned, coord>>

\* The late instructions are delivered; an error is suppressed.
RunRedelivers(a, k) ==
    LET others == [runAt EXCEPT ![a][k] = "over"] IN
    /\ runAt[a][k] = "late"
    /\ late' = [late EXCEPT ![a][k] = {}]
    /\ \/ Deliver(a, late[a][k], others)
       \/ /\ DeliverRaises(a)
          /\ runAt' = others
          /\ UNCHANGED <<agentState, lastRun, instr, inbox>>
    /\ Over(a, k)
    /\ UNCHANGED <<spawned, coord>>

RunThread(a, k) ==
    \/ RunReads(a, k)
    \/ \E how \in Terminal : RunReturns(a, k, how)
    \/ RunWritesResult(a, k)
    \/ RunDrains(a, k)
    \/ RunRedelivers(a, k)

SubagentsNext ==
    \/ SpawnChecks \/ SpawnRegisters
    \/ \E a \in Agents, i \in Instrs : AgentMessage(a, i)
    \/ \E a \in Agents : CancelLooks(a)
    \/ CancelMarks
    \/ \E a \in Agents, k \in AgentRuns : RunThread(a, k)

SubagentsSpec == SubagentsInit /\ [][SubagentsNext]_subagentVars

-----------------------------------------------------------------------------
(***************************************************************************)
(* Properties.                                                             *)
(***************************************************************************)

\* An agent never works in two runs at once (they would share its worktree), and
\* the agent of a run that works is one _count_running counts, whatever the order
\* of results, late instructions and the unlocked writes of cancel.
RunsAreCounted ==
    \A a \in Agents, k \in AgentRuns :
        runAt[a][k] \in {"loop", "returned"} =>
            k = lastRun[a] /\ agentState[a] \in {"running", "cancelling"}

\* The limit of concurrent agents: spawn looks at it and registers the agent in two
\* holds of the lock, so late instructions that revive agents in between may pass
\* it, by one and no more.
AgentsWithinLimit ==
    Cardinality({a \in Agents : \E k \in AgentRuns : runAt[a][k] = "loop"})
        <= MAX_CONCURRENT + 1

\* "An instruction accepted while the run was already wrapping up ... becomes a
\* follow-up run instead of being lost" (_run_agent): while nothing was cancelled, an
\* instruction that waits is in the queue of a run that works or wraps up, or in the
\* hands of a thread.
LateInstructionsAreRead ==
    \A i \in Instrs : instr[i] = "queued" =>
        \/ coord[1] = "mark"
        \/ \E a \in Agents : agentState[a] \in {"cancelling", "cancelled"}
        \/ \E a \in Agents, k \in AgentRuns :
              \/ i \in late[a][k]
              \/ i \in inbox[a][k] /\ k = lastRun[a]
                    /\ runAt[a][k] \in {"loop", "returned", "wrapup"}

=============================================================================
