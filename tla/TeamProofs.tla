------------------------------ MODULE TeamProofs ------------------------------
(***************************************************************************)
(* Agents that work for others: the subagents of a turn, for every limit   *)
(* and any number of runs and instructions, the board of a team, for every *)
(* set of errands, and the child sessions of a conversation, for any       *)
(* number of children and workers.                                         *)
(***************************************************************************)
EXTENDS Subagents, ErrandBoard, ChildSessions, FiniteSetTheorems, TLAPS

-----------------------------------------------------------------------------
(***************************************************************************)
(* Subagents: runs of agents.                                              *)
(***************************************************************************)

RunPlaces == {"none", "loop", "returned", "wrapup", "late", "over"}
RunMaps == [Agents -> [AgentRuns -> RunPlaces]]

\* An update of one run of one agent, at each run of each agent.
LEMMA RunUpdate ==
    ASSUME NEW V, NEW f \in [Agents -> [AgentRuns -> V]], NEW a \in Agents, NEW k \in AgentRuns,
           NEW v \in V
    PROVE  /\ [f EXCEPT ![a][k] = v] \in [Agents -> [AgentRuns -> V]]
           /\ \A b \in Agents, j \in AgentRuns :
                [f EXCEPT ![a][k] = v][b][j] = IF b = a /\ j = k THEN v ELSE f[b][j]
<1>1. f[a] \in [AgentRuns -> V] /\ [f[a] EXCEPT ![k] = v] \in [AgentRuns -> V] OBVIOUS
<1>2. [f EXCEPT ![a][k] = v] = [f EXCEPT ![a] = [f[a] EXCEPT ![k] = v]] OBVIOUS
<1>3. QED BY <1>1, <1>2

\* Runs are started in order, a run that works is the last one of an agent that is
\* counted, and a run that returned has an end to write.
RunsInv ==
    /\ \A a \in Agents, k \in AgentRuns : k > lastRun[a] => runAt[a][k] = "none"
    /\ \A a \in Agents, k \in AgentRuns : runAt[a][k] = "returned" => runEnd[a][k] \in Terminal
    /\ RunsAreCounted

\* The agents whose loop runs.
Looping == {a \in Agents : \E k \in AgentRuns : runAt[a][k] = "loop"}

\* A new run of an agent that is not counted, while another run may end for good
\* (spawn, deliver): it is the only one that works for the agent.
LEMMA BeginsKeeps ==
    ASSUME SubagentsTypeOK, RunsInv, NEW a \in Agents, NEW others \in RunMaps,
           Begins(a, others), agentState[a] \in Terminal \cup {"none"},
           \A b \in Agents, j \in AgentRuns :
              \/ others[b][j] = runAt[b][j]
              \/ runAt[b][j] = "late" /\ others[b][j] = "over",
           \A b \in Agents, j \in AgentRuns :
              runEnd'[b][j] = runEnd[b][j] \/ runAt[b][j] = "late"
    PROVE  /\ RunsInv' /\ Looping' = Looping \cup {a}
           /\ lastRun' \in [Agents -> 0..MaxAgentRuns] /\ runAt' \in RunMaps
           /\ agentState' = [agentState EXCEPT ![a] = "running"]
<1> DEFINE n == lastRun[a] + 1
<1>1. n \in AgentRuns /\ lastRun[a] \in Nat
  BY SubagentsAssumption DEF Begins, SubagentsTypeOK, AgentRuns
<1>2. /\ runAt' = [others EXCEPT ![a][n] = "loop"] /\ lastRun' = [lastRun EXCEPT ![a] = n]
      /\ agentState' = [agentState EXCEPT ![a] = "running"]
  BY DEF Begins
<1> HIDE DEF n
<1>3. /\ runAt' \in RunMaps
      /\ \A b \in Agents, j \in AgentRuns :
            runAt'[b][j] = IF b = a /\ j = n THEN "loop" ELSE others[b][j]
  BY <1>1, <1>2, RunUpdate DEF RunMaps, RunPlaces
<1>4. /\ lastRun' \in [Agents -> 0..MaxAgentRuns] /\ lastRun'[a] = n
      /\ \A b \in Agents : b # a => lastRun'[b] = lastRun[b] /\ agentState'[b] = agentState[b]
      /\ agentState'[a] = "running"
  BY <1>1, <1>2 DEF SubagentsTypeOK, AgentRuns
<1>5. \A j \in AgentRuns : runAt[a][j] \notin {"loop", "returned"}
  BY DEF RunsInv, RunsAreCounted, Terminal
<1>6. \A j \in AgentRuns : j > n => runAt[a][j] = "none"
  BY <1>1 DEF RunsInv, n, AgentRuns
<1>7. RunsInv'
  <2>1. ASSUME NEW b \in Agents, NEW j \in AgentRuns, j > lastRun'[b]
        PROVE  runAt'[b][j] = "none"
    <3>1. runAt[b][j] = "none"
      BY <1>4, <1>6, <2>1 DEF RunsInv
    <3>2. QED BY <1>1, <1>3, <1>4, <2>1, <3>1 DEF AgentRuns
  <2>2. ASSUME NEW b \in Agents, NEW j \in AgentRuns, runAt'[b][j] = "returned"
        PROVE  runEnd'[b][j] \in Terminal
    <3>1. runAt[b][j] = "returned" BY <1>3, <2>2
    <3>2. QED BY <3>1 DEF RunsInv
  <2>3. ASSUME NEW b \in Agents, NEW j \in AgentRuns, runAt'[b][j] \in {"loop", "returned"}
        PROVE  j = lastRun'[b] /\ agentState'[b] \in {"running", "cancelling"}
    <3>1. CASE b = a /\ j = n BY <1>4, <3>1
    <3>2. CASE ~(b = a /\ j = n)
      <4>1. runAt[b][j] \in {"loop", "returned"} BY <1>3, <2>3, <3>2
      <4>2. b # a BY <1>5, <4>1
      <4>3. QED BY <1>4, <4>1, <4>2 DEF RunsInv, RunsAreCounted
    <3>3. QED BY <3>1, <3>2
  <2>4. QED BY <2>1, <2>2, <2>3 DEF RunsInv, RunsAreCounted
<1>8. \A b \in Agents, j \in AgentRuns :
        runAt'[b][j] = "loop" <=> (b = a /\ j = n) \/ runAt[b][j] = "loop"
  BY <1>3
<1>9. Looping' = Looping \cup {a} BY <1>1, <1>8 DEF Looping
<1>10. QED BY <1>2, <1>3, <1>4, <1>7, <1>9

\* A run that moves on, and takes no other up: it wrote its result, or wraps up.
LEMMA RunMoves ==
    ASSUME SubagentsTypeOK, RunsInv, NEW a \in Agents, NEW k \in AgentRuns,
           NEW q \in RunPlaces \ {"none", "loop"}, runAt' = [runAt EXCEPT ![a][k] = q],
           runAt[a][k] # "none",
           q = "returned" => runAt[a][k] = "loop" /\ runEnd'[a][k] \in Terminal,
           UNCHANGED lastRun,
           \A b \in Agents : \/ agentState'[b] = agentState[b]
                             \/ b = a /\ runAt[a][k] = "returned" /\ q # "returned",
           \A b \in Agents, j \in AgentRuns :
              runEnd'[b][j] = runEnd[b][j] \/ (b = a /\ j = k)
    PROVE  RunsInv' /\ Looping' \subseteq Looping /\ runAt' \in RunMaps
<1>1. /\ runAt' \in RunMaps
      /\ \A b \in Agents, j \in AgentRuns :
            runAt'[b][j] = IF b = a /\ j = k THEN q ELSE runAt[b][j]
  BY RunUpdate DEF SubagentsTypeOK, RunMaps, RunPlaces
<1>2. Looping' \subseteq Looping BY <1>1 DEF Looping
<1>3. ASSUME NEW b \in Agents, NEW j \in AgentRuns
      PROVE  /\ j > lastRun[b] => runAt'[b][j] = "none"
             /\ runAt'[b][j] = "returned" => runEnd'[b][j] \in Terminal
             /\ runAt'[b][j] \in {"loop", "returned"} =>
                  j = lastRun[b] /\ agentState'[b] \in {"running", "cancelling"}
  <2>1. runAt'[b][j] \in {"loop", "returned"} => runAt[b][j] \in {"loop", "returned"}
    BY <1>1
  <2>2. runAt'[b][j] \in {"loop", "returned"} => agentState'[b] = agentState[b]
    <3>1. CASE agentState'[b] = agentState[b] BY <3>1
    <3>2. CASE b = a /\ runAt[a][k] = "returned" /\ q # "returned"
      <4>1. k = lastRun[a] BY <3>2 DEF RunsInv, RunsAreCounted
      <4>2. j # k => runAt[b][j] \notin {"loop", "returned"}
        BY <3>2, <4>1 DEF RunsInv, RunsAreCounted
      <4>3. j = k => runAt'[b][j] \notin {"loop", "returned"} BY <1>1, <3>2
      <4>4. QED BY <2>1, <4>2, <4>3
    <3>3. QED BY <3>1, <3>2
  <2>3. QED BY <1>1, <2>1, <2>2 DEF RunsInv, RunsAreCounted
<1>4. QED BY <1>1, <1>2, <1>3 DEF RunsInv, RunsAreCounted

-----------------------------------------------------------------------------
(***************************************************************************)
(* Subagents: the limits.                                                  *)
(***************************************************************************)

\* Agents are registered in the order of their numbers, under the total that was
\* counted before; the coordinator acts on the next one, or on one that is there.
RegisteredInOrder ==
    \E m \in 0..spawned :
        /\ \A a \in Agents : agentState[a] # "none" <=> a <= m
        /\ coord[1] = "spawn" => coord[2] = m + 1 /\ m < spawned
        /\ coord[1] = "mark" => coord[2] \in 1..m

\* One more loop than the limit runs at most, and while an agent that passed the
\* limit is still to be registered, not even one more.
LimitInv ==
    /\ Cardinality(Looping) <= MAX_CONCURRENT + 1
    /\ coord[1] = "spawn" => Cardinality(Looping) <= MAX_CONCURRENT

AgentsInv == RunsInv /\ RegisteredInOrder /\ LimitInv

\* Agents whose loop runs are among those _count_running counts.
LEMMA LoopingCounted ==
    ASSUME SubagentsTypeOK, RunsInv
    PROVE  /\ IsFiniteSet(Looping) /\ Cardinality(Looping) \in Nat /\ CountRunning \in Nat
           /\ Cardinality(Looping) <= CountRunning
<1> DEFINE C == {a \in Agents : agentState[a] \notin Terminal \cup {"none"}}
<1>1. IsFiniteSet(Agents) BY FS_Interval, SubagentsAssumption DEF Agents
<1>2. C \in SUBSET Agents /\ Looping \in SUBSET C
  BY DEF Looping, RunsInv, RunsAreCounted, Terminal
<1>3. IsFiniteSet(C) BY <1>1, <1>2, FS_Subset
<1>4. IsFiniteSet(Looping) /\ Cardinality(Looping) <= Cardinality(C) BY <1>2, <1>3, FS_Subset
<1>5. Cardinality(C) \in Nat /\ Cardinality(Looping) \in Nat BY <1>3, <1>4, FS_CardinalityType
<1>6. QED BY <1>4, <1>5 DEF CountRunning

\* The number of the next agent.
LEMMA AgentsThere ==
    ASSUME SubagentsTypeOK, NEW m \in 0..spawned,
           \A a \in Agents : agentState[a] # "none" <=> a <= m
    PROVE  Cardinality({a \in Agents : agentState[a] # "none"}) = m
<1>1. m \in Nat /\ m <= MAX_TOTAL /\ MAX_TOTAL \in Nat
  BY SubagentsAssumption DEF SubagentsTypeOK
<1>2. {a \in Agents : agentState[a] # "none"} = 1..m BY <1>1 DEF Agents
<1>3. Cardinality(1..m) = m BY <1>1, FS_Interval
<1>4. QED BY <1>2, <1>3

\* Steps that register nobody keep the order ...
LEMMA OrderKept ==
    ASSUME RegisteredInOrder, UNCHANGED spawned,
           \A a \in Agents : agentState'[a] = "none" <=> agentState[a] = "none",
           coord' = coord \/ coord' = Idle
    PROVE  RegisteredInOrder'
<1>1. PICK m \in 0..spawned :
        /\ \A a \in Agents : agentState[a] # "none" <=> a <= m
        /\ coord[1] = "spawn" => coord[2] = m + 1 /\ m < spawned
        /\ coord[1] = "mark" => coord[2] \in 1..m
  BY DEF RegisteredInOrder
<1>2. coord' = Idle => coord'[1] = "idle" BY DEF Idle
<1>3. /\ m \in 0..spawned'
      /\ \A a \in Agents : agentState'[a] # "none" <=> a <= m
      /\ coord'[1] = "spawn" => coord'[2] = m + 1 /\ m < spawned'
      /\ coord'[1] = "mark" => coord'[2] \in 1..m
  BY <1>1, <1>2
<1>4. QED BY <1>3 DEF RegisteredInOrder

\* ... and steps that start no loop keep the limit.
LEMMA LimitKept ==
    ASSUME SubagentsTypeOK, RunsInv, LimitInv, Looping' \subseteq Looping,
           coord'[1] = "spawn" => coord[1] = "spawn"
    PROVE  LimitInv'
<1>1. /\ IsFiniteSet(Looping) /\ Cardinality(Looping) \in Nat BY LoopingCounted
<1>2. /\ Cardinality(Looping') <= Cardinality(Looping) /\ Cardinality(Looping') \in Nat
  BY <1>1, FS_Subset, FS_CardinalityType
<1>3. QED BY <1>1, <1>2, SubagentsAssumption DEF LimitInv

\* A loop that starts under the limit, or for the agent that passed it.
LEMMA LimitBegins ==
    ASSUME SubagentsTypeOK, RunsInv, LimitInv, NEW a, Looping' = Looping \cup {a},
           \/ CountRunning < MAX_CONCURRENT /\ coord' = coord
           \/ coord[1] = "spawn" /\ coord' = Idle
    PROVE  LimitInv'
<1>1. /\ IsFiniteSet(Looping) /\ Cardinality(Looping) \in Nat
      /\ CountRunning \in Nat /\ Cardinality(Looping) <= CountRunning
  BY LoopingCounted
<1>2. Cardinality(Looping') <= Cardinality(Looping) + 1 /\ Cardinality(Looping') \in Nat
  BY <1>1, FS_AddElement
<1>3. Idle[1] # "spawn" BY DEF Idle
<1>4. CASE CountRunning < MAX_CONCURRENT /\ coord' = coord
  BY <1>1, <1>2, <1>4, SubagentsAssumption DEF LimitInv
<1>5. CASE coord[1] = "spawn" /\ coord' = Idle
  BY <1>1, <1>2, <1>3, <1>5, SubagentsAssumption DEF LimitInv
<1>6. QED BY <1>4, <1>5

\* An update of the queue of a run, which need not be there.
LEMMA QueueUpdate ==
    ASSUME NEW V, NEW f \in [Agents -> [AgentRuns -> V]], NEW a \in Agents, NEW k, NEW v,
           k \in AgentRuns => v \in V
    PROVE  [f EXCEPT ![a][k] = v] \in [Agents -> [AgentRuns -> V]]
<1>1. [f[a] EXCEPT ![k] = v] \in [AgentRuns -> V] OBVIOUS
<1>2. [f EXCEPT ![a][k] = v] = [f EXCEPT ![a] = [f[a] EXCEPT ![k] = v]] OBVIOUS
<1>3. QED BY <1>1, <1>2

\* A delivery leaves the queues and the instructions as they should be (deliver).
LEMMA DeliverTypes ==
    ASSUME SubagentsTypeOK, NEW a \in Agents, NEW I \in SUBSET Instrs, NEW others,
           Deliver(a, I, others)
    PROVE  /\ inbox' \in [Agents -> [AgentRuns -> SUBSET Instrs]]
           /\ instr' \in [Instrs -> {"none", "queued", "settled"}]
<1>1. inbox \in [Agents -> [AgentRuns -> SUBSET Instrs]] BY DEF SubagentsTypeOK
<1>2. lastRun[a] \in AgentRuns => inbox[a][lastRun[a]] \cup I \in SUBSET Instrs BY <1>1
<1>3. [inbox EXCEPT ![a][lastRun[a]] = inbox[a][lastRun[a]] \cup I]
        \in [Agents -> [AgentRuns -> SUBSET Instrs]]
  BY <1>1, <1>2, QueueUpdate
<1>4. inbox' \in [Agents -> [AgentRuns -> SUBSET Instrs]]
  BY <1>1, <1>3 DEF Deliver
<1>5. QED BY <1>4 DEF Deliver, Fated, SubagentsTypeOK

\* The limits hold after a delivery too: what is revived was counted first (deliver).
LEMMA DeliverStep ==
    ASSUME SubagentsTypeOK, AgentsInv, NEW a \in Agents, NEW I \in SUBSET Instrs,
           NEW others \in RunMaps, Deliver(a, I, others),
           \A b \in Agents, j \in AgentRuns :
              \/ others[b][j] = runAt[b][j]
              \/ runAt[b][j] = "late" /\ others[b][j] = "over",
           \A b \in Agents, j \in AgentRuns :
              runEnd'[b][j] = runEnd[b][j] \/ runAt[b][j] = "late",
           UNCHANGED <<spawned, coord>>
    PROVE  /\ AgentsInv' /\ runAt' \in RunMaps /\ lastRun' \in [Agents -> 0..MaxAgentRuns]
           /\ agentState' \in [Agents -> {"none", "running", "cancelling"} \cup Terminal]
<1>1. CASE agentState[a] = "running" /\ runAt' = others /\ UNCHANGED <<agentState, lastRun>>
  <2>1. \A b \in Agents, j \in AgentRuns :
          runAt'[b][j] = runAt[b][j] \/ (runAt[b][j] = "late" /\ runAt'[b][j] = "over")
    BY <1>1
  <2>2. RunsInv' BY <1>1, <2>1 DEF AgentsInv, RunsInv, RunsAreCounted
  <2>3. Looping' \subseteq Looping BY <2>1 DEF Looping
  <2>4. QED BY <1>1, <2>2, <2>3, LimitKept, OrderKept DEF AgentsInv, SubagentsTypeOK
<1>2. CASE agentState[a] \in Terminal /\ CountRunning < MAX_CONCURRENT /\ Begins(a, others)
  <2>1. /\ RunsInv' /\ Looping' = Looping \cup {a}
        /\ lastRun' \in [Agents -> 0..MaxAgentRuns] /\ runAt' \in RunMaps
        /\ agentState' = [agentState EXCEPT ![a] = "running"]
    BY <1>2, BeginsKeeps DEF AgentsInv
  <2>2. \A b \in Agents : agentState'[b] = "none" <=> agentState[b] = "none"
    BY <1>2, <2>1 DEF SubagentsTypeOK, Terminal
  <2>3. LimitInv' /\ RegisteredInOrder'
    BY <1>2, <2>1, <2>2, LimitBegins, OrderKept DEF AgentsInv
  <2>4. agentState' \in [Agents -> {"none", "running", "cancelling"} \cup Terminal]
    BY <2>1 DEF SubagentsTypeOK
  <2>5. QED BY <2>1, <2>3, <2>4 DEF AgentsInv
<1>3. QED BY <1>1, <1>2 DEF Deliver

-----------------------------------------------------------------------------
(***************************************************************************)
(* Subagents: every step.                                                  *)
(***************************************************************************)

\* The coordinator's steps keep the types and the limits.
LEMMA CoordinatorStep ==
    ASSUME SubagentsTypeOK, AgentsInv,
           \/ SpawnChecks \/ SpawnRegisters \/ CancelMarks
           \/ \E a \in Agents, i \in Instrs : AgentMessage(a, i)
           \/ \E a \in Agents : CancelLooks(a)
    PROVE  SubagentsTypeOK' /\ AgentsInv'
<1> USE DEF runVariables
<1>0. /\ spawned \in Nat /\ spawned <= MAX_TOTAL /\ MAX_TOTAL \in Nat /\ runAt \in RunMaps
      /\ coord \in {"idle", "spawn", "mark"} \X (Agents \cup {0})
      /\ agentState \in [Agents -> {"none", "running", "cancelling"} \cup Terminal]
  BY SubagentsAssumption DEF SubagentsTypeOK, RunMaps, RunPlaces
<1>1. PICK m \in 0..spawned :
        /\ \A a \in Agents : agentState[a] # "none" <=> a <= m
        /\ coord[1] = "spawn" => coord[2] = m + 1 /\ m < spawned
        /\ coord[1] = "mark" => coord[2] \in 1..m
  BY DEF AgentsInv, RegisteredInOrder
<1>2. m \in Nat /\ m <= spawned /\ 1..m \subseteq Agents
  BY <1>0, <1>1 DEF Agents
<1>3. CASE SpawnChecks
  <2>1. coord' = <<"spawn", m + 1>> BY <1>1, <1>3, AgentsThere, <1>2 DEF SpawnChecks
  <2>2. /\ spawned' = spawned + 1 /\ spawned < MAX_TOTAL /\ CountRunning < MAX_CONCURRENT
        /\ UNCHANGED <<agentState, lastRun, runAt, runEnd, inbox, late, instr>>
    BY <1>3 DEF SpawnChecks
  <2>3. SubagentsTypeOK' BY SMTT(30), <1>0, <1>2, <2>1, <2>2 DEF SubagentsTypeOK, Agents
  <2>4. RunsInv' BY <2>2 DEF AgentsInv, RunsInv, RunsAreCounted
  <2>5. RegisteredInOrder'
    <3>1. /\ m \in 0..spawned' /\ \A a \in Agents : agentState'[a] # "none" <=> a <= m
          /\ coord'[1] = "spawn" /\ coord'[2] = m + 1 /\ m < spawned'
      BY <1>0, <1>1, <1>2, <2>1, <2>2
    <3>2. QED BY <3>1 DEF RegisteredInOrder
  <2>6. LimitInv'
    <3>1. Cardinality(Looping) \in Nat /\ CountRunning \in Nat
          /\ Cardinality(Looping) <= CountRunning
      BY LoopingCounted DEF AgentsInv
    <3>2. Looping' = Looping BY <2>2 DEF Looping
    <3>3. QED BY <2>2, <3>1, <3>2, SubagentsAssumption DEF LimitInv
  <2>7. QED BY <2>3, <2>4, <2>5, <2>6 DEF AgentsInv
<1>4. CASE SpawnRegisters /\ Begins(coord[2], runAt)
  <2> DEFINE a == coord[2]
  <2>1. a = m + 1 /\ a \in Agents /\ m < spawned /\ agentState[a] = "none"
    BY <1>0, <1>1, <1>2, <1>4 DEF SpawnRegisters, Agents
  <2>2. coord' = Idle /\ UNCHANGED <<runEnd, inbox, late, instr, spawned>>
    BY <1>4 DEF SpawnRegisters
  <2>3. /\ RunsInv' /\ Looping' = Looping \cup {a}
        /\ lastRun' \in [Agents -> 0..MaxAgentRuns] /\ runAt' \in RunMaps
        /\ agentState' = [agentState EXCEPT ![a] = "running"]
    BY <1>0, <1>4, <2>1, <2>2, BeginsKeeps DEF AgentsInv
  <2>4. LimitInv' BY <1>4, <2>2, <2>3, LimitBegins DEF AgentsInv, SpawnRegisters
  <2>5. RegisteredInOrder'
    <3>1. /\ m + 1 \in 0..spawned'
          /\ \A b \in Agents : agentState'[b] # "none" <=> b <= m + 1
      BY <1>0, <1>1, <1>2, <2>1, <2>2, <2>3 DEF Agents
    <3>2. coord'[1] = "idle" BY <2>2 DEF Idle
    <3>3. QED BY <3>1, <3>2 DEF RegisteredInOrder
  <2>6. SubagentsTypeOK'
    BY <1>0, <2>1, <2>2, <2>3 DEF SubagentsTypeOK, RunMaps, RunPlaces, Idle
  <2>7. QED BY <2>3, <2>4, <2>5, <2>6 DEF AgentsInv
<1>5. CASE SpawnRegisters /\ UNCHANGED <<agentState, lastRun, runAt>>
  <2>1. /\ coord' = Idle /\ UNCHANGED <<agentState, lastRun, runAt, runEnd, inbox, late, instr,
                                        spawned>>
    BY <1>5 DEF SpawnRegisters
  <2>2. SubagentsTypeOK' BY <2>1 DEF SubagentsTypeOK, Idle
  <2>3. RunsInv' /\ Looping' = Looping
    BY <2>1 DEF AgentsInv, RunsInv, RunsAreCounted, Looping
  <2>4. coord'[1] # "spawn" BY <2>1 DEF Idle
  <2>5. LimitInv' /\ RegisteredInOrder'
    BY <2>1, <2>3, <2>4, LimitKept, OrderKept DEF AgentsInv
  <2>6. QED BY <2>2, <2>3, <2>5 DEF AgentsInv
<1>6. ASSUME NEW a \in Agents, NEW i \in Instrs, AgentMessage(a, i)
      PROVE  SubagentsTypeOK' /\ AgentsInv'
  <2>1. UNCHANGED <<runEnd, late, spawned, coord>> BY <1>6 DEF AgentMessage
  <2>2. CASE Deliver(a, {i}, runAt)
    <3>1. {i} \in SUBSET Instrs OBVIOUS
    <3>2. /\ inbox' \in [Agents -> [AgentRuns -> SUBSET Instrs]]
          /\ instr' \in [Instrs -> {"none", "queued", "settled"}]
      BY <2>2, <3>1, DeliverTypes
    <3>3. /\ AgentsInv' /\ runAt' \in RunMaps /\ lastRun' \in [Agents -> 0..MaxAgentRuns]
          /\ agentState' \in [Agents -> {"none", "running", "cancelling"} \cup Terminal]
      BY <1>0, <2>1, <2>2, <3>1, DeliverStep
    <3>4. QED BY <2>1, <3>2, <3>3 DEF SubagentsTypeOK, RunMaps, RunPlaces
  <2>3. CASE Fated({i}, "settled") /\ UNCHANGED <<agentState, lastRun, runAt, inbox>>
    <3>1. SubagentsTypeOK' BY <2>1, <2>3 DEF SubagentsTypeOK, Fated
    <3>2. RunsInv' /\ Looping' = Looping
      BY <2>1, <2>3 DEF AgentsInv, RunsInv, RunsAreCounted, Looping
    <3>3. LimitInv' /\ RegisteredInOrder'
      BY <2>1, <2>3, <3>2, LimitKept, OrderKept DEF AgentsInv
    <3>4. QED BY <3>1, <3>2, <3>3 DEF AgentsInv
  <2>4. QED BY <1>6, <2>2, <2>3 DEF AgentMessage
<1>7. ASSUME NEW a \in Agents, CancelLooks(a) PROVE SubagentsTypeOK' /\ AgentsInv'
  <2>1. /\ coord' = <<"mark", a>> /\ agentState[a] # "none"
        /\ UNCHANGED <<agentState, lastRun, runAt, runEnd, inbox, late, instr, spawned>>
    BY <1>7 DEF CancelLooks
  <2>2. SubagentsTypeOK' BY <2>1 DEF SubagentsTypeOK
  <2>3. RunsInv' /\ Looping' = Looping
    BY <2>1 DEF AgentsInv, RunsInv, RunsAreCounted, Looping
  <2>4. LimitInv' BY <2>1, <2>3, LimitKept DEF AgentsInv
  <2>5. RegisteredInOrder'
    <3>1. a \in 1..m BY <1>1, <1>2, <2>1 DEF Agents
    <3>2. QED BY <1>1, <2>1, <3>1 DEF RegisteredInOrder
  <2>6. QED BY <2>2, <2>3, <2>4, <2>5 DEF AgentsInv
<1>8. CASE CancelMarks
  <2>1. coord[2] \in Agents /\ agentState[coord[2]] # "none"
    BY <1>1, <1>2, <1>8 DEF CancelMarks
  <2>2. /\ coord' = Idle /\ agentState' = [agentState EXCEPT ![coord[2]] = "cancelling"]
        /\ UNCHANGED <<lastRun, runAt, runEnd, inbox, late, instr, spawned>>
    BY <1>8 DEF CancelMarks
  <2>3. SubagentsTypeOK' BY <1>0, <2>2 DEF SubagentsTypeOK, Idle
  <2>4. RunsInv' /\ Looping' = Looping
    BY <1>0, <2>1, <2>2 DEF AgentsInv, RunsInv, RunsAreCounted, Looping
  <2>5. coord'[1] # "spawn" BY <2>2 DEF Idle
  <2>6. \A b \in Agents : agentState'[b] = "none" <=> agentState[b] = "none"
    BY <1>0, <2>1, <2>2
  <2>7. LimitInv' /\ RegisteredInOrder'
    BY <2>2, <2>4, <2>5, <2>6, LimitKept, OrderKept DEF AgentsInv
  <2>8. QED BY <2>3, <2>4, <2>7 DEF AgentsInv
<1>9. QED BY <1>3, <1>4, <1>5, <1>6, <1>7, <1>8 DEF SpawnRegisters

\* So do the steps of the thread of a run.
LEMMA RunThreadStep ==
    ASSUME SubagentsTypeOK, AgentsInv, NEW a \in Agents, NEW k \in AgentRuns, RunThread(a, k)
    PROVE  SubagentsTypeOK' /\ AgentsInv'
<1> DEFINE Queues == [Agents -> [AgentRuns -> SUBSET Instrs]]
           RunEnds == [Agents -> [AgentRuns -> {"none"} \cup Terminal]]
<1>0. /\ runAt \in RunMaps /\ inbox \in Queues /\ late \in Queues /\ runEnd \in RunEnds
      /\ agentState \in [Agents -> {"none", "running", "cancelling"} \cup Terminal]
      /\ instr \in [Instrs -> {"none", "queued", "settled"}]
  BY DEF SubagentsTypeOK, RunMaps, RunPlaces
<1>1. ASSUME NEW I \in SUBSET Instrs, NEW f \in {"queued", "settled"}, Fated(I, f)
      PROVE  instr' \in [Instrs -> {"none", "queued", "settled"}]
  BY <1>0, <1>1 DEF Fated
<1>places. \A q \in {"returned", "wrapup", "late", "over"} : q \in RunPlaces \ {"none", "loop"}
  BY DEF RunPlaces
<1>runs. RunsInv BY DEF AgentsInv
\* The moves that leave the agents and the coordinator as they are.
<1>2. ASSUME UNCHANGED <<lastRun, spawned, coord>>, RunsInv', Looping' \subseteq Looping,
             \A b \in Agents : agentState'[b] = "none" <=> agentState[b] = "none"
      PROVE  AgentsInv'
  BY <1>2, LimitKept, OrderKept DEF AgentsInv
<1>3. CASE RunReads(a, k)
  <2>1. /\ Fated(inbox[a][k], "settled") /\ inbox' = [inbox EXCEPT ![a][k] = {}]
        /\ UNCHANGED <<agentState, lastRun, runAt, runEnd, late, spawned, coord>>
    BY <1>3 DEF RunReads
  <2>2. inbox' \in Queues BY <1>0, <2>1, QueueUpdate
  <2>3. instr' \in [Instrs -> {"none", "queued", "settled"}] BY <1>0, <1>1, <2>1
  <2>4. SubagentsTypeOK' BY <2>1, <2>2, <2>3 DEF SubagentsTypeOK
  <2>5. RunsInv' /\ Looping' = Looping
    BY <2>1 DEF AgentsInv, RunsInv, RunsAreCounted, Looping
  <2>6. QED BY <1>2, <2>1, <2>4, <2>5
<1>4. ASSUME NEW how \in Terminal, RunReturns(a, k, how) PROVE SubagentsTypeOK' /\ AgentsInv'
  <2>1. /\ runAt[a][k] = "loop" /\ runAt' = [runAt EXCEPT ![a][k] = "returned"]
        /\ runEnd' = [runEnd EXCEPT ![a][k] = how]
        /\ UNCHANGED <<agentState, lastRun, inbox, late, instr, spawned, coord>>
    BY <1>4 DEF RunReturns
  <2>2. /\ runEnd' \in RunEnds
        /\ \A b \in Agents, j \in AgentRuns :
              runEnd'[b][j] = IF b = a /\ j = k THEN how ELSE runEnd[b][j]
    BY <1>0, <2>1, RunUpdate
  <2>3. RunsInv' /\ Looping' \subseteq Looping /\ runAt' \in RunMaps
    <3>1. \A b \in Agents, j \in AgentRuns :
            runEnd'[b][j] = runEnd[b][j] \/ (b = a /\ j = k)
      BY <2>2
    <3>2. runEnd'[a][k] \in Terminal /\ \A b \in Agents : agentState'[b] = agentState[b]
      BY <2>1, <2>2
    <3>3. "returned" \in RunPlaces \ {"none", "loop"} BY <1>places
    <3>4. QED BY <1>runs, <2>1, <3>1, <3>2, <3>3, RunMoves
  <2>4. SubagentsTypeOK' BY <2>1, <2>2, <2>3 DEF SubagentsTypeOK, RunMaps, RunPlaces
  <2>5. QED BY <1>2, <2>1, <2>3, <2>4
<1>5. CASE RunWritesResult(a, k)
  <2>1. /\ runAt[a][k] = "returned" /\ runAt' = [runAt EXCEPT ![a][k] = "wrapup"]
        /\ agentState' = [agentState EXCEPT ![a] = runEnd[a][k]]
        /\ UNCHANGED <<lastRun, runEnd, inbox, late, instr, spawned, coord>>
    BY <1>5 DEF RunWritesResult
  <2>2. runEnd[a][k] \in Terminal /\ agentState[a] # "none"
    BY <2>1 DEF AgentsInv, RunsInv, RunsAreCounted
  <2>3. /\ agentState' \in [Agents -> {"none", "running", "cancelling"} \cup Terminal]
        /\ \A b \in Agents : agentState'[b] = IF b = a THEN runEnd[a][k] ELSE agentState[b]
    BY <1>0, <2>1, <2>2
  <2>4. RunsInv' /\ Looping' \subseteq Looping /\ runAt' \in RunMaps
    <3>1. \A b \in Agents : \/ agentState'[b] = agentState[b]
                            \/ b = a /\ runAt[a][k] = "returned" /\ "wrapup" # "returned"
      BY <2>1, <2>3
    <3>2. "wrapup" \in RunPlaces \ {"none", "loop"} BY <1>places
    <3>3. \A b \in Agents, j \in AgentRuns :
            runEnd'[b][j] = runEnd[b][j] \/ (b = a /\ j = k)
      BY <2>1
    <3>4. QED BY ZenonT(30), <1>runs, <2>1, <3>1, <3>2, <3>3, RunMoves
  <2>5. \A b \in Agents : agentState'[b] = "none" <=> agentState[b] = "none"
    BY <2>2, <2>3 DEF Terminal
  <2>6. SubagentsTypeOK' BY <2>1, <2>3, <2>4 DEF SubagentsTypeOK, RunMaps, RunPlaces
  <2>7. QED BY <1>2, <2>1, <2>4, <2>5, <2>6
<1>6. CASE RunDrains(a, k)
  <2> DEFINE I == inbox[a][lastRun[a]]
  <2>1. /\ runAt[a][k] = "wrapup" /\ inbox' = [inbox EXCEPT ![a][lastRun[a]] = {}]
        /\ UNCHANGED <<agentState, lastRun, spawned, coord>>
    BY <1>6 DEF RunDrains
  <2>2. lastRun[a] \in AgentRuns
    <3>1. ~(k > lastRun[a]) BY <1>runs, <2>1 DEF RunsInv
    <3>2. lastRun[a] \in 0..MaxAgentRuns BY DEF SubagentsTypeOK
    <3>3. QED BY <3>1, <3>2, SubagentsAssumption DEF AgentRuns
  <2>3. I \in SUBSET Instrs BY <1>0, <2>2
  <2>4. inbox' \in Queues BY <1>0, <2>1, QueueUpdate
  <2>5. \/ /\ runAt' = [runAt EXCEPT ![a][k] = "over"] /\ runEnd' = [runEnd EXCEPT ![a][k] = "none"]
           /\ Fated(I, "settled") /\ late' = late
        \/ /\ runAt' = [runAt EXCEPT ![a][k] = "late"] /\ late' = [late EXCEPT ![a][k] = I]
           /\ UNCHANGED <<instr, runEnd>>
    BY <1>6 DEF RunDrains, Over
  <2>6. /\ runEnd' \in RunEnds
        /\ \A b \in Agents, j \in AgentRuns : runEnd'[b][j] = runEnd[b][j] \/ (b = a /\ j = k)
    <3>1. [runEnd EXCEPT ![a][k] = "none"] \in RunEnds
          /\ \A b \in Agents, j \in AgentRuns :
                [runEnd EXCEPT ![a][k] = "none"][b][j]
                  = IF b = a /\ j = k THEN "none" ELSE runEnd[b][j]
      BY <1>0, RunUpdate
    <3>2. QED BY <1>0, <2>5, <3>1
  <2>7. late' \in Queues
    <3>1. [late EXCEPT ![a][k] = I] \in Queues BY <1>0, <2>3, QueueUpdate
    <3>2. QED BY <1>0, <2>5, <3>1
  <2>8. instr' \in [Instrs -> {"none", "queued", "settled"}] BY <1>0, <1>1, <2>3, <2>5
  <2>9. RunsInv' /\ Looping' \subseteq Looping /\ runAt' \in RunMaps
    <3>1. \A b \in Agents : agentState'[b] = agentState[b] BY <2>1
    <3>2. ASSUME NEW q \in {"late", "over"}, runAt' = [runAt EXCEPT ![a][k] = q]
          PROVE  RunsInv' /\ Looping' \subseteq Looping /\ runAt' \in RunMaps
      <4>1. q \in RunPlaces \ {"none", "loop"} /\ q # "returned" BY <1>places, <3>2
      <4>2. runAt[a][k] # "none" /\ UNCHANGED lastRun BY <2>1
      <4>3. QED BY <1>runs, <2>6, <3>1, <3>2, <4>1, <4>2, RunMoves
    <3>3. QED BY <2>5, <3>2
  <2>10. SubagentsTypeOK'
    BY <2>1, <2>4, <2>6, <2>7, <2>8, <2>9 DEF SubagentsTypeOK, RunMaps, RunPlaces
  <2>11. QED BY <1>2, <2>1, <2>9, <2>10
<1>7. CASE RunRedelivers(a, k)
  <2> DEFINE others == [runAt EXCEPT ![a][k] = "over"]
  <2>1. /\ runAt[a][k] = "late" /\ late' = [late EXCEPT ![a][k] = {}]
        /\ runEnd' = [runEnd EXCEPT ![a][k] = "none"] /\ UNCHANGED <<spawned, coord>>
    BY <1>7 DEF RunRedelivers, Over
  <2>2. /\ others \in RunMaps
        /\ \A b \in Agents, j \in AgentRuns :
              others[b][j] = IF b = a /\ j = k THEN "over" ELSE runAt[b][j]
    BY <1>0, RunUpdate DEF RunMaps, RunPlaces
  <2>3. /\ runEnd' \in RunEnds
        /\ \A b \in Agents, j \in AgentRuns :
              runEnd'[b][j] = IF b = a /\ j = k THEN "none" ELSE runEnd[b][j]
    BY <1>0, <2>1, RunUpdate
  <2>4. late' \in Queues BY <1>0, <2>1, QueueUpdate
  <2>5. CASE Deliver(a, late[a][k], others)
    <3>1. late[a][k] \in SUBSET Instrs BY <1>0
    <3>2. inbox' \in Queues /\ instr' \in [Instrs -> {"none", "queued", "settled"}]
      BY <2>5, <3>1, DeliverTypes
    <3>3. /\ \A b \in Agents, j \in AgentRuns :
                \/ others[b][j] = runAt[b][j]
                \/ runAt[b][j] = "late" /\ others[b][j] = "over"
          /\ \A b \in Agents, j \in AgentRuns :
                runEnd'[b][j] = runEnd[b][j] \/ runAt[b][j] = "late"
      BY <2>1, <2>2, <2>3
    <3> HIDE DEF others
    <3>4. /\ AgentsInv' /\ runAt' \in RunMaps /\ lastRun' \in [Agents -> 0..MaxAgentRuns]
          /\ agentState' \in [Agents -> {"none", "running", "cancelling"} \cup Terminal]
      BY <2>1, <2>2, <2>5, <3>1, <3>3, DeliverStep
    <3>5. QED BY <2>1, <2>3, <2>4, <3>2, <3>4 DEF SubagentsTypeOK, RunMaps, RunPlaces
  <2>6. CASE runAt' = others /\ UNCHANGED <<agentState, lastRun, instr, inbox>>
    <3>1. RunsInv' /\ Looping' \subseteq Looping /\ runAt' \in RunMaps
      <4>1. "over" \in RunPlaces \ {"none", "loop"} BY <1>places
      <4>2. /\ \A b \in Agents : agentState'[b] = agentState[b]
            /\ \A b \in Agents, j \in AgentRuns :
                  runEnd'[b][j] = runEnd[b][j] \/ (b = a /\ j = k)
        BY <2>3, <2>6
      <4>3. QED BY <1>runs, <2>1, <2>6, <4>1, <4>2, RunMoves
    <3>2. SubagentsTypeOK'
      BY <2>1, <2>3, <2>4, <2>6, <3>1 DEF SubagentsTypeOK, RunMaps, RunPlaces
    <3>3. QED BY <1>2, <2>1, <2>6, <3>1, <3>2
  <2>7. QED BY <1>7, <2>5, <2>6 DEF RunRedelivers
<1>8. QED BY <1>3, <1>4, <1>5, <1>6, <1>7 DEF RunThread

\* The types and the limits hold in every reachable state.
LEMMA AgentsAlways == SubagentsSpec => [](SubagentsTypeOK /\ AgentsInv)
<1>1. SubagentsInit => SubagentsTypeOK /\ AgentsInv
  <2> SUFFICES ASSUME SubagentsInit PROVE SubagentsTypeOK /\ AgentsInv OBVIOUS
  <2> USE SubagentsAssumption DEF SubagentsInit, ByRun, Idle
  <2>1. SubagentsTypeOK BY DEF SubagentsTypeOK
  <2>2. RunsInv BY DEF RunsInv, RunsAreCounted
  <2>3. RegisteredInOrder
    <3>1. /\ 0 \in 0..spawned /\ coord[1] = "idle"
          /\ \A a \in Agents : agentState[a] # "none" <=> a <= 0
      BY DEF Agents
    <3>2. QED BY <3>1 DEF RegisteredInOrder
  <2>4. LimitInv
    <3>1. Looping = {} BY DEF Looping
    <3>2. QED BY <3>1, FS_EmptySet DEF LimitInv
  <2>5. QED BY <2>1, <2>2, <2>3, <2>4 DEF AgentsInv
<1>2. SubagentsTypeOK /\ AgentsInv /\ [SubagentsNext]_subagentVars
        => SubagentsTypeOK' /\ AgentsInv'
  <2> SUFFICES ASSUME SubagentsTypeOK, AgentsInv, [SubagentsNext]_subagentVars
               PROVE  SubagentsTypeOK' /\ AgentsInv'
    OBVIOUS
  <2>1. CASE UNCHANGED subagentVars
    <3>1. Looping' = Looping BY <2>1 DEF Looping, subagentVars, runVariables
    <3>2. QED
      BY <2>1, <3>1
      DEF subagentVars, runVariables, SubagentsTypeOK, AgentsInv, RunsInv, RunsAreCounted,
          RegisteredInOrder, LimitInv
  <2>2. QED BY <2>1, CoordinatorStep, RunThreadStep DEF SubagentsNext
<1>3. QED BY <1>1, <1>2, PTL DEF SubagentsSpec

\* Every variable of the subagents keeps its type; so no more are spawned than MAX_TOTAL.
THEOREM SubagentTypesTheorem == SubagentsSpec => []SubagentsTypeOK
BY AgentsAlways, PTL

\* An agent never works in two runs at once, and the agent of a run that works is
\* one _count_running counts, whatever the order of the results, of the late
\* instructions and of the unlocked writes of cancel (AgentOrchestrator).
THEOREM RunsAreCountedTheorem == SubagentsSpec => []RunsAreCounted
<1>1. AgentsInv => RunsAreCounted BY DEF AgentsInv, RunsInv
<1>2. QED BY <1>1, AgentsAlways, PTL

\* The limit of concurrent agents is passed by one agent at most, whatever finished
\* agents are revived between the two holds of spawn's lock (spawn, deliver).
THEOREM AgentsWithinLimitTheorem == SubagentsSpec => []AgentsWithinLimit
<1>1. AgentsInv => AgentsWithinLimit BY DEF AgentsInv, LimitInv, Looping, AgentsWithinLimit
<1>2. QED BY <1>1, AgentsAlways, PTL

-----------------------------------------------------------------------------
(***************************************************************************)
(* Subagents: what becomes of an instruction.                              *)
(***************************************************************************)

\* An agent that shows as running has a last run that works.
LastRunWorks ==
    \A a \in Agents : agentState[a] = "running" =>
        lastRun[a] \in AgentRuns /\ runAt[a][lastRun[a]] \in {"loop", "returned"}

\* Only a thread that is about to deliver them has drained instructions.
LateInv == \A a \in Agents, k \in AgentRuns : late[a][k] # {} => runAt[a][k] = "late"

\* An instruction somebody will still look at: a thread has drained it, or it is in
\* the queue of the last run, which works or wraps up.
Drained(i) == \E a \in Agents, k \in AgentRuns : i \in late[a][k]
Queued(i) ==
    \E a \in Agents :
        /\ lastRun[a] \in AgentRuns /\ i \in inbox[a][lastRun[a]]
        /\ runAt[a][lastRun[a]] \in {"loop", "returned", "wrapup"}
IsAwaited(i) == Drained(i) \/ Queued(i)

\* A step in which deliver raises for the late instructions of a run.
LateRefused(i) ==
    \E a \in Agents, k \in AgentRuns : i \in late[a][k] \ late'[a][k] /\ DeliverRaises(a)

\* A step in which another instruction revives an agent that has not drained its
\* queue yet: the new run has a queue of its own.
QueueReplaced(i) ==
    \E a \in Agents :
        /\ lastRun[a] \in AgentRuns /\ i \in inbox[a][lastRun[a]]
        /\ runAt[a][lastRun[a]] = "wrapup" /\ lastRun'[a] # lastRun[a]

\* An update of the queue of a run that is there ...
LEMMA QueueAt ==
    ASSUME SubagentsTypeOK, NEW a \in Agents, NEW k \in AgentRuns, NEW v \in SUBSET Instrs,
           inbox' = [inbox EXCEPT ![a][k] = v]
    PROVE  \A b \in Agents, j \in AgentRuns :
              inbox'[b][j] = IF b = a /\ j = k THEN v ELSE inbox[b][j]
<1>1. inbox \in [Agents -> [AgentRuns -> SUBSET Instrs]] BY DEF SubagentsTypeOK
<1>2. inbox' = [inbox EXCEPT ![a] = [inbox[a] EXCEPT ![k] = v]] OBVIOUS
<1>3. QED BY <1>1, <1>2

\* ... and of what a run drained.
LEMMA LateAt ==
    ASSUME SubagentsTypeOK, NEW a \in Agents, NEW k \in AgentRuns, NEW v \in SUBSET Instrs,
           late' = [late EXCEPT ![a][k] = v]
    PROVE  \A b \in Agents, j \in AgentRuns :
              late'[b][j] = IF b = a /\ j = k THEN v ELSE late[b][j]
<1>1. late \in [Agents -> [AgentRuns -> SUBSET Instrs]] BY DEF SubagentsTypeOK
<1>2. late' = [late EXCEPT ![a] = [late[a] EXCEPT ![k] = v]] OBVIOUS
<1>3. QED BY <1>1, <1>2

\* What Begins writes, when nothing else of the other runs than their end changes.
LEMMA BeginsAt ==
    ASSUME SubagentsTypeOK, NEW a \in Agents, NEW others \in RunMaps, Begins(a, others)
    PROVE  /\ lastRun'[a] = lastRun[a] + 1 /\ lastRun'[a] \in AgentRuns /\ lastRun'[a] # lastRun[a]
           /\ \A b \in Agents : b # a => lastRun'[b] = lastRun[b] /\ agentState'[b] = agentState[b]
           /\ \A b \in Agents, j \in AgentRuns :
                runAt'[b][j] = IF b = a /\ j = lastRun'[a] THEN "loop" ELSE others[b][j]
<1>1. /\ lastRun[a] + 1 \in AgentRuns /\ lastRun[a] \in Nat
      /\ lastRun' = [lastRun EXCEPT ![a] = lastRun[a] + 1]
      /\ agentState' = [agentState EXCEPT ![a] = "running"]
      /\ runAt' = [others EXCEPT ![a][lastRun[a] + 1] = "loop"]
  BY SubagentsAssumption DEF Begins, SubagentsTypeOK, AgentRuns
<1>2. /\ lastRun'[a] = lastRun[a] + 1
      /\ \A b \in Agents : b # a => lastRun'[b] = lastRun[b] /\ agentState'[b] = agentState[b]
  BY <1>1 DEF SubagentsTypeOK
<1>3. \A b \in Agents, j \in AgentRuns :
        runAt'[b][j] = IF b = a /\ j = lastRun[a] + 1 THEN "loop" ELSE others[b][j]
  BY <1>1, RunUpdate DEF RunMaps, RunPlaces
<1>4. QED BY <1>1, <1>2, <1>3

\* A delivery: the agent that shows as running works, and the instructions are in the
\* queue of its last run, or the agent runs again with them.  No other instruction is
\* lost, but those of the queue the agent had.
LEMMA DeliverAwaits ==
    ASSUME SubagentsTypeOK, AgentsInv, LastRunWorks, NEW a \in Agents,
           NEW I \in SUBSET Instrs, NEW others \in RunMaps, Deliver(a, I, others),
           \A b \in Agents, j \in AgentRuns :
              \/ others[b][j] = runAt[b][j]
              \/ runAt[b][j] = "late" /\ others[b][j] = "over"
    PROVE  /\ LastRunWorks'
           /\ \A i \in I : instr'[i] = "queued" => Queued(i)'
           /\ \A i \in Instrs \ I : instr'[i] = instr[i]
           /\ \A i \in Instrs : Queued(i) => Queued(i)' \/ QueueReplaced(i)
<1>0. \A i \in Instrs \ I : instr'[i] = instr[i] BY DEF Deliver, Fated
<1>1. CASE agentState[a] = "running" /\ runAt' = others /\ UNCHANGED <<agentState, lastRun>>
           /\ inbox' = [inbox EXCEPT ![a][lastRun[a]] = @ \cup I]
  <2>1. lastRun[a] \in AgentRuns /\ runAt[a][lastRun[a]] \in {"loop", "returned"}
    BY <1>1 DEF LastRunWorks
  <2>2. inbox[a][lastRun[a]] \cup I \in SUBSET Instrs BY <2>1 DEF SubagentsTypeOK
  <2>3. /\ I \subseteq inbox'[a][lastRun[a]]
        /\ \A b \in Agents, j \in AgentRuns : inbox[b][j] \subseteq inbox'[b][j]
    <3>1. PICK v \in SUBSET Instrs : v = inbox[a][lastRun[a]] \cup I BY <2>2
    <3>2. inbox' = [inbox EXCEPT ![a][lastRun[a]] = v] BY <1>1, <3>1
    <3>3. \A b \in Agents, j \in AgentRuns :
            inbox'[b][j] = IF b = a /\ j = lastRun[a] THEN v ELSE inbox[b][j]
      <4>1. inbox \in [Agents -> [AgentRuns -> SUBSET Instrs]] BY DEF SubagentsTypeOK
      <4>2. PICK n \in AgentRuns : n = lastRun[a] BY <2>1
      <4>3. \A b \in Agents, j \in AgentRuns :
              [inbox EXCEPT ![a][n] = v][b][j] = IF b = a /\ j = n THEN v ELSE inbox[b][j]
        BY <3>1, <4>1, RunUpdate
      <4>4. QED BY <3>2, <4>2, <4>3
    <3>4. I \subseteq v /\ inbox[a][lastRun[a]] \subseteq v BY <3>1
    <3>5. QED BY <2>1, <3>3, <3>4
  <2>4. \A b \in Agents, j \in AgentRuns :
          runAt[b][j] \in {"loop", "returned", "wrapup"} => runAt'[b][j] = runAt[b][j]
    BY <1>1
  <2>5. LastRunWorks' BY <1>1, <2>4 DEF LastRunWorks
  <2>6. \A i \in I : Queued(i)'
    <3>1. /\ lastRun'[a] \in AgentRuns /\ I \subseteq inbox'[a][lastRun'[a]]
          /\ runAt'[a][lastRun'[a]] \in {"loop", "returned", "wrapup"}
      BY <1>1, <2>1, <2>3, <2>4
    <3>2. QED BY <3>1 DEF Queued
  <2>7. \A i \in Instrs : Queued(i) => Queued(i)' BY <1>1, <2>3, <2>4 DEF Queued
  <2>8. QED BY <1>0, <2>5, <2>6, <2>7
<1>2. CASE agentState[a] \in Terminal /\ Begins(a, others) /\ Fated(I, "settled") /\ inbox' = inbox
  <2>1. /\ lastRun'[a] \in AgentRuns /\ lastRun'[a] # lastRun[a]
        /\ \A b \in Agents : b # a => lastRun'[b] = lastRun[b] /\ agentState'[b] = agentState[b]
        /\ \A b \in Agents, j \in AgentRuns :
             runAt'[b][j] = IF b = a /\ j = lastRun'[a] THEN "loop" ELSE others[b][j]
    BY <1>2, BeginsAt
  <2>2. \A j \in AgentRuns : runAt[a][j] \notin {"loop", "returned"}
    BY <1>2 DEF AgentsInv, RunsInv, RunsAreCounted, Terminal
  <2>3. LastRunWorks' BY <2>1 DEF LastRunWorks
  <2>4. \A i \in I : instr'[i] = "settled" BY <1>2 DEF Fated
  <2>5. ASSUME NEW i \in Instrs, Queued(i) PROVE Queued(i)' \/ QueueReplaced(i)
    <3>1. PICK b \in Agents : /\ lastRun[b] \in AgentRuns /\ i \in inbox[b][lastRun[b]]
                              /\ runAt[b][lastRun[b]] \in {"loop", "returned", "wrapup"}
      BY <2>5 DEF Queued
    <3>2. CASE b = a BY <2>1, <2>2, <3>1, <3>2 DEF QueueReplaced
    <3>3. CASE b # a
      <4>1. lastRun'[b] = lastRun[b] /\ runAt'[b][lastRun[b]] = runAt[b][lastRun[b]]
        BY <2>1, <3>1, <3>3
      <4>2. QED BY <1>2, <3>1, <4>1 DEF Queued
    <3>4. QED BY <3>2, <3>3
  <2>6. QED BY <1>0, <2>3, <2>4, <2>5
<1>3. QED BY <1>1, <1>2 DEF Deliver

\* Nobody else touches what a thread has drained: a new run has a place of its own.
LEMMA LateStep == SubagentsTypeOK /\ AgentsInv /\ LateInv /\ SubagentsNext => LateInv'
<1> SUFFICES ASSUME SubagentsTypeOK, AgentsInv, LateInv, SubagentsNext PROVE LateInv'
  OBVIOUS
<1> USE DEF runVariables
<1>1. /\ runAt \in RunMaps
      /\ \A v \in RunPlaces, a \in Agents, k \in AgentRuns, b \in Agents, j \in AgentRuns :
            [runAt EXCEPT ![a][k] = v][b][j] = IF b = a /\ j = k THEN v ELSE runAt[b][j]
  BY RunUpdate DEF SubagentsTypeOK, RunMaps, RunPlaces
<1>2. CASE late' = late /\ UNCHANGED runAt BY <1>2 DEF LateInv
<1>3. ASSUME NEW a \in Agents, NEW k \in AgentRuns, NEW q \in RunPlaces, runAt[a][k] # "late",
             runAt' = [runAt EXCEPT ![a][k] = q], late' = late
      PROVE  LateInv'
  BY <1>1, <1>3 DEF LateInv
\* A new run, while nothing else changes but runs that come from "late" to their end.
<1>4. ASSUME NEW a \in Agents, NEW others \in RunMaps, Begins(a, others),
             \A b \in Agents, j \in AgentRuns :
                late'[b][j] # {} => late[b][j] # {} /\ others[b][j] = runAt[b][j]
      PROVE  LateInv'
  <2>1. /\ lastRun'[a] = lastRun[a] + 1
        /\ \A b \in Agents, j \in AgentRuns :
             runAt'[b][j] = IF b = a /\ j = lastRun'[a] THEN "loop" ELSE others[b][j]
    BY <1>4, BeginsAt
  <2>2. lastRun[a] + 1 > lastRun[a] BY DEF SubagentsTypeOK
  <2>3. \A j \in AgentRuns : j = lastRun'[a] => runAt[a][j] = "none"
    BY <2>1, <2>2 DEF AgentsInv, RunsInv
  <2>4. QED BY <1>4, <2>1, <2>3 DEF LateInv
<1>5. ASSUME NEW a \in Agents, NEW I, NEW others \in RunMaps, Deliver(a, I, others),
             \A b \in Agents, j \in AgentRuns :
                late'[b][j] # {} => late[b][j] # {} /\ others[b][j] = runAt[b][j]
      PROVE  LateInv'
  <2>1. CASE runAt' = others BY <1>5, <2>1 DEF LateInv
  <2>2. CASE Begins(a, others) BY <1>4, <1>5, <2>2
  <2>3. QED BY <1>5, <2>1, <2>2 DEF Deliver
<1>6. CASE SpawnRegisters
  <2>1. CASE UNCHANGED runAt BY <1>2, <1>6, <2>1 DEF SpawnRegisters
  <2>2. CASE Begins(coord[2], runAt)
    <3>1. PICK m \in 0..spawned : coord[2] = m + 1 /\ m < spawned
      BY <1>6 DEF SpawnRegisters, AgentsInv, RegisteredInOrder
    <3>2. coord[2] \in Agents BY <3>1, SubagentsAssumption DEF SubagentsTypeOK, Agents
    <3>3. late' = late BY <1>6 DEF SpawnRegisters
    <3>4. QED BY <1>1, <1>4, <2>2, <3>2, <3>3
  <2>3. QED BY <1>6, <2>1, <2>2 DEF SpawnRegisters
<1>7. ASSUME NEW a \in Agents, NEW i \in Instrs, AgentMessage(a, i) PROVE LateInv'
  <2>1. late' = late BY <1>7 DEF AgentMessage
  <2>2. CASE Deliver(a, {i}, runAt) BY <1>1, <1>5, <2>1, <2>2
  <2>3. CASE UNCHANGED runAt BY <1>2, <2>1, <2>3
  <2>4. QED BY <1>7, <2>2, <2>3 DEF AgentMessage
<1>8. ASSUME NEW a \in Agents, NEW k \in AgentRuns, RunThread(a, k) PROVE LateInv'
  <2>0. {"returned", "wrapup", "late", "over"} \subseteq RunPlaces BY DEF RunPlaces
  <2>1. CASE RunReads(a, k) BY <1>2, <2>1 DEF RunReads
  <2>2. ASSUME NEW how \in Terminal, RunReturns(a, k, how) PROVE LateInv'
    BY <1>3, <2>0, <2>2 DEF RunReturns
  <2>3. CASE RunWritesResult(a, k) BY <1>3, <2>0, <2>3 DEF RunWritesResult
  <2>4. CASE RunDrains(a, k)
    <3>1. runAt[a][k] = "wrapup" BY <2>4 DEF RunDrains
    <3>2. CASE runAt' = [runAt EXCEPT ![a][k] = "over"] /\ late' = late
      BY <1>3, <2>0, <3>1, <3>2
    <3>3. CASE /\ runAt' = [runAt EXCEPT ![a][k] = "late"]
               /\ late' = [late EXCEPT ![a][k] = inbox[a][lastRun[a]]]
      <4>1. \A b \in Agents, j \in AgentRuns :
              ~(b = a /\ j = k) => late'[b][j] = late[b][j]
        BY <3>3 DEF SubagentsTypeOK
      <4>2. \A b \in Agents, j \in AgentRuns :
              runAt'[b][j] = IF b = a /\ j = k THEN "late" ELSE runAt[b][j]
        BY <1>1, <2>0, <3>3
      <4>3. QED BY <4>1, <4>2 DEF LateInv
    <3>4. QED BY <2>4, <3>2, <3>3 DEF RunDrains
  <2>5. CASE RunRedelivers(a, k)
    <3> DEFINE others == [runAt EXCEPT ![a][k] = "over"]
    <3>1. /\ others \in RunMaps
          /\ \A b \in Agents, j \in AgentRuns :
                others[b][j] = IF b = a /\ j = k THEN "over" ELSE runAt[b][j]
      BY <1>1, RunUpdate DEF RunMaps, RunPlaces
    <3>2. \A b \in Agents, j \in AgentRuns :
            late'[b][j] = IF b = a /\ j = k THEN {} ELSE late[b][j]
      <4>1. late' = [late EXCEPT ![a][k] = {}] /\ {} \in SUBSET Instrs
        BY <2>5 DEF RunRedelivers
      <4>2. QED BY ZenonT(30), <4>1, LateAt
    <3>3. \A b \in Agents, j \in AgentRuns :
            late'[b][j] # {} => late[b][j] # {} /\ others[b][j] = runAt[b][j]
      BY <3>1, <3>2
    <3>4. Deliver(a, late[a][k], others) \/ runAt' = others BY <2>5 DEF RunRedelivers
    <3> HIDE DEF others
    <3>5. CASE Deliver(a, late[a][k], others) BY <1>5, <3>1, <3>3, <3>5
    <3>6. CASE runAt' = others BY <3>3, <3>6 DEF LateInv
    <3>7. QED BY <3>4, <3>5, <3>6
  <2>6. QED BY <1>8, <2>1, <2>2, <2>3, <2>4, <2>5 DEF RunThread
<1>9. CASE SpawnChecks BY <1>2, <1>9 DEF SpawnChecks
<1>10. CASE CancelMarks BY <1>2, <1>10 DEF CancelMarks
<1>11. ASSUME NEW a \in Agents, CancelLooks(a) PROVE LateInv' BY <1>2, <1>11 DEF CancelLooks
<1>12. QED BY <1>6, <1>7, <1>8, <1>9, <1>10, <1>11 DEF SubagentsNext

\* What a step may do to an instruction that waits.
WaitsOn ==
    \A i \in Instrs :
        instr'[i] = "queued" /\ (instr[i] = "queued" => IsAwaited(i)) =>
            IsAwaited(i)' \/ LateRefused(i) \/ QueueReplaced(i)

\* The coordinator's steps.
LEMMA CoordinatorWaits ==
    ASSUME SubagentsTypeOK, AgentsInv, LastRunWorks,
           \/ SpawnChecks \/ SpawnRegisters \/ CancelMarks
           \/ \E a \in Agents, i \in Instrs : AgentMessage(a, i)
           \/ \E a \in Agents : CancelLooks(a)
    PROVE  LastRunWorks' /\ WaitsOn
<1> USE DEF runVariables
<1>1. runAt \in RunMaps BY DEF SubagentsTypeOK, RunMaps, RunPlaces
<1>2. CASE UNCHANGED <<agentState, lastRun, runAt, inbox, late>> /\ UNCHANGED instr
  BY <1>2 DEF LastRunWorks, WaitsOn, IsAwaited, Drained, Queued
<1>3. CASE CancelMarks
  <2>1. /\ agentState' = [agentState EXCEPT ![coord[2]] = "cancelling"]
        /\ UNCHANGED <<lastRun, runAt, inbox, late, instr>>
    BY <1>3 DEF CancelMarks
  <2>2. \A a \in Agents : agentState'[a] = "running" => agentState[a] = "running"
    BY <2>1 DEF SubagentsTypeOK
  <2>3. QED BY <2>1, <2>2 DEF LastRunWorks, WaitsOn, IsAwaited, Drained, Queued
<1>4. CASE coord[1] = "spawn" /\ Begins(coord[2], runAt) /\ UNCHANGED <<inbox, late, instr>>
  <2>0. PICK m \in 0..spawned :
          /\ \A a \in Agents : agentState[a] # "none" <=> a <= m
          /\ coord[2] = m + 1 /\ m < spawned
    BY <1>4 DEF AgentsInv, RegisteredInOrder
  <2>1. coord[2] \in Agents /\ agentState[coord[2]] = "none"
    <3>1. spawned \in Nat /\ spawned <= MAX_TOTAL /\ m \in Nat /\ MAX_TOTAL \in Nat
      BY SubagentsAssumption DEF SubagentsTypeOK
    <3>2. coord[2] \in Agents /\ ~(coord[2] <= m) BY <2>0, <3>1 DEF Agents
    <3>3. QED BY <2>0, <3>2
  <2> DEFINE a == coord[2]
  <2>2. /\ lastRun'[a] \in AgentRuns
        /\ \A b \in Agents : b # a => lastRun'[b] = lastRun[b] /\ agentState'[b] = agentState[b]
        /\ \A b \in Agents, j \in AgentRuns :
             runAt'[b][j] = IF b = a /\ j = lastRun'[a] THEN "loop" ELSE runAt[b][j]
    BY <1>1, <1>4, <2>1, BeginsAt
  <2>3. \A j \in AgentRuns : runAt[a][j] \notin {"loop", "returned"}
    BY <2>1 DEF AgentsInv, RunsInv, RunsAreCounted
  <2> HIDE DEF a
  <2>4. LastRunWorks' BY <2>2 DEF LastRunWorks
  <2>5. WaitsOn
    BY <1>4, <2>1, <2>2, <2>3 DEF WaitsOn, IsAwaited, Drained, Queued, QueueReplaced
  <2>6. QED BY <2>4, <2>5
<1>5. ASSUME NEW a \in Agents, NEW j \in Instrs, AgentMessage(a, j)
      PROVE  LastRunWorks' /\ WaitsOn
  <2>1. late' = late /\ instr[j] = "none" BY <1>5 DEF AgentMessage
  <2>2. CASE Deliver(a, {j}, runAt)
    <3>1. {j} \in SUBSET Instrs OBVIOUS
    <3>2. /\ LastRunWorks'
          /\ \A i \in {j} : instr'[i] = "queued" => Queued(i)'
          /\ \A i \in Instrs \ {j} : instr'[i] = instr[i]
          /\ \A i \in Instrs : Queued(i) => Queued(i)' \/ QueueReplaced(i)
      BY <1>1, <2>2, <3>1, DeliverAwaits
    <3>3. \A i \in Instrs : Drained(i)' <=> Drained(i) BY <2>1 DEF Drained
    <3>4. QED BY <3>2, <3>3 DEF WaitsOn, IsAwaited
  <2>3. CASE Fated({j}, "settled") /\ UNCHANGED <<agentState, lastRun, runAt, inbox>>
    BY <2>1, <2>3 DEF Fated, LastRunWorks, WaitsOn, IsAwaited, Drained, Queued
  <2>4. QED BY <1>5, <2>2, <2>3 DEF AgentMessage
<1>6. CASE SpawnChecks BY <1>2, <1>6 DEF SpawnChecks
<1>7. ASSUME NEW a \in Agents, CancelLooks(a) PROVE LastRunWorks' /\ WaitsOn
  BY <1>2, <1>7 DEF CancelLooks
<1>8. QED BY <1>2, <1>3, <1>4, <1>5, <1>6, <1>7 DEF SpawnRegisters

\* The steps of the thread of a run.
LEMMA RunThreadWaits ==
    ASSUME SubagentsTypeOK, AgentsInv, LastRunWorks, LateInv, NEW a \in Agents,
           NEW k \in AgentRuns, RunThread(a, k)
    PROVE  LastRunWorks' /\ WaitsOn
<1>0. /\ runAt \in RunMaps /\ inbox[a][k] \in SUBSET Instrs /\ late[a][k] \in SUBSET Instrs
      /\ \A v \in RunPlaces, b \in Agents, j \in AgentRuns :
            [runAt EXCEPT ![a][k] = v][b][j] = IF b = a /\ j = k THEN v ELSE runAt[b][j]
  BY RunUpdate DEF SubagentsTypeOK, RunMaps, RunPlaces
<1>1. \A j \in AgentRuns : runAt[a][j] \in {"loop", "returned"} => j = lastRun[a]
  BY DEF AgentsInv, RunsInv, RunsAreCounted
<1>2. CASE RunReads(a, k)
  <2>1. /\ Fated(inbox[a][k], "settled") /\ inbox' = [inbox EXCEPT ![a][k] = {}]
        /\ UNCHANGED <<agentState, lastRun, runAt, late>>
    BY <1>2 DEF RunReads
  <2>2. \A b \in Agents, j \in AgentRuns :
          inbox'[b][j] = IF b = a /\ j = k THEN {} ELSE inbox[b][j]
    <3>1. inbox' = [inbox EXCEPT ![a][k] = {}] /\ {} \in SUBSET Instrs BY <2>1
    <3>2. QED BY ZenonT(30), <3>1, QueueAt
  <2>3. \A i \in Instrs : IF i \in inbox[a][k] THEN instr'[i] = "settled" ELSE instr'[i] = instr[i]
    BY <2>1 DEF Fated
  <2>4. LastRunWorks' BY <2>1 DEF LastRunWorks
  <2>5. \A i \in Instrs \ inbox[a][k] : IsAwaited(i) => IsAwaited(i)'
    BY <2>1, <2>2 DEF IsAwaited, Drained, Queued
  <2>6. QED BY <2>3, <2>4, <2>5 DEF WaitsOn
<1>3. ASSUME NEW how \in Terminal, RunReturns(a, k, how) PROVE LastRunWorks' /\ WaitsOn
  <2>1. /\ runAt[a][k] = "loop" /\ runAt' = [runAt EXCEPT ![a][k] = "returned"]
        /\ UNCHANGED <<agentState, lastRun, inbox, late, instr>>
    BY <1>3 DEF RunReturns
  <2>2. \A b \in Agents, j \in AgentRuns :
          runAt'[b][j] = IF b = a /\ j = k THEN "returned" ELSE runAt[b][j]
    BY <1>0, <2>1 DEF RunPlaces
  <2>3. LastRunWorks' BY <2>1, <2>2 DEF LastRunWorks
  <2>4. WaitsOn BY <2>1, <2>2 DEF WaitsOn, IsAwaited, Drained, Queued
  <2>5. QED BY <2>3, <2>4
<1>4. CASE RunWritesResult(a, k)
  <2>1. /\ runAt[a][k] = "returned" /\ runAt' = [runAt EXCEPT ![a][k] = "wrapup"]
        /\ agentState' = [agentState EXCEPT ![a] = runEnd[a][k]]
        /\ UNCHANGED <<lastRun, inbox, late, instr>>
    BY <1>4 DEF RunWritesResult
  <2>2. \A b \in Agents, j \in AgentRuns :
          runAt'[b][j] = IF b = a /\ j = k THEN "wrapup" ELSE runAt[b][j]
    BY <1>0, <2>1 DEF RunPlaces
  <2>3. runEnd[a][k] \in Terminal BY <2>1 DEF AgentsInv, RunsInv
  <2>4. \A b \in Agents : agentState'[b] = "running" => b # a /\ agentState[b] = "running"
    BY <2>1, <2>3 DEF Terminal, SubagentsTypeOK
  <2>5. LastRunWorks' BY <2>1, <2>2, <2>4 DEF LastRunWorks
  <2>6. WaitsOn BY <2>1, <2>2 DEF WaitsOn, IsAwaited, Drained, Queued
  <2>7. QED BY <2>5, <2>6
<1>5. CASE RunDrains(a, k)
  <2> DEFINE I == inbox[a][lastRun[a]]
  <2>1. /\ runAt[a][k] = "wrapup" /\ inbox' = [inbox EXCEPT ![a][lastRun[a]] = {}]
        /\ UNCHANGED <<agentState, lastRun>>
        /\ \/ runAt' = [runAt EXCEPT ![a][k] = "over"] /\ Fated(I, "settled") /\ late' = late
           \/ /\ runAt' = [runAt EXCEPT ![a][k] = "late"] /\ late' = [late EXCEPT ![a][k] = I]
              /\ UNCHANGED instr
    BY <1>5 DEF RunDrains
  <2>2. lastRun[a] \in AgentRuns
    <3>1. ~(k > lastRun[a]) BY <2>1 DEF AgentsInv, RunsInv
    <3>2. lastRun[a] \in 0..MaxAgentRuns BY DEF SubagentsTypeOK
    <3>3. QED BY <3>1, <3>2, SubagentsAssumption DEF AgentRuns
  <2>3. I \in SUBSET Instrs BY <2>2 DEF SubagentsTypeOK
  <2>4. \A b \in Agents, j \in AgentRuns :
          inbox'[b][j] = IF b = a /\ j = lastRun[a] THEN {} ELSE inbox[b][j]
    <3> DEFINE n == lastRun[a]
    <3>1. inbox' = [inbox EXCEPT ![a][n] = {}] /\ n \in AgentRuns BY <2>1, <2>2
    <3>2. {} \in SUBSET Instrs OBVIOUS
    <3> HIDE DEF n
    <3>3. \A b \in Agents, j \in AgentRuns :
            inbox'[b][j] = IF b = a /\ j = n THEN {} ELSE inbox[b][j]
      BY ZenonT(30), <3>1, <3>2, QueueAt
    <3>4. QED BY <3>3 DEF n
  <2>5. \A b \in Agents, j \in AgentRuns :
          ~(b = a /\ j = k) => runAt'[b][j] = runAt[b][j]
    <3>1. "over" \in RunPlaces /\ "late" \in RunPlaces BY DEF RunPlaces
    <3>2. \E q \in RunPlaces : runAt' = [runAt EXCEPT ![a][k] = q] BY <2>1, <3>1
    <3>3. QED BY <1>0, <3>2
  <2>6. LastRunWorks' BY <2>1, <2>5 DEF LastRunWorks
  <2>7. \A i \in Instrs \ I : Queued(i) => Queued(i)'
    <3>1. SUFFICES ASSUME NEW i \in Instrs \ I, Queued(i) PROVE Queued(i)' OBVIOUS
    <3>2. PICK b \in Agents : /\ lastRun[b] \in AgentRuns /\ i \in inbox[b][lastRun[b]]
                              /\ runAt[b][lastRun[b]] \in {"loop", "returned", "wrapup"}
      BY <3>1 DEF Queued
    <3>3. b # a BY <3>1, <3>2
    <3>4. QED BY <2>1, <2>4, <2>5, <3>2, <3>3 DEF Queued
  <2>8. CASE Fated(I, "settled") /\ late' = late
    <3>1. \A i \in Instrs : IF i \in I THEN instr'[i] = "settled" ELSE instr'[i] = instr[i]
      BY <2>8 DEF Fated
    <3>2. \A i \in Instrs : Drained(i) => Drained(i)' BY <2>8 DEF Drained
    <3>3. QED BY <2>6, <2>7, <3>1, <3>2 DEF WaitsOn, IsAwaited
  <2>9. CASE late' = [late EXCEPT ![a][k] = I] /\ UNCHANGED instr
    <3>1. \A b \in Agents, j \in AgentRuns : late'[b][j] = IF b = a /\ j = k THEN I ELSE late[b][j]
      <4>1. late' = [late EXCEPT ![a][k] = I] BY <2>9
      <4> HIDE DEF I
      <4>2. QED BY ZenonT(30), <2>3, <4>1, LateAt
    <3>2. \A i \in I : Drained(i)' BY <3>1 DEF Drained
    <3>3. late[a][k] = {} BY <2>1 DEF LateInv
    <3>4. \A i \in Instrs : Drained(i) => Drained(i)' BY <3>1, <3>3 DEF Drained
    <3>5. QED BY <2>6, <2>7, <2>9, <3>2, <3>4 DEF WaitsOn, IsAwaited
  <2>10. QED BY <2>1, <2>8, <2>9
<1>6. CASE RunRedelivers(a, k)
  <2> DEFINE others == [runAt EXCEPT ![a][k] = "over"]
  <2>1. /\ runAt[a][k] = "late" /\ late' = [late EXCEPT ![a][k] = {}]
    BY <1>6 DEF RunRedelivers
  <2>2. /\ others \in RunMaps
        /\ \A b \in Agents, j \in AgentRuns :
              others[b][j] = IF b = a /\ j = k THEN "over" ELSE runAt[b][j]
    BY <1>0, RunUpdate DEF RunMaps, RunPlaces
  <2>3. \A b \in Agents, j \in AgentRuns : late'[b][j] = IF b = a /\ j = k THEN {} ELSE late[b][j]
    <3>1. late' = [late EXCEPT ![a][k] = {}] /\ {} \in SUBSET Instrs BY <2>1
    <3>2. QED BY <3>1, LateAt
  <2>4. \A i \in Instrs \ late[a][k] : Drained(i) => Drained(i)' BY <2>3 DEF Drained
  <2>5. CASE Deliver(a, late[a][k], others)
    <3>1. /\ late[a][k] \in SUBSET Instrs
          /\ \A b \in Agents, j \in AgentRuns :
                \/ others[b][j] = runAt[b][j]
                \/ runAt[b][j] = "late" /\ others[b][j] = "over"
      BY <1>0, <2>1, <2>2
    <3> HIDE DEF others
    <3>2. /\ LastRunWorks'
          /\ \A i \in late[a][k] : instr'[i] = "queued" => Queued(i)'
          /\ \A i \in Instrs \ late[a][k] : instr'[i] = instr[i]
          /\ \A i \in Instrs : Queued(i) => Queued(i)' \/ QueueReplaced(i)
      BY <2>2, <2>5, <3>1, DeliverAwaits
    <3>3. QED BY <2>4, <3>2 DEF WaitsOn, IsAwaited
  <2>6. CASE DeliverRaises(a) /\ runAt' = others /\ UNCHANGED <<agentState, lastRun, instr, inbox>>
    <3>1. \A i \in late[a][k] : LateRefused(i) BY <2>3, <2>6 DEF LateRefused
    <3>2. \A b \in Agents, j \in AgentRuns :
            runAt[b][j] \in {"loop", "returned", "wrapup"} => runAt'[b][j] = runAt[b][j]
      BY <2>1, <2>2, <2>6
    <3>3. LastRunWorks' BY <2>6, <3>2 DEF LastRunWorks
    <3>4. \A i \in Instrs : Queued(i) => Queued(i)' BY <2>6, <3>2 DEF Queued
    <3>5. QED BY <2>4, <2>6, <3>1, <3>3, <3>4 DEF WaitsOn, IsAwaited
  <2>7. QED BY <1>6, <2>5, <2>6 DEF RunRedelivers
<1>7. QED BY <1>2, <1>3, <1>4, <1>5, <1>6 DEF RunThread

\* An instruction the coordinator was told is queued waits where somebody will look at
\* it, and stops waiting in three ways only: it is read or dropped with a cancelled run
\* ("settled"); deliver raises for it when its run is over, which is suppressed; or
\* another instruction revives the agent first, and its queue is replaced (_run_agent,
\* deliver).  That no instruction is lost, as the comment there says, is refuted by the
\* last two.
THEOREM InstructionsWaitOnTheorem == SubagentsSpec => [][WaitsOn]_subagentVars
<1>1. SubagentsInit => LastRunWorks /\ LateInv
  BY DEF SubagentsInit, ByRun, LastRunWorks, LateInv
<1>2. SubagentsTypeOK /\ AgentsInv /\ LastRunWorks /\ LateInv /\ [SubagentsNext]_subagentVars
        => LastRunWorks' /\ LateInv' /\ [WaitsOn]_subagentVars
  <2> SUFFICES ASSUME SubagentsTypeOK, AgentsInv, LastRunWorks, LateInv,
                      [SubagentsNext]_subagentVars
               PROVE  LastRunWorks' /\ LateInv' /\ [WaitsOn]_subagentVars
    OBVIOUS
  <2>1. CASE UNCHANGED subagentVars
    BY <2>1 DEF subagentVars, runVariables, LastRunWorks, LateInv
  <2>2. CASE SubagentsNext
    BY <2>2, LateStep, CoordinatorWaits, RunThreadWaits DEF SubagentsNext
  <2>3. QED BY <2>1, <2>2
<1>3. QED BY <1>1, <1>2, AgentsAlways, PTL DEF SubagentsSpec

-----------------------------------------------------------------------------
(***************************************************************************)
(* The board: who carries an errand in progress.                           *)
(***************************************************************************)

\* A round that holds one errand, from the choice to what becomes of it.
Taking == {"take", "check", "register", "active", "start", "look", "settle"}

RoundInv ==
    /\ round.at # "idle" => boardRecovered
    /\ round.at \in Taking =>
         \E e \in Errands : round.errands = {e} /\ round.copy[e].status \in Ready
    /\ round.at \in {"active", "start", "look"} => liveErrand \in round.errands \cup {NoErrand}
    /\ round.at = "settle" => round.result # "none"

PostInv == post.at \in {"finish", "save"} => post.errand \in Errands

\* Carried by the turn of the post, by its end, or by a stop.
ByOthers(e) ==
    \/ liveErrand = e
    \/ post.at \in {"finish", "save"} /\ post.errand = e
    \/ desk.at \in {"snap", "list"}
    \/ desk.at = "block" /\ e \in desk.errands

\* Carried by the round, which will write its row.
ByRound(e) ==
    /\ e \in round.errands
    /\ \/ round.at \in {"recover", "check", "register"}
       \/ round.at = "settle" /\ round.result # "started"

CarriedInv ==
    boardRecovered =>
        \A e \in Errands : row[e].status = "in_progress" => ByOthers(e) \/ ByRound(e)

\* A row a thread writes is a row.
LEMMA RowTypes ==
    ASSUME NEW r \in RowType, NEW s \in Ready \cup Closed \cup {"in_progress"},
           NEW w \in {"stopped_by_owner", "other"},
           NEW n \in {"none", "was", "wasReturned", "failure", "budget", "retried"}
    PROVE  /\ [r EXCEPT !.status = s] \in RowType /\ [r EXCEPT !.status = s].status = s
           /\ [r EXCEPT !.status = s, !.why = w] \in RowType
           /\ [r EXCEPT !.status = s, !.note = n] \in RowType
           /\ Blocked(r, w, n) \in RowType /\ Blocked(r, w, n).status = "blocked"
BY ZenonT(30) DEF RowType, Open, Ready, Closed, Blocked

-----------------------------------------------------------------------------
(***************************************************************************)
(* The board: types.                                                       *)
(***************************************************************************)

Rows == [Errands -> RowType]
RoundType == [at : {"idle", "recover", "retry", "retrying", "take", "check", "register",
                    "active", "start", "look", "settle"},
              errands : SUBSET Errands, copy : Rows,
              result : {"none", "busy", "halted", "refused", "budget", "started"}]
DeskType == [at : {"idle", "review", "cancelling", "cancel", "retry", "owner", "snap", "list",
                   "block", "cut", "blocked", "restore"},
             errands : SUBSET Errands, copy : Rows, cuts : BOOLEAN]
PostType == [at : {"idle", "run", "finish", "save", "leaving"},
             errand : Errands \cup {NoErrand}, copy : RowType,
             how : {"completed", "failed", "cancelled"}]

\* A thread that reads rows, or has written one, keeps copies of rows.
LEMMA CopyTypes ==
    ASSUME row \in Rows, NEW c \in Rows, NEW S \in SUBSET Errands, NEW e \in Errands
    PROVE  /\ NoRow \in RowType /\ NoCopies \in Rows
           /\ [x \in Errands |-> IF x \in S THEN row[x] ELSE NoRow] \in Rows
           /\ [c EXCEPT ![e] = NoRow] \in Rows /\ [c EXCEPT ![e] = row[e]] \in Rows
BY DEF Rows, NoRow, RowType, Open, Ready, Closed, NoCopies

\* What the thread of the tick does to its locals.
LEMMA RoundTypes ==
    ASSUME row \in Rows, round \in RoundType, NEW S \in SUBSET Errands, NEW e \in Errands,
           NEW l \in {"idle", "recover", "retry", "retrying", "take", "check", "register",
                      "active", "start", "look", "settle"},
           NEW v \in {"none", "busy", "halted", "refused", "budget", "started"}
    PROVE  /\ IdleRound \in RoundType
           /\ [round EXCEPT !.at = l] \in RoundType
           /\ [round EXCEPT !.at = l, !.result = v] \in RoundType
           /\ Reads(round, l, S) \in RoundType /\ Wrote(round, e) \in RoundType
<1>1. round.copy \in Rows BY DEF RoundType
<1>2. /\ NoCopies \in Rows /\ [round.copy EXCEPT ![e] = NoRow] \in Rows
      /\ [x \in Errands |-> IF x \in S THEN row[x] ELSE NoRow] \in Rows
  BY <1>1, CopyTypes
<1>3. IdleRound \in RoundType BY <1>2 DEF IdleRound, RoundType
<1>4. [round EXCEPT !.at = l] \in RoundType /\ [round EXCEPT !.at = l, !.result = v] \in RoundType
  BY DEF RoundType
<1>5. Reads(round, l, S) \in RoundType BY <1>2 DEF Reads, RoundType
<1>6. Wrote(round, e) \in RoundType
  <2>1. Wrote(round, e)
          = [round EXCEPT !.errands = round.errands \ {e},
                          !.copy = [round.copy EXCEPT ![e] = NoRow]]
    BY DEF Wrote, RoundType
  <2>2. QED BY <1>2, <2>1 DEF RoundType
<1>7. QED BY <1>3, <1>4, <1>5, <1>6

\* What the owner's request thread does to its locals.
LEMMA DeskTypes ==
    ASSUME row \in Rows, desk \in DeskType, NEW S \in SUBSET Errands, NEW e \in Errands,
           NEW l \in {"idle", "review", "cancelling", "cancel", "retry", "owner", "snap", "list",
                      "block", "cut", "blocked", "restore"},
           NEW v \in BOOLEAN
    PROVE  /\ IdleDesk \in DeskType
           /\ [IdleDesk EXCEPT !.at = l] \in DeskType
           /\ [IdleDesk EXCEPT !.at = l, !.cuts = v] \in DeskType
           /\ [desk EXCEPT !.at = l] \in DeskType
           /\ [desk EXCEPT !.at = l, !.cuts = v] \in DeskType
           /\ [desk EXCEPT !.at = l, !.copy[e] = row[e], !.cuts = v] \in DeskType
           /\ Reads(desk, l, S) \in DeskType /\ Wrote(desk, e) \in DeskType
<1>1. desk.copy \in Rows BY DEF DeskType
<1>2. /\ NoCopies \in Rows /\ [desk.copy EXCEPT ![e] = NoRow] \in Rows
      /\ [desk.copy EXCEPT ![e] = row[e]] \in Rows
      /\ [x \in Errands |-> IF x \in S THEN row[x] ELSE NoRow] \in Rows
  BY <1>1, CopyTypes
<1>3. /\ IdleDesk \in DeskType /\ [IdleDesk EXCEPT !.at = l] \in DeskType
      /\ [IdleDesk EXCEPT !.at = l, !.cuts = v] \in DeskType
  BY <1>2 DEF IdleDesk, DeskType
<1>4. /\ [desk EXCEPT !.at = l] \in DeskType /\ [desk EXCEPT !.at = l, !.cuts = v] \in DeskType
  BY DEF DeskType
<1>5. Reads(desk, l, S) \in DeskType BY <1>2 DEF Reads, DeskType
<1>6. Wrote(desk, e) \in DeskType
  <2>1. Wrote(desk, e)
          = [desk EXCEPT !.errands = desk.errands \ {e},
                         !.copy = [desk.copy EXCEPT ![e] = NoRow]]
    BY DEF Wrote, DeskType
  <2>2. QED BY <1>2, <2>1 DEF DeskType
<1>7. [desk EXCEPT !.at = l, !.copy[e] = row[e], !.cuts = v] \in DeskType
  <2>1. [desk EXCEPT !.at = l, !.copy[e] = row[e], !.cuts = v]
          = [desk EXCEPT !.at = l, !.copy = [desk.copy EXCEPT ![e] = row[e]], !.cuts = v]
    BY DEF DeskType
  <2>2. QED BY <1>2, <2>1 DEF DeskType
<1>8. QED BY <1>3, <1>4, <1>5, <1>6, <1>7

Types ==
    /\ row \in Rows /\ round \in RoundType /\ desk \in DeskType /\ post \in PostType
    /\ liveErrand \in Errands \cup {NoErrand} /\ original \in BOOLEAN
    /\ halted \in BOOLEAN /\ boardRecovered \in BOOLEAN /\ ours \in BOOLEAN /\ cut \in BOOLEAN
    /\ boardActs \in 0..MaxBoardActs

\* The types as the board states them.
LEMMA TypesOK == BoardTypeOK <=> Types
BY DEF BoardTypeOK, Types, Rows, RoundType, DeskType, PostType

\* A row that is written with a row.
LEMMA SaveTypes ==
    ASSUME row \in Rows, NEW e \in Errands, NEW r \in RowType, Save(e, r)
    PROVE  row' \in Rows /\ \A f \in Errands : row'[f] = IF f = e THEN r ELSE row[f]
BY DEF Save, Rows

\* The steps of the tick keep the types.
LEMMA TickTypes == Types /\ RoundInv /\ BoardTick => Types'
<1> SUFFICES ASSUME Types, RoundInv, BoardTick PROVE Types' OBVIOUS
<1> USE DEF TickKeeps, memory, turnOfPost
<1>0. row \in Rows /\ round \in RoundType /\ post \in PostType BY DEF Types
<1>1. \A e \in Errands : round.copy[e] \in RowType BY <1>0 DEF RoundType, Rows
<1>2. \A l \in {"idle", "recover", "retry", "retrying", "take", "check", "register",
                "active", "start", "look", "settle"},
         v \in {"none", "busy", "halted", "refused", "budget", "started"} :
        [round EXCEPT !.at = l, !.result = v] \in RoundType /\ [round EXCEPT !.at = l] \in RoundType
  BY ZenonT(30), <1>0 DEF RoundType
<1>3. IdleRound \in RoundType
  BY DEF IdleRound, RoundType, NoCopies, Rows, NoRow, RowType, Open, Ready, Closed
<1>4. ASSUME RecoverErrands PROVE Types'
  <2>1. {e \in Errands : row[e].status = "in_progress"} \in SUBSET Errands OBVIOUS
  <2>2. round' \in RoundType
    <3>1. CASE Errands = {} BY <1>0, <1>4, <3>1 DEF RecoverErrands, Reads, RoundType, Rows
    <3>2. CASE Errands # {} BY <1>0, <1>4, <2>1, <3>2, RoundTypes DEF RecoverErrands
    <3>3. QED BY <3>1, <3>2
  <2>3. QED BY <1>4, <2>2 DEF RecoverErrands, Types
<1>5. ASSUME NEW due \in SUBSET Errands, RetryReads(due) PROVE Types'
  <2>1. round' \in RoundType
    <3>1. CASE Errands = {} BY <1>0, <1>5, <3>1 DEF RetryReads, Reads, RoundType, Rows
    <3>2. CASE Errands # {} BY <1>0, <1>5, <3>2, RoundTypes DEF RetryReads
    <3>3. QED BY <3>1, <3>2
  <2>2. QED BY <1>5, <2>1 DEF RetryReads, Types
<1>6. ASSUME NEW e \in Errands, RecoverSaves(e) PROVE Types'
  <2>1. [round.copy[e] EXCEPT !.status = "pending"] \in RowType BY Zenon, <1>1, RowTypes DEF Ready
  <2>2. row' \in Rows BY <1>0, <1>6, <2>1, SaveTypes DEF RecoverSaves
  <2>3. round' \in RoundType BY <1>0, <1>6, RoundTypes DEF RecoverSaves
  <2>4. QED BY Zenon, <1>6, <2>2, <2>3 DEF RecoverSaves, Types
<1>7. ASSUME NEW e \in Errands, RetrySaves(e) PROVE Types'
  <2>1. PICK n \in {"none", "was", "wasReturned", "failure", "budget", "retried"} :
          row' = [row EXCEPT ![e] = [round.copy[e] EXCEPT !.status = "pending", !.note = n]]
    BY Zenon, <1>7 DEF RetrySaves, Save
  <2>2. [round.copy[e] EXCEPT !.status = "pending", !.note = n] \in RowType
    BY Zenon, <1>1, RowTypes DEF Ready
  <2>3. row' \in Rows BY <1>0, <2>1, <2>2 DEF Rows
  <2>4. round' \in RoundType BY <1>0, <1>7, RoundTypes DEF RetrySaves
  <2>5. QED BY <1>7, <2>3, <2>4 DEF RetrySaves, Types
<1>8. ASSUME NEW e \in Errands, Choose(e) PROVE Types'
  <2>1. round' \in RoundType BY <1>0, <1>8, RoundTypes, {e} \in SUBSET Errands DEF Choose
  <2>2. QED BY <1>8, <2>1 DEF Choose, Types
<1>9. ASSUME NEW e \in Errands, Take(e) PROVE Types'
  <2>1. [round.copy[e] EXCEPT !.status = "in_progress"] \in RowType BY Zenon, <1>1, RowTypes
  <2>2. row' \in Rows
    <3>1. CASE row' = row BY <1>0, <3>1
    <3>2. CASE Save(e, [round.copy[e] EXCEPT !.status = "in_progress"])
      BY <1>0, <2>1, <3>2, SaveTypes
    <3>3. QED BY <1>9, <3>1, <3>2 DEF Take
  <2>3. round' \in RoundType BY <1>2, <1>3, <1>9 DEF Take, TickAt
  <2>4. QED BY Zenon, <1>9, <2>2, <2>3 DEF Take, Types
<1>10. ASSUME NEW e \in Errands, SettleErrand(e) PROVE Types'
  <2>1. \A w \in {"other", "stopped_by_owner"}, n \in {"budget", round.copy[e].note} :
          Blocked(round.copy[e], w, n) \in RowType
    <3>1. round.copy[e].note \in {"none", "was", "wasReturned", "failure", "budget", "retried"}
      BY <1>1 DEF RowType
    <3>2. \A w \in {"other", "stopped_by_owner"},
             n \in {"none", "was", "wasReturned", "failure", "budget", "retried"} :
            Blocked(round.copy[e], w, n) \in RowType
      BY Zenon, <1>1, RowTypes DEF Ready
    <3>3. QED BY <3>1, <3>2
  <2>2. row[e] \in RowType /\ round.copy[e] \in RowType BY <1>0, <1>1 DEF Rows
  <2>3. round.result \in {"started", "busy", "budget", "refused", "halted"}
    BY <1>0, <1>10 DEF RoundInv, RoundType, SettleErrand
  <2>4. PICK r \in RowType : row' = [row EXCEPT ![e] = r]
    BY <1>10, <2>1, <2>2, <2>3 DEF SettleErrand
  <2>5. row' \in Rows BY <1>0, <2>4 DEF Rows
  <2>6. QED BY Zenon, <1>3, <1>10, <2>5 DEF SettleErrand, Types
<1>11. ASSUME NEW e \in Errands, StartRegisters(e) PROVE Types'
  <2>1. round' \in RoundType BY <1>2, <1>11 DEF StartRegisters, Answers, TickAt
  <2>2. QED BY <1>11, <2>1 DEF StartRegisters, Types
<1>12. CASE TickBegin \/ StartLooks
  <2>1. round' \in RoundType BY <1>2, <1>12 DEF TickBegin, StartLooks, Answers, TickAt
  <2>2. QED BY <1>12, <2>1 DEF TickBegin, StartLooks, Types
<1>13. CASE ChooseNone BY <1>3, <1>13 DEF ChooseNone, Types
<1>14. CASE StartAsks \/ \E why \in {"refused", "budget"} : StartRefused(why)
  <2>1. round' \in RoundType BY <1>2, <1>14 DEF StartAsks, StartRefused, Answers, TickAt
  <2>2. QED BY <1>14, <2>1 DEF StartAsks, StartRefused, Unregister, Types
<1>15. CASE StartBegins
  <2>1. round' \in RoundType /\ post' \in PostType
    BY <1>0, <1>2, <1>15 DEF StartBegins, TickAt, PostType
  <2>2. QED BY <1>15, <2>1 DEF StartBegins, Types
<1>16. CASE StartLooksAgain
  <2>1. round' \in RoundType BY <1>2, <1>16 DEF StartLooksAgain, Answers
  <2>2. QED BY <1>16, <2>1 DEF StartLooksAgain, Types
<1>17. QED
  BY <1>4, <1>5, <1>6, <1>7, <1>8, <1>9, <1>10, <1>11, <1>12, <1>13, <1>14, <1>15, <1>16
  DEF BoardTick

\* So do those of the turn in the post, and the owner's.
LEMMA PostTypes == Types /\ PostInv /\ (PostTurn \/ OwnerWritesInPost) => Types'
<1> SUFFICES ASSUME Types, PostInv, PostTurn \/ OwnerWritesInPost PROVE Types' OBVIOUS
<1> USE DEF TurnKeeps, memory
<1>0. row \in Rows /\ post \in PostType /\ post.copy \in RowType BY DEF Types, PostType
<1>1. IdlePost \in PostType /\ [IdlePost EXCEPT !.at = "leaving"] \in PostType
  BY DEF IdlePost, PostType, NoRow, RowType, Open, Ready, Closed
<1>2. CASE OwnerWritesInPost
  <2>1. post' \in PostType BY <1>0, <1>2 DEF OwnerWritesInPost, PostType
  <2>2. boardActs' \in 0..MaxBoardActs
    BY <1>2, BoardAssumption DEF OwnerWritesInPost, Acts, Types
  <2>3. QED BY <1>2, <2>1, <2>2 DEF OwnerWritesInPost, Types
<1>3. ASSUME NEW how \in {"completed", "failed", "cancelled"}, TurnEnds(how) PROVE Types'
  <2>1. post' \in PostType
    BY <1>0, <1>1, <1>3 DEF TurnEnds, Types, PostType
  <2>2. QED BY <1>3, <2>1 DEF TurnEnds, Types
<1>4. CASE FinishReads
  <2>1. CASE post' = [IdlePost EXCEPT !.at = "leaving"]
    BY <1>1, <1>4, <2>1 DEF FinishReads, Types
  <2>2. CASE post' # [IdlePost EXCEPT !.at = "leaving"]
    <3>1. /\ post' = [post EXCEPT !.at = "save", !.copy = row[post.errand]]
          /\ row[post.errand].status \in Ready \cup {"in_progress"}
      BY <1>4, <2>2 DEF FinishReads
    <3>2. row[post.errand] \in RowType BY <1>0, <1>4 DEF FinishReads, PostInv, Rows
    <3>3. post' \in PostType BY Zenon, <1>0, <3>1, <3>2 DEF PostType
    <3>4. QED BY <1>4, <3>3 DEF FinishReads, Types
  <2>3. QED BY <2>1, <2>2
<1>5. CASE FinishSaves
  <2>1. /\ [post.copy EXCEPT !.status = "delivered"] \in RowType
        /\ \A n \in {"failure", "none"} : Blocked(post.copy, "other", n) \in RowType
    BY Zenon, <1>0, RowTypes DEF Closed
  <2>2. PICK r \in RowType : row' = [row EXCEPT ![post.errand] = r]
    BY <1>5, <2>1 DEF FinishSaves, Save
  <2>3. row' \in Rows BY <1>0, <2>2 DEF Rows
  <2>4. QED BY <1>1, <1>5, <2>3 DEF FinishSaves, Types
<1>6. CASE TurnDone BY <1>1, <1>6 DEF TurnDone, Types
<1>7. QED BY <1>2, <1>3, <1>4, <1>5, <1>6 DEF PostTurn

\* The owner's requests, and a restart.
LEMMA OwnerTypes == Types /\ (Desk \/ BoardRestarts) => Types'
<1> SUFFICES ASSUME Types, Desk \/ BoardRestarts PROVE Types' OBVIOUS
<1> USE DEF DeskKeeps, memory
<1>0. row \in Rows /\ desk \in DeskType BY DEF Types
<1>1. \A e \in Errands : desk.copy[e] \in RowType BY <1>0 DEF DeskType, Rows
<1>2. boardActs' \in 0..MaxBoardActs \/ ~Acts BY BoardAssumption DEF Acts, Types
<1>3. IdleDesk \in DeskType /\ NoCopies \in Rows
  BY DEF IdleDesk, DeskType, NoCopies, Rows, NoRow, RowType, Open, Ready, Closed
<1>4. ASSUME NEW S \in SUBSET Errands, NEW l \in {"block", "restore", "review", "cancel", "retry"}
      PROVE  Reads(desk, l, S) \in DeskType
  <2>1. [x \in Errands |-> IF x \in S THEN row[x] ELSE NoRow] \in Rows
    BY <1>0 DEF Rows, NoRow, RowType, Open, Ready, Closed
  <2>2. QED BY <1>0, <2>1 DEF Reads, DeskType
<1>5. CASE Stop
  <2>1. desk' \in DeskType BY <1>0, <1>5 DEF Stop, DeskAt, DeskType
  <2>2. QED BY <1>2, <1>5, <2>1 DEF Stop, Types
<1>6. CASE StopSnaps
  <2>1. desk' \in DeskType BY <1>0, <1>6 DEF StopSnaps, DeskType
  <2>2. QED BY <1>6, <2>1 DEF StopSnaps, Types
<1>7. CASE StopLists
  <2>1. {e \in Errands : row[e].status \in Ready \cup {"in_progress"}} \in SUBSET Errands
    OBVIOUS
  <2>2. desk' \in DeskType BY <1>4, <1>7, <2>1 DEF StopLists, Holds
  <2>3. QED BY <1>7, <2>2 DEF StopLists, Types
<1>8. CASE StopBlocked \/ NotStopped \/ Restored
  <2>1. desk' \in DeskType
    BY <1>0, <1>3, <1>8 DEF StopBlocked, NotStopped, Restored, DeskAt, DeskType
  <2>2. QED BY <1>8, <2>1 DEF StopBlocked, NotStopped, Restored, Types
<1>9. CASE Cuts
  BY <1>3, <1>9 DEF Cuts, Types
<1>10. CASE Resume
  <2>1. desk' \in DeskType BY <1>0, <1>10 DEF Resume, DeskAt, DeskType
  <2>2. boardActs' \in 0..MaxBoardActs BY <1>2, <1>10 DEF Resume, Types
  <2>3. QED BY <1>10, <2>1, <2>2 DEF Resume, Types
<1>11. CASE RestoreLists
  <2>1. {e \in Errands : row[e].status = "blocked"} \in SUBSET Errands OBVIOUS
  <2>2. desk' \in DeskType BY <1>4, <1>11, <2>1 DEF RestoreLists, Holds
  <2>3. QED BY <1>11, <2>2 DEF RestoreLists, Types
<1>12. ASSUME NEW e \in Errands, CreateErrand(e) PROVE Types'
  <2>1. [NoRow EXCEPT !.status = "pending"] \in RowType
    BY DEF NoRow, RowType, Open, Ready, Closed
  <2>2. row' \in Rows BY <1>0, <1>12, <2>1, SaveTypes DEF CreateErrand
  <2>3. QED BY <1>12, <2>2 DEF CreateErrand, Types
<1>13. ASSUME NEW e \in Errands, NEW what \in {"review", "cancel", "retry"}, Looks(what, e)
       PROVE  Types'
  <2>1. desk' \in DeskType BY <1>4, <1>13, {e} \in SUBSET Errands DEF Looks, Holds
  <2>2. QED BY <1>2, <1>13, <2>1 DEF Looks, Types
<1>14. ASSUME NEW e \in Errands, Review(e) \/ Retry(e) PROVE Types'
  <2>1. /\ [desk.copy[e] EXCEPT !.status = "reviewed"] \in RowType
        /\ [desk.copy[e] EXCEPT !.status = "pending"] \in RowType
        /\ [desk.copy[e] EXCEPT !.status = "returned", !.why = "other"] \in RowType
    BY Zenon, <1>1, RowTypes DEF Ready, Closed
  <2>2. row' \in Rows BY <1>0, <1>14, <2>1, SaveTypes DEF Review, Retry
  <2>3. desk' \in DeskType BY <1>3, <1>14 DEF Review, Retry, IdleDesk, DeskType
  <2>4. QED BY Zenon, <1>14, <2>2, <2>3 DEF Review, Retry, Types
<1>15. ASSUME NEW e \in Errands, CancelReads(e) PROVE Types'
  <2>1. (desk.copy[e].status = "in_progress") \in BOOLEAN OBVIOUS
  <2>2. desk' \in DeskType BY <1>0, <1>15, <2>1, DeskTypes DEF CancelReads
  <2>3. QED BY <1>15, <2>2 DEF CancelReads, Types
<1>16. ASSUME NEW e \in Errands, CancelSaves(e) PROVE Types'
  <2>1. [desk.copy[e] EXCEPT !.status = "cancelled"] \in RowType BY Zenon, <1>1, RowTypes DEF Closed
  <2>2. row' \in Rows
    <3>1. CASE row' = row BY <1>0, <3>1
    <3>2. CASE Save(e, [desk.copy[e] EXCEPT !.status = "cancelled"])
      BY <1>0, <2>1, <3>2, SaveTypes
    <3>3. QED BY <1>16, <3>1, <3>2 DEF CancelSaves
  <2>3. desk' \in DeskType BY Zenon, <1>3, <1>16 DEF CancelSaves, IdleDesk, DeskType
  <2>4. QED BY Zenon, <1>16, <2>2, <2>3 DEF CancelSaves, Types
<1>17. ASSUME NEW e \in Errands, StopBlocks(e) PROVE Types'
  <2>1. \A n \in {"was", "wasReturned"} :
          Blocked(desk.copy[e], "stopped_by_owner", n) \in RowType
    BY Zenon, <1>1, RowTypes DEF Ready
  <2>2. row' \in Rows BY <1>0, <1>17, <2>1, SaveTypes DEF StopBlocks
  <2>3. desk' \in DeskType BY <1>0, <1>17, DeskTypes DEF StopBlocks
  <2>4. QED BY <1>17, <2>2, <2>3 DEF StopBlocks, Types
<1>18. ASSUME NEW e \in Errands, Restore(e) PROVE Types'
  <2>1. \A s \in {"returned", "pending"} :
          [status |-> s, why |-> "other", note |-> "none"] \in RowType
    BY DEF RowType, Open, Ready, Closed
  <2>2. row' \in Rows
    <3>1. CASE row' = row BY <1>0, <3>1
    <3>2. CASE row' # row
      <4>1. PICK s \in {"returned", "pending"} :
              Save(e, [status |-> s, why |-> "other", note |-> "none"])
        BY <1>18, <3>2 DEF Restore
      <4>2. QED BY <1>0, <2>1, <4>1, SaveTypes
    <3>3. QED BY <3>1, <3>2
  <2>3. desk' \in DeskType BY <1>0, <1>18, DeskTypes DEF Restore
  <2>4. QED BY <1>18, <2>2, <2>3 DEF Restore, Types
<1>19. CASE BoardRestarts
  <2>1. IdleRound \in RoundType /\ IdlePost \in PostType
    BY <1>3 DEF IdleRound, RoundType, IdlePost, PostType, NoRow, RowType, Open, Ready, Closed
  <2>2. QED BY <1>2, <1>3, <1>19, <2>1 DEF BoardRestarts, Types
<1>20. QED
  BY <1>5, <1>6, <1>7, <1>8, <1>9, <1>10, <1>11, <1>12, <1>13, <1>14, <1>15, <1>16, <1>17,
     <1>18, <1>19
  DEF Desk

-----------------------------------------------------------------------------
(***************************************************************************)
(* The board: what is in progress is carried.                              *)
(***************************************************************************)

\* The locals of the tick after a step, field by field.
LEMMA RoundFields ==
    ASSUME round \in RoundType, NEW l, NEW v, NEW S, NEW e
    PROVE  /\ [round EXCEPT !.at = l].at = l
           /\ [round EXCEPT !.at = l].errands = round.errands
           /\ [round EXCEPT !.at = l].copy = round.copy
           /\ [round EXCEPT !.at = l].result = round.result
           /\ [round EXCEPT !.at = l, !.result = v].at = l
           /\ [round EXCEPT !.at = l, !.result = v].errands = round.errands
           /\ [round EXCEPT !.at = l, !.result = v].copy = round.copy
           /\ [round EXCEPT !.at = l, !.result = v].result = v
           /\ Reads(round, l, S).at = l /\ Reads(round, l, S).errands = S
           /\ Wrote(round, e).at = round.at
           /\ Wrote(round, e).errands = round.errands \ {e}
           /\ IdleRound.at = "idle" /\ IdleRound.errands = {}
BY DEF RoundType, Reads, Wrote, IdleRound

\* The tick keeps a round one errand that is ready, recovers before it starts, and has the
\* board's entry for the post only while it starts.
LEMMA RoundStep == Types /\ RoundInv /\ BoardNext => RoundInv'
<1> SUFFICES ASSUME Types, RoundInv, BoardNext PROVE RoundInv' OBVIOUS
<1> USE DEF memory, turnOfPost
<1>0. round \in RoundType /\ row \in Rows /\ liveErrand \in Errands \cup {NoErrand} BY DEF Types
<1>1. CASE TickBegin \/ ChooseNone
  <2>1. round'.at \in {"idle", "retry"}
    BY <1>0, <1>1 DEF TickBegin, ChooseNone, TickAt, IdleRound, RoundType
  <2>2. round'.at # "idle" => boardRecovered'
    BY <1>0, <1>1, <2>1 DEF TickBegin, ChooseNone, IdleRound, RoundInv
  <2>3. QED BY <2>1, <2>2 DEF RoundInv, Taking
<1>a. ASSUME round.at \in Taking, round'.errands = round.errands, round'.copy = round.copy,
             round'.at \in Taking, boardRecovered' = boardRecovered,
             \/ round'.at \notin {"active", "start", "look"}
             \/ liveErrand' \in round.errands \cup {NoErrand},
             round'.at # "settle" \/ round'.result # "none"
      PROVE  RoundInv'
  <2>1. boardRecovered' BY <1>a DEF RoundInv, Taking
  <2>2. \E e \in Errands : round'.errands = {e} /\ round'.copy[e].status \in Ready
    BY <1>a DEF RoundInv
  <2>3. QED BY <1>a, <2>1, <2>2 DEF RoundInv
<1>2. CASE RecoverErrands
  BY <1>0, <1>2, RoundFields DEF RecoverErrands, RoundInv, Taking
<1>3. ASSUME NEW due \in SUBSET Errands, RetryReads(due) PROVE RoundInv'
  BY <1>0, <1>3, RoundFields DEF RetryReads, RoundInv, Taking
<1>4. ASSUME NEW e \in Errands, RecoverSaves(e) \/ RetrySaves(e) PROVE RoundInv'
  BY <1>0, <1>4, RoundFields DEF RecoverSaves, RetrySaves, RoundInv, Taking
<1>5. ASSUME NEW e \in Errands, Choose(e) PROVE RoundInv'
  <2>1. round'.at = "take" /\ round'.errands = {e} BY <1>0, <1>5, RoundFields DEF Choose
  <2>2. round'.copy[e] = row[e] BY <1>0, <1>5 DEF Choose, Reads, RoundType
  <2>3. boardRecovered' /\ row[e].status \in Ready BY <1>5 DEF Choose, RoundInv
  <2>4. QED BY <2>1, <2>2, <2>3 DEF RoundInv
<1>6. ASSUME NEW e \in Errands, Take(e) PROVE RoundInv'
  <2>1. CASE round' = IdleRound BY <2>1, RoundFields, <1>0 DEF RoundInv, Taking
  <2>2. CASE TickAt("check")
    <3>1. /\ round.at \in Taking /\ round'.errands = round.errands /\ round'.copy = round.copy
          /\ round'.at = "check" /\ "check" \in Taking /\ boardRecovered' = boardRecovered
      BY <1>0, <1>6, <2>2, RoundFields DEF Take, TickAt, Taking
    <3>2. QED BY <1>a, <3>1
  <2>3. QED BY <1>6, <2>1, <2>2 DEF Take
<1>7. ASSUME NEW e \in Errands, StartRegisters(e) PROVE RoundInv'
  <2>1. round.at \in Taking /\ boardRecovered' = boardRecovered
    BY <1>7 DEF StartRegisters, Taking
  <2>2. /\ round'.errands = round.errands /\ round'.copy = round.copy
        /\ \/ round'.at = "settle" /\ round'.result = "busy"
           \/ round'.at = "active" /\ liveErrand' \in round.errands
    BY <1>0, <1>7 DEF StartRegisters, Answers, TickAt, RoundType
  <2>3. QED BY <1>a, <2>1, <2>2 DEF Taking
<1>8. ASSUME NEW e \in Errands, SettleErrand(e) PROVE RoundInv'
  BY <1>0, <1>8, RoundFields DEF SettleErrand, RoundInv, Taking
<1>9. CASE StartLooks
  <2>1. round.at \in Taking /\ boardRecovered' = boardRecovered
    BY <1>9 DEF StartLooks, Taking
  <2>2. /\ round'.errands = round.errands /\ round'.copy = round.copy
        /\ (round'.at = "settle" /\ round'.result = "halted") \/ round'.at = "register"
    BY <1>0, <1>9 DEF StartLooks, Answers, TickAt, RoundType
  <2>3. QED BY <1>a, <2>1, <2>2 DEF Taking
<1>10. CASE StartAsks
  <2>1. round.at \in Taking /\ boardRecovered' = boardRecovered
    BY <1>10 DEF StartAsks, Taking
  <2>2. /\ round'.errands = round.errands /\ round'.copy = round.copy
        /\ \/ round'.at = "settle" /\ round'.result = "busy"
           \/ round'.at = "start" /\ liveErrand' = liveErrand
    BY <1>0, <1>10 DEF StartAsks, Answers, TickAt, RoundType
  <2>3. liveErrand \in round.errands \cup {NoErrand} BY <1>10 DEF StartAsks, RoundInv
  <2>4. QED BY <1>a, <2>1, <2>2, <2>3 DEF Taking
<1>11. CASE StartBegins \/ StartLooksAgain
  <2>1. round.at \in Taking /\ boardRecovered' = boardRecovered
    BY <1>11 DEF StartBegins, StartLooksAgain, Taking
  <2>2. /\ round'.errands = round.errands /\ round'.copy = round.copy
        /\ liveErrand' = liveErrand
        /\ (round'.at = "settle" /\ round'.result = "started") \/ round'.at = "look"
    BY <1>0, <1>11 DEF StartBegins, StartLooksAgain, Answers, TickAt, RoundType
  <2>3. liveErrand \in round.errands \cup {NoErrand}
    BY <1>11 DEF StartBegins, StartLooksAgain, RoundInv
  <2>4. QED BY <1>a, <2>1, <2>2, <2>3 DEF Taking
<1>12. ASSUME NEW why \in {"refused", "budget"}, StartRefused(why) PROVE RoundInv'
  BY <1>0, <1>12, RoundFields DEF StartRefused, Answers, Unregister, RoundInv, Taking
<1>13. CASE PostTurn \/ OwnerWritesInPost
  <2>1. round' = round /\ boardRecovered' = boardRecovered
        /\ (liveErrand' = liveErrand \/ liveErrand' = NoErrand)
    BY <1>13 DEF PostTurn, OwnerWritesInPost, TurnEnds, FinishReads, FinishSaves, TurnDone,
                 TurnKeeps
  <2>2. QED BY <2>1 DEF RoundInv, Taking
<1>14. CASE Desk
  <2>1. round' = round /\ boardRecovered' = boardRecovered /\ liveErrand' = liveErrand
    BY <1>14 DEF Desk, DeskKeeps, Stop, StopSnaps, StopLists, StopBlocked, Cuts, Resume,
                 NotStopped, RestoreLists, Restored, CreateErrand, Review, CancelReads,
                 CancelSaves, Retry, StopBlocks, Restore, Looks
  <2>2. QED BY SMTT(30), <2>1 DEF RoundInv, Taking
<1>15. CASE BoardRestarts BY <1>15 DEF BoardRestarts, IdleRound, RoundInv, Taking
<1>16. QED
  BY <1>1, <1>2, <1>3, <1>4, <1>5, <1>6, <1>7, <1>8, <1>9, <1>10, <1>11, <1>12, <1>13, <1>14,
     <1>15
  DEF BoardNext, BoardTick

\* The end of a turn is that of an errand.
LEMMA PostStep == Types /\ PostInv /\ BoardNext => PostInv'
<1> SUFFICES ASSUME Types, PostInv, BoardNext PROVE PostInv' OBVIOUS
<1> USE DEF memory, turnOfPost
<1>0. post \in PostType /\ liveErrand \in Errands \cup {NoErrand} BY DEF Types
<1>1. CASE PostTurn \/ OwnerWritesInPost
  <2>1. ASSUME NEW how \in {"completed", "failed", "cancelled"}, TurnEnds(how) PROVE PostInv'
    BY <1>0, <2>1 DEF TurnEnds, PostInv, PostType, IdlePost
  <2>2. CASE FinishReads
    <3>1. CASE post' = [IdlePost EXCEPT !.at = "leaving"] BY <3>1 DEF IdlePost, PostInv
    <3>2. CASE post' = [post EXCEPT !.at = "save", !.copy = row[post.errand]]
      <4>1. post'.errand = post.errand BY <1>0, <3>2 DEF PostType
      <4>2. QED BY <2>2, <4>1 DEF FinishReads, PostInv
    <3>3. QED BY <2>2, <3>1, <3>2 DEF FinishReads
  <2>3. CASE FinishSaves \/ TurnDone
    BY <2>3 DEF FinishSaves, TurnDone, PostInv, IdlePost
  <2>4. CASE OwnerWritesInPost BY <1>0, <2>4 DEF OwnerWritesInPost, PostInv, PostType
  <2>5. QED BY <1>1, <2>1, <2>2, <2>3, <2>4 DEF PostTurn
<1>2. CASE StartBegins BY <1>0, <1>2 DEF StartBegins, PostInv, PostType
<1>3. CASE BoardTick /\ ~StartBegins
  <2>1. post' = post
    BY Zenon, <1>3 DEF BoardTick, RecoverErrands, TickBegin, ChooseNone, StartLooks, StartAsks,
                StartLooksAgain, RetryReads, StartRefused, RecoverSaves, RetrySaves, Choose, Take,
                StartRegisters, SettleErrand
  <2>2. QED BY Zenon, <2>1 DEF PostInv
<1>4. CASE Desk
  <2>1. post' = post
    BY <1>4 DEF Desk, DeskKeeps, Stop, StopSnaps, StopLists, StopBlocked, Cuts, Resume,
                NotStopped, RestoreLists, Restored, CreateErrand, Review, CancelReads,
                CancelSaves, Retry, StopBlocks, Restore, Looks
  <2>2. QED BY <2>1 DEF PostInv
<1>5. CASE BoardRestarts BY <1>5 DEF BoardRestarts, IdlePost, PostInv
<1>6. QED BY <1>1, <1>2, <1>3, <1>4, <1>5 DEF BoardNext

\* The owner's request thread leaves the board's memory and the other threads alone.
LEMMA DeskLeaves ==
    Desk => /\ round' = round /\ post' = post /\ liveErrand' = liveErrand /\ ours' = ours
            /\ original' = original /\ boardRecovered' = boardRecovered
BY Zenon
   DEF Desk, DeskKeeps, memory, Stop, StopSnaps, StopLists, StopBlocked, Cuts, Resume, NotStopped,
       RestoreLists, Restored, CreateErrand, Review, CancelReads, CancelSaves, Retry, StopBlocks,
       Restore, Looks

\* The tick leaves the owner's thread alone, and the turn until it begins one.
LEMMA TickLeaves ==
    BoardTick => /\ desk' = desk /\ halted' = halted
                 /\ StartBegins \/ (post' = post /\ ours' = ours)
                 /\ RecoverErrands \/ boardRecovered' = boardRecovered
BY Zenon
   DEF BoardTick, TickKeeps, memory, turnOfPost, RecoverErrands, TickBegin, ChooseNone, StartLooks,
       StartAsks, StartBegins, StartLooksAgain, RetryReads, StartRefused, RecoverSaves, RetrySaves,
       Choose, Take, StartRegisters, SettleErrand

\* What the owner's thread writes is not in progress; what a stop has seen in progress, or
\* may yet see, it carries until it has blocked it.
LEMMA DeskCarries ==
    ASSUME Types, Desk, NEW e \in Errands, row'[e].status = "in_progress"
    PROVE  /\ row[e].status = "in_progress"
           /\ desk.at \in {"snap", "list"} \/ (desk.at = "block" /\ e \in desk.errands) =>
                desk'.at \in {"snap", "list"} \/ (desk'.at = "block" /\ e \in desk'.errands)
<1>0. row \in Rows /\ desk \in DeskType BY DEF Types
<1>1. \A f \in Errands : desk.copy[f] \in RowType BY <1>0 DEF DeskType, Rows
<1>3. CASE StopSnaps BY <1>0, <1>3 DEF StopSnaps, DeskType
<1>4. CASE StopLists
  <2>1. row' = row /\ e \in {f \in Errands : row[f].status \in Ready \cup {"in_progress"}}
    BY <1>4 DEF StopLists
  <2>2. /\ desk'.at = "block"
        /\ desk'.errands = {f \in Errands : row[f].status \in Ready \cup {"in_progress"}}
    BY <1>0, <1>4 DEF StopLists, Holds, Reads, DeskType
  <2>3. QED BY <2>1, <2>2
<1>5. CASE StopBlocked BY <1>5 DEF StopBlocked
<1>6. ASSUME NEW f \in Errands, StopBlocks(f)
      PROVE  row[e].status = "in_progress" /\ desk'.at = "block"
             /\ (e \in desk.errands => e \in desk'.errands)
  <2>1. desk'.at = "block" /\ desk'.errands = desk.errands \ {f}
    BY <1>0, <1>6 DEF StopBlocks, Wrote, DeskType
  <2>2. PICK n \in {"was", "wasReturned"} :
          row' = [row EXCEPT ![f] = Blocked(desk.copy[f], "stopped_by_owner", n)]
    BY <1>6 DEF StopBlocks, Save
  <2>3. Blocked(desk.copy[f], "stopped_by_owner", n).status = "blocked"
    BY <1>1 DEF Blocked, RowType
  <2>4. e # f /\ row'[e] = row[e] BY <1>0, <2>2, <2>3 DEF Rows
  <2>5. QED BY <2>1, <2>4
<1>7. ASSUME NEW f \in Errands, CreateErrand(f) \/ Review(f) \/ CancelSaves(f) \/ Retry(f)
      PROVE  row[e].status = "in_progress" /\ desk.at \notin {"snap", "list", "block"}
  <2>1. desk.at \notin {"snap", "list", "block"}
    BY <1>7 DEF CreateErrand, Review, CancelSaves, Retry
  <2>2. \A s \in {"reviewed", "cancelled", "pending", "returned"} :
          /\ [desk.copy[f] EXCEPT !.status = s].status = s
          /\ [desk.copy[f] EXCEPT !.status = s, !.why = "other"].status = s
          /\ [NoRow EXCEPT !.status = s].status = s
    BY <1>1 DEF RowType, NoRow
  <2>3. \/ row' = row
        \/ \E r : row' = [row EXCEPT ![f] = r] /\ r.status # "in_progress"
    BY <1>7, <2>2 DEF CreateErrand, Review, CancelSaves, Retry, Save
  <2>4. QED BY <1>0, <2>1, <2>3 DEF Rows
<1>8. ASSUME NEW f \in Errands, Restore(f)
      PROVE  row[e].status = "in_progress" /\ desk.at \notin {"snap", "list", "block"}
  <2>1. \/ row' = row
        \/ \E s \in {"returned", "pending"} :
             row' = [row EXCEPT ![f] = [status |-> s, why |-> "other", note |-> "none"]]
    BY <1>8 DEF Restore, Save
  <2>2. QED BY <1>0, <1>8, <2>1 DEF Restore, Rows
<1>9. CASE Stop \/ Cuts \/ Resume \/ NotStopped \/ RestoreLists \/ Restored
  <2>1. row' = row BY <1>9 DEF Stop, Cuts, Resume, NotStopped, RestoreLists, Restored
  <2>2. desk.at \notin {"snap", "list", "block"}
    BY <1>9 DEF Stop, Cuts, Resume, NotStopped, RestoreLists, Restored
  <2>3. QED BY <2>1, <2>2
<1>10. ASSUME NEW f \in Errands,
              CancelReads(f) \/ \E what \in {"review", "cancel", "retry"} : Looks(what, f)
       PROVE  row' = row /\ desk.at \notin {"snap", "list", "block"}
  BY <1>10 DEF CancelReads, Looks
<1>11. CASE \E f \in Errands : StopBlocks(f)
  <2>1. desk.at = "block" BY <1>11 DEF StopBlocks
  <2>2. QED BY <1>6, <1>11, <2>1
<1>12. CASE \E f \in Errands : CreateErrand(f) \/ Review(f) \/ CancelSaves(f) \/ Retry(f)
  BY <1>7, <1>12
<1>13. CASE \E f \in Errands : \/ Restore(f) \/ CancelReads(f)
                               \/ \E what \in {"review", "cancel", "retry"} : Looks(what, f)
  BY <1>8, <1>10, <1>13
<1>14. QED BY <1>3, <1>4, <1>5, <1>9, <1>11, <1>12, <1>13 DEF Desk

\* What is in progress stays in somebody's hands.
LEMMA CarriedStep == Types /\ RoundInv /\ PostInv /\ CarriedInv /\ BoardNext => CarriedInv'
<1> SUFFICES ASSUME Types, RoundInv, PostInv, CarriedInv, BoardNext, boardRecovered',
                    NEW e \in Errands, row'[e].status = "in_progress"
             PROVE  (ByOthers(e) \/ ByRound(e))'
  BY DEF CarriedInv
<1> USE DEF memory, turnOfPost
<1>0. /\ round \in RoundType /\ row \in Rows /\ liveErrand \in Errands \cup {NoErrand}
      /\ desk \in DeskType /\ post \in PostType
  BY DEF Types
<1>1. \A f \in Errands : round.copy[f] \in RowType BY <1>0 DEF RoundType, Rows
<1>2. CASE RecoverErrands
  <2>1. e \in {f \in Errands : row[f].status = "in_progress"} BY <1>2 DEF RecoverErrands
  <2>2. QED BY <1>0, <1>2, <2>1, RoundFields DEF RecoverErrands, ByRound
<1>3. ~BoardRestarts BY DEF BoardRestarts
<1>4. CASE ~RecoverErrands
  <2>0. boardRecovered
    BY <1>3, <1>4, DeskLeaves, TickLeaves
    DEF BoardNext, PostTurn, OwnerWritesInPost, TurnEnds, FinishReads, FinishSaves, TurnDone,
        TurnKeeps
  <2>1. row[e].status = "in_progress" => ByOthers(e) \/ ByRound(e) BY <2>0 DEF CarriedInv
  <2>2. CASE Desk
    <3>1. row[e].status = "in_progress" BY <2>2, DeskCarries
    <3>2. desk.at \in {"snap", "list"} \/ (desk.at = "block" /\ e \in desk.errands) =>
            desk'.at \in {"snap", "list"} \/ (desk'.at = "block" /\ e \in desk'.errands)
      BY <2>2, DeskCarries
    <3>3. QED BY <2>1, <2>2, <3>1, <3>2, DeskLeaves DEF ByOthers, ByRound
  <2>3. CASE OwnerWritesInPost
    BY <1>0, <2>1, <2>3 DEF OwnerWritesInPost, ByOthers, ByRound
  <2>4. ASSUME NEW how \in {"completed", "failed", "cancelled"}, TurnEnds(how)
        PROVE  (ByOthers(e) \/ ByRound(e))'
    <3>1. row' = row /\ desk' = desk /\ round' = round /\ post.at = "run"
      BY <2>4 DEF TurnEnds, TurnKeeps
    <3>2. liveErrand = e => post'.at = "finish" /\ post'.errand = e
      BY <1>0, <2>4, BoardAssumption DEF TurnEnds, PostType
    <3>3. QED BY <2>1, <3>1, <3>2 DEF ByOthers, ByRound
  <2>5. CASE FinishReads
    <3>1. row' = row /\ desk' = desk /\ round' = round /\ liveErrand' = liveErrand
          /\ post.at = "finish"
      BY <2>5 DEF FinishReads, TurnKeeps
    <3>2. post.errand = e => post'.at = "save" /\ post'.errand = e
      BY <1>0, <2>5, <3>1 DEF FinishReads, PostType
    <3>3. QED BY <2>1, <3>1, <3>2 DEF ByOthers, ByRound
  <2>6. CASE FinishSaves
    <3>1. desk' = desk /\ round' = round /\ liveErrand' = liveErrand
      BY <2>6 DEF FinishSaves, TurnKeeps
    <3>2. PICK r : row' = [row EXCEPT ![post.errand] = r] /\ r.status # "in_progress"
      <4>1. /\ [post.copy EXCEPT !.status = "delivered"].status = "delivered"
            /\ \A n : Blocked(post.copy, "other", n).status = "blocked"
        BY <1>0 DEF PostType, RowType, Blocked
      <4>2. QED BY <2>6, <4>1 DEF FinishSaves, Save
    <3>3. e # post.errand /\ row'[e] = row[e] BY <1>0, <3>2 DEF Rows
    <3>4. QED BY <2>1, <3>1, <3>3 DEF ByOthers, ByRound
  <2>7. CASE TurnDone
    BY <1>0, <2>1, <2>7 DEF TurnDone, TurnKeeps, ByOthers, ByRound
  <2>8. CASE BoardTick
    <3>0. desk' = desk BY <2>8, TickLeaves
    <3>a. ASSUME post' = post, liveErrand' = liveErrand PROVE ByOthers(e) => ByOthers(e)'
      BY <3>0, <3>a DEF ByOthers
    <3>1. CASE TickBegin
      <4>1. ~ByRound(e) BY <3>1 DEF TickBegin, ByRound
      <4>2. QED BY <2>1, <3>1, <3>a, <4>1 DEF TickBegin
    <3>2. CASE ChooseNone
      <4>1. ~ByRound(e) BY <3>2 DEF ChooseNone, ByRound
      <4>2. QED BY <2>1, <3>2, <3>a, <4>1 DEF ChooseNone
    <3>3. CASE (\E due \in SUBSET Errands : RetryReads(due)) \/ \E f \in Errands : Choose(f)
      <4>1. ~ByRound(e) BY <3>3 DEF RetryReads, Choose, ByRound
      <4>2. QED BY <2>1, <3>3, <3>a, <4>1 DEF RetryReads, Choose
    <3>4. ASSUME NEW f \in Errands, RecoverSaves(f) \/ RetrySaves(f)
          PROVE  (ByOthers(e) \/ ByRound(e))'
      <4>1. PICK r : row' = [row EXCEPT ![f] = r] /\ r.status # "in_progress"
        <5>1. \A n : /\ [round.copy[f] EXCEPT !.status = "pending"].status = "pending"
                     /\ [round.copy[f] EXCEPT !.status = "pending", !.note = n].status = "pending"
          BY <1>1 DEF RowType
        <5>2. QED BY <3>4, <5>1 DEF RecoverSaves, RetrySaves, Save
      <4>2. e # f /\ row'[e] = row[e] BY <1>0, <4>1 DEF Rows
      <4>3. ByRound(e) => ByRound(e)'
        <5>1. /\ round'.at = round.at /\ round'.errands = round.errands \ {f}
              /\ round.at \in {"recover", "retrying"}
          BY <1>0, <3>4 DEF RecoverSaves, RetrySaves, Wrote, RoundType
        <5>2. QED BY <4>2, <5>1 DEF ByRound
      <4>4. QED BY <2>1, <3>4, <3>a, <4>2, <4>3 DEF RecoverSaves, RetrySaves
    <3>5. ASSUME NEW f \in Errands, Take(f) PROVE (ByOthers(e) \/ ByRound(e))'
      <4>1. ~ByRound(e) BY <3>5 DEF Take, ByRound
      <4>2. CASE row'[e] = row[e] BY <2>1, <3>5, <3>a, <4>1, <4>2 DEF Take
      <4>3. CASE row'[e] # row[e]
        <5>1. TickAt("check") /\ e = f BY <1>0, <3>5, <4>3 DEF Take, Save, Rows
        <5>2. QED BY <1>0, <3>5, <5>1, RoundFields DEF Take, TickAt, ByRound
      <4>4. QED BY <4>2, <4>3
    <3>6. CASE StartLooks
      <4>1. ByRound(e) => ByRound(e)'
        BY <1>0, <3>6 DEF StartLooks, Answers, TickAt, ByRound, RoundType
      <4>2. QED BY <2>1, <3>6, <3>a, <4>1 DEF StartLooks
    <3>7. ASSUME NEW f \in Errands, StartRegisters(f) PROVE (ByOthers(e) \/ ByRound(e))'
      <4>1. CASE liveErrand # NoErrand
        <5>1. ByRound(e) => ByRound(e)'
          BY <1>0, <3>7, <4>1 DEF StartRegisters, Answers, ByRound, RoundType
        <5>2. QED BY <2>1, <3>7, <3>a, <4>1, <5>1 DEF StartRegisters
      <4>2. CASE liveErrand = NoErrand
        <5>1. e \in round.errands => e = f BY <3>7 DEF StartRegisters, RoundInv, Taking
        <5>2. ByRound(e) => liveErrand' = e BY <3>7, <4>2, <5>1 DEF StartRegisters, ByRound
        <5>3. liveErrand # e BY <4>2, BoardAssumption
        <5>4. QED BY <2>1, <3>0, <3>7, <5>2, <5>3 DEF StartRegisters, ByOthers
      <4>3. QED BY <4>1, <4>2
    <3>8. CASE StartAsks \/ \E why \in {"refused", "budget"} : StartRefused(why)
      <4>1. ~ByRound(e) /\ row' = row /\ post' = post
        BY <3>8 DEF StartAsks, StartRefused, ByRound
      <4>2. CASE liveErrand' = liveErrand BY <2>1, <3>a, <4>1, <4>2
      <4>3. CASE liveErrand' # liveErrand
        <5>1. round'.at = "settle" /\ round'.errands = round.errands /\ round'.result # "started"
          BY <1>0, <3>8, <4>3 DEF StartAsks, StartRefused, Answers, RoundType
        <5>2. liveErrand = e => ByRound(e)'
          BY <3>8, <5>1, BoardAssumption DEF StartAsks, StartRefused, RoundInv, ByRound
        <5>3. QED BY <2>1, <3>0, <4>1, <5>2 DEF ByOthers
      <4>4. QED BY <4>2, <4>3
    <3>9. CASE StartBegins
      <4>1. ~ByRound(e) /\ row' = row BY <3>9 DEF StartBegins, ByRound
      <4>2. QED BY <2>1, <3>0, <3>9, <4>1 DEF StartBegins, ByOthers
    <3>10. CASE StartLooksAgain
      <4>1. ~ByRound(e) /\ row' = row BY <3>10 DEF StartLooksAgain, ByRound
      <4>2. QED BY <2>1, <3>10, <3>a, <4>1 DEF StartLooksAgain
    <3>11. ASSUME NEW f \in Errands, SettleErrand(f) PROVE (ByOthers(e) \/ ByRound(e))'
      <4>1. round.errands = {f} /\ round.copy[f].status \in Ready
        BY <3>11 DEF SettleErrand, RoundInv, Taking
      <4>2. CASE round.result = "started"
        <5>1. ~ByRound(e) /\ row'[e] = row[e] BY <1>0, <3>11, <4>2 DEF SettleErrand, ByRound, Rows
        <5>2. QED BY <2>1, <3>11, <3>a, <5>1 DEF SettleErrand
      <4>3. CASE round.result # "started"
        <5>1. PICK r : row' = [row EXCEPT ![f] = r] /\ r.status # "in_progress"
          <6>1. \A w, n : Blocked(round.copy[f], w, n).status = "blocked"
            BY <1>1 DEF Blocked, RowType
          <6>2. round.result \in {"busy", "budget", "refused", "halted"}
            BY <1>0, <3>11, <4>3 DEF RoundInv, RoundType, SettleErrand
          <6>3. QED BY <3>11, <4>1, <6>1, <6>2 DEF SettleErrand, Ready
        <5>2. e # f /\ row'[e] = row[e] BY <1>0, <5>1 DEF Rows
        <5>3. ~ByRound(e) BY <4>1, <5>2 DEF ByRound
        <5>4. QED BY <2>1, <3>11, <3>a, <5>2, <5>3 DEF SettleErrand
      <4>4. QED BY <4>2, <4>3
    <3>12. QED
      BY <1>4, <2>8, <3>1, <3>2, <3>3, <3>4, <3>5, <3>6, <3>7, <3>8, <3>9, <3>10, <3>11
      DEF BoardTick
  <2>9. QED BY <1>3, <2>2, <2>3, <2>4, <2>5, <2>6, <2>7, <2>8 DEF BoardNext, PostTurn
<1>5. QED BY <1>2, <1>4

-----------------------------------------------------------------------------
(***************************************************************************)
(* The board: a stopped team runs nothing.                                 *)
(***************************************************************************)

\* The turn of an errand runs; none does while another is being started; the thread that
\* stops the team finds it stopped until it is done; and whoever the stop did not note is
\* cut by the thread that started it.
StopInv ==
    /\ ours => post.at # "idle"
    /\ ours /\ liveErrand # NoErrand => post.at = "run"
    /\ round.at \in {"check", "register", "active", "start"} => ~ours
    /\ desk.at \in {"snap", "list", "block"} => halted
    /\ desk.at = "cut" /\ ~desk.cuts => halted
    /\ halted /\ desk.at # "snap" /\ ~(desk.at \in {"list", "block", "cut"} /\ desk.cuts) =>
         ~ours \/ liveErrand = NoErrand \/ cut \/ round.at = "look"

\* The steps of the tick keep it.
LEMMA StopTick == Types /\ RoundInv /\ StopInv /\ BoardTick => StopInv'
<1> SUFFICES ASSUME Types, RoundInv, StopInv, BoardTick PROVE StopInv' OBVIOUS
<1> USE DEF memory, turnOfPost
<1>0. round \in RoundType /\ post \in PostType BY DEF Types
<1>1. desk' = desk /\ halted' = halted BY TickLeaves
<1>2. CASE StartBegins
  <2>1. post'.at = "run" /\ round'.at = "look"
    BY <1>0, <1>2 DEF StartBegins, TickAt, RoundType, PostType
  <2>2. QED BY <1>1, <2>1 DEF StopInv
<1>3. CASE StartLooksAgain
  <2>1. round'.at = "settle" /\ post' = post /\ ours' = ours /\ liveErrand' = liveErrand
        /\ cut' = (cut \/ (halted /\ ours))
    BY <1>0, <1>3 DEF StartLooksAgain, Answers, RoundType
  <2>2. QED BY <1>1, <2>1 DEF StopInv
<1>4. ASSUME NEW e \in Errands, Take(e) PROVE StopInv'
  <2>1. /\ post' = post /\ ours' = ours /\ liveErrand' = liveErrand /\ cut' = cut
        /\ round.at = "take"
        /\ \/ round'.at = "idle"
           \/ round'.at = "check" /\ post.at = "idle"
    BY <1>0, <1>4 DEF Take, TickAt, IdleRound, RoundType, PostBusy
  <2>2. QED BY <1>1, <2>1 DEF StopInv
<1>5. ASSUME NEW e \in Errands, StartRegisters(e) PROVE StopInv'
  <2>1. /\ post' = post /\ ours' = ours /\ cut' = cut /\ round.at = "register"
        /\ (liveErrand' = liveErrand \/ ~ours)
        /\ (round'.at = "settle" \/ round'.at = "active")
    BY <1>0, <1>5 DEF StartRegisters, Answers, TickAt, RoundType, StopInv
  <2>2. QED BY <1>1, <2>1 DEF StopInv
<1>6. CASE \/ StartLooks \/ StartAsks \/ \E why \in {"refused", "budget"} : StartRefused(why)
  <2>1. /\ post' = post /\ ours' = ours /\ cut' = cut
        /\ round.at \in {"check", "active", "start"}
        /\ (liveErrand' = liveErrand \/ liveErrand' = NoErrand)
        /\ round'.at \in {"register", "start", "settle"}
    BY <1>0, <1>6 DEF StartLooks, StartAsks, StartRefused, Unregister, Answers, TickAt, RoundType
  <2>2. QED BY <1>1, <2>1 DEF StopInv
<1>7. CASE \/ RecoverErrands \/ TickBegin \/ ChooseNone
           \/ \E due \in SUBSET Errands : RetryReads(due)
           \/ \E e \in Errands : RecoverSaves(e) \/ RetrySaves(e) \/ Choose(e) \/ SettleErrand(e)
  <2>1. /\ post' = post /\ ours' = ours /\ cut' = cut /\ liveErrand' = liveErrand
        /\ round.at # "look"
    BY Zenon, <1>7 DEF RecoverErrands, TickBegin, ChooseNone, RetryReads, RecoverSaves, RetrySaves,
                Choose, SettleErrand
  <2>2. round'.at \in {"idle", "recover", "retry", "retrying", "take"}
    <3>1. CASE RecoverErrands \/ TickBegin
      BY <1>0, <3>1 DEF RecoverErrands, TickBegin, TickAt, Reads, RoundType
    <3>2. CASE \E due \in SUBSET Errands : RetryReads(due)
      BY <1>0, <3>2 DEF RetryReads, Reads, RoundType
    <3>3. CASE \E e \in Errands : RecoverSaves(e) \/ RetrySaves(e)
      BY <1>0, <3>3 DEF RecoverSaves, RetrySaves, Wrote, RoundType
    <3>4. CASE \E e \in Errands : Choose(e) BY <1>0, <3>4 DEF Choose, Reads, RoundType
    <3>5. CASE ChooseNone \/ \E e \in Errands : SettleErrand(e)
      BY <3>5 DEF ChooseNone, SettleErrand, IdleRound
    <3>6. QED BY <1>7, <3>1, <3>2, <3>3, <3>4, <3>5
  <2>3. QED BY <1>1, <2>1, <2>2 DEF StopInv
<1>8. QED BY <1>2, <1>3, <1>4, <1>5, <1>6, <1>7 DEF BoardTick

\* The other steps keep it.
LEMMA StopOthers ==
    Types /\ StopInv /\ (PostTurn \/ OwnerWritesInPost \/ Desk \/ BoardRestarts) => StopInv'
<1> SUFFICES ASSUME Types, StopInv, PostTurn \/ OwnerWritesInPost \/ Desk \/ BoardRestarts
             PROVE  StopInv'
  OBVIOUS
<1> USE DEF memory
<1>0. post \in PostType /\ desk \in DeskType BY DEF Types
<1>1. CASE PostTurn \/ OwnerWritesInPost
  <2>1. halted' = halted /\ desk' = desk /\ round' = round
    BY <1>1 DEF PostTurn, OwnerWritesInPost, TurnEnds, FinishReads, FinishSaves, TurnDone, TurnKeeps
  <2>2. ASSUME NEW how \in {"completed", "failed", "cancelled"}, TurnEnds(how) PROVE StopInv'
    <3>1. /\ post'.at \in {"leaving", "finish"} /\ liveErrand' = NoErrand /\ ours' = ours
          /\ cut' = cut
      BY <1>0, <2>2 DEF TurnEnds, IdlePost, PostType
    <3>2. QED BY <2>1, <3>1 DEF StopInv
  <2>3. CASE FinishReads \/ FinishSaves
    <3>1. /\ post'.at \in {"leaving", "save"} /\ liveErrand' = liveErrand /\ ours' = ours
          /\ cut' = cut /\ post.at # "run"
      BY <1>0, <2>3 DEF FinishReads, FinishSaves, IdlePost, PostType
    <3>2. QED BY <2>1, <3>1 DEF StopInv
  <2>4. CASE TurnDone BY <2>1, <2>4 DEF TurnDone, StopInv
  <2>5. CASE OwnerWritesInPost
    <3>1. /\ post'.at = "run" /\ liveErrand' = liveErrand /\ ours' = ours /\ cut' = cut
      BY <1>0, <2>5 DEF OwnerWritesInPost, PostType
    <3>2. QED BY <2>1, <3>1 DEF StopInv
  <2>6. QED BY <1>1, <2>2, <2>3, <2>4, <2>5 DEF PostTurn
<1>2. CASE Desk
  <2>0. round' = round /\ post' = post /\ liveErrand' = liveErrand /\ ours' = ours
    BY <1>2, DeskLeaves
  <2>1. CASE Stop \/ StopSnaps
    <3>1. /\ halted' /\ cut' = cut
          /\ \/ desk'.at = "snap"
             \/ desk'.at = "list" /\ (desk'.cuts \/ liveErrand = NoErrand)
      BY <1>0, <2>1 DEF Stop, StopSnaps, DeskAt, DeskType, StopInv
    <3>2. QED BY <2>0, <3>1 DEF StopInv
  <2>2. CASE StopLists \/ StopBlocked \/ \E e \in Errands : StopBlocks(e)
    <3>1. /\ halted' = halted /\ cut' = cut /\ desk.at \in {"list", "block"}
          /\ desk'.at \in {"block", "cut"} /\ desk'.cuts = desk.cuts
      BY <1>0, <2>2 DEF StopLists, StopBlocked, StopBlocks, Holds, Reads, Wrote, DeskAt, DeskType
    <3>2. QED BY <2>0, <3>1 DEF StopInv
  <2>3. CASE Cuts
    <3>1. /\ halted' = halted /\ desk.at = "cut" /\ desk'.at = "idle"
          /\ cut' = (cut \/ (desk.cuts /\ post.at \in {"run", "finish", "save"}))
      BY <2>3 DEF Cuts, IdleDesk
    <3>2. QED BY <2>0, <3>1 DEF StopInv
  <2>4. CASE Resume
    <3>1. ~halted' /\ cut' = cut /\ desk'.at = "blocked"
      BY <1>0, <2>4 DEF Resume, DeskAt, DeskType
    <3>2. QED BY <2>0, <3>1 DEF StopInv
  <2>5. CASE \/ NotStopped \/ RestoreLists \/ Restored
             \/ \E e \in Errands :
                   \/ CreateErrand(e) \/ Review(e) \/ CancelReads(e) \/ Retry(e) \/ Restore(e)
                   \/ \E what \in {"review", "cancel", "retry"} : Looks(what, e)
    <3>1. halted' = halted /\ cut' = cut /\ desk.at \notin {"snap", "list", "block", "cut"}
      BY <2>5 DEF NotStopped, RestoreLists, Restored, CreateErrand, Review, CancelReads, Retry,
                  Restore, Looks
    <3>2. desk'.at \notin {"snap", "list", "block", "cut"}
      <4>1. CASE \/ NotStopped \/ Restored
                 \/ \E e \in Errands : CreateErrand(e) \/ Review(e) \/ Retry(e)
        <5>1. desk' \in {desk, IdleDesk, [IdleDesk EXCEPT !.at = "owner"]}
          BY <4>1 DEF NotStopped, Restored, CreateErrand, Review, Retry
        <5>2. QED BY <3>1, <5>1 DEF IdleDesk
      <4>2. CASE RestoreLists BY <1>0, <4>2 DEF RestoreLists, Holds, Reads, DeskType
      <4>3. CASE \E e \in Errands : CancelReads(e) BY <1>0, <4>3 DEF CancelReads, DeskType
      <4>4. CASE \E e \in Errands : Restore(e)
        BY <1>0, <4>4 DEF Restore, Wrote, DeskType
      <4>5. CASE \E e \in Errands, what \in {"review", "cancel", "retry"} : Looks(what, e)
        BY <1>0, <4>5 DEF Looks, Holds, Reads, DeskType
      <4>6. QED BY <2>5, <4>1, <4>2, <4>3, <4>4, <4>5
    <3>3. QED BY <2>0, <3>1, <3>2 DEF StopInv
  <2>6. ASSUME NEW e \in Errands, CancelSaves(e) PROVE StopInv'
    <3>1. /\ halted' = halted /\ cut' = cut /\ desk.at = "cancelling"
          /\ (desk'.at = "cut" /\ desk'.cuts) \/ desk'.at = "idle"
      BY <2>6 DEF CancelSaves, IdleDesk
    <3>2. QED BY <2>0, <3>1 DEF StopInv
  <2>7. QED BY <1>2, <2>1, <2>2, <2>3, <2>4, <2>5, <2>6 DEF Desk
<1>3. CASE BoardRestarts BY <1>3 DEF BoardRestarts, IdlePost, IdleDesk, IdleRound, StopInv
<1>4. QED BY <1>1, <1>2, <1>3

\* The inductive invariant of the board.
BoardInv == Types /\ RoundInv /\ PostInv /\ CarriedInv /\ StopInv

\* A step of the board, or none, keeps it.
LEMMA BoardStep == BoardInv /\ [BoardNext]_boardVars => BoardInv'
<1> SUFFICES ASSUME BoardInv, [BoardNext]_boardVars PROVE BoardInv' OBVIOUS
<1>1. Types /\ RoundInv /\ PostInv /\ CarriedInv /\ StopInv BY DEF BoardInv
<1>2. CASE BoardNext
  <2>1. Types' BY <1>1, <1>2, TickTypes, PostTypes, OwnerTypes DEF BoardNext
  <2>2. RoundInv' BY <1>1, <1>2, RoundStep
  <2>3. PostInv' BY <1>1, <1>2, PostStep
  <2>4. CarriedInv' BY <1>1, <1>2, CarriedStep
  <2>5. StopInv' BY <1>1, <1>2, StopTick, StopOthers DEF BoardNext
  <2>6. QED BY <2>1, <2>2, <2>3, <2>4, <2>5 DEF BoardInv
<1>3. CASE UNCHANGED boardVars
  BY <1>1, <1>3
  DEF boardVars, BoardInv, Types, RoundInv, PostInv, CarriedInv, ByOthers, ByRound, StopInv
<1>4. QED BY <1>2, <1>3

\* It holds at the start.
LEMMA BoardStart == BoardInit => BoardInv
<1> SUFFICES ASSUME BoardInit PROVE BoardInv OBVIOUS
<1>1. NoRow \in RowType /\ NoCopies \in Rows
  BY DEF NoRow, RowType, NoCopies, Rows, Open, Ready, Closed
<1>2. IdleRound \in RoundType /\ IdleDesk \in DeskType /\ IdlePost \in PostType
  BY <1>1 DEF IdleRound, RoundType, IdleDesk, DeskType, IdlePost, PostType
<1>3. Types
  <2>1. row \in Rows BY <1>1 DEF BoardInit, NoCopies
  <2>2. boardActs \in 0..MaxBoardActs BY BoardAssumption DEF BoardInit
  <2>3. QED BY <1>2, <2>1, <2>2 DEF BoardInit, Types
<1>4. RoundInv /\ PostInv /\ StopInv
  BY DEF BoardInit, RoundInv, PostInv, StopInv, Taking, IdleRound, IdleDesk, IdlePost
<1>5. CarriedInv BY DEF BoardInit, CarriedInv, NoRow
<1>6. QED BY <1>3, <1>4, <1>5 DEF BoardInv

\* An errand in progress is in somebody's hands: the turn of the post or its end
\* (_finish_errand), the tick (_start_errand), or a stop that will block it (_halt_teams).
THEOREM ErrandsInProgressAreCarriedTheorem == BoardSpec => []ErrandsInProgressAreCarried
<1>1. BoardInv => ErrandsInProgressAreCarried
  BY DEF BoardInv, CarriedInv, ByOthers, ByRound, ErrandsInProgressAreCarried
<1>2. QED BY <1>1, BoardStart, BoardStep, PTL DEF BoardSpec

\* When stop_team has done its work no turn for an errand goes on uncut, also one that was
\* being started meanwhile: the second look of _start finds it.
THEOREM StoppedTeamsRunNothingTheorem == BoardSpec => []StoppedTeamsRunNothing
<1>1. BoardInv => StoppedTeamsRunNothing BY DEF BoardInv, StopInv, StoppedTeamsRunNothing
<1>2. QED BY <1>1, BoardStart, BoardStep, PTL DEF BoardSpec

\* Rows, threads and memory keep their types, although whole rows are written from copies.
THEOREM BoardTypesTheorem == BoardSpec => []BoardTypeOK
<1>1. BoardInv => BoardTypeOK BY TypesOK DEF BoardInv
<1>2. QED BY <1>1, BoardStart, BoardStep, PTL DEF BoardSpec

-----------------------------------------------------------------------------
(***************************************************************************)
(* The reports of child sessions.  A wake-up that is not lost is at a      *)
(* worker of the mother or of a child Rinari opened, whose timer counts    *)
(* only while the row of its child still holds its own report.             *)
(***************************************************************************)

WorkerPlaces == {"none", "run", "done", "kick", "timer", "pending", "busy", "start", "fly",
                 "steer", "forget", "prep", "mark", "closing", "pop", "popstop"}
TurnPlaces == {"prep", "mark", "run", "closing"}

WorkersInv ==
    /\ of \in [TurnIds -> Conversations] /\ by \in [TurnIds -> {"owner", "parent", "report"}]
    /\ at \in [TurnIds -> WorkerPlaces]
    /\ card \in [Children -> {"none", "working", "ended"}]
    /\ report \in [Children -> 0..MaxAlive]
    /\ \A t \in TurnIds :
         /\ at[t] \in {"done", "kick", "timer"} => of[t] \in Children
         /\ at[t] \in {"prep", "mark", "closing"} => of[t] = Mother

\* The worker of t will get the report to the mother, or find her at a turn.
OwnReport(t) == report[of[t]] = t /\ of[t] \notin reported
Wakes(t) ==
    \/ at[t] \in {"pending", "busy", "start", "pop"}
    \/ /\ of[t] \in Opened
       /\ \/ at[t] = "done"
          \/ at[t] = "kick" /\ (by[t] # "owner" \/ OwnReport(t))
          \/ at[t] = "timer" /\ OwnReport(t)

\* Somebody works, or a worker wakes the mother.
Awake ==
    \/ stopped \/ Busies(Mother)
    \/ \E d \in Opened : card[d] = "working" \/ Busies(d)
    \/ \E t \in TurnIds : Wakes(t)
WakeInv == (\E c \in Opened : Unseen(c)) => Awake

ChildrenInv == WorkersInv /\ WakeInv

\* A wake-up passes from one worker to the next: every step moves one worker t, and what it
\* leaves is taken over.
LEMMA WorkerMoves ==
    ASSUME ChildrenInv, WorkersInv', NEW t \in TurnIds,
           \A u \in TurnIds : u # t => of'[u] = of[u] /\ by'[u] = by[u] /\ at'[u] = at[u],
           UNCHANGED <<report, reported, ownerRow, stopped>>,
           \A d \in Children : card[d] = "working" => card'[d] = "working",
           at[t] \in TurnPlaces => (at'[t] \in TurnPlaces /\ of'[t] = of[t]) \/ Awake',
           Wakes(t) /\ (\E c \in Opened : Unseen(c)) => Awake'
    PROVE  ChildrenInv'
<1>1. Opened \subseteq Children BY ChildrenAssumption
<1>2. SUFFICES ASSUME \E c \in Opened : Unseen(c)' PROVE Awake'
  BY DEF ChildrenInv, WakeInv
<1>3. \E c \in Opened : Unseen(c) BY <1>2 DEF Unseen
<1>4. Awake BY <1>3 DEF ChildrenInv, WakeInv
<1>5. ASSUME NEW s, Busies(s) PROVE Busies(s)' \/ Awake'
  <2>1. PICK u \in TurnIds : of[u] = s /\ at[u] \in TurnPlaces
    BY <1>5 DEF Busies, Running, TurnPlaces
  <2>2. CASE u # t
    <3>1. of'[u] = s /\ at'[u] \in TurnPlaces BY <2>1, <2>2
    <3>2. QED BY <3>1 DEF Busies, Running, TurnPlaces
  <2>3. CASE u = t
    <3>1. (of'[t] = s /\ at'[t] \in TurnPlaces) \/ Awake' BY <2>1, <2>3
    <3>2. QED BY <3>1 DEF Busies, Running, TurnPlaces
  <2>4. QED BY <2>2, <2>3
<1>6. CASE stopped BY <1>6 DEF Awake
<1>7. CASE Busies(Mother) BY <1>5, <1>7 DEF Awake
<1>8. ASSUME NEW d \in Opened, card[d] = "working" \/ Busies(d) PROVE Awake'
  BY <1>1, <1>5, <1>8 DEF Awake
<1>9. ASSUME NEW u \in TurnIds, Wakes(u) PROVE Awake'
  <2>1. CASE u # t
    <3>1. of'[u] = of[u] /\ by'[u] = by[u] /\ at'[u] = at[u] BY <2>1
    <3>2. Wakes(u)' BY <1>9, <3>1 DEF Wakes, OwnReport
    <3>3. QED BY <3>2 DEF Awake
  <2>2. CASE u = t BY <1>3, <1>9, <2>2
  <2>3. QED BY <2>1, <2>2
<1>10. QED BY <1>4, <1>6, <1>7, <1>8, <1>9 DEF Awake

\* What a worker leaves at another place: types, and who else moved.
LEMMA KeepsWorkers ==
    ASSUME WorkersInv, NEW t \in TurnIds, NEW l \in WorkerPlaces, NEW S, Keeps(t, l, S),
           l \in {"done", "kick", "timer"} => of[t] \in Children,
           l \in {"prep", "mark", "closing"} => of[t] = Mother,
           UNCHANGED <<card, report>>
    PROVE  /\ WorkersInv'
           /\ at'[t] = l /\ of'[t] = of[t] /\ by'[t] = by[t]
           /\ \A u \in TurnIds : u # t => of'[u] = of[u] /\ by'[u] = by[u] /\ at'[u] = at[u]
<1>1. of' = of /\ by' = by /\ at' = [at EXCEPT ![t] = l] BY DEF Keeps
<1>2. /\ at' \in [TurnIds -> WorkerPlaces] /\ at'[t] = l
      /\ \A u \in TurnIds : u # t => at'[u] = at[u]
  BY <1>1 DEF WorkersInv
<1>3. QED BY <1>1, <1>2 DEF WorkersInv

\* And one that ends.
LEMMA EndsWorkers ==
    ASSUME WorkersInv, NEW t \in TurnIds, Ends(t), UNCHANGED <<card, report>>
    PROVE  /\ WorkersInv' /\ at'[t] = "none"
           /\ \A u \in TurnIds : u # t => of'[u] = of[u] /\ by'[u] = by[u] /\ at'[u] = at[u]
<1>1. /\ at' \in [TurnIds -> WorkerPlaces] /\ at'[t] = "none"
      /\ of' \in [TurnIds -> Conversations] /\ by' \in [TurnIds -> {"owner", "parent", "report"}]
      /\ \A u \in TurnIds : u # t => of'[u] = of[u] /\ by'[u] = by[u] /\ at'[u] = at[u]
  BY DEF WorkersInv, Ends, WorkerPlaces, Conversations
<1>2. QED BY <1>1 DEF WorkersInv

\* A turn of s that begins is counted as running.
LEMMA NewTurnWorkers ==
    ASSUME WorkersInv, NEW s \in Conversations, NEW b \in {"owner", "parent", "report"},
           NewTurn(s, b), report' = report
    PROVE  /\ WorkersInv'
           /\ \A d \in Children : card[d] = "working" => card'[d] = "working"
           /\ \E n \in TurnIds :
                /\ at[n] = "none" /\ of'[n] = s /\ at'[n] \in TurnPlaces
                /\ \A u \in TurnIds : u # n => of'[u] = of[u] /\ by'[u] = by[u] /\ at'[u] = at[u]
<1>1. PICK n \in NextId :
        /\ of' = [of EXCEPT ![n] = s] /\ by' = [by EXCEPT ![n] = b]
        /\ at' = [at EXCEPT ![n] = IF s = Mother THEN "prep" ELSE "run"]
  BY DEF NewTurn
<1>2. n \in TurnIds /\ at[n] = "none" BY DEF NextId
<1>3. /\ at' \in [TurnIds -> WorkerPlaces] /\ at'[n] = (IF s = Mother THEN "prep" ELSE "run")
      /\ of' \in [TurnIds -> Conversations] /\ of'[n] = s
      /\ by' \in [TurnIds -> {"owner", "parent", "report"}]
      /\ \A u \in TurnIds : u # n => of'[u] = of[u] /\ by'[u] = by[u] /\ at'[u] = at[u]
  BY <1>1, <1>2 DEF WorkersInv, WorkerPlaces
<1>4. /\ card' \in [Children -> {"none", "working", "ended"}]
      /\ \A d \in Children : card[d] = "working" => card'[d] = "working"
  BY DEF NewTurn, WorkersInv
<1>5. at'[n] \in TurnPlaces BY <1>3 DEF TurnPlaces
<1>6. WorkersInv' BY <1>2, <1>3, <1>4 DEF WorkersInv
<1>7. QED BY <1>2, <1>3, <1>4, <1>5, <1>6

\* A turn of anyone that begins keeps the invariant.
LEMMA NewTurnKeeps ==
    ASSUME ChildrenInv, NEW s \in Conversations, NEW b \in {"owner", "parent", "report"},
           NewTurn(s, b), UNCHANGED <<report, reported, ownerRow, stopped>>
    PROVE  ChildrenInv'
<1>1. WorkersInv BY DEF ChildrenInv
<1>2. /\ WorkersInv'
      /\ \A d \in Children : card[d] = "working" => card'[d] = "working"
  BY <1>1, NewTurnWorkers
<1>3. PICK n \in TurnIds :
        /\ at[n] = "none" /\ of'[n] = s /\ at'[n] \in TurnPlaces
        /\ \A u \in TurnIds : u # n => of'[u] = of[u] /\ by'[u] = by[u] /\ at'[u] = at[u]
  BY <1>1, NewTurnWorkers
<1>4. at[n] \notin TurnPlaces /\ ~Wakes(n) BY <1>3 DEF TurnPlaces, Wakes
<1>5. QED BY <1>2, <1>3, <1>4, WorkerMoves

\* A step of no worker, that marks at most more children as working.
LEMMA RowsKeep ==
    ASSUME ChildrenInv, UNCHANGED <<of, by, at, report, ownerRow, reported, stopped>>,
           card' \in [Children -> {"none", "working", "ended"}],
           \A d \in Children : card[d] = "working" => card'[d] = "working"
    PROVE  ChildrenInv'
<1>1. WorkersInv' BY DEF ChildrenInv, WorkersInv
<1>2. Awake => Awake'
  BY ChildrenAssumption DEF Awake, Busies, Running, Wakes, OwnReport
<1>3. QED BY <1>1, <1>2 DEF ChildrenInv, WakeInv, Unseen

\* What the mother and the owner ask for.
LEMMA CallsKeep ==
    ASSUME ChildrenInv
    PROVE  /\ \A s \in Conversations : OwnerStarts(s) => ChildrenInv'
           /\ \A c \in Children : Create(c) \/ Message(c) \/ MessageMarks(c) => ChildrenInv'
<1>1. WorkersInv /\ Children \subseteq Conversations BY DEF ChildrenInv, Conversations
<1>2. ASSUME NEW s \in Conversations, OwnerStarts(s) PROVE ChildrenInv'
  BY <1>2, NewTurnKeeps DEF OwnerStarts, motherVars
<1>3. ASSUME NEW c \in Children, Create(c) PROVE ChildrenInv'
  BY <1>1, <1>3, NewTurnKeeps DEF Create, motherVars
<1>4. ASSUME NEW c \in Children, Message(c) PROVE ChildrenInv'
  <2>1. UNCHANGED <<report, ownerRow, reported, stopped>> BY <1>4 DEF Message, motherVars
  <2>2. CASE Busies(c)
    <3>1. UNCHANGED <<of, by, at, card>> BY <1>4, <2>2 DEF Message
    <3>2. QED BY <1>1, <2>1, <3>1, RowsKeep DEF WorkersInv
  <2>3. CASE ~Busies(c)
    <3>1. NewTurn(c, "parent") BY <1>4, <2>3 DEF Message
    <3>2. QED BY <1>1, <2>1, <3>1, NewTurnKeeps
  <2>4. QED BY <2>2, <2>3
<1>5. ASSUME NEW c \in Children, MessageMarks(c) PROVE ChildrenInv'
  <2>1. /\ card' = [card EXCEPT ![c] = "working"]
        /\ UNCHANGED <<of, by, at, report, ownerRow, reported, stopped>>
    BY <1>5 DEF MessageMarks, motherVars
  <2>2. /\ card' \in [Children -> {"none", "working", "ended"}]
        /\ \A d \in Children : card[d] = "working" => card'[d] = "working"
    BY <1>1, <2>1 DEF WorkersInv
  <2>3. QED BY <2>1, <2>2, RowsKeep
<1>6. QED BY <1>2, <1>3, <1>4, <1>5

\* A worker that ends and that no wake-up was left to.
LEMMA EndsKeeps ==
    ASSUME ChildrenInv, NEW t \in TurnIds, Ends(t), at[t] \notin TurnPlaces,
           UNCHANGED <<card, report, reported, ownerRow, stopped>>,
           Wakes(t) /\ (\E c \in Opened : Unseen(c)) => Awake'
    PROVE  ChildrenInv'
<1>1. /\ WorkersInv'
      /\ \A u \in TurnIds : u # t => of'[u] = of[u] /\ by'[u] = by[u] /\ at'[u] = at[u]
  BY EndsWorkers DEF ChildrenInv
<1>2. QED BY <1>1, WorkerMoves

\* A child's turn ends, and its worker is about to report.
LEMMA EndChildKeeps ==
    ASSUME ChildrenInv, NEW t \in TurnIds, EndChild(t)
    PROVE  ChildrenInv'
<1>1. /\ WorkersInv /\ of[t] \in Children /\ at[t] = "run"
      /\ Keeps(t, "done", snap[t]) /\ "done" \in WorkerPlaces
      /\ UNCHANGED <<card, report, reported, ownerRow, stopped>>
  BY DEF EndChild, GoesOn, ChildrenInv, cardVars, motherVars, WorkerPlaces
<1>2. /\ WorkersInv' /\ at'[t] = "done" /\ of'[t] = of[t]
      /\ \A u \in TurnIds : u # t => of'[u] = of[u] /\ by'[u] = by[u] /\ at'[u] = at[u]
  BY <1>1, KeepsWorkers
<1>3. ~Wakes(t) BY <1>1 DEF Wakes
<1>4. CASE of[t] \in Opened
  <2>1. Wakes(t)' BY <1>2, <1>4 DEF Wakes
  <2>2. Awake' BY <2>1 DEF Awake
  <2>3. QED BY <1>2, <2>2 DEF ChildrenInv, WakeInv
<1>5. CASE of[t] \notin Opened
  <2>1. SUFFICES ASSUME \E c \in Opened : Unseen(c)' PROVE Awake'
    BY <1>2 DEF ChildrenInv, WakeInv
  <2>2. Awake BY <1>1, <2>1 DEF ChildrenInv, WakeInv, Unseen
  <2>3. ASSUME NEW s \in Opened \cup {Mother}, Busies(s) PROVE Busies(s)'
    <3>1. PICK u \in TurnIds : of[u] = s /\ at[u] \in TurnPlaces
      BY <2>3 DEF Busies, Running, TurnPlaces
    <3>2. u # t BY <1>1, <1>5, <3>1, ChildrenAssumption
    <3>3. of'[u] = s /\ at'[u] \in TurnPlaces BY <1>2, <3>1, <3>2
    <3>4. QED BY <3>3 DEF Busies, Running, TurnPlaces
  <2>4. ASSUME NEW u \in TurnIds, Wakes(u) PROVE Wakes(u)'
    <3>1. of'[u] = of[u] /\ by'[u] = by[u] /\ at'[u] = at[u] BY <1>2, <1>3, <2>4
    <3>2. QED BY <1>1, <2>4, <3>1 DEF Wakes, OwnReport
  <2>5. QED BY <1>1, <2>2, <2>3, <2>4 DEF Awake
<1>6. QED BY <1>4, <1>5

\* The report is saved: the timers of earlier reports of this child give up, and its own
\* worker is about to look whether the mother is to be woken.
LEMMA ReportTurnKeeps ==
    ASSUME ChildrenInv, NEW t \in TurnIds, ReportTurn(t)
    PROVE  ChildrenInv'
<1>1. /\ WorkersInv /\ of[t] \in Children /\ at[t] = "done"
      /\ card' = [card EXCEPT ![of[t]] = "ended"] /\ report' = [report EXCEPT ![of[t]] = t]
      /\ reported' = reported \ {of[t]} /\ at' = [at EXCEPT ![t] = "kick"]
      /\ UNCHANGED <<of, by, stopped>>
  BY DEF ReportTurn, ChildrenInv, WorkersInv
<1>2. /\ at' \in [TurnIds -> WorkerPlaces] /\ at'[t] = "kick"
      /\ \A u \in TurnIds : u # t => at'[u] = at[u]
      /\ card' \in [Children -> {"none", "working", "ended"}]
      /\ report' \in [Children -> 0..MaxAlive] /\ report'[of[t]] = t
      /\ \A d \in Children : d # of[t] => card'[d] = card[d] /\ report'[d] = report[d]
  BY <1>1 DEF WorkersInv, WorkerPlaces, TurnIds
<1>3. WorkersInv' BY <1>1, <1>2 DEF WorkersInv
<1>4. CASE of[t] \in Opened
  <2>1. Wakes(t)' BY <1>1, <1>2, <1>4 DEF Wakes, OwnReport
  <2>2. QED BY <1>3, <2>1 DEF ChildrenInv, WakeInv, Awake
<1>5. CASE of[t] \notin Opened
  <2>1. SUFFICES ASSUME NEW c \in Opened, Unseen(c)' PROVE Awake'
    BY <1>3 DEF ChildrenInv, WakeInv
  <2>2. ownerRow \subseteq ownerRow' \cup {of[t]} BY DEF ReportTurn
  <2>3. Unseen(c) BY <1>1, <1>5, <2>1, <2>2 DEF Unseen
  <2>4. Awake BY <2>3 DEF ChildrenInv, WakeInv
  <2>5. ASSUME NEW s, Busies(s) PROVE Busies(s)'
    <3>1. PICK u \in TurnIds : of[u] = s /\ at[u] \in TurnPlaces
      BY <2>5 DEF Busies, Running, TurnPlaces
    <3>2. u # t BY <1>1, <3>1 DEF TurnPlaces
    <3>3. of'[u] = s /\ at'[u] \in TurnPlaces BY <1>1, <1>2, <3>1, <3>2
    <3>4. QED BY <3>3 DEF Busies, Running, TurnPlaces
  <2>6. ASSUME NEW d \in Opened, card[d] = "working" PROVE card'[d] = "working"
    BY <1>2, <1>5, <2>6, ChildrenAssumption
  <2>7. ASSUME NEW u \in TurnIds, Wakes(u) PROVE Wakes(u)'
    <3>1. u # t BY <1>1, <1>5, <2>7 DEF Wakes
    <3>2. at'[u] = at[u] /\ of'[u] = of[u] /\ by'[u] = by[u] BY <1>1, <1>2, <3>1
    <3>3. of[u] \in Opened => (OwnReport(u) => OwnReport(u)')
      BY <1>1, <1>2, <1>5, <3>2, ChildrenAssumption DEF OwnReport
    <3>4. QED BY <2>7, <3>2, <3>3 DEF Wakes
  <2>8. QED BY <1>1, <2>4, <2>5, <2>6, <2>7 DEF Awake
<1>6. QED BY <1>4, <1>5

\* A worker that goes on, and what was left to it goes with it.
LEMMA GoesOnKeeps ==
    ASSUME ChildrenInv, NEW t \in TurnIds, NEW l \in WorkerPlaces, NEW S, Keeps(t, l, S),
           l \in {"done", "kick", "timer"} => of[t] \in Children,
           l \in {"prep", "mark", "closing"} => of[t] = Mother,
           at[t] \in TurnPlaces => l \in TurnPlaces \cup {"pop"} \/ stopped,
           UNCHANGED <<card, report, reported, ownerRow, stopped>>,
           Wakes(t) => l \in {"pending", "busy", "start"} \/ Busies(Mother)
                       \/ (l = "timer" /\ of[t] \in Opened /\ OwnReport(t))
    PROVE  ChildrenInv'
<1>1. /\ WorkersInv' /\ at'[t] = l /\ of'[t] = of[t]
      /\ \A u \in TurnIds : u # t => of'[u] = of[u] /\ by'[u] = by[u] /\ at'[u] = at[u]
  BY KeepsWorkers DEF ChildrenInv
<1>2. stopped \/ l \in {"pending", "busy", "start", "pop"} => Awake' BY <1>1 DEF Awake, Wakes
<1>3. at[t] \in TurnPlaces => (at'[t] \in TurnPlaces /\ of'[t] = of[t]) \/ Awake'
  BY <1>1, <1>2
<1>4. ASSUME Busies(Mother), Wakes(t) PROVE Awake'
  <2>1. PICK u \in TurnIds : of[u] = Mother /\ at[u] \in TurnPlaces
    BY <1>4 DEF Busies, Running, TurnPlaces
  <2>2. u # t BY <1>4, <2>1 DEF Wakes, TurnPlaces
  <2>3. of'[u] = Mother /\ at'[u] \in TurnPlaces BY <1>1, <2>1, <2>2
  <2>4. QED BY <2>3 DEF Busies, Running, TurnPlaces, Awake
<1>5. ASSUME l = "timer", of[t] \in Opened, OwnReport(t) PROVE Awake'
  <2>1. Wakes(t)' BY <1>1, <1>5 DEF Wakes, OwnReport
  <2>2. QED BY <2>1 DEF Awake
<1>6. Wakes(t) => Awake' BY <1>2, <1>4, <1>5
<1>7. QED BY <1>1, <1>3, <1>6, WorkerMoves

\* While somebody has a turn, its end will see to the mother.
LEMMA BusyStays ==
    ASSUME NEW s, Busies(s), NEW t \in TurnIds, at[t] \notin TurnPlaces,
           \A u \in TurnIds : u # t => of'[u] = of[u] /\ at'[u] = at[u]
    PROVE  Busies(s)'
<1>1. PICK u \in TurnIds : of[u] = s /\ at[u] \in TurnPlaces
  BY DEF Busies, Running, TurnPlaces
<1>2. of'[u] = s /\ at'[u] \in TurnPlaces BY <1>1
<1>3. QED BY <1>2 DEF Busies, Running, TurnPlaces

\* After a child's turn: a message of the mother gets its turn, a child that goes on reports
\* at the end of it, and the others wake her, at once or when they have been quiet.
LEMMA AfterChildKeeps ==
    ASSUME ChildrenInv, NEW t \in TurnIds, KickChild(t) \/ AfterTurn(t) \/ QuietCheck(t)
    PROVE  ChildrenInv'
<1>1. WorkersInv /\ {"timer", "pending"} \subseteq WorkerPlaces
  BY DEF ChildrenInv, WorkerPlaces
<1>2. CASE KickChild(t)
  BY <1>1, <1>2, NewTurnKeeps DEF KickChild, WorkersInv, motherVars
<1>3. CASE AfterTurn(t)
  <2>1. /\ at[t] = "kick" /\ of[t] \in Children /\ at[t] \notin TurnPlaces
        /\ UNCHANGED <<card, report, reported, ownerRow, stopped>>
    BY <1>1, <1>3 DEF AfterTurn, WorkersInv, cardVars, motherVars, TurnPlaces
  <2>2. CASE Busies(of[t])
    <3>1. Ends(t) BY <1>3, <2>2 DEF AfterTurn
    <3>2. \A u \in TurnIds : u # t => of'[u] = of[u] /\ by'[u] = by[u] /\ at'[u] = at[u]
      BY <1>1, <2>1, <3>1, EndsWorkers
    <3>3. Wakes(t) => of[t] \in Opened BY <2>1 DEF Wakes
    <3>4. \A s : s = of[t] => Busies(s)' BY <2>1, <2>2, <3>2, BusyStays
    <3>5. Wakes(t) => Awake' BY <3>3, <3>4 DEF Awake
    <3>6. QED BY <2>1, <3>1, <3>5, EndsKeeps
  <2>3. CASE ~Busies(of[t]) /\ by[t] = "owner"
    <3>1. Keeps(t, "timer", snap[t]) BY <1>3, <2>3 DEF AfterTurn, GoesOn
    <3>2. Wakes(t) => of[t] \in Opened /\ OwnReport(t) BY <2>1, <2>3 DEF Wakes
    <3>3. QED BY <1>1, <2>1, <3>1, <3>2, GoesOnKeeps
  <2>4. CASE ~Busies(of[t]) /\ by[t] # "owner"
    <3>1. Keeps(t, "pending", snap[t]) BY <1>3, <2>4 DEF AfterTurn, GoesOn
    <3>2. QED BY <1>1, <2>1, <3>1, GoesOnKeeps
  <2>5. QED BY <2>2, <2>3, <2>4
<1>4. CASE QuietCheck(t)
  <2>1. /\ at[t] = "timer" /\ of[t] \in Children /\ at[t] \notin TurnPlaces
        /\ UNCHANGED <<card, report, reported, ownerRow, stopped>>
    BY <1>1, <1>4 DEF QuietCheck, WorkersInv, cardVars, motherVars, TurnPlaces
  <2>2. CASE of[t] \in reported \/ Busies(of[t]) \/ report[of[t]] # t
    <3>1. Ends(t) BY <1>4, <2>2 DEF QuietCheck
    <3>2. \A u \in TurnIds : u # t => of'[u] = of[u] /\ by'[u] = by[u] /\ at'[u] = at[u]
      BY <1>1, <2>1, <3>1, EndsWorkers
    <3>3. Wakes(t) => of[t] \in Opened /\ Busies(of[t])
      BY <2>1, <2>2 DEF Wakes, OwnReport
    <3>4. \A s : s = of[t] /\ Busies(s) => Busies(s)' BY <2>1, <3>2, BusyStays
    <3>5. Wakes(t) => Awake' BY <3>3, <3>4 DEF Awake
    <3>6. QED BY <2>1, <3>1, <3>5, EndsKeeps
  <2>3. CASE ~(of[t] \in reported \/ Busies(of[t]) \/ report[of[t]] # t)
    <3>1. Keeps(t, "pending", snap[t]) BY <1>4, <2>3 DEF QuietCheck, GoesOn
    <3>2. QED BY <1>1, <2>1, <3>1, GoesOnKeeps
  <2>4. QED BY <2>2, <2>3
<1>5. QED BY <1>2, <1>3, <1>4

\* wake gives up only when nothing waits or a child Rinari opened is at work; otherwise it
\* finds the mother at a turn, or starts one.
LEMMA WakeKeeps ==
    ASSUME ChildrenInv, NEW t \in TurnIds, WakeStep(t)
    PROVE  ChildrenInv'
<1>1. /\ WorkersInv
      /\ {"busy", "fly", "start", "steer", "forget"} \subseteq WorkerPlaces \ TurnPlaces
  BY DEF ChildrenInv, WorkerPlaces, TurnPlaces
<1>2. CASE WakePending(t)
  <2>1. /\ at[t] = "pending" /\ at[t] \notin TurnPlaces
        /\ UNCHANGED <<card, report, reported, ownerRow, stopped>>
    BY <1>2 DEF WakePending, cardVars, motherVars, TurnPlaces
  <2>2. CASE Waking(t) = {} \/ \E c \in Opened : card[c] = "working"
    <3>1. Ends(t) BY <1>2, <2>2 DEF WakePending
    <3>2. ASSUME NEW c \in Opened, Unseen(c) PROVE <<c, "last">> \in Waking(t)
      BY <3>2 DEF Unseen, Waking
    <3>3. (\E c \in Opened : Unseen(c)) => Awake'
      BY <2>1, <2>2, <3>2 DEF Awake
    <3>4. QED BY <2>1, <3>1, <3>3, EndsKeeps
  <2>3. CASE ~(Waking(t) = {} \/ \E c \in Opened : card[c] = "working")
    <3>1. Keeps(t, "busy", Waking(t)) BY <1>2, <2>3 DEF WakePending
    <3>2. QED BY <1>1, <2>1, <3>1, GoesOnKeeps
  <2>4. QED BY <2>2, <2>3
<1>3. CASE WakeBusy(t)
  <2>1. /\ at[t] = "busy" /\ at[t] \notin TurnPlaces
        /\ UNCHANGED <<card, report, reported, ownerRow, stopped>>
    BY <1>3 DEF WakeBusy, cardVars, motherVars, TurnPlaces
  <2>2. CASE Busies(Mother)
    <3>1. Keeps(t, "fly", snap[t]) BY <1>3, <2>2 DEF WakeBusy, GoesOn
    <3>2. QED BY <1>1, <2>1, <2>2, <3>1, GoesOnKeeps
  <2>3. CASE ~Busies(Mother)
    <3>1. Keeps(t, "start", {}) BY <1>3, <2>3 DEF WakeBusy
    <3>2. QED BY <1>1, <2>1, <3>1, GoesOnKeeps
  <2>4. QED BY <2>2, <2>3
<1>4. CASE WakeStart(t)
  <2>1. /\ at[t] = "start" /\ at[t] \notin TurnPlaces
        /\ UNCHANGED <<report, reported, ownerRow, stopped>>
    BY <1>4 DEF WakeStart, motherVars, TurnPlaces
  <2>2. CASE Busies(Mother)
    <3>1. Ends(t) /\ card' = card BY <1>4, <2>2 DEF WakeStart
    <3>2. \A u \in TurnIds : u # t => of'[u] = of[u] /\ by'[u] = by[u] /\ at'[u] = at[u]
      BY <1>1, <2>1, <3>1, EndsWorkers
    <3>3. Awake' BY <2>1, <2>2, <3>2, BusyStays DEF Awake
    <3>4. QED BY <2>1, <3>1, <3>3, EndsKeeps
  <2>3. CASE ~Busies(Mother)
    <3>1. PICK n \in NextId :
            /\ at' = [at EXCEPT ![n] = "prep", ![t] = "none"]
            /\ of' = [of EXCEPT ![n] = Mother, ![t] = Mother]
            /\ by' = [by EXCEPT ![n] = "report", ![t] = "owner"]
            /\ card' = card
      BY <1>4, <2>3 DEF WakeStart
    <3>2. n \in TurnIds /\ n # t BY <2>1 DEF NextId
    <3>3. /\ at' \in [TurnIds -> WorkerPlaces] /\ at'[n] = "prep" /\ at'[t] = "none"
          /\ of' \in [TurnIds -> Conversations] /\ of'[n] = Mother
          /\ by' \in [TurnIds -> {"owner", "parent", "report"}]
          /\ \A u \in TurnIds \ {n, t} : of'[u] = of[u] /\ at'[u] = at[u]
      BY <1>1, <3>1, <3>2 DEF WorkersInv, WorkerPlaces, Conversations
    <3>4. WorkersInv' BY <1>1, <2>1, <3>1, <3>3 DEF WorkersInv
    <3>5. Awake' BY <3>2, <3>3 DEF Awake, Busies, Running
    <3>6. QED BY <3>4, <3>5 DEF ChildrenInv, WakeInv
  <2>4. QED BY <2>2, <2>3
<1>5. CASE WakeFly(t) \/ WakeSteer(t) \/ WakeForget(t)
  <2>1. /\ at[t] \in {"fly", "steer", "forget"} /\ at[t] \notin TurnPlaces /\ ~Wakes(t)
        /\ UNCHANGED <<card, report, reported, ownerRow, stopped>>
    BY <1>5 DEF WakeFly, WakeSteer, WakeForget, cardVars, TurnPlaces, Wakes
  <2>2. Ends(t) \/ \E l \in {"steer", "forget"}, S \in {snap'[t]} : Keeps(t, l, S)
    <3>1. ASSUME NEW l \in {"steer", "forget"}, NEW S, Keeps(t, l, S) PROVE Keeps(t, l, snap'[t])
      BY <3>1 DEF Keeps
    <3>2. QED BY <1>5, <3>1 DEF WakeFly, WakeSteer, WakeForget, GoesOn
  <2>3. QED BY <1>1, <2>1, <2>2, EndsKeeps, GoesOnKeeps
<1>6. QED BY <1>2, <1>3, <1>4, <1>5 DEF WakeStep

\* While the mother has a turn, whatever is marked as seen, no wake-up is lost.
LEMMA MotherBusyKeeps ==
    ASSUME WorkersInv', Busies(Mother)' PROVE ChildrenInv'
BY DEF ChildrenInv, WakeInv, Awake

\* The mother's turn: the end of one that was not stopped looks for reports again.
LEMMA MotherTurnKeeps ==
    ASSUME ChildrenInv, NEW t \in TurnIds,
           \/ TextReads(t) \/ TextMarks(t) \/ EndMother(t) \/ MotherDone(t)
           \/ MotherAfterTurn(t) \/ ReportsRead(t)
    PROVE  ChildrenInv'
<1>1. WorkersInv /\ {"mark", "run", "closing", "pop", "popstop", "pending"} \subseteq WorkerPlaces
  BY DEF ChildrenInv, WorkerPlaces
<1>2. CASE TextReads(t) \/ TextMarks(t) \/ EndMother(t)
  <2>1. PICK l \in {"mark", "run", "closing"}, S \in {snap'[t]} : Keeps(t, l, S)
    <3>1. ASSUME NEW l, NEW S, Keeps(t, l, S) PROVE Keeps(t, l, snap'[t])
      BY <3>1 DEF Keeps
    <3>2. QED BY <1>2, <3>1 DEF TextReads, TextMarks, EndMother, GoesOn
  <2>2. of[t] = Mother /\ UNCHANGED <<card, report>>
    BY <1>1, <1>2 DEF TextReads, TextMarks, EndMother, WorkersInv, cardVars
  <2>3. WorkersInv' /\ at'[t] = l /\ of'[t] = Mother BY <1>1, <2>1, <2>2, KeepsWorkers
  <2>4. Busies(Mother)' BY <2>3 DEF Busies, Running
  <2>5. QED BY <2>3, <2>4, MotherBusyKeeps
<1>3. CASE ReportsRead(t)
  <2>1. of[t] = Mother /\ at[t] = "run" /\ UNCHANGED <<of, by, at, card, report>>
    BY <1>3 DEF ReportsRead
  <2>2. WorkersInv' BY <1>1, <2>1 DEF WorkersInv
  <2>3. Busies(Mother)' BY <2>1 DEF Busies, Running
  <2>4. QED BY <2>2, <2>3, MotherBusyKeeps
<1>4. CASE MotherDone(t)
  <2>1. /\ at[t] = "closing" /\ ~Wakes(t)
        /\ UNCHANGED <<card, report, reported, ownerRow, stopped>>
        /\ Keeps(t, IF stopped THEN "popstop" ELSE "pop", snap[t])
    BY <1>4 DEF MotherDone, GoesOn, cardVars, motherVars, Wakes
  <2>2. PICK l \in {"pop", "popstop"} : Keeps(t, l, snap[t]) /\ (l = "pop" \/ stopped)
    BY <2>1
  <2>3. QED BY <1>1, <2>1, <2>2, GoesOnKeeps
<1>5. CASE MotherAfterTurn(t)
  <2>1. /\ at[t] \in {"pop", "popstop"} /\ at[t] \notin TurnPlaces
        /\ UNCHANGED <<card, report, reported, ownerRow, stopped>>
    BY <1>5 DEF MotherAfterTurn, cardVars, TurnPlaces
  <2>2. CASE at[t] = "popstop"
    <3>1. Ends(t) /\ ~Wakes(t) BY <1>5, <2>2 DEF MotherAfterTurn, Wakes
    <3>2. QED BY <2>1, <3>1, EndsKeeps
  <2>3. CASE at[t] = "pop"
    <3>1. Keeps(t, "pending", snap[t]) BY <1>5, <2>3 DEF MotherAfterTurn, GoesOn
    <3>2. QED BY <1>1, <2>1, <3>1, GoesOnKeeps
  <2>4. QED BY <2>1, <2>2, <2>3
<1>6. QED BY <1>2, <1>3, <1>4, <1>5

\* Every step of the owner, the mother and the workers.
LEMMA ChildrenStep ==
    ASSUME ChildrenInv, [ChildrenNext]_childVars
    PROVE  ChildrenInv'
<1>1. WorkersInv BY DEF ChildrenInv
<1>2. ASSUME NEW t \in TurnIds, ReadMail(t) PROVE ChildrenInv'
  BY <1>1, <1>2, RowsKeep DEF ReadMail, cardVars, motherVars, WorkersInv
<1>3. ASSUME UNCHANGED childVars PROVE ChildrenInv'
  BY <1>1, <1>3, RowsKeep DEF childVars, WorkersInv
<1>4. ASSUME NEW t \in TurnIds, WorkerStep(t) PROVE ChildrenInv'
  BY <1>4, EndChildKeeps, ReportTurnKeeps, AfterChildKeeps, WakeKeeps, MotherTurnKeeps
     DEF WorkerStep
<1>5. QED BY <1>2, <1>3, <1>4, CallsKeep, MotherTurnKeeps DEF ChildrenNext

\* No report waits at the beginning.
LEMMA ChildrenStart == ChildrenInit => ChildrenInv
<1>1. SUFFICES ASSUME ChildrenInit PROVE ChildrenInv OBVIOUS
<1>2. WorkersInv
  BY <1>1, ChildrenAssumption DEF ChildrenInit, WorkersInv, WorkerPlaces, Conversations
<1>3. \A c \in Opened : ~Unseen(c) BY <1>1, ChildrenAssumption DEF ChildrenInit, Unseen
<1>4. QED BY <1>2, <1>3 DEF ChildrenInv, WakeInv

\* Whatever the number of children and workers, the order in which their turns end and the
\* turns of the mother in between, no wake-up is lost.
THEOREM NoWakeIsLostTheorem == ChildrenSpec => []NoWakeIsLost
<1>1. ChildrenInv => NoWakeIsLost
  <2>1. \A t \in TurnIds : Wakes(t) => OnItsWay(t) BY DEF Wakes, OnItsWay, OwnReport
  <2>2. QED BY <2>1 DEF ChildrenInv, WakeInv, Awake, NoWakeIsLost
<1>2. QED BY <1>1, ChildrenStart, ChildrenStep, PTL DEF ChildrenSpec

-----------------------------------------------------------------------------
(***************************************************************************)
(* The copies of reports.  MarkedReportsWereShown fails: a row is marked   *)
(* as seen for a copy of its report that is no longer the last.  Nothing   *)
(* else marks a report her model was not given.                            *)
(***************************************************************************)

ReportCopies == Children \X {"last", "older"}

\* What the rows, the mother's turn and the workers keep of reports.
ReportTypes ==
    /\ snap \in [TurnIds -> SUBSET ReportCopies] /\ letters \in SUBSET ReportCopies
    /\ ownerRow \subseteq Children /\ reported \subseteq Children
    /\ flying \subseteq Children /\ mail \subseteq Children /\ marking \subseteq Children
    /\ shown \subseteq Children
    /\ stopped \in BOOLEAN /\ acts \in 0..MaxChildActs

\* Between the rendering of the rows and their marks, the last report of a child that rests
\* is one the mother's model was given.
CopiesInv ==
    \A t \in TurnIds, c \in Children :
        at[t] = "mark" /\ <<c, "last">> \in snap[t] /\ card[c] = "ended" => c \in shown

\* The mother's turn marks the row of c for a copy of an older report: one rendered before
\* the report that the row holds by now was saved, or steered before it.
MarksOlder(c) ==
    \/ \E t \in TurnIds : TextMarks(t) /\ <<c, "older">> \in snap[t]
    \/ \E t \in TurnIds : ReportsRead(t) /\ <<c, "older">> \in letters

\* A row that says the mother saw a report she was not given.
MarkedUnseen(c) == card[c] = "ended" /\ c \in reported /\ c \notin shown

\* Every other step that marks a report has shown it.
OnlyOlderCopiesMislead ==
    [][\A c \in Children : MarkedUnseen(c)' => MarkedUnseen(c) \/ MarksOlder(c)]_childVars

\* The copies a worker keeps, once one of them is older.
LEMMA AgedCopies ==
    ASSUME NEW S \in SUBSET ReportCopies, NEW c \in Children
    PROVE  /\ Aged(S, c) \in SUBSET ReportCopies
           /\ \A d \in Children : <<d, "last">> \in Aged(S, c) => d # c /\ <<d, "last">> \in S
<1>1. ASSUME NEW p \in S
      PROVE  /\ p[1] \in Children /\ p[2] \in {"last", "older"} /\ p = <<p[1], p[2]>>
  BY <1>1 DEF ReportCopies
<1>2. ASSUME NEW q \in Aged(S, c)
      PROVE  \E p \in S : q = <<p[1], IF p[1] = c THEN "older" ELSE p[2]>>
  BY <1>2 DEF Aged
<1>3. ASSUME NEW q \in Aged(S, c) PROVE q \in ReportCopies
  <2>1. PICK p \in S : q = <<p[1], IF p[1] = c THEN "older" ELSE p[2]>> BY <1>2, <1>3
  <2>2. QED BY <1>1, <2>1 DEF ReportCopies
<1>4. ASSUME NEW d \in Children, <<d, "last">> \in Aged(S, c) PROVE d # c /\ <<d, "last">> \in S
  <2>1. PICK p \in S : <<d, "last">> = <<p[1], IF p[1] = c THEN "older" ELSE p[2]>>
    BY <1>2, <1>4
  <2>2. d = p[1] /\ "last" = (IF p[1] = c THEN "older" ELSE p[2]) BY <2>1
  <2>3. QED BY <1>1, <2>2
<1>5. QED BY <1>3, <1>4

\* A worker at another place, with other copies.
LEMMA CopiesMove ==
    ASSUME WorkersInv, ReportTypes, CopiesInv, NEW t \in TurnIds, NEW l,
           NEW S \in SUBSET ReportCopies,
           \/ Keeps(t, l, S) \/ Ends(t),
           shown \subseteq shown', card' = card,
           l = "mark" =>
             \A c \in Children : <<c, "last">> \in S /\ card[c] = "ended" => c \in shown'
    PROVE  snap' \in [TurnIds -> SUBSET ReportCopies] /\ CopiesInv'
<1>1. CASE Keeps(t, l, S)
  <2>1. at' = [at EXCEPT ![t] = l] /\ snap' = [snap EXCEPT ![t] = S] BY <1>1 DEF Keeps
  <2>2. /\ snap' \in [TurnIds -> SUBSET ReportCopies]
        /\ snap'[t] = S /\ at'[t] = l
        /\ \A u \in TurnIds : u # t => snap'[u] = snap[u] /\ at'[u] = at[u]
    BY <2>1 DEF ReportTypes, WorkersInv
  <2>3. QED BY <2>2 DEF CopiesInv
<1>2. CASE Ends(t)
  <2>1. at' = [at EXCEPT ![t] = "none"] /\ snap' = [snap EXCEPT ![t] = {}] BY <1>2 DEF Ends
  <2>2. /\ snap' \in [TurnIds -> SUBSET ReportCopies]
        /\ snap'[t] = {} /\ at'[t] = "none"
        /\ \A u \in TurnIds : u # t => snap'[u] = snap[u] /\ at'[u] = at[u]
    BY <2>1 DEF ReportTypes, WorkersInv
  <2>3. QED BY <2>2 DEF CopiesInv
<1>3. QED BY <1>1, <1>2

\* A turn that begins keeps the copies, and marks at most one child as working.
LEMMA CopiesBegin ==
    ASSUME WorkersInv, ReportTypes, CopiesInv, NEW s \in Conversations, NEW b, NewTurn(s, b),
           shown' = shown
    PROVE  snap' = snap /\ CopiesInv' /\ \A c \in Children : card'[c] = "ended" => card[c] = "ended"
<1>1. PICK n \in NextId : at' = [at EXCEPT ![n] = IF s = Mother THEN "prep" ELSE "run"]
  BY DEF NewTurn
<1>2. n \in TurnIds BY DEF NextId
<1>3. \A u \in TurnIds : at'[u] = "mark" => at[u] = "mark"
  BY <1>1, <1>2 DEF WorkersInv
<1>4. \A c \in Children : card'[c] = "ended" => card[c] = "ended"
  BY DEF NewTurn, WorkersInv
<1>5. snap' = snap BY DEF NewTurn
<1>6. QED BY <1>3, <1>4, <1>5 DEF CopiesInv

\* One step: the types, the copies, and what is marked.
CopiesKept ==
    ReportTypes' /\ CopiesInv'
    /\ \A c \in Children : MarkedUnseen(c)' => MarkedUnseen(c) \/ MarksOlder(c)

\* A step that marks no row and forgets nothing that was shown.
LEMMA NothingMarked ==
    ASSUME ReportTypes', CopiesInv', reported' \subseteq reported, shown \subseteq shown',
           \A c \in Children : card'[c] = "ended" => card[c] = "ended"
    PROVE  CopiesKept
BY DEF CopiesKept, MarkedUnseen

\* The calls of the owner and of the mother.
LEMMA CallsKeepCopies ==
    ASSUME WorkersInv, ReportTypes, CopiesInv,
           \/ \E s \in Conversations : OwnerStarts(s)
           \/ \E c \in Children : Create(c) \/ Message(c) \/ MessageMarks(c)
           \/ \E t \in TurnIds : ReadMail(t)
    PROVE  CopiesKept
<1> USE ChildrenAssumption DEF motherVars, cardVars
<1>1. UNCHANGED <<letters, ownerRow, reported, flying, shown, stopped>>
  BY DEF OwnerStarts, Create, Message, MessageMarks, ReadMail
<1>2. mail' \subseteq Children /\ marking' \subseteq Children
  BY DEF OwnerStarts, Create, Message, MessageMarks, ReadMail, ReportTypes
<1>3. acts' \in 0..MaxChildActs
  <2>1. acts' = acts \/ Asked BY DEF OwnerStarts, Create, Message, MessageMarks, ReadMail
  <2>2. acts \in 0..MaxChildActs /\ MaxChildActs \in Nat BY DEF ReportTypes
  <2>3. QED BY <2>1, <2>2 DEF Asked
<1>4. Children \subseteq Conversations BY DEF Conversations
<1>5. \/ \E s \in Conversations, b \in {"owner", "parent"} : NewTurn(s, b)
      \/ /\ UNCHANGED <<at, snap>>
         /\ \A c \in Children : card'[c] = "ended" => card[c] = "ended"
  BY <1>4 DEF OwnerStarts, Create, Message, MessageMarks, ReadMail, WorkersInv
<1>6. /\ snap' = snap /\ CopiesInv'
      /\ \A c \in Children : card'[c] = "ended" => card[c] = "ended"
  <2>1. CASE \E s \in Conversations, b \in {"owner", "parent"} : NewTurn(s, b)
    BY <1>1, <2>1, CopiesBegin
  <2>2. CASE /\ UNCHANGED <<at, snap>>
             /\ \A c \in Children : card'[c] = "ended" => card[c] = "ended"
    BY <1>1, <2>2 DEF CopiesInv
  <2>3. QED BY <1>5, <2>1, <2>2
<1>7. ReportTypes' BY <1>1, <1>2, <1>3, <1>6 DEF ReportTypes
<1>8. QED BY <1>1, <1>6, <1>7, NothingMarked

\* A report is saved: every copy of the child's report is older from now on, and its row is
\* not marked.
LEMMA ReportKeepsCopies ==
    ASSUME WorkersInv, ReportTypes, CopiesInv, NEW t \in TurnIds, ReportTurn(t)
    PROVE  CopiesKept
<1> USE DEF askVars
<1>1. /\ of[t] \in Children /\ card' = [card EXCEPT ![of[t]] = "ended"]
      /\ reported' = reported \ {of[t]} /\ shown' = shown \ {of[t]}
      /\ at' = [at EXCEPT ![t] = "kick"]
      /\ snap' = [u \in TurnIds |-> Aged(snap[u], of[t])] /\ letters' = Aged(letters, of[t])
      /\ UNCHANGED <<flying, stopped, mail, marking, acts>>
      /\ ownerRow' \subseteq ownerRow \cup {of[t]}
  BY DEF ReportTurn, WorkersInv
<1>2. \A u \in TurnIds : snap[u] \in SUBSET ReportCopies BY DEF ReportTypes
<1>3. /\ \A u \in TurnIds : snap'[u] \in SUBSET ReportCopies
      /\ \A u \in TurnIds, d \in Children :
           <<d, "last">> \in snap'[u] => d # of[t] /\ <<d, "last">> \in snap[u]
  BY <1>1, <1>2, AgedCopies
<1>4. snap' \in [TurnIds -> SUBSET ReportCopies] BY <1>1, <1>3
<1>5. letters' \in SUBSET ReportCopies BY <1>1, AgedCopies DEF ReportTypes
<1>6. ReportTypes' BY <1>1, <1>4, <1>5 DEF ReportTypes
<1>7. \A u \in TurnIds : at'[u] = "mark" => at[u] = "mark" BY <1>1 DEF WorkersInv
<1>8. \A d \in Children : d # of[t] => card'[d] = card[d] BY <1>1 DEF WorkersInv
<1>9. CopiesInv' BY <1>1, <1>3, <1>7, <1>8 DEF CopiesInv
<1>10. \A c \in Children : MarkedUnseen(c)' => MarkedUnseen(c)
  BY <1>1, <1>8 DEF MarkedUnseen
<1>11. QED BY <1>6, <1>9, <1>10 DEF CopiesKept

\* The other steps of a worker mark no row.
LEMMA WorkersKeepCopies ==
    ASSUME WorkersInv, ReportTypes, CopiesInv, NEW t \in TurnIds,
           \/ EndChild(t) \/ KickChild(t) \/ AfterTurn(t) \/ QuietCheck(t) \/ WakeStep(t)
           \/ TextReads(t) \/ EndMother(t) \/ MotherDone(t) \/ MotherAfterTurn(t)
    PROVE  CopiesKept
<1> USE DEF cardVars, motherVars, askVars, GoesOn
<1>0. snap[t] \in SUBSET ReportCopies /\ {} \in SUBSET ReportCopies
      /\ Opened \subseteq Children
  BY ChildrenAssumption DEF ReportTypes
<1>1. ASSUME NEW l, NEW S \in SUBSET ReportCopies, Keeps(t, l, S) \/ Ends(t),
             shown \subseteq shown', UNCHANGED <<card, ownerRow, reported>>,
             flying' \subseteq Children, letters' \in SUBSET ReportCopies,
             shown' \subseteq Children, mail' \subseteq Children, marking' \subseteq Children,
             stopped' \in BOOLEAN, acts' = acts,
             l = "mark" =>
               \A c \in Children : <<c, "last">> \in S /\ card[c] = "ended" => c \in shown'
      PROVE  CopiesKept
  <2>1. snap' \in [TurnIds -> SUBSET ReportCopies] /\ CopiesInv' BY <1>1, CopiesMove
  <2>2. ReportTypes' BY <1>1, <2>1 DEF ReportTypes
  <2>3. QED BY <1>1, <2>1, <2>2, NothingMarked
<1>2. ASSUME NEW l, l # "mark", NEW S \in SUBSET ReportCopies, Keeps(t, l, S) \/ Ends(t),
             UNCHANGED <<card, ownerRow, reported, shown, acts>>,
             flying' \subseteq Children, letters' \in SUBSET ReportCopies,
             mail' \subseteq Children, marking' \subseteq Children, stopped' \in BOOLEAN
      PROVE  CopiesKept
  BY <1>1, <1>2 DEF ReportTypes
<1>3. ASSUME NEW l, l # "mark", NEW S \in SUBSET ReportCopies, Keeps(t, l, S) \/ Ends(t),
             UNCHANGED <<cardVars, motherVars, askVars>>
      PROVE  CopiesKept
  BY <1>2, <1>3 DEF ReportTypes
<1>4. CASE EndChild(t)
  <2>1. /\ Keeps(t, "done", snap[t]) /\ mail' \subseteq mail
        /\ UNCHANGED <<cardVars, motherVars, marking, acts>>
    BY <1>4 DEF EndChild
  <2>2. QED BY <1>0, <1>2, <2>1 DEF ReportTypes
<1>5. CASE KickChild(t)
  <2>1. /\ NewTurn(of[t], "parent") /\ of[t] \in Conversations /\ mail' \subseteq mail
        /\ UNCHANGED <<ownerRow, reported, motherVars, marking, acts>>
    BY <1>5 DEF KickChild, WorkersInv
  <2>2. /\ snap' = snap /\ CopiesInv'
        /\ \A c \in Children : card'[c] = "ended" => card[c] = "ended"
    BY <2>1, CopiesBegin
  <2>3. ReportTypes' BY <2>1, <2>2 DEF ReportTypes
  <2>4. QED BY <2>1, <2>2, <2>3, NothingMarked
<1>6. CASE AfterTurn(t) \/ QuietCheck(t)
  <2>1. /\ Ends(t) \/ Keeps(t, "timer", snap[t]) \/ Keeps(t, "pending", snap[t])
        /\ UNCHANGED <<cardVars, motherVars, askVars>>
    BY <1>6 DEF AfterTurn, QuietCheck
  <2>2. QED BY <1>0, <1>3, <2>1
<1>7. CASE WakeStep(t)
  <2>1. CASE WakePending(t) \/ WakeBusy(t)
    <3>1. Waking(t) \in SUBSET ReportCopies BY <1>0 DEF Waking, ReportCopies
    <3>2. /\ \/ Ends(t) \/ Keeps(t, "busy", Waking(t)) \/ Keeps(t, "fly", snap[t])
             \/ Keeps(t, "start", {})
          /\ UNCHANGED <<cardVars, motherVars, askVars>>
      BY <2>1 DEF WakePending, WakeBusy
    <3>3. QED BY <1>0, <1>3, <3>1, <3>2
  <2>2. CASE WakeStart(t)
    <3>1. UNCHANGED <<ownerRow, reported, motherVars, askVars>> BY <2>2 DEF WakeStart
    <3>2. CASE Busies(Mother)
      <4>1. Ends(t) /\ UNCHANGED <<cardVars, motherVars, askVars>>
        BY <2>2, <3>2 DEF WakeStart
      <4>2. "none" # "mark" OBVIOUS
      <4>3. QED BY <1>0, <1>3, <4>1, <4>2
    <3>3. CASE ~Busies(Mother)
      <4>1. PICK n \in NextId : /\ at' = [at EXCEPT ![n] = "prep", ![t] = "none"]
                                /\ UNCHANGED <<snap, card>>
        BY <2>2, <3>3 DEF WakeStart
      <4>2. \A u \in TurnIds : at'[u] = "mark" => at[u] = "mark"
        BY <4>1 DEF WorkersInv, NextId
      <4>3. CopiesInv' BY <3>1, <4>1, <4>2 DEF CopiesInv
      <4>4. ReportTypes' BY <3>1, <4>1 DEF ReportTypes
      <4>5. QED BY <3>1, <4>1, <4>3, <4>4, NothingMarked
    <3>4. QED BY <3>2, <3>3
  <2>3. CASE WakeFly(t)
    <3> DEFINE fresh == {p \in snap[t] : p[1] \notin flying}
    <3>1. fresh \in SUBSET ReportCopies BY <1>0
    <3>2. \A p \in snap[t] : p[1] \in Children BY <1>0 DEF ReportCopies
    <3>3. flying' \subseteq Children BY <2>3, <3>2 DEF WakeFly, ReportTypes
    <3>4. /\ Ends(t) \/ Keeps(t, "steer", fresh)
          /\ UNCHANGED <<cardVars, letters, shown, stopped, askVars>>
      BY <2>3 DEF WakeFly
    <3> HIDE DEF fresh
    <3>5. QED BY <1>2, <3>1, <3>3, <3>4 DEF ReportTypes
  <2>4. CASE WakeSteer(t)
    <3>1. /\ Ends(t) \/ Keeps(t, "forget", snap[t])
          /\ letters' = letters \/ letters' = letters \cup snap[t]
          /\ UNCHANGED <<cardVars, flying, shown, stopped, askVars>>
      BY <2>4 DEF WakeSteer
    <3>2. letters' \in SUBSET ReportCopies BY <1>0, <3>1 DEF ReportTypes
    <3>3. QED BY <1>0, <1>2, <3>1, <3>2 DEF ReportTypes
  <2>5. CASE WakeForget(t)
    <3>1. /\ Ends(t) /\ flying' \subseteq flying
          /\ UNCHANGED <<cardVars, letters, shown, stopped, askVars>>
      BY <2>5 DEF WakeForget
    <3>2. "none" # "mark" OBVIOUS
    <3>3. QED BY <1>0, <1>2, <3>1, <3>2 DEF ReportTypes
  <2>6. QED BY <1>7, <2>1, <2>2, <2>3, <2>4, <2>5 DEF WakeStep
<1>8. CASE TextReads(t)
  <2>1. /\ Keeps(t, "mark", (Children \ reported) \X {"last"})
        /\ shown' = shown \cup {c \in Children \ reported : card[c] # "working"}
        /\ UNCHANGED <<cardVars, flying, letters, stopped, askVars>>
    BY <1>8 DEF TextReads
  <2>2. (Children \ reported) \X {"last"} \in SUBSET ReportCopies BY DEF ReportCopies
  <2>3. \A c \in Children :
          <<c, "last">> \in (Children \ reported) \X {"last"} /\ card[c] = "ended" => c \in shown'
    BY <2>1
  <2>4. shown \subseteq shown' /\ shown' \subseteq Children BY <2>1 DEF ReportTypes
  <2>5. QED BY <1>1, <2>1, <2>2, <2>3, <2>4 DEF ReportTypes
<1>9. CASE EndMother(t)
  <2>1. /\ Keeps(t, "closing", snap[t]) /\ letters' = {} /\ stopped' \in BOOLEAN
        /\ UNCHANGED <<cardVars, flying, shown, askVars>>
    BY <1>9 DEF EndMother
  <2>2. QED BY <1>0, <1>2, <2>1 DEF ReportTypes
<1>10. CASE MotherDone(t)
  <2>1. /\ Keeps(t, "popstop", snap[t]) \/ Keeps(t, "pop", snap[t])
        /\ UNCHANGED <<cardVars, motherVars, askVars>>
    BY <1>10 DEF MotherDone
  <2>2. QED BY <1>0, <1>3, <2>1
<1>11. CASE MotherAfterTurn(t)
  <2>1. /\ Ends(t) \/ Keeps(t, "pending", snap[t])
        /\ UNCHANGED <<cardVars, letters, shown, stopped, askVars>>
    BY <1>11 DEF MotherAfterTurn
  <2>2. flying' = {} BY <1>11 DEF MotherAfterTurn
  <2>3. QED BY <1>0, <1>2, <2>1, <2>2 DEF ReportTypes
<1>12. QED BY <1>4, <1>5, <1>6, <1>7, <1>8, <1>9, <1>10, <1>11

\* The two steps that mark rows have shown the reports that are still the last.
LEMMA MarksKeepCopies ==
    ASSUME WorkersInv, ReportTypes, CopiesInv, NEW t \in TurnIds, TextMarks(t) \/ ReportsRead(t)
    PROVE  CopiesKept
<1> USE DEF motherVars, askVars
<1>0. /\ snap[t] \in SUBSET ReportCopies /\ {} \in SUBSET ReportCopies
      /\ letters \in SUBSET ReportCopies
  BY DEF ReportTypes
<1>1. ASSUME NEW p \in ReportCopies
      PROVE  p[1] \in Children /\ (p = <<p[1], "last">> \/ p = <<p[1], "older">>)
  BY <1>1 DEF ReportCopies
<1>2. CASE TextMarks(t)
  <2>1. /\ at[t] = "mark" /\ reported' = reported \cup {p[1] : p \in snap[t]}
        /\ Keeps(t, "run", {}) /\ UNCHANGED <<card, ownerRow, motherVars, askVars>>
    BY <1>2 DEF TextMarks
  <2>2. snap' \in [TurnIds -> SUBSET ReportCopies] /\ CopiesInv'
    BY <1>0, <2>1, CopiesMove
  <2>3. reported' \subseteq Children BY <1>0, <1>1, <2>1 DEF ReportTypes
  <2>4. ReportTypes' BY <2>1, <2>2, <2>3 DEF ReportTypes
  <2>5. ASSUME NEW c \in Children, MarkedUnseen(c)', ~MarkedUnseen(c) PROVE MarksOlder(c)
    <3>1. card[c] = "ended" /\ c \notin shown /\ c \in reported' /\ c \notin reported
      BY <2>1, <2>5 DEF MarkedUnseen
    <3>2. PICK p \in snap[t] : p[1] = c BY <2>1, <3>1
    <3>3. p = <<c, "last">> \/ p = <<c, "older">> BY <1>0, <1>1, <3>2
    <3>4. <<c, "last">> \notin snap[t] BY <2>1, <3>1 DEF CopiesInv
    <3>5. QED BY <1>2, <3>2, <3>3, <3>4 DEF MarksOlder
  <2>6. QED BY <2>2, <2>4, <2>5 DEF CopiesKept
<1>3. CASE ReportsRead(t)
  <2>1. /\ shown' = shown \cup {c \in Children : <<c, "last">> \in letters}
        /\ reported' = reported \cup {p[1] : p \in letters}
        /\ flying' \subseteq flying /\ letters' = {}
        /\ UNCHANGED <<at, snap, card, ownerRow, stopped, askVars>>
    BY <1>3 DEF ReportsRead
  <2>2. reported' \subseteq Children BY <1>0, <1>1, <2>1 DEF ReportTypes
  <2>3. ReportTypes' BY <2>1, <2>2 DEF ReportTypes
  <2>4. CopiesInv' BY <2>1 DEF CopiesInv
  <2>5. ASSUME NEW c \in Children, MarkedUnseen(c)', ~MarkedUnseen(c) PROVE MarksOlder(c)
    <3>1. c \notin shown' /\ c \in reported' /\ c \notin reported
      BY <2>1, <2>5 DEF MarkedUnseen
    <3>2. PICK p \in letters : p[1] = c BY <2>1, <3>1
    <3>3. p = <<c, "last">> \/ p = <<c, "older">> BY <1>0, <1>1, <3>2
    <3>4. <<c, "last">> \notin letters BY <2>1, <3>1
    <3>5. QED BY <1>3, <3>2, <3>3, <3>4 DEF MarksOlder
  <2>6. QED BY <2>3, <2>4, <2>5 DEF CopiesKept
<1>4. QED BY <1>2, <1>3

\* One step of the owner, the mother or a worker.
LEMMA CopiesStep ==
    ASSUME WorkersInv, ReportTypes, CopiesInv, [ChildrenNext]_childVars
    PROVE  CopiesKept
<1>1. CASE UNCHANGED childVars
  <2>1. ReportTypes' /\ CopiesInv' BY <1>1 DEF childVars, ReportTypes, CopiesInv
  <2>2. QED BY <1>1, <2>1, NothingMarked DEF childVars
<1>2. CASE ChildrenNext
  BY <1>2, CallsKeepCopies, ReportKeepsCopies, WorkersKeepCopies, MarksKeepCopies
  DEF ChildrenNext, WorkerStep
<1>3. QED BY <1>1, <1>2

\* The reports and the copies in hand, in every state of the children.
LEMMA CopiesAlways == ChildrenSpec => [](ChildrenInv /\ ReportTypes /\ CopiesInv)
<1>1. ChildrenInit => ReportTypes /\ CopiesInv
  <2>1. SUFFICES ASSUME ChildrenInit PROVE ReportTypes /\ CopiesInv OBVIOUS
  <2>2. MaxChildActs \in Nat BY ChildrenAssumption
  <2>3. snap \in [TurnIds -> SUBSET ReportCopies]
    <3>1. snap = [t \in TurnIds |-> {}] BY <2>1 DEF ChildrenInit
    <3>2. QED BY <3>1
  <2>4. acts \in 0..MaxChildActs
    <3>1. acts = 0 BY <2>1 DEF ChildrenInit
    <3>2. QED BY <2>2, <3>1
  <2>5. /\ letters = {} /\ ownerRow = {} /\ reported = Children /\ flying = {}
        /\ mail = {} /\ marking = {} /\ shown = {} /\ stopped = FALSE
    BY <2>1 DEF ChildrenInit
  <2>6. ReportTypes BY <2>3, <2>4, <2>5 DEF ReportTypes
  <2>7. \A t \in TurnIds : at[t] = "none" BY <2>1 DEF ChildrenInit
  <2>8. QED BY <2>6, <2>7 DEF CopiesInv
<1>2. ChildrenInv => WorkersInv BY DEF ChildrenInv
<1>3. ReportTypes /\ CopiesInv /\ WorkersInv /\ [ChildrenNext]_childVars
        => (ReportTypes /\ CopiesInv)'
  BY CopiesStep DEF CopiesKept
<1>4. QED BY <1>1, <1>2, <1>3, ChildrenStart, ChildrenStep, PTL DEF ChildrenSpec

\* The rows, the workers and their copies of reports keep their types.
THEOREM ChildrenTypesTheorem == ChildrenSpec => []ChildrenTypeOK
<1>1. ChildrenInv /\ ReportTypes => ChildrenTypeOK
  BY DEF ChildrenInv, WorkersInv, ReportTypes, ReportCopies, WorkerPlaces, ChildrenTypeOK
<1>2. QED BY <1>1, CopiesAlways, PTL

\* "Rendering them is how the mother sees a report: it is marked seen" (_children_text): a
\* row is marked for a report she was not given only through a copy of an older one.
THEOREM OnlyOlderCopiesMisleadTheorem == ChildrenSpec => OnlyOlderCopiesMislead
<1>1. ASSUME WorkersInv, ReportTypes, CopiesInv, [ChildrenNext]_childVars
      PROVE  [\A c \in Children : MarkedUnseen(c)' => MarkedUnseen(c) \/ MarksOlder(c)]_childVars
  BY <1>1, CopiesStep DEF CopiesKept
<1>2. ChildrenInv => WorkersInv BY DEF ChildrenInv
<1>3. QED BY <1>1, <1>2, CopiesAlways, PTL DEF ChildrenSpec, OnlyOlderCopiesMislead

=============================================================================
