------------------------ MODULE OperationLedgerProofs ------------------------
(***************************************************************************)
(* What OperationLedger promises for every set of operations and requests, *)
(* any number of turns and of Engine processes.                            *)
(***************************************************************************)
EXTENDS OperationLedger, TLAPS

-----------------------------------------------------------------------------
(***************************************************************************)
(* Types.                                                                  *)
(***************************************************************************)

\* finish writes a state of the ledger, whatever row it meets (OperationStore.finish).
LEMMA FinishRowType ==
    ASSUME TypeOK, NEW t, NEW e, NEW s \in States, FinishRow(t, e, s)
    PROVE  state' \in [Ops -> States]
BY DEF TypeOK, FinishRow

\* The types hold at the start and every step of every process keeps them.
LEMMA TypeStep == TypeOK /\ [Next]_vars => TypeOK'
<1> SUFFICES ASSUME TypeOK, [Next]_vars PROVE TypeOK' OBVIOUS
<1> USE LedgerAssumption DEF Turns, Engines
<1>1. ASSUME NEW e \in Engines, NEW o \in Ops, NEW r \in Requests, OperationStart(e, o, r)
      PROVE TypeOK'
  <2>1. CASE Insert(e, o, r)
    <3>1. nturn + 1 \in 1..MaxTurns BY <2>1 DEF Insert, TypeOK
    <3>2. /\ state' \in [Ops -> States] /\ turnOf' \in [Ops -> 0..MaxTurns]
          /\ instance' \in [Ops -> 0..MaxEngines] /\ request' \in [Ops -> SUBSET Requests]
      BY <2>1, <3>1 DEF Insert, TypeOK, States, Pending
    <3>3. /\ opOf' \in [Turns -> Ops \cup {NoOp}] /\ owner' \in [Turns -> 0..MaxEngines]
          /\ place' \in [Turns -> Places] /\ call' \in [Engines -> Ops \cup {NoOp}]
      BY <2>1, <3>1 DEF Insert, TypeOK, Places
    <3>4. QED BY <2>1, <3>1, <3>2, <3>3 DEF Insert, TypeOK, logVars
  <2>2. CASE UNCHANGED vars BY <2>2 DEF TypeOK, vars
  <2>3. QED BY <1>1, <2>1, <2>2 DEF OperationStart
<1>2. ASSUME NEW e \in Engines, NEW o \in Ops, OperationCancel(e, o) PROVE TypeOK'
  <2>1. state' \in [Ops -> States]
    BY <1>2, FinishRowType DEF OperationCancel, States, Pending
  <2>2. turnOf[o] \in Turns
    BY <1>2 DEF OperationCancel, LiveIn
  <2>3. QED
    BY <1>2, <2>1, <2>2 DEF OperationCancel, TypeOK, engineVars, turnVars, logVars
<1>3. ASSUME NEW e \in Engines, StartTurn(e) PROVE TypeOK'
  <2>1. nturn + 1 \in Turns BY <1>3 DEF StartTurn, TypeOK
  <2>2. started' \subseteq Turns BY <1>3, <2>1 DEF StartTurn, LogStarted, TypeOK
  <2>3. QED BY SMTT(30), <1>3, <2>1, <2>2 DEF StartTurn, TypeOK, Places, rowVars, engineVars
<1>4. ASSUME NEW e \in Engines, NEW t \in Turns, DispatchRefused(e, t) PROVE TypeOK'
  <2>1. state' \in [Ops -> States]
    BY <1>4, FinishRowType DEF DispatchRefused, States
  <2>2. QED BY <1>4, <2>1 DEF DispatchRefused, TypeOK, Places, turnVars, logVars
<1>5. ASSUME NEW e \in Engines, NEW t \in Turns, Register(e, t) PROVE TypeOK'
  BY <1>5 DEF Register, LogStarted, TypeOK, Places, rowVars, engineVars, turnVars
<1>6. ASSUME NEW e \in Engines, Crash(e) PROVE TypeOK'
  BY <1>6 DEF Crash, TypeOK, Places, rowVars, turnVars, logVars
<1>7. ASSUME NEW e \in Engines, Reconcile(e) PROVE TypeOK'
  <2>1. CASE ReconcileProbe(e)
    <3>1. Orphans \ LiveIn(e) \in SUBSET Turns BY DEF Orphans, TypeOK
    <3>2. QED BY <2>1, <3>1 DEF ReconcileProbe, TypeOK, rowVars, turnVars, logVars
  <2>2. ASSUME NEW t \in Turns, ReconcileClose(e, t) PROVE TypeOK'
    BY <2>2 DEF ReconcileClose, TypeOK, rowVars, turnVars
  <2>3. QED BY <1>7, <2>1, <2>2 DEF Reconcile
<1>8. ASSUME NEW t \in Turns, Launch(t) PROVE TypeOK'
  BY <1>8 DEF Launch, Dispatched, TypeOK, Places, rowVars, logVars
<1>9. ASSUME NEW t \in Turns, LaunchFails(t) PROVE TypeOK'
  <2>1. state' \in [Ops -> States]
    BY <1>9, FinishRowType DEF LaunchFails, States
  <2>2. QED BY <1>9, <2>1 DEF LaunchFails, Dispatched, TypeOK, Places, turnVars, logVars
<1>10. ASSUME NEW t \in Turns, Finish(t) PROVE TypeOK'
  <2>1. verdict[t] \in States BY DEF TypeOK, States
  <2>2. state' \in [Ops -> States] BY <1>10, <2>1, FinishRowType DEF Finish
  <2>3. QED
    BY <1>10, <2>2 DEF Finish, TypeOK, Places, engineVars, turnVars, logVars
<1>11. ASSUME NEW t \in Turns, AcquireLock(t) \/ WorkEnds(t) \/ SetDone(t) PROVE TypeOK'
  <2>1. CASE AcquireLock(t) \/ SetDone(t)
    BY <2>1 DEF AcquireLock, SetDone, TypeOK, Places, rowVars, engineVars, turnVars, logVars
  <2>2. CASE WorkEnds(t)
    <3>1. verdict' \in [Turns -> Outcomes] BY <2>2 DEF WorkEnds, TypeOK
    <3>2. QED
      BY <2>2, <3>1 DEF WorkEnds, TypeOK, Places, rowVars, engineVars, turnVars, logVars
  <2>3. QED BY <1>11, <2>1, <2>2
<1>12. ASSUME NEW t \in Turns, LogEnded(t) \/ EmitTerminal(t) \/ FinishFails(t) PROVE TypeOK'
  BY ZenonT(30), <1>12 DEF LogEnded, EmitTerminal, FinishFails, TypeOK, Places, Outcomes, rowVars,
               engineVars, turnVars, logVars
<1>13. CASE EngineStart
  BY SMTT(30), <1>13 DEF EngineStart, TypeOK, rowVars, turnVars, logVars
<1>14. CASE UNCHANGED vars BY <1>14 DEF TypeOK, vars
<1>15. QED
  BY <1>1, <1>2, <1>3, <1>4, <1>5, <1>6, <1>7, <1>8, <1>9, <1>10, <1>11, <1>12, <1>13, <1>14
  DEF Next, Request, Dispatch, Worker

\* Every variable keeps its type: the columns of the ledger, the places of the
\* turns and the timeline.
THEOREM TypeCorrect == Spec => []TypeOK
<1>1. Init => TypeOK
  BY LedgerAssumption
  DEF Init, TypeOK, Turns, Engines, States, Places, Outcomes
<1>2. QED BY <1>1, TypeStep, PTL DEF Spec

-----------------------------------------------------------------------------
(***************************************************************************)
(* Rows and turns.  A row names one turn and that turn names the row; the  *)
(* row belongs to the process that runs the turn.                          *)
(***************************************************************************)

RowsAndTurns ==
    /\ \A t \in Turns :
        opOf[t] # NoOp =>
            /\ state[opOf[t]] # "none"
            /\ turnOf[opOf[t]] = t
            /\ instance[opOf[t]] = owner[t]
    /\ \A o \in Ops :
        state[o] # "none" => turnOf[o] \in Turns /\ opOf[turnOf[o]] = o
    /\ \A t \in Turns : t > nturn => opOf[t] = NoOp /\ place[t] = "none"

\* finish neither makes nor removes a row, and touches pending rows only.
LEMMA FinishRowKeeps ==
    ASSUME TypeOK, NEW t, NEW e, NEW s \in States \ {"none"}, FinishRow(t, e, s),
           NEW o \in Ops
    PROVE  /\ state'[o] = "none" <=> state[o] = "none"
           /\ state[o] \notin Pending => state'[o] = state[o]
           /\ turnOf[o] # t => state'[o] = state[o]
BY DEF TypeOK, FinishRow, Pending

\* The steps that write the ledger: the insertion of a claim, and finish.
LEMMA LedgerWrites ==
    ASSUME TypeOK, [Next]_vars
    PROVE  \/ \E e \in Engines, o \in Ops, r \in Requests :
                state[o] = "none" /\ Insert(e, o, r)
           \/ /\ UNCHANGED <<turnOf, instance, request, opOf>>
              /\ \/ UNCHANGED state
                 \/ \E t \in Turns, e \in 0..MaxEngines, s \in States \ {"none"} :
                        FinishRow(t, e, s)
<1> USE DEF rowVars, turnVars
<1>1. ASSUME NEW e \in Engines, Request(e) PROVE
        \/ \E o \in Ops, r \in Requests : state[o] = "none" /\ Insert(e, o, r)
        \/ /\ UNCHANGED <<turnOf, instance, request, opOf>>
           /\ \/ UNCHANGED state
              \/ \E t \in Turns, s \in States \ {"none"} : FinishRow(t, e, s)
  <2>1. ASSUME NEW o \in Ops, OperationCancel(e, o)
        PROVE  /\ UNCHANGED <<turnOf, instance, request, opOf>>
               /\ \E t \in Turns, s \in States \ {"none"} : FinishRow(t, e, s)
    <3>1. turnOf[o] \in Turns /\ FinishRow(turnOf[o], e, "cancelling")
      BY <2>1 DEF OperationCancel, LiveIn
    <3>2. QED BY <2>1, <3>1 DEF OperationCancel, States, Pending
  <2>2. QED BY <1>1, <2>1 DEF Request, OperationStart, StartTurn, vars
<1>2. ASSUME NEW e \in Engines, Dispatch(e) PROVE
        /\ UNCHANGED <<turnOf, instance, request, opOf>>
        /\ \/ UNCHANGED state
           \/ \E t \in Turns, s \in States \ {"none"} : FinishRow(t, e, s)
  BY <1>2 DEF Dispatch, DispatchRefused, Register, States
<1>3. ASSUME NEW e \in Engines, Reconcile(e) \/ Crash(e)
      PROVE  UNCHANGED <<state, turnOf, instance, request, opOf>>
  BY <1>3 DEF Reconcile, ReconcileProbe, ReconcileClose, Crash
<1>4. ASSUME NEW t \in Turns, Launch(t) \/ FinishFails(t)
      PROVE  UNCHANGED <<state, turnOf, instance, request, opOf>>
  BY <1>4 DEF Launch, FinishFails
<1>5. ASSUME NEW t \in Turns, LaunchFails(t) \/ Worker(t)
      PROVE  /\ UNCHANGED <<turnOf, instance, request, opOf>>
             /\ \/ UNCHANGED state
                \/ \E s \in States \ {"none"} : FinishRow(t, owner[t], s)
  <2>1. verdict[t] \in States \ {"none"} BY DEF TypeOK, States, Outcomes
  <2>2. CASE LaunchFails(t) BY <2>2 DEF LaunchFails, States
  <2>3. CASE Finish(t) BY <2>1, <2>3 DEF Finish
  <2>4. CASE AcquireLock(t) \/ WorkEnds(t) \/ LogEnded(t) \/ EmitTerminal(t) \/ SetDone(t)
    BY <2>4 DEF AcquireLock, WorkEnds, LogEnded, EmitTerminal, SetDone
  <2>5. QED BY <1>5, <2>2, <2>3, <2>4 DEF Worker
<1>6. CASE EngineStart BY <1>6 DEF EngineStart
<1>7. CASE UNCHANGED vars BY <1>7 DEF vars
<1>8. Engines \subseteq 0..MaxEngines /\ \A t \in Turns : owner[t] \in 0..MaxEngines
  BY DEF Engines, TypeOK
<1>9. QED
  <2>1. CASE \E e \in Engines : Request(e) BY <1>1, <1>8, <2>1
  <2>2. CASE \E e \in Engines : Dispatch(e) BY <1>2, <1>8, <2>2
  <2>3. CASE \E e \in Engines : Reconcile(e) \/ Crash(e) BY <1>3, <2>3
  <2>4. CASE \E t \in Turns : Launch(t) \/ FinishFails(t) BY <1>4, <2>4
  <2>5. CASE \E t \in Turns : LaunchFails(t) \/ Worker(t) BY <1>5, <1>8, <2>5
  <2>6. QED BY <1>6, <1>7, <2>1, <2>2, <2>3, <2>4, <2>5 DEF Next

\* A row that is not pending is never written again: not by a late cancellation,
\* not by the worker, not by a dispatch that fails (finish, and claim's insert).
THEOREM OutcomesStandTheorem == Spec => OutcomesStand
<1>1. TypeOK /\ [Next]_vars =>
        [\A o \in Ops : state[o] \notin Pending \cup {"none"} => state'[o] = state[o]]_vars
  <2> SUFFICES ASSUME TypeOK, [Next]_vars, NEW o \in Ops, state[o] \notin Pending \cup {"none"}
               PROVE  state'[o] = state[o]
    OBVIOUS
  <2>1. ASSUME NEW e \in Engines, NEW p \in Ops, NEW r \in Requests, state[p] = "none",
               Insert(e, p, r)
        PROVE  state'[o] = state[o]
    BY <2>1 DEF Insert, TypeOK
  <2>2. ASSUME NEW t \in Turns, NEW e \in 0..MaxEngines, NEW s \in States \ {"none"},
               FinishRow(t, e, s)
        PROVE  state'[o] = state[o]
    BY <2>2, FinishRowKeeps
  <2>3. QED BY <2>1, <2>2, LedgerWrites
<1>2. QED BY <1>1, TypeCorrect, PTL DEF Spec, OutcomesStand

\* A turn id that was given out keeps its owner, and one that was not is nowhere:
\* only the places of turns in being move.
LEMMA TurnWrites ==
    ASSUME TypeOK, RowsAndTurns, [Next]_vars
    PROVE  /\ nturn <= nturn' /\ nturn' <= nturn + 1
           /\ \A t \in Turns : t <= nturn => owner'[t] = owner[t]
           /\ \A t \in Turns : t > nturn' => place'[t] = "none"
<1> DEFINE Goal == /\ nturn <= nturn' /\ nturn' <= nturn + 1
                   /\ \A t \in Turns : t <= nturn => owner'[t] = owner[t]
                   /\ \A t \in Turns : t > nturn' => place'[t] = "none"
           Moves(S) == /\ UNCHANGED <<nturn, owner>>
                       /\ \A t \in Turns \ S : place'[t] = place[t]
                       /\ \A t \in Turns \cap S : place[t] # "none"
<1> SUFFICES Goal OBVIOUS
<1>0. /\ nturn \in Nat /\ place \in [Turns -> Places] /\ owner \in [Turns -> 0..MaxEngines]
      /\ \A t \in Turns : t > nturn => place[t] = "none"
  BY LedgerAssumption DEF TypeOK, RowsAndTurns
<1>1. ASSUME NEW S, Moves(S) PROVE Goal
  BY <1>0, <1>1 DEF Turns
<1>2. ASSUME NEW e \in Engines, NEW o \in Ops, NEW r \in Requests, Insert(e, o, r) PROVE Goal
  BY <1>0, <1>2 DEF Insert, Turns
<1>3. ASSUME NEW e \in Engines, StartTurn(e) PROVE Goal
  BY <1>0, <1>3 DEF StartTurn, Turns
<1>4. ASSUME NEW e \in Engines, NEW o \in Ops, OperationCancel(e, o) PROVE Moves({})
  BY <1>4 DEF OperationCancel, turnVars
<1>5. ASSUME NEW e \in Engines, Dispatch(e) PROVE \E t \in Turns : Moves({t})
  BY <1>0, <1>5 DEF Dispatch, DispatchRefused, Register, turnVars
<1>6. ASSUME NEW e \in Engines, Reconcile(e) PROVE Moves({})
  BY <1>6 DEF Reconcile, ReconcileProbe, ReconcileClose, turnVars
<1>7. ASSUME NEW e \in Engines, Crash(e)
      PROVE  Moves({t \in Turns : place[t] \in Live \cup {"claimed"}})
  BY <1>0, <1>7 DEF Crash, Live, turnVars
<1>8. ASSUME NEW t \in Turns, Launch(t) \/ LaunchFails(t) \/ FinishFails(t) PROVE Moves({t})
  BY <1>0, <1>8 DEF Launch, LaunchFails, FinishFails, turnVars
<1>9. ASSUME NEW t \in Turns, Worker(t) PROVE Moves({t})
  BY <1>0, <1>9 DEF Worker, AcquireLock, WorkEnds, Finish, LogEnded, EmitTerminal, SetDone,
                    turnVars
<1>10. CASE EngineStart \/ UNCHANGED vars
  <2>1. Moves({}) BY <1>10 DEF EngineStart, turnVars, vars
  <2>2. QED BY <1>1, <2>1
<1>11. ASSUME NEW e \in Engines, Request(e) PROVE Goal
  <2>1. CASE UNCHANGED vars BY <1>10, <2>1
  <2>2. QED BY <1>1, <1>2, <1>3, <1>4, <1>11, <2>1 DEF Request, OperationStart
<1>12. QED
  <2>1. ASSUME NEW e \in Engines, Dispatch(e) \/ Reconcile(e) \/ Crash(e) PROVE Goal
    BY <1>1, <1>5, <1>6, <1>7, <2>1
  <2>2. ASSUME NEW t \in Turns, Launch(t) \/ LaunchFails(t) \/ FinishFails(t) \/ Worker(t)
        PROVE  Goal
    BY <1>1, <1>8, <1>9, <2>2
  <2>3. QED BY <1>10, <1>11, <2>1, <2>2 DEF Next

\* Every step keeps rows and turns in step; only a claim adds to them.
LEMMA RowsAndTurnsStep == TypeOK /\ RowsAndTurns /\ [Next]_vars => RowsAndTurns'
<1> SUFFICES ASSUME TypeOK, RowsAndTurns, [Next]_vars PROVE RowsAndTurns' OBVIOUS
<1>1. TypeOK' BY TypeStep
<1>2. ASSUME NEW e \in Engines, NEW o \in Ops, NEW r \in Requests, state[o] = "none",
             Insert(e, o, r)
      PROVE RowsAndTurns'
  <2> DEFINE t == nturn + 1
  <2>1. t \in Turns /\ nturn' = t /\ nturn \in Nat
    BY <1>2, LedgerAssumption DEF Insert, TypeOK, Turns
  <2>2. /\ opOf' = [opOf EXCEPT ![t] = o] /\ owner' = [owner EXCEPT ![t] = e]
        /\ place' = [place EXCEPT ![t] = "claimed"]
        /\ state' = [state EXCEPT ![o] = "running"]
        /\ turnOf' = [turnOf EXCEPT ![o] = t] /\ instance' = [instance EXCEPT ![o] = e]
    BY <1>2 DEF Insert
  <2>3. \A u \in Turns : opOf[u] # o BY <1>2, LedgerAssumption DEF RowsAndTurns
  <2>4. ASSUME NEW u \in Turns, opOf'[u] # NoOp
        PROVE  state'[opOf'[u]] # "none" /\ turnOf'[opOf'[u]] = u /\ instance'[opOf'[u]] = owner'[u]
    <3>1. CASE u = t BY <2>1, <2>2, <3>1 DEF TypeOK
    <3>2. CASE u # t
      <4>1. opOf'[u] = opOf[u] /\ owner'[u] = owner[u] BY <2>2, <3>2 DEF TypeOK
      <4>2. opOf[u] \in Ops /\ opOf[u] # o BY <2>3, <2>4, <4>1 DEF TypeOK
      <4>3. QED BY <2>2, <2>4, <4>1, <4>2 DEF RowsAndTurns, TypeOK
    <3>3. QED BY <3>1, <3>2
  <2>5. ASSUME NEW p \in Ops, state'[p] # "none"
        PROVE  turnOf'[p] \in Turns /\ opOf'[turnOf'[p]] = p
    <3>1. CASE p = o BY <2>1, <2>2, <3>1 DEF TypeOK
    <3>2. CASE p # o
      <4>1. /\ turnOf'[p] = turnOf[p] /\ turnOf[p] \in Turns /\ opOf[turnOf[p]] = p
        BY <2>2, <2>5, <3>2 DEF TypeOK, RowsAndTurns
      <4>2. opOf[t] = NoOp BY <2>1 DEF RowsAndTurns
      <4>3. turnOf[p] # t BY <4>1, <4>2, LedgerAssumption
      <4>4. QED BY <2>2, <4>1, <4>3 DEF TypeOK
    <3>3. QED BY <3>1, <3>2
  <2>6. \A u \in Turns : u > nturn' => opOf'[u] = NoOp /\ place'[u] = "none"
    BY <2>1, <2>2 DEF RowsAndTurns, TypeOK, Turns
  <2>7. QED BY <2>4, <2>5, <2>6 DEF RowsAndTurns
<1>3. ASSUME UNCHANGED <<turnOf, instance, request, opOf>>,
             \A o \in Ops : state'[o] = "none" <=> state[o] = "none"
      PROVE RowsAndTurns'
  <2>1. /\ nturn \in Nat /\ nturn' \in Nat /\ nturn <= nturn'
        /\ \A t \in Turns : t <= nturn => owner'[t] = owner[t]
        /\ \A t \in Turns : t > nturn' => place'[t] = "none"
    BY <1>1, TurnWrites DEF TypeOK
  <2>2. \A t \in Turns : opOf[t] # NoOp => t <= nturn
    BY <2>1 DEF RowsAndTurns, Turns
  <2>3. \A t \in Turns : opOf[t] # NoOp => opOf[t] \in Ops BY DEF TypeOK
  <2>4. QED BY <1>3, <2>1, <2>2, <2>3 DEF RowsAndTurns, Turns
<1>4. ASSUME NEW t \in Turns, NEW e \in 0..MaxEngines, NEW s \in States \ {"none"},
             FinishRow(t, e, s)
      PROVE  \A o \in Ops : state'[o] = "none" <=> state[o] = "none"
  BY <1>4, FinishRowKeeps
<1>5. QED BY <1>2, <1>3, <1>4, LedgerWrites

\* The pairing of rows and turns holds in every reachable state.
LEMMA RowsAndTurnsCorrect == Spec => [](TypeOK /\ RowsAndTurns)
<1>1. Init => RowsAndTurns BY DEF Init, RowsAndTurns
<1>2. QED BY <1>1, TypeCorrect, RowsAndTurnsStep, PTL DEF Spec

\* Over all the Engine processes a home ever has, no operation id is given two
\* workers: neither a repeated request nor an uncertain row starts another one
\* (start_operation, OperationStore.claim).
THEOREM OneWorkerTheorem == Spec => []OneWorkerPerOperation
<1>1. TypeOK /\ RowsAndTurns => OneWorkerPerOperation
  BY DEF RowsAndTurns, OneWorkerPerOperation, TypeOK
<1>2. QED BY <1>1, RowsAndTurnsCorrect, PTL

-----------------------------------------------------------------------------
(***************************************************************************)
(* The ledger before the event.  While its turn works, a row is pending;   *)
(* once the ledger is written it agrees with what the worker announces.    *)
(***************************************************************************)

Working == {"claimed", "registered", "prepare", "run", "ledger"}

RowsFollowTurns ==
    /\ \A t \in Turns :
        opOf[t] # NoOp =>
            /\ place[t] \in Working => state[opOf[t]] \in Pending
            /\ place[t] \in {"timeline", "emit"} => state[opOf[t]] = verdict[t]
            /\ emitted[t] # "none" => state[opOf[t]] = emitted[t]
    /\ \A t \in Turns : t > nturn => emitted[t] = "none"

\* The steps of one turn that leave the ledger alone.
LEMMA QuietStep ==
    ASSUME TypeOK, RowsAndTurns, RowsFollowTurns, NEW S \in SUBSET Turns,
           UNCHANGED <<nturn, opOf, state>>,
           \A t \in Turns \ S : UNCHANGED <<place[t], verdict[t], emitted[t]>>,
           \A t \in S : /\ t <= nturn
                        /\ place'[t] \in Working => place[t] \in Working
                        /\ place'[t] \in {"timeline", "emit"} =>
                             place[t] \in {"timeline", "emit"} /\ verdict'[t] = verdict[t]
                        /\ emitted'[t] # "none" =>
                             \/ emitted'[t] = emitted[t]
                             \/ place[t] = "emit" /\ emitted'[t] = verdict[t]
    PROVE  RowsFollowTurns'
<1>1. ASSUME NEW t \in Turns, opOf[t] # NoOp
      PROVE  /\ place'[t] \in Working => state[opOf[t]] \in Pending
             /\ place'[t] \in {"timeline", "emit"} => state[opOf[t]] = verdict'[t]
             /\ emitted'[t] # "none" => state[opOf[t]] = emitted'[t]
  BY <1>1 DEF RowsFollowTurns
<1>2. \A t \in Turns : t > nturn => emitted'[t] = "none"
  BY LedgerAssumption DEF RowsFollowTurns, TypeOK, Turns
<1>3. QED BY <1>1, <1>2 DEF RowsFollowTurns

\* The steps of one turn t that write its row with s.
LEMMA FinishStep ==
    ASSUME TypeOK, RowsAndTurns, RowsFollowTurns, NEW t \in Turns, NEW s \in States \ {"none"},
           place[t] \in Live \cup {"claimed"},
           FinishRow(t, owner[t], s), UNCHANGED <<nturn, opOf, verdict, emitted>>,
           \A u \in Turns \ {t} : place'[u] = place[u],
           place'[t] \in Working => place[t] = place'[t] /\ s \in Pending,
           place'[t] \in {"timeline", "emit"} =>
             (place[t] = "ledger" /\ s = verdict[t]) \/ place[t] = place'[t]
    PROVE  RowsFollowTurns'
<1>1. ASSUME NEW u \in Turns, u # t, opOf[u] # NoOp PROVE state'[opOf[u]] = state[opOf[u]]
  BY <1>1, FinishRowKeeps DEF RowsAndTurns, TypeOK
<1>2. ASSUME opOf[t] # NoOp PROVE
        /\ state[opOf[t]] \in Pending => state'[opOf[t]] = s
        /\ state[opOf[t]] \notin Pending => state'[opOf[t]] = state[opOf[t]]
  BY <1>2 DEF FinishRow, RowsAndTurns, TypeOK
<1>3. Outcomes \cap Pending = {} /\ "ledger" \in Working
  BY DEF Outcomes, Pending, Working
<1>4. verdict[t] \in Outcomes /\ (emitted[t] # "none" => emitted[t] \in Outcomes) BY DEF TypeOK
<1>5. ASSUME opOf[t] # NoOp
      PROVE  /\ place'[t] \in Working => state'[opOf[t]] \in Pending
             /\ place'[t] \in {"timeline", "emit"} => state'[opOf[t]] = verdict[t]
             /\ emitted[t] # "none" => state'[opOf[t]] = emitted[t]
  BY <1>2, <1>3, <1>4, <1>5 DEF RowsFollowTurns
<1>6. QED BY <1>1, <1>5 DEF RowsFollowTurns

\* Every step keeps the rows behind the turns: a worker reaches its terminal
\* event only through finish, and finish finds the row pending.
LEMMA RowsFollowTurnsStep ==
    TypeOK /\ RowsAndTurns /\ RowsFollowTurns /\ [Next]_vars => RowsFollowTurns'
<1> SUFFICES ASSUME TypeOK, RowsAndTurns, RowsFollowTurns, [Next]_vars PROVE RowsFollowTurns'
  OBVIOUS
<1> USE DEF turnVars, logVars, rowVars
<1>0. /\ nturn \in Nat /\ place \in [Turns -> Places]
      /\ \A t \in Turns : place[t] # "none" => t <= nturn
  BY LedgerAssumption DEF TypeOK, RowsAndTurns, Turns
<1>1. ASSUME NEW e \in Engines, NEW o \in Ops, NEW r \in Requests, state[o] = "none",
             Insert(e, o, r)
      PROVE  RowsFollowTurns'
  <2> DEFINE t == nturn + 1
  <2>1. /\ t \in Turns /\ nturn' = t /\ UNCHANGED <<verdict, emitted>>
        /\ opOf' = [opOf EXCEPT ![t] = o] /\ place' = [place EXCEPT ![t] = "claimed"]
        /\ state' = [state EXCEPT ![o] = "running"]
    BY <1>1, <1>0, LedgerAssumption DEF Insert, Turns
  <2>2. ASSUME NEW u \in Turns, u # t, opOf[u] # NoOp
        PROVE  opOf'[u] = opOf[u] /\ state'[opOf[u]] = state[opOf[u]] /\ place'[u] = place[u]
    BY <1>1, <2>1, <2>2 DEF RowsAndTurns, TypeOK
  <2>3. /\ opOf'[t] = o /\ state'[o] = "running" /\ place'[t] = "claimed" /\ emitted'[t] = "none"
    BY <1>0, <2>1 DEF TypeOK, RowsFollowTurns
  <2>4. \A u \in Turns : u # t => opOf'[u] = opOf[u] BY <2>1 DEF TypeOK
  <2>5. \A u \in Turns : u > nturn' => emitted'[u] = "none"
    BY <1>0, <2>1 DEF RowsFollowTurns, Turns
  <2>6. QED BY <2>1, <2>2, <2>3, <2>4, <2>5 DEF RowsFollowTurns, Pending, Working
<1>2. ASSUME NEW e \in Engines, StartTurn(e) PROVE RowsFollowTurns'
  <2> DEFINE t == nturn + 1
  <2>1. /\ t \in Turns /\ nturn' = t /\ UNCHANGED <<verdict, emitted, opOf, state>>
        /\ place' = [place EXCEPT ![t] = "registered"] /\ opOf[t] = NoOp
    BY <1>2, <1>0, LedgerAssumption DEF StartTurn, Turns, RowsAndTurns
  <2>2. \A u \in Turns : opOf[u] # NoOp => place'[u] = place[u] BY <1>0, <2>1
  <2>3. \A u \in Turns : u > nturn' => emitted'[u] = "none"
    BY <1>0, <2>1 DEF RowsFollowTurns, Turns
  <2>4. QED BY <2>1, <2>2, <2>3 DEF RowsFollowTurns
<1>3. ASSUME NEW e \in Engines, NEW o \in Ops, OperationCancel(e, o) PROVE RowsFollowTurns'
  <2>1. /\ turnOf[o] \in Turns /\ owner[turnOf[o]] = e /\ place[turnOf[o]] \in Live
        /\ FinishRow(turnOf[o], e, "cancelling")
        /\ UNCHANGED <<nturn, opOf, verdict, emitted, place>>
    BY <1>3 DEF OperationCancel, LiveIn
  <2>2. "cancelling" \in Pending /\ "cancelling" \in States \ {"none"} BY DEF Pending, States
  <2>3. QED BY <2>1, <2>2, FinishStep
<1>4. ASSUME NEW e \in Engines, NEW t \in Turns, DispatchRefused(e, t) PROVE RowsFollowTurns'
  <2>1. /\ FinishRow(t, owner[t], "uncertain") /\ place[t] = "claimed"
        /\ place'[t] = "refused" /\ \A u \in Turns \ {t} : place'[u] = place[u]
        /\ UNCHANGED <<nturn, opOf, verdict, emitted>>
    BY <1>0, <1>4 DEF DispatchRefused
  <2>2. "uncertain" \in States \ {"none"} /\ "refused" \notin Working BY DEF States, Working
  <2>3. QED BY <2>1, <2>2, FinishStep
<1>5. ASSUME NEW e \in Engines, NEW t \in Turns, Register(e, t) PROVE RowsFollowTurns'
  <2>1. /\ place[t] = "claimed" /\ place'[t] = "registered"
        /\ \A u \in Turns \ {t} : place'[u] = place[u]
        /\ UNCHANGED <<nturn, opOf, state, verdict, emitted>>
    BY <1>0, <1>5 DEF Register
  <2>2. QED BY <1>0, <2>1, QuietStep, {t} \in SUBSET Turns DEF Working
<1>6. ASSUME NEW e \in Engines, Crash(e) PROVE RowsFollowTurns'
  <2> DEFINE S == {t \in Turns : place[t] \in Live \cup {"claimed"}}
  <2>1. /\ UNCHANGED <<nturn, opOf, state, verdict, emitted>>
        /\ \A t \in Turns \ S : place'[t] = place[t]
        /\ \A t \in S : place'[t] = place[t] \/ place'[t] = "dead"
        /\ \A t \in S : place[t] # "none"
    BY <1>0, <1>6 DEF Crash, Live
  <2>2. "dead" \notin Working /\ S \in SUBSET Turns BY DEF Working
  <2>3. QED
    <3> HIDE DEF S
    <3> QED BY <1>0, <2>1, <2>2, QuietStep
<1>7. ASSUME UNCHANGED <<nturn, opOf, state, place, verdict, emitted>> PROVE RowsFollowTurns'
  BY <1>7, QuietStep, {} \in SUBSET Turns
<1>8. ASSUME NEW e \in Engines, Reconcile(e) PROVE RowsFollowTurns'
  BY <1>7, <1>8 DEF Reconcile, ReconcileProbe, ReconcileClose
<1>9. ASSUME NEW t \in Turns, Launch(t) \/ AcquireLock(t) \/ SetDone(t) PROVE RowsFollowTurns'
  <2>1. /\ \/ place'[t] \in {"prepare", "run"} /\ place[t] \in {"registered", "prepare"}
           \/ place'[t] = "done" /\ place[t] = "closing"
        /\ \A u \in Turns \ {t} : place'[u] = place[u]
        /\ UNCHANGED <<nturn, opOf, state, verdict, emitted>>
    BY <1>0, <1>9 DEF Launch, AcquireLock, SetDone
  <2>2. QED BY <1>0, <2>1, QuietStep, {t} \in SUBSET Turns DEF Working
<1>10. ASSUME NEW t \in Turns, LaunchFails(t) PROVE RowsFollowTurns'
  <2>1. /\ FinishRow(t, owner[t], "uncertain") /\ place[t] = "registered"
        /\ place'[t] = "stuck" /\ \A u \in Turns \ {t} : place'[u] = place[u]
        /\ UNCHANGED <<nturn, opOf, verdict, emitted>>
    BY <1>0, <1>10 DEF LaunchFails
  <2>2. "uncertain" \in States \ {"none"} /\ "stuck" \notin Working /\ "registered" \in Live
    BY DEF States, Working, Live
  <2>3. QED BY <2>1, <2>2, FinishStep
<1>11. ASSUME NEW t \in Turns, WorkEnds(t) \/ FinishFails(t) PROVE RowsFollowTurns'
  <2> DEFINE G == /\ place[t] \in {"prepare", "run", "ledger"}
                  /\ place'[t] \in {"ledger", "closing"}
                  /\ \A u \in Turns \ {t} : place'[u] = place[u] /\ verdict'[u] = verdict[u]
                  /\ UNCHANGED <<nturn, opOf, state, emitted>>
  <2>0. ASSUME WorkEnds(t) PROVE G
    <3>1. PICK v \in Outcomes : verdict' = [verdict EXCEPT ![t] = v] BY <2>0 DEF WorkEnds
    <3>2. QED BY <1>0, <2>0, <3>1 DEF WorkEnds, TypeOK
  <2>1. G
    <3>1. CASE FinishFails(t) BY <1>0, <3>1 DEF FinishFails, TypeOK
    <3>2. QED BY <1>11, <2>0, <3>1
  <2>2. QED BY <1>0, <2>1, QuietStep, {t} \in SUBSET Turns DEF Working
<1>12. ASSUME NEW t \in Turns, Finish(t) PROVE RowsFollowTurns'
  <2>1. /\ FinishRow(t, owner[t], verdict[t]) /\ place[t] = "ledger"
        /\ place'[t] = "timeline" /\ \A u \in Turns \ {t} : place'[u] = place[u]
        /\ UNCHANGED <<nturn, opOf, verdict, emitted>>
    BY <1>0, <1>12 DEF Finish
  <2>2. /\ verdict[t] \in States \ {"none"} /\ "timeline" \notin Working /\ "ledger" \in Live
    BY DEF TypeOK, States, Outcomes, Working, Live
  <2>3. QED BY <2>1, <2>2, FinishStep
<1>13. ASSUME NEW t \in Turns, LogEnded(t) \/ EmitTerminal(t) PROVE RowsFollowTurns'
  <2>1. /\ \/ place[t] = "timeline" /\ place'[t] = "emit" /\ emitted' = emitted
           \/ place[t] = "emit" /\ place'[t] = "closing" /\ emitted'[t] = verdict[t]
        /\ \A u \in Turns \ {t} : place'[u] = place[u] /\ emitted'[u] = emitted[u]
        /\ UNCHANGED <<nturn, opOf, state, verdict>>
    BY <1>0, <1>13 DEF LogEnded, EmitTerminal, TypeOK
  <2>2. QED BY <1>0, <2>1, QuietStep, {t} \in SUBSET Turns DEF Working
<1>14. CASE EngineStart \/ UNCHANGED vars BY <1>7, <1>14 DEF EngineStart, vars
<1>15. QED
  <2>1. ASSUME NEW e \in Engines, Request(e) PROVE RowsFollowTurns'
    BY <1>1, <1>2, <1>3, <1>14, <2>1 DEF Request, OperationStart
  <2>2. ASSUME NEW e \in Engines, Dispatch(e) \/ Reconcile(e) \/ Crash(e) PROVE RowsFollowTurns'
    BY <1>4, <1>5, <1>6, <1>8, <2>2 DEF Dispatch
  <2>3. ASSUME NEW t \in Turns, Launch(t) \/ LaunchFails(t) \/ FinishFails(t) \/ Worker(t)
        PROVE  RowsFollowTurns'
    BY <1>9, <1>10, <1>11, <1>12, <1>13, <2>3 DEF Worker
  <2>4. QED BY <1>14, <2>1, <2>2, <2>3 DEF Next

\* The desktop never sees a terminal event of an operation's turn that the ledger
\* does not already say, and will say for ever (_on_activity, finish, emit).
THEOREM LedgerBeforeEventTheorem == Spec => []LedgerBeforeEvent
<1>1. Init => RowsFollowTurns BY DEF Init, RowsFollowTurns
<1>2. RowsFollowTurns => LedgerBeforeEvent BY DEF RowsFollowTurns, LedgerBeforeEvent
<1>3. QED BY <1>1, <1>2, RowsAndTurnsCorrect, RowsFollowTurnsStep, PTL DEF Spec

-----------------------------------------------------------------------------
(***************************************************************************)
(* One request per operation.                                              *)
(***************************************************************************)

\* Nobody was answered under an id without a row.
AskedInv == \A o \in Ops : state[o] = "none" => request[o] = {}

\* Only the claim of a new id adds to the requests answered under it.
LEMMA AskedStep ==
    TypeOK /\ AskedInv /\ OneRequestPerOperation /\ [Next]_vars
        => AskedInv' /\ OneRequestPerOperation'
<1> SUFFICES ASSUME TypeOK, AskedInv, OneRequestPerOperation, [Next]_vars
             PROVE  AskedInv' /\ OneRequestPerOperation'
  OBVIOUS
<1>1. ASSUME NEW e \in Engines, NEW o \in Ops, NEW r \in Requests, state[o] = "none",
             Insert(e, o, r)
      PROVE  AskedInv' /\ OneRequestPerOperation'
  <2>1. state'[o] = "running" /\ request'[o] = {r}
    BY <1>1 DEF Insert, TypeOK, AskedInv
  <2>2. \A p \in Ops : p # o => state'[p] = state[p] /\ request'[p] = request[p]
    BY <1>1 DEF Insert, TypeOK
  <2>3. QED BY <2>1, <2>2 DEF AskedInv, OneRequestPerOperation
<1>2. ASSUME UNCHANGED request, \A o \in Ops : state'[o] = "none" <=> state[o] = "none"
      PROVE  AskedInv' /\ OneRequestPerOperation'
  BY <1>2 DEF AskedInv, OneRequestPerOperation
<1>3. ASSUME NEW t \in Turns, NEW e \in 0..MaxEngines, NEW s \in States \ {"none"},
             FinishRow(t, e, s)
      PROVE  \A o \in Ops : state'[o] = "none" <=> state[o] = "none"
  BY <1>3, FinishRowKeeps
<1>4. QED BY <1>1, <1>2, <1>3, LedgerWrites

\* Over all processes, the clients that were answered under one operation id had
\* all asked for the same thing: an id is claimed once, and then answered for its
\* own request only (OperationStore.claim, fingerprint).
THEOREM OneRequestTheorem == Spec => []OneRequestPerOperation
<1>1. Init => AskedInv /\ OneRequestPerOperation
  BY DEF Init, AskedInv, OneRequestPerOperation
<1>2. QED BY <1>1, TypeCorrect, AskedStep, PTL DEF Spec

-----------------------------------------------------------------------------
(***************************************************************************)
(* Processes.  A turn in being belongs to a process that runs; a turn whose *)
(* process died never belongs to one again.                                 *)
(***************************************************************************)

ProcessesInv ==
    /\ alive \subseteq 1..nengine
    /\ \A t \in Turns :
        /\ owner[t] \in 0..nengine
        /\ place[t] \in Live \cup {"claimed"} => owner[t] \in alive
        /\ place[t] = "dead" => owner[t] \notin alive

\* The steps a turn takes in its process: the turns of S move, none of them dies.
TurnsMove(S) ==
    /\ UNCHANGED <<nengine, alive, nturn, owner>>
    /\ \A t \in Turns \ S : place'[t] = place[t]
    /\ \A t \in Turns \cap S : place[t] \in Live \cup {"claimed"} /\ place'[t] # "dead"

\* What a step does to the processes and to the turns in them: a new turn is given
\* out, turns move, a process dies, a process starts.
LEMMA ProcessSteps ==
    ASSUME TypeOK, RowsAndTurns, [Next]_vars
    PROVE  \/ \E t \in Turns, e \in alive, p \in {"claimed", "registered"} :
                /\ place[t] = "none" /\ UNCHANGED <<nengine, alive>>
                /\ owner' = [owner EXCEPT ![t] = e] /\ place' = [place EXCEPT ![t] = p]
           \/ \E S \in SUBSET Turns : TurnsMove(S)
           \/ \E e \in Engines : Crash(e)
           \/ EngineStart
<1> DEFINE Given == \E t \in Turns, e \in alive, p \in {"claimed", "registered"} :
                /\ place[t] = "none" /\ UNCHANGED <<nengine, alive>>
                /\ owner' = [owner EXCEPT ![t] = e] /\ place' = [place EXCEPT ![t] = p]
           Moves == \E S \in SUBSET Turns : TurnsMove(S)
<1> USE DEF turnVars, engineVars
<1>0. /\ nturn \in Nat /\ place \in [Turns -> Places]
      /\ \A t \in Turns : t > nturn => place[t] = "none"
  BY LedgerAssumption DEF TypeOK, RowsAndTurns
<1>1. ASSUME UNCHANGED <<nengine, alive, nturn, owner, place>> PROVE Moves
  <2>1. TurnsMove({}) BY <1>1 DEF TurnsMove
  <2>2. QED BY <2>1
<1>2. ASSUME NEW t \in Turns, TurnsMove({t}) PROVE Moves
  BY <1>2
<1>3. ASSUME NEW e \in Engines, NEW o \in Ops, NEW r \in Requests, LockFree(e), Insert(e, o, r)
      PROVE  Given
  <2>1. nturn + 1 \in Turns BY <1>0, <1>3, LedgerAssumption DEF Insert, Turns
  <2>2. place[nturn + 1] = "none" /\ e \in alive BY <1>0, <1>3, <2>1 DEF LockFree
  <2>3. /\ UNCHANGED <<nengine, alive>> /\ owner' = [owner EXCEPT ![nturn + 1] = e]
        /\ place' = [place EXCEPT ![nturn + 1] = "claimed"]
    BY <1>3 DEF Insert
  <2>4. QED BY <2>1, <2>2, <2>3, Zenon
<1>4. ASSUME NEW e \in Engines, StartTurn(e) PROVE Given
  <2>1. nturn + 1 \in Turns BY <1>0, <1>4, LedgerAssumption DEF StartTurn, Turns
  <2>2. place[nturn + 1] = "none" /\ e \in alive BY <1>0, <1>4, <2>1 DEF StartTurn, LockFree
  <2>3. /\ UNCHANGED <<nengine, alive>> /\ owner' = [owner EXCEPT ![nturn + 1] = e]
        /\ place' = [place EXCEPT ![nturn + 1] = "registered"]
    BY <1>4 DEF StartTurn
  <2>4. QED BY <2>1, <2>2, <2>3, Zenon
<1>5. ASSUME NEW e \in Engines, Request(e) PROVE Given \/ Moves
  <2>1. CASE \E o \in Ops : OperationCancel(e, o) BY <1>1, <2>1 DEF OperationCancel
  <2>2. CASE UNCHANGED vars BY <1>1, <2>2 DEF vars
  <2>3. QED BY <1>3, <1>4, <1>5, <2>1, <2>2 DEF Request, OperationStart
<1>6. ASSUME NEW e \in Engines, NEW t \in Turns, DispatchRefused(e, t) \/ Register(e, t)
      PROVE  Moves
  <2>1. TurnsMove({t}) BY <1>0, <1>6 DEF DispatchRefused, Register, TurnsMove
  <2>2. QED BY <1>2, <2>1
<1>7. ASSUME NEW e \in Engines, Reconcile(e) PROVE Moves
  BY <1>1, <1>7 DEF Reconcile, ReconcileProbe, ReconcileClose
<1>8. ASSUME NEW t \in Turns, Launch(t) \/ LaunchFails(t) \/ FinishFails(t) PROVE Moves
  <2>1. TurnsMove({t})
    BY <1>0, <1>8 DEF Launch, LaunchFails, FinishFails, TurnsMove, Live
  <2>2. QED BY <1>2, <2>1
<1>9. ASSUME NEW t \in Turns, Worker(t) PROVE Moves
  <2>1. TurnsMove({t})
    BY <1>0, <1>9 DEF Worker, AcquireLock, WorkEnds, Finish, LogEnded, EmitTerminal, SetDone,
                      TurnsMove, Live
  <2>2. QED BY <1>2, <2>1
<1>10. CASE UNCHANGED vars BY <1>1, <1>10 DEF vars
<1>11. QED BY <1>5, <1>6, <1>7, <1>8, <1>9, <1>10 DEF Next, Dispatch

\* No step gives a dead turn to a process that runs.
LEMMA ProcessesStep ==
    TypeOK /\ RowsAndTurns /\ ProcessesInv /\ [Next]_vars => ProcessesInv'
<1> SUFFICES ASSUME TypeOK, RowsAndTurns, ProcessesInv, [Next]_vars PROVE ProcessesInv' OBVIOUS
<1> USE DEF turnVars
<1>0. /\ place \in [Turns -> Places] /\ owner \in [Turns -> 0..MaxEngines] /\ nengine \in Nat
      /\ alive \subseteq 1..nengine /\ \A t \in Turns : owner[t] \in 0..nengine
  BY LedgerAssumption DEF TypeOK, ProcessesInv, Engines
<1>1. ASSUME NEW t \in Turns, NEW e \in alive, NEW p \in {"claimed", "registered"},
             UNCHANGED <<nengine, alive>>,
             owner' = [owner EXCEPT ![t] = e], place' = [place EXCEPT ![t] = p]
      PROVE  ProcessesInv'
  BY <1>0, <1>1 DEF ProcessesInv
<1>2. ASSUME NEW S \in SUBSET Turns, TurnsMove(S) PROVE ProcessesInv'
  BY <1>0, <1>2 DEF ProcessesInv, TurnsMove
<1>3. ASSUME NEW e \in Engines, Crash(e) PROVE ProcessesInv'
  <2>1. /\ UNCHANGED <<nengine, owner>> /\ alive' = alive \ {e}
        /\ \A t \in Turns : place'[t] = IF owner[t] = e /\ place[t] \in Live \cup {"claimed"}
                                          THEN "dead" ELSE place[t]
    BY <1>3 DEF Crash
  <2>2. "dead" \notin Live \cup {"claimed"} BY DEF Live
  <2>3. QED BY <1>0, <2>1, <2>2 DEF ProcessesInv
<1>4. CASE EngineStart
  <2>1. UNCHANGED <<owner, place>> /\ nengine' = nengine + 1 /\ alive' = alive \cup {nengine + 1}
    BY <1>4 DEF EngineStart
  <2>2. QED BY <1>0, <2>1 DEF ProcessesInv
<1>5. QED BY <1>1, <1>2, <1>3, <1>4, ProcessSteps

\* Turns in being belong to running processes, in every reachable state.
LEMMA ProcessesCorrect == Spec => [](TypeOK /\ RowsAndTurns /\ ProcessesInv)
<1>1. Init => ProcessesInv
  BY LedgerAssumption DEF Init, ProcessesInv, Live
<1>2. QED BY <1>1, RowsAndTurnsCorrect, ProcessesStep, PTL DEF Spec

-----------------------------------------------------------------------------
(***************************************************************************)
(* Pending operations.  When the ledger can be written, a pending row has   *)
(* a turn that still works for it, or one whose process died.               *)
(***************************************************************************)

PendingInv ==
    \A t \in Turns : opOf[t] # NoOp /\ state[opOf[t]] \in Pending
        => place[t] \in Working \cup {"dead"}

\* The steps that end no turn's work: rows become pending no more than they were.
LEMMA PendingQuietStep ==
    ASSUME TypeOK, PendingInv, UNCHANGED opOf,
           \A o \in Ops : state'[o] \in Pending => state[o] \in Pending,
           \A t \in Turns : opOf[t] # NoOp /\ place[t] \in Working \cup {"dead"}
                              => place'[t] \in Working \cup {"dead"}
    PROVE  PendingInv'
<1> SUFFICES ASSUME NEW t \in Turns, opOf[t] # NoOp, state'[opOf[t]] \in Pending
             PROVE  place'[t] \in Working \cup {"dead"}
  BY DEF PendingInv
<1>1. opOf[t] \in Ops BY DEF TypeOK
<1>2. QED BY <1>1 DEF PendingInv

\* The steps in which turn t leaves its work and its row gets an outcome.
LEMMA PendingFinishStep ==
    ASSUME TypeOK, RowsAndTurns, PendingInv, UNCHANGED opOf, NEW t \in Turns,
           NEW s \in States \ Pending, FinishRow(t, owner[t], s),
           \A u \in Turns \ {t} : place'[u] = place[u]
    PROVE  PendingInv'
<1> SUFFICES ASSUME NEW u \in Turns, opOf[u] # NoOp, state'[opOf[u]] \in Pending
             PROVE  place'[u] \in Working \cup {"dead"}
  BY DEF PendingInv
<1>1. opOf[u] \in Ops BY DEF TypeOK
<1>2. turnOf[opOf[u]] = u /\ instance[opOf[u]] = owner[u] BY DEF RowsAndTurns
<1>3. state[opOf[u]] \in Pending BY <1>1 DEF FinishRow, TypeOK
<1>4. CASE u = t BY <1>1, <1>2, <1>3, <1>4 DEF FinishRow, TypeOK
<1>5. CASE u # t BY <1>3, <1>5 DEF PendingInv
<1>6. QED BY <1>4, <1>5

\* A turn leaves its work only as it writes its row, or with its process.
LEMMA PendingStep ==
    ASSUME "ledger" \notin Faults, TypeOK, RowsAndTurns, PendingInv, [Next]_vars
    PROVE  PendingInv'
<1> USE DEF turnVars, engineVars, rowVars
<1>0. /\ nturn \in Nat /\ place \in [Turns -> Places] /\ state \in [Ops -> States]
      /\ \A t \in Turns : t > nturn => place[t] = "none" /\ opOf[t] = NoOp
  BY LedgerAssumption DEF TypeOK, RowsAndTurns
<1>1. ASSUME NEW e \in Engines, NEW o \in Ops, NEW r \in Requests, state[o] = "none",
             Insert(e, o, r)
      PROVE  PendingInv'
  <2> DEFINE n == nturn + 1
  <2>1. n \in Turns BY <1>0, <1>1, LedgerAssumption DEF Insert, Turns
  <2>2. /\ opOf' = [opOf EXCEPT ![n] = o] /\ place' = [place EXCEPT ![n] = "claimed"]
        /\ state' = [state EXCEPT ![o] = "running"]
    BY <1>1 DEF Insert
  <2>3. opOf \in [Turns -> Ops \cup {NoOp}] BY DEF TypeOK
  <2> HIDE DEF n
  <2>4. ASSUME NEW t \in Turns, t # n, opOf'[t] # NoOp, state'[opOf'[t]] \in Pending
        PROVE  place'[t] \in Working \cup {"dead"}
    <3>1. opOf'[t] = opOf[t] /\ opOf[t] # NoOp /\ opOf[t] \in Ops BY <2>2, <2>3, <2>4
    <3>2. opOf[t] # o BY <1>1, <3>1 DEF RowsAndTurns
    <3>3. state'[opOf[t]] = state[opOf[t]] /\ place'[t] = place[t]
      BY <1>0, <2>2, <2>4, <3>1, <3>2
    <3>4. QED BY <2>4, <3>1, <3>3 DEF PendingInv
  <2>5. place'[n] \in Working BY <1>0, <2>1, <2>2 DEF Working
  <2>6. QED BY <2>4, <2>5 DEF PendingInv
<1>2. ASSUME UNCHANGED <<opOf, state, place>> PROVE PendingInv'
  BY <1>2, PendingQuietStep
<1>3. ASSUME NEW e \in Engines, StartTurn(e) PROVE PendingInv'
  <2>1. nturn + 1 \in Turns /\ opOf[nturn + 1] = NoOp
    BY <1>0, <1>3, LedgerAssumption DEF StartTurn, Turns
  <2>2. /\ UNCHANGED <<opOf, state>>
        /\ \A t \in Turns : opOf[t] # NoOp => place'[t] = place[t]
    BY <1>0, <1>3, <2>1 DEF StartTurn
  <2>3. QED BY <2>2, PendingQuietStep
<1>4. ASSUME NEW e \in Engines, NEW o \in Ops, OperationCancel(e, o) PROVE PendingInv'
  <2>1. /\ UNCHANGED <<opOf, place>>
        /\ \A p \in Ops : state'[p] \in Pending => state[p] \in Pending
    BY <1>0, <1>4 DEF OperationCancel, FinishRow
  <2>2. QED BY <2>1, PendingQuietStep
<1>5. ASSUME NEW e \in Engines, NEW t \in Turns, DispatchRefused(e, t) PROVE PendingInv'
  <2>1. /\ UNCHANGED opOf /\ FinishRow(t, owner[t], "uncertain")
        /\ \A u \in Turns \ {t} : place'[u] = place[u]
    BY <1>0, <1>5 DEF DispatchRefused
  <2>2. "uncertain" \in States \ Pending BY DEF States, Pending
  <2>3. QED BY <2>1, <2>2, PendingFinishStep
<1>6. ASSUME NEW t \in Turns, LaunchFails(t) PROVE PendingInv'
  <2>1. /\ UNCHANGED opOf /\ FinishRow(t, owner[t], "uncertain")
        /\ \A u \in Turns \ {t} : place'[u] = place[u]
    BY <1>0, <1>6 DEF LaunchFails
  <2>2. "uncertain" \in States \ Pending BY DEF States, Pending
  <2>3. QED BY <2>1, <2>2, PendingFinishStep
<1>7. ASSUME NEW t \in Turns, Finish(t) PROVE PendingInv'
  <2>1. /\ UNCHANGED opOf /\ FinishRow(t, owner[t], verdict[t])
        /\ \A u \in Turns \ {t} : place'[u] = place[u]
    BY <1>0, <1>7 DEF Finish
  <2>2. verdict[t] \in States \ Pending BY DEF TypeOK, States, Pending, Outcomes
  <2>3. QED BY <2>1, <2>2, PendingFinishStep
<1>8. ASSUME UNCHANGED <<opOf, state>>, NEW t \in Turns,
             place[t] \in Working => place'[t] \in Working, place[t] # "dead",
             \A u \in Turns \ {t} : place'[u] = place[u]
      PROVE  PendingInv'
  BY <1>8, PendingQuietStep
<1>9. ASSUME NEW e \in Engines, NEW t \in Turns, Register(e, t) PROVE PendingInv'
  BY <1>0, <1>8, <1>9 DEF Register, Working
<1>10. ASSUME NEW t \in Turns, Launch(t) PROVE PendingInv'
  BY <1>0, <1>8, <1>10 DEF Launch, Working
<1>11. ASSUME NEW t \in Turns, AcquireLock(t) \/ WorkEnds(t) \/ LogEnded(t) \/ EmitTerminal(t)
                               \/ SetDone(t)
       PROVE PendingInv'
  BY <1>0, <1>8, <1>11
  DEF AcquireLock, WorkEnds, LogEnded, EmitTerminal, SetDone, Working
<1>12. ASSUME NEW t \in Turns, FinishFails(t) PROVE PendingInv'
  BY <1>12 DEF FinishFails
<1>13. ASSUME NEW e \in Engines, Crash(e) PROVE PendingInv'
  <2>1. /\ UNCHANGED <<opOf, state>>
        /\ \A t \in Turns : place'[t] = place[t] \/ place'[t] = "dead"
    BY <1>0, <1>13 DEF Crash
  <2>2. QED BY <2>1, PendingQuietStep
<1>14. ASSUME NEW e \in Engines, Reconcile(e) PROVE PendingInv'
  BY <1>2, <1>14 DEF Reconcile, ReconcileProbe, ReconcileClose
<1>15. CASE EngineStart \/ UNCHANGED vars BY <1>2, <1>15 DEF EngineStart, vars
<1>16. ASSUME NEW e \in Engines, Request(e) PROVE PendingInv'
  BY <1>1, <1>3, <1>4, <1>15, <1>16 DEF Request, OperationStart
<1>17. ASSUME NEW t \in Turns, Worker(t) PROVE PendingInv'
  BY <1>7, <1>11, <1>17 DEF Worker
<1>18. QED
  BY <1>5, <1>6, <1>9, <1>10, <1>12, <1>13, <1>14, <1>15, <1>16, <1>17 DEF Next, Dispatch

\* operation.get never shows work nobody does: as long as the ledger can be
\* written, an operation its own process reports as pending is being dispatched or
\* has a turn that runs, whatever else fails and however many processes run
\* (OperationStore.project, finish).  Without the ledger the worker gives up.
THEOREM PendingTheorem ==
    ASSUME "ledger" \notin Faults
    PROVE  Spec => []PendingOperationsAreLive
<1>1. Init => PendingInv BY DEF Init, PendingInv
<1>2. TypeOK /\ RowsAndTurns /\ ProcessesInv /\ PendingInv => PendingOperationsAreLive
  <2> SUFFICES ASSUME TypeOK, RowsAndTurns, ProcessesInv, PendingInv, NEW o \in Ops,
                      NEW e \in alive, Project(e, o) \in Pending
               PROVE  place[turnOf[o]] \in Live \cup {"claimed"}
    BY DEF PendingOperationsAreLive
  <2>1. state[o] \in Pending /\ instance[o] = e BY DEF Project, Pending
  <2>2. turnOf[o] \in Turns /\ opOf[turnOf[o]] = o /\ owner[turnOf[o]] = e
    BY <2>1, LedgerAssumption DEF RowsAndTurns, Pending
  <2>3. place[turnOf[o]] \in Working \cup {"dead"}
    BY <2>1, <2>2, LedgerAssumption DEF PendingInv
  <2>4. place[turnOf[o]] # "dead" BY <2>2 DEF ProcessesInv
  <2>5. QED BY <2>3, <2>4 DEF Working, Live
<1>3. TypeOK /\ RowsAndTurns /\ PendingInv /\ [Next]_vars => PendingInv' BY PendingStep
<1>4. QED BY <1>1, <1>2, <1>3, ProcessesCorrect, PTL DEF Spec

-----------------------------------------------------------------------------
(***************************************************************************)
(* Turns closed as interrupted.  One process at a time and a timeline that  *)
(* takes every event: an orphan is then a turn whose process is gone.       *)
(***************************************************************************)

IsOver == {"done", "dead"}

\* Where a turn may be, given what the timeline says of it.
TimelineOf(t) ==
    /\ t \in started => place[t] \in Live \cup IsOver
    /\ t \in closed => place[t] \in IsOver /\ t \notin ended
    /\ place[t] = "emit" => t \in ended
    /\ emitted[t] # "none" => t \in ended
    /\ t \in ended => place[t] \in {"emit", "closing"} \cup IsOver

ClosingInv ==
    /\ alive \subseteq {nengine}
    /\ \A t \in Turns : TimelineOf(t)
    /\ \A e \in Engines : \A t \in todo[e] :
        e \in alive /\ t \in started /\ place[t] \in IsOver

\* The steps of one turn that is not over: whatever a reconcile is about to close
\* stays over.
LEMMA ClosingTurnStep ==
    ASSUME TypeOK, ClosingInv, UNCHANGED <<nengine, alive, todo, closed>>,
           started \subseteq started',
           NEW t \in Turns, place[t] \notin IsOver,
           \A u \in Turns \ {t} : /\ UNCHANGED <<place[u], emitted[u]>>
                                  /\ u \in started' <=> u \in started
                                  /\ u \in ended' <=> u \in ended,
           TimelineOf(t)'
    PROVE  ClosingInv'
<1>1. \A u \in Turns : TimelineOf(u)'
  <2> SUFFICES ASSUME NEW u \in Turns, u # t PROVE TimelineOf(u)' OBVIOUS
  <2>1. TimelineOf(u) BY DEF ClosingInv
  <2>2. QED BY <2>1 DEF TimelineOf
<1>2. \A e \in Engines : \A u \in todo[e] : u \in Turns \ {t}
  BY DEF ClosingInv, TypeOK
<1>3. QED BY <1>1, <1>2 DEF ClosingInv

\* Every step keeps the turns and the timeline in step.
LEMMA ClosingStep ==
    ASSUME ~Overlap, "timeline" \notin Faults, TypeOK, RowsAndTurns, ProcessesInv, ClosingInv,
           [Next]_vars
    PROVE  ClosingInv'
<1> USE DEF turnVars, engineVars, rowVars, logVars
<1>0. /\ nturn \in Nat /\ nengine \in Nat /\ place \in [Turns -> Places]
      /\ emitted \in [Turns -> Outcomes \cup {"none"}] /\ verdict \in [Turns -> Outcomes]
      /\ todo \in [Engines -> SUBSET Turns]
      /\ \A t \in Turns : t > nturn => place[t] = "none"
      /\ \A t \in Turns : TimelineOf(t)
  BY LedgerAssumption DEF TypeOK, RowsAndTurns, ClosingInv, Engines
<1>1. ASSUME NEW t \in Turns, place[t] = "none",
             \/ place' = [place EXCEPT ![t] = "claimed"] /\ started' = started
             \/ place' = [place EXCEPT ![t] = "registered"] /\ started' = started \cup {t},
             UNCHANGED <<nengine, alive, todo, ended, closed, emitted>>
      PROVE  ClosingInv'
  <2>1. t \notin started /\ t \notin ended /\ t \notin closed /\ emitted[t] = "none"
    BY <1>0, <1>1 DEF TimelineOf, Live, IsOver
  <2>2. (place'[t] = "claimed" /\ t \notin started') \/ place'[t] = "registered"
    BY <1>0, <1>1, <2>1
  <2>3. TimelineOf(t)' BY <1>1, <2>1, <2>2 DEF TimelineOf, Live, IsOver
  <2>4. /\ started \subseteq started' /\ \A u \in Turns \ {t} : u \in started' <=> u \in started
    BY <1>1
  <2>5. \A u \in Turns \ {t} : place'[u] = place[u] BY <1>0, <1>1
  <2>6. QED BY <1>1, <2>3, <2>4, <2>5, ClosingTurnStep DEF IsOver
<1>2. ASSUME NEW e \in Engines, NEW o \in Ops, NEW r \in Requests, Insert(e, o, r)
      PROVE  ClosingInv'
  <2>1. nturn + 1 \in Turns BY <1>0, <1>2, LedgerAssumption DEF Insert, Turns
  <2>2. place[nturn + 1] = "none" BY <1>0, <2>1
  <2>3. /\ place' = [place EXCEPT ![nturn + 1] = "claimed"]
        /\ UNCHANGED <<nengine, alive, todo, started, ended, closed, emitted>>
    BY <1>2 DEF Insert
  <2>4. QED BY <1>1, <2>1, <2>2, <2>3
<1>3. ASSUME NEW e \in Engines, StartTurn(e) PROVE ClosingInv'
  <2>1. nturn + 1 \in Turns BY <1>0, <1>3, LedgerAssumption DEF StartTurn, Turns
  <2>2. place[nturn + 1] = "none" BY <1>0, <2>1
  <2>3. /\ place' = [place EXCEPT ![nturn + 1] = "registered"]
        /\ started' = started \cup {nturn + 1}
        /\ UNCHANGED <<nengine, alive, todo, ended, closed, emitted>>
    BY <1>3 DEF StartTurn, LogStarted
  <2>4. QED BY <1>1, <2>1, <2>2, <2>3
<1>4. ASSUME UNCHANGED <<nengine, alive, todo, started, ended, closed, emitted, place>>
      PROVE  ClosingInv'
  BY <1>4 DEF ClosingInv, TimelineOf
<1>5. ASSUME NEW e \in Engines, NEW t \in Turns, DispatchRefused(e, t) \/ Register(e, t)
      PROVE  ClosingInv'
  <2>1. TimelineOf(t)'
    BY <1>0, <1>5 DEF DispatchRefused, Register, LogStarted, TimelineOf, Live, IsOver
  <2>2. /\ started \subseteq started'
        /\ \A u \in Turns \ {t} : (u \in started' <=> u \in started) /\ place'[u] = place[u]
    BY <1>0, <1>5 DEF DispatchRefused, Register, LogStarted
  <2>3. QED
    BY <1>0, <1>5, <2>1, <2>2, ClosingTurnStep DEF DispatchRefused, Register, IsOver
<1>6. ASSUME NEW t \in Turns, Launch(t) \/ LaunchFails(t) \/ FinishFails(t) \/ AcquireLock(t)
                              \/ WorkEnds(t) \/ Finish(t) \/ SetDone(t)
      PROVE  ClosingInv'
  <2>1. /\ place[t] \in Live \ {"emit"} /\ place'[t] \in (Live \ {"emit"}) \cup {"done"}
        /\ place[t] = "closing" => place'[t] = "done"
        /\ \A u \in Turns \ {t} : place'[u] = place[u]
        /\ UNCHANGED <<nengine, alive, todo, started, ended, closed, emitted>>
    BY <1>0, <1>6 DEF Launch, LaunchFails, FinishFails, AcquireLock, WorkEnds, Finish, SetDone,
                      Live
  <2>2. TimelineOf(t)' BY <1>0, <2>1 DEF TimelineOf, Live, IsOver
  <2>3. QED BY <2>1, <2>2, ClosingTurnStep DEF Live, IsOver
<1>7. ASSUME NEW t \in Turns, LogEnded(t) \/ EmitTerminal(t) PROVE ClosingInv'
  <2>1. /\ \/ place[t] = "timeline" /\ place'[t] = "emit" /\ t \in ended' /\ emitted' = emitted
           \/ place[t] = "emit" /\ place'[t] = "closing" /\ ended' = ended
        /\ \A u \in Turns \ {t} : /\ UNCHANGED <<place[u], emitted[u]>>
                                  /\ u \in ended' <=> u \in ended
        /\ UNCHANGED <<nengine, alive, todo, started, closed>>
    BY <1>0, <1>7 DEF LogEnded, EmitTerminal
  <2>2. TimelineOf(t)' BY <1>0, <2>1 DEF TimelineOf, Live, IsOver
  <2>3. QED BY <2>1, <2>2, ClosingTurnStep DEF IsOver
<1>8. ASSUME NEW e \in Engines, Crash(e) PROVE ClosingInv'
  <2>1. /\ alive' = alive \ {e} /\ todo' = [todo EXCEPT ![e] = {}]
        /\ UNCHANGED <<nengine, started, ended, closed, emitted>>
        /\ \A t \in Turns : \/ place'[t] = place[t]
                            \/ place[t] \in Live \cup {"claimed"} /\ place'[t] = "dead"
    BY <1>8 DEF Crash
  <2>2. ASSUME NEW t \in Turns PROVE TimelineOf(t)'
    BY <1>0, <2>1 DEF TimelineOf, Live, IsOver
  <2>3. ASSUME NEW f \in Engines, NEW t \in todo'[f]
        PROVE  f \in alive' /\ t \in started' /\ place'[t] \in IsOver
    <3>1. f # e /\ t \in todo[f] /\ t \in Turns BY <1>0, <2>1, <2>3
    <3>2. f \in alive /\ t \in started /\ place[t] \in IsOver BY <3>1 DEF ClosingInv
    <3>3. QED BY <2>1, <3>1, <3>2 DEF Live, IsOver
  <2>4. QED BY <2>1, <2>2, <2>3 DEF ClosingInv
<1>9. ASSUME NEW e \in Engines, ReconcileProbe(e) PROVE ClosingInv'
  <2>1. /\ e \in alive /\ todo' = [todo EXCEPT ![e] = Orphans \ LiveIn(e)]
        /\ UNCHANGED <<nengine, alive, started, ended, closed, emitted, place>>
    BY <1>9 DEF ReconcileProbe, LockFree
  <2>2. ASSUME NEW t \in Turns, t \in Orphans \ LiveIn(e)
        PROVE  t \in started /\ place[t] \in IsOver
    <3>1. t \in started /\ place[t] \in Live \cup IsOver
      BY <1>0, <2>2 DEF Orphans, TimelineOf
    <3>2. place[t] \notin Live
      BY <2>1, <2>2 DEF LiveIn, ProcessesInv, ClosingInv
    <3>3. QED BY <3>1, <3>2
  <2>3. Orphans \subseteq Turns BY DEF Orphans, TypeOK
  <2>4. ASSUME NEW f \in Engines, NEW t \in todo'[f]
        PROVE  f \in alive /\ t \in started /\ place[t] \in IsOver
    BY <1>0, <2>1, <2>2, <2>3, <2>4 DEF ClosingInv
  <2>5. QED BY <2>1, <2>4 DEF ClosingInv, TimelineOf
<1>10. ASSUME NEW e \in Engines, NEW t \in Turns, ReconcileClose(e, t) PROVE ClosingInv'
  <2>1. /\ closed' = (IF t \in ended THEN closed ELSE closed \cup {t})
        /\ todo' = [todo EXCEPT ![e] = @ \ {t}] /\ t \in todo[e]
        /\ UNCHANGED <<nengine, alive, started, ended, emitted, place>>
    BY <1>10 DEF ReconcileClose
  <2>2. place[t] \in IsOver BY <2>1 DEF ClosingInv
  <2>3. ASSUME NEW u \in Turns PROVE TimelineOf(u)'
    BY <1>0, <2>1, <2>2 DEF TimelineOf
  <2>4. \A f \in Engines : todo'[f] \subseteq todo[f] BY <1>0, <2>1
  <2>5. QED BY <2>1, <2>3, <2>4 DEF ClosingInv
<1>11. CASE EngineStart
  <2>1. /\ alive' \subseteq {nengine'}
        /\ UNCHANGED <<todo, started, ended, closed, emitted, place>>
    BY <1>11 DEF EngineStart
  <2>2. \A e \in Engines : e \in alive => e \in alive' BY <1>11 DEF EngineStart
  <2>3. QED BY <2>1, <2>2 DEF ClosingInv, TimelineOf
<1>12. CASE UNCHANGED vars BY <1>4, <1>12 DEF vars
<1>13. ASSUME NEW e \in Engines, Request(e) PROVE ClosingInv'
  <2>1. ASSUME NEW o \in Ops, OperationCancel(e, o) PROVE ClosingInv'
    BY <1>4, <2>1 DEF OperationCancel
  <2>2. QED BY <1>2, <1>3, <1>12, <1>13, <2>1 DEF Request, OperationStart
<1>14. QED
  <2>1. ASSUME NEW e \in Engines, Dispatch(e) \/ Reconcile(e) PROVE ClosingInv'
    BY <1>5, <1>9, <1>10, <2>1 DEF Dispatch, Reconcile
  <2>2. ASSUME NEW t \in Turns, Worker(t) PROVE ClosingInv'
    BY <1>6, <1>7, <2>2 DEF Worker
  <2>3. QED BY <1>6, <1>8, <1>11, <1>12, <1>13, <2>1, <2>2 DEF Next

\* A turn that reconcile closed as interrupted showed and saved no end of its own,
\* before or after: with one process at a time and a timeline that takes its
\* writes, an orphan that is not live here is a turn whose process is gone, and
\* the transaction of _close_turn sees an end that was saved.  With two processes
\* the turn may run in the other one; with a lost write the end was shown.
THEOREM ClosedTurnsTheorem ==
    ASSUME ~Overlap, "timeline" \notin Faults
    PROVE  Spec => []ClosedTurnsHadNoEnd
<1>1. Init => ClosingInv BY DEF Init, ClosingInv, TimelineOf, Live, IsOver
<1>2. TypeOK /\ ClosingInv => ClosedTurnsHadNoEnd
  <2> SUFFICES ASSUME TypeOK, ClosingInv, NEW t \in closed
               PROVE  t \notin ended /\ emitted[t] = "none"
    BY DEF ClosedTurnsHadNoEnd
  <2>1. t \in Turns BY DEF TypeOK
  <2>2. QED BY <2>1 DEF ClosingInv, TimelineOf
<1>3. TypeOK /\ RowsAndTurns /\ ProcessesInv /\ ClosingInv /\ [Next]_vars => ClosingInv'
  BY ClosingStep
<1>4. QED BY <1>1, <1>2, <1>3, ProcessesCorrect, PTL DEF Spec

=============================================================================
