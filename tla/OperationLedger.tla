--------------------------- MODULE OperationLedger ---------------------------
(***************************************************************************)
(* Durable operations of one session across Engine processes: the ledger   *)
(* (engine_protocol/operations.py), the dispatch, the cancellation and the *)
(* terminal event of an operation's turn (start_operation, start_turn,     *)
(* cancel_operation and _activity_cb of engine_protocol/turns.py), and the *)
(* closing of the turns a dead process left open (orphans.py).             *)
(*                                                                         *)
(* An Engine process may die between any two writes.  What it wrote to the *)
(* ledger and to the timeline stays; its turns, threads and locks go.      *)
(* A request stands for all that an operation's fingerprint covers; rows   *)
(* of the first schema, which have none of the origin, are left out.       *)
(***************************************************************************)
EXTENDS Integers

CONSTANTS
    Ops,          \* operation ids clients use
    NoOp,         \* the operation of a turn started without one
    Requests,     \* what a client may ask under an id
    MaxTurns,     \* bound: turn ids ever given out
    MaxEngines,   \* bound: Engine processes ever started
    Overlap,      \* an Engine may start while an earlier one still runs
    Faults        \* what may fail: "launch" (registered turn, no thread),
                  \* "timeline" (a suppressed write of an event), "ledger"

ASSUME LedgerAssumption ==
    /\ NoOp \notin Ops
    /\ MaxTurns \in Nat \ {0} /\ MaxEngines \in Nat \ {0}
    /\ Overlap \in BOOLEAN
    /\ Faults \subseteq {"launch", "timeline", "ledger"}

Turns == 1..MaxTurns
Engines == 1..MaxEngines

Outcomes == {"completed", "failed", "cancelled", "stopped"}
Pending == {"running", "cancelling"}
States == Pending \cup Outcomes \cup {"none", "uncertain"}

\* Where a turn is.  "claimed": its id is in the ledger; "stuck": registered and
\* never given a thread; "dead": its process is gone.
Places == {"none", "claimed", "refused", "registered", "stuck", "prepare", "run",
           "ledger", "timeline", "emit", "closing", "done", "dead"}

\* Registered in its process and not done: what is_live and TURN_RUNNING ask.
Live == {"registered", "stuck", "prepare", "run", "ledger", "timeline", "emit", "closing"}

VARIABLES
    nengine,    \* Engine processes started so far; each is an `instance`
    alive,      \* the processes that run
    nturn,      \* turn ids given out so far
    state,      \* [Ops -> the state column, "none" without a row]
    turnOf,     \* [Ops -> the turn_id column]
    instance,   \* [Ops -> the instance column]
    request,    \* [Ops -> the requests answered under the id]
    call,       \* [Engines -> the operation it dispatches under its lock]
    opOf,       \* [Turns -> its operation]
    owner,      \* [Turns -> the process that runs it, 0 when none]
    place,      \* [Turns -> where it is]
    verdict,    \* [Turns -> the terminal event its worker is writing]
    cancelled,  \* the turns with cancel_requested
    launched,   \* the turns that ever had a worker
    started,    \* the timeline: turns with a turn.started event
    ended,      \* the timeline: turns with the terminal event of their worker
    closed,     \* the timeline: turns with the terminal event of a reconcile
    emitted,    \* [Turns -> the terminal event their worker emitted]
    todo        \* [Engines -> the orphans a reconcile is about to close]

rowVars == <<state, turnOf, instance, request>>
engineVars == <<nengine, alive, call, todo>>
turnVars == <<nturn, opOf, owner, launched>>
logVars == <<started, ended, closed, emitted>>
vars == <<nengine, alive, nturn, state, turnOf, instance, request, call, opOf, owner,
          place, verdict, cancelled, launched, started, ended, closed, emitted, todo>>

Init ==
    /\ nengine = 1 /\ alive = {1} /\ nturn = 0
    /\ state = [o \in Ops |-> "none"]
    /\ turnOf = [o \in Ops |-> 0]
    /\ instance = [o \in Ops |-> 0]
    /\ request = [o \in Ops |-> {}]
    /\ call = [e \in Engines |-> NoOp]
    /\ opOf = [t \in Turns |-> NoOp]
    /\ owner = [t \in Turns |-> 0]
    /\ place = [t \in Turns |-> "none"]
    /\ verdict = [t \in Turns |-> "completed"]
    /\ cancelled = {} /\ launched = {}
    /\ started = {} /\ ended = {} /\ closed = {}
    /\ emitted = [t \in Turns |-> "none"]
    /\ todo = [e \in Engines |-> {}]

\* The manager's lock of process e is free: no dispatch and no reconcile.
LockFree(e) == e \in alive /\ call[e] = NoOp /\ todo[e] = {}

\* The turns registered in process e and not done.
LiveIn(e) == {t \in Turns : owner[t] = e /\ place[t] \in Live}

Busy(e) == LiveIn(e) # {}

-----------------------------------------------------------------------------
(***************************************************************************)
(* The ledger.                                                             *)
(***************************************************************************)

\* Mutant: finish updates the row whatever its state.
FinishAnyState(t, e, s) ==
    state' = [o \in Ops |-> IF turnOf[o] = t /\ instance[o] = e THEN s ELSE state[o]]

\* OperationStore.finish, called by process e.
FinishRow(t, e, s) ==
    state' = [o \in Ops |-> IF /\ turnOf[o] = t /\ instance[o] = e
                               /\ state[o] \in Pending
                              THEN s ELSE state[o]]

\* What process e reports of an operation (OperationStore.project).
Project(e, o) ==
    IF state[o] \in Pending /\ instance[o] # e THEN "uncertain" ELSE state[o]

\* The insertion of OperationStore.claim, under a new turn id.
Insert(e, o, r) ==
    LET t == nturn + 1 IN
    /\ nturn < MaxTurns
    /\ nturn' = t
    /\ state' = [state EXCEPT ![o] = "running"]
    /\ turnOf' = [turnOf EXCEPT ![o] = t]
    /\ instance' = [instance EXCEPT ![o] = e]
    /\ request' = [request EXCEPT ![o] = @ \cup {r}]
    /\ opOf' = [opOf EXCEPT ![t] = o]
    /\ owner' = [owner EXCEPT ![t] = e]
    /\ place' = [place EXCEPT ![t] = "claimed"]
    /\ call' = [call EXCEPT ![e] = o]
    /\ UNCHANGED <<nengine, alive, todo, launched, logVars, verdict, cancelled>>

\* Mutant: an operation a dead process left pending is dispatched again.
OperationStartRetries(e, o, r) ==
    /\ LockFree(e)
    /\ \/ state[o] = "none" /\ Insert(e, o, r)
       \/ /\ state[o] \in Pending /\ Project(e, o) = "uncertain" /\ r \in request[o]
          /\ Insert(e, o, r)

\* Mutant: an id that is known is answered whatever is asked under it.
OperationStartUnchecked(e, o, r) ==
    /\ LockFree(e)
    /\ \/ state[o] = "none" /\ Insert(e, o, r)
       \/ /\ state[o] # "none"
          /\ request' = [request EXCEPT ![o] = @ \cup {r}]
          /\ UNCHANGED <<state, turnOf, instance, engineVars, turnVars, logVars, place,
                         verdict, cancelled>>

\* operation.start: a new id is claimed; a known one is answered when the request
\* is the same, and refused otherwise.
OperationStart(e, o, r) ==
    /\ LockFree(e)
    /\ \/ state[o] = "none" /\ Insert(e, o, r)
       \/ state[o] # "none" /\ r \in request[o] /\ UNCHANGED vars

-----------------------------------------------------------------------------
(***************************************************************************)
(* Dispatch.                                                               *)
(***************************************************************************)

\* Mutant: the refusal is answered, the ledger is not told.
DispatchRefusedUnwritten(e, t) ==
    /\ call[e] # NoOp /\ owner[t] = e /\ place[t] = "claimed"
    /\ place' = [place EXCEPT ![t] = "refused"]
    /\ call' = [call EXCEPT ![e] = NoOp]
    /\ UNCHANGED <<rowVars, nengine, alive, todo, turnVars, logVars, verdict, cancelled>>

\* start_turn raises before the turn is registered: a turn runs, the session is
\* closed, its record cannot be read.  The operation becomes uncertain.
DispatchRefused(e, t) ==
    /\ call[e] # NoOp /\ owner[t] = e /\ place[t] = "claimed"
    /\ FinishRow(t, e, "uncertain")
    /\ place' = [place EXCEPT ![t] = "refused"]
    /\ call' = [call EXCEPT ![e] = NoOp]
    /\ UNCHANGED <<turnOf, instance, request, nengine, alive, todo, turnVars, logVars,
                   verdict, cancelled>>

\* turn.started, an event the timeline may miss.
LogStarted(t) ==
    \/ started' = started \cup {t}
    \/ "timeline" \in Faults /\ UNCHANGED started

\* start_turn registers the turn of an operation.
Register(e, t) ==
    /\ call[e] # NoOp /\ owner[t] = e /\ place[t] = "claimed"
    /\ ~Busy(e)
    /\ LogStarted(t)
    /\ place' = [place EXCEPT ![t] = "registered"]
    /\ UNCHANGED <<rowVars, engineVars, turnVars, ended, closed, emitted, verdict, cancelled>>

\* start_turn without an operation: turn.start, the queue, a goal, a schedule.
StartTurn(e) ==
    LET t == nturn + 1 IN
    /\ LockFree(e) /\ ~Busy(e) /\ nturn < MaxTurns
    /\ nturn' = t
    /\ owner' = [owner EXCEPT ![t] = e]
    /\ place' = [place EXCEPT ![t] = "registered"]
    /\ LogStarted(t)
    /\ UNCHANGED <<rowVars, engineVars, opOf, launched, ended, closed, emitted, verdict,
                   cancelled>>

\* The lock is given back when the turn that holds the dispatch is launched.
Dispatched(t) == call' = [e \in Engines |-> IF e = owner[t] THEN NoOp ELSE call[e]]

\* thread.start().
Launch(t) ==
    /\ place[t] = "registered"
    /\ place' = [place EXCEPT ![t] = "prepare"]
    /\ launched' = launched \cup {t}
    /\ IF opOf[t] # NoOp THEN Dispatched(t) ELSE UNCHANGED call
    /\ UNCHANGED <<rowVars, nengine, alive, todo, nturn, opOf, owner, logVars, verdict,
                   cancelled>>

\* start_turn raises after the registration: the turn has no thread, and the
\* operation becomes uncertain.
LaunchFails(t) ==
    /\ place[t] = "registered" /\ "launch" \in Faults
    /\ place' = [place EXCEPT ![t] = "stuck"]
    /\ FinishRow(t, owner[t], "uncertain")
    /\ IF opOf[t] # NoOp THEN Dispatched(t) ELSE UNCHANGED call
    /\ UNCHANGED <<turnOf, instance, request, nengine, alive, todo, turnVars, logVars,
                   verdict, cancelled>>

\* Mutant: the row gets a state the ledger's readers do not know.
OperationCancelUnnamed(e, o) ==
    LET t == turnOf[o] IN
    /\ LockFree(e) /\ state[o] # "none"
    /\ t \in LiveIn(e)
    /\ cancelled' = cancelled \cup {t}
    /\ FinishRow(t, e, "cancel_requested")
    /\ UNCHANGED <<turnOf, instance, request, engineVars, turnVars, logVars, place, verdict>>

\* operation.cancel, under the lock: the operation's own turn, if it runs here.
OperationCancel(e, o) ==
    LET t == turnOf[o] IN
    /\ LockFree(e) /\ state[o] # "none"
    /\ t \in LiveIn(e)
    /\ cancelled' = cancelled \cup {t}
    /\ FinishRow(t, e, "cancelling")
    /\ UNCHANGED <<turnOf, instance, request, engineVars, turnVars, logVars, place, verdict>>

-----------------------------------------------------------------------------
(***************************************************************************)
(* The worker of a turn.                                                   *)
(***************************************************************************)

\* The cross-process lock of the session, held while a turn is in "run".
SessionLockFree == \A t \in Turns : place[t] # "run"

AcquireLock(t) ==
    /\ place[t] = "prepare" /\ SessionLockFree
    /\ place' = [place EXCEPT ![t] = "run"]
    /\ UNCHANGED <<rowVars, engineVars, turnVars, logVars, verdict, cancelled>>

\* The body of _run_turn is over: preparation failed, was cancelled or met a
\* held lock; or the loop ended, and the lock is released.
WorkEnds(t) ==
    /\ place[t] \in {"prepare", "run"}
    /\ \E v \in Outcomes :
        /\ v \in {"completed", "stopped"} => place[t] = "run"
        /\ v = "cancelled" => t \in cancelled
        /\ verdict' = [verdict EXCEPT ![t] = v]
    /\ place' = [place EXCEPT ![t] = "ledger"]
    /\ UNCHANGED <<rowVars, engineVars, turnVars, logVars, cancelled>>

\* Mutant: the terminal event is announced first, the ledger is written later.
FinishLater(t) ==
    /\ place[t] = "ledger"
    /\ place' = [place EXCEPT ![t] = "timeline"]
    /\ UNCHANGED <<rowVars, engineVars, turnVars, logVars, verdict, cancelled>>

\* _on_activity of a terminal event, first the ledger.
Finish(t) ==
    /\ place[t] = "ledger"
    /\ FinishRow(t, owner[t], verdict[t])
    /\ place' = [place EXCEPT ![t] = "timeline"]
    /\ UNCHANGED <<turnOf, instance, request, engineVars, turnVars, logVars, verdict,
                   cancelled>>

\* The ledger cannot be written: the handler tries turn.failed, and when that
\* raises too the turn ends without a terminal event.
FinishFails(t) ==
    /\ place[t] = "ledger" /\ "ledger" \in Faults
    /\ \/ /\ verdict' = [verdict EXCEPT ![t] = "failed"]
          /\ UNCHANGED place
       \/ /\ place' = [place EXCEPT ![t] = "closing"]
          /\ UNCHANGED verdict
    /\ UNCHANGED <<rowVars, engineVars, turnVars, logVars, cancelled>>

\* Then the timeline, whose failure is suppressed, then the desktop.
LogEnded(t) ==
    /\ place[t] = "timeline"
    /\ \/ ended' = ended \cup {t}
       \/ "timeline" \in Faults /\ UNCHANGED ended
    /\ place' = [place EXCEPT ![t] = "emit"]
    /\ UNCHANGED <<rowVars, engineVars, turnVars, started, closed, emitted, verdict, cancelled>>

EmitTerminal(t) ==
    /\ place[t] = "emit"
    /\ emitted' = [emitted EXCEPT ![t] = verdict[t]]
    /\ place' = [place EXCEPT ![t] = "closing"]
    /\ UNCHANGED <<rowVars, engineVars, turnVars, started, ended, closed, verdict, cancelled>>

SetDone(t) ==
    /\ place[t] = "closing"
    /\ place' = [place EXCEPT ![t] = "done"]
    /\ UNCHANGED <<rowVars, engineVars, turnVars, logVars, verdict, cancelled>>

-----------------------------------------------------------------------------
(***************************************************************************)
(* Processes, and what the next one does about the turns of the last.      *)
(***************************************************************************)

\* The process dies; the last one the bound allows does not.
Crash(e) ==
    /\ e \in alive /\ e < MaxEngines
    /\ alive' = alive \ {e}
    /\ place' = [t \in Turns |->
                   IF owner[t] = e /\ place[t] \in Live \cup {"claimed"} THEN "dead" ELSE place[t]]
    /\ call' = [call EXCEPT ![e] = NoOp]
    /\ todo' = [todo EXCEPT ![e] = {}]
    /\ UNCHANGED <<nengine, rowVars, turnVars, logVars, verdict, cancelled>>

EngineStart ==
    /\ nengine < MaxEngines
    /\ Overlap \/ alive = {}
    /\ nengine' = nengine + 1
    /\ alive' = alive \cup {nengine + 1}
    /\ UNCHANGED <<call, todo, rowVars, turnVars, logVars, place, verdict, cancelled>>

\* find_orphans.
Orphans == started \ (ended \cup closed)

\* Mutant: reconcile closes the turns that run in its own process too.
ReconcileProbeAll(e) ==
    /\ LockFree(e)
    /\ Orphans # {} /\ SessionLockFree
    /\ todo' = [todo EXCEPT ![e] = Orphans]
    /\ UNCHANGED <<nengine, alive, call, rowVars, turnVars, logVars, place, verdict, cancelled>>

\* reconcile, at the start of the process and whenever the session is opened:
\* the orphans that do not run here, provided the session's lock is free.
ReconcileProbe(e) ==
    /\ LockFree(e)
    /\ Orphans \ LiveIn(e) # {} /\ SessionLockFree
    /\ todo' = [todo EXCEPT ![e] = Orphans \ LiveIn(e)]
    /\ UNCHANGED <<nengine, alive, call, rowVars, turnVars, logVars, place, verdict, cancelled>>

\* Mutant: the closing event is only shown.
ReconcileNotSaved(e, t) ==
    /\ e \in alive /\ t \in todo[e]
    /\ todo' = [todo EXCEPT ![e] = @ \ {t}]
    /\ UNCHANGED <<nengine, alive, call, rowVars, turnVars, logVars, place, verdict, cancelled>>

\* _close_turn, in one transaction: a turn that has a terminal event by now is
\* left alone.
ReconcileClose(e, t) ==
    /\ e \in alive /\ t \in todo[e]
    /\ closed' = IF t \in ended THEN closed ELSE closed \cup {t}
    /\ todo' = [todo EXCEPT ![e] = @ \ {t}]
    /\ UNCHANGED <<nengine, alive, call, rowVars, turnVars, started, ended, emitted, place,
                   verdict, cancelled>>

-----------------------------------------------------------------------------
Request(e) ==
    \/ \E o \in Ops, r \in Requests : OperationStart(e, o, r)
    \/ \E o \in Ops : OperationCancel(e, o)
    \/ StartTurn(e)

Dispatch(e) == \E t \in Turns : DispatchRefused(e, t) \/ Register(e, t)

Worker(t) ==
    \/ AcquireLock(t) \/ WorkEnds(t) \/ Finish(t) \/ LogEnded(t) \/ EmitTerminal(t)
    \/ SetDone(t)

Reconcile(e) == ReconcileProbe(e) \/ \E t \in Turns : ReconcileClose(e, t)

Next ==
    \/ \E e \in Engines : Request(e) \/ Dispatch(e) \/ Reconcile(e) \/ Crash(e)
    \/ \E t \in Turns : Launch(t) \/ LaunchFails(t) \/ Worker(t) \/ FinishFails(t)
    \/ EngineStart

\* Threads go on; the desktop starts a new process when the last one died; a
\* process reconciles when it starts, and the session is opened again and again.
\* A turn may stop the lock from being free again and again, so it is the
\* repeated probe that is strongly fair.
Fairness ==
    /\ \A t \in Turns : WF_vars(Launch(t)) /\ WF_vars(Worker(t))
    /\ \A e \in Engines : WF_vars(Dispatch(e)) /\ SF_vars(ReconcileProbe(e))
    /\ \A e \in Engines, t \in Turns : WF_vars(ReconcileClose(e, t))
    /\ WF_vars(EngineStart)

Spec == Init /\ [][Next]_vars

FairSpec == Spec /\ Fairness

-----------------------------------------------------------------------------
(***************************************************************************)
(* Properties.                                                             *)
(***************************************************************************)

TypeOK ==
    /\ nengine \in Engines /\ alive \subseteq Engines /\ nturn \in 0..MaxTurns
    /\ state \in [Ops -> States]
    /\ turnOf \in [Ops -> 0..MaxTurns]
    /\ instance \in [Ops -> 0..MaxEngines]
    /\ request \in [Ops -> SUBSET Requests]
    /\ call \in [Engines -> Ops \cup {NoOp}]
    /\ opOf \in [Turns -> Ops \cup {NoOp}]
    /\ owner \in [Turns -> 0..MaxEngines]
    /\ place \in [Turns -> Places]
    /\ verdict \in [Turns -> Outcomes]
    /\ cancelled \subseteq Turns /\ launched \subseteq Turns
    /\ started \subseteq Turns /\ ended \subseteq Turns /\ closed \subseteq Turns
    /\ emitted \in [Turns -> Outcomes \cup {"none"}]
    /\ todo \in [Engines -> SUBSET Turns]

\* "identical requests return the existing operation without starting another
\* worker", and an uncertain operation is never replayed: over all processes, an
\* operation id had one worker at most.
OneWorkerPerOperation ==
    \A t1, t2 \in launched : opOf[t1] = opOf[t2] /\ opOf[t1] # NoOp => t1 = t2

\* "Reusing an ID with a different fingerprint fails": the clients that were
\* answered under an id had all asked for the same thing.
OneRequestPerOperation ==
    \A o \in Ops : \A r1, r2 \in request[o] : r1 = r2

\* A row that is no longer pending never changes, however a cancellation, the
\* worker's end and a failed dispatch race (finish).
OutcomesStand ==
    [][\A o \in Ops : state[o] \notin Pending \cup {"none"} => state'[o] = state[o]]_vars

\* "A terminal state is persisted before its terminal event is emitted": what
\* the desktop saw of an operation's turn is what the ledger says.
LedgerBeforeEvent ==
    \A t \in Turns :
        emitted[t] # "none" /\ opOf[t] # NoOp => state[opOf[t]] = emitted[t]

\* An operation its own process reports as pending is being dispatched or has a
\* turn that runs: operation.get never shows work nobody does.
PendingOperationsAreLive ==
    \A o \in Ops : \A e \in alive :
        Project(e, o) \in Pending => place[turnOf[o]] \in Live \cup {"claimed"}

\* A turn that reconcile closed as interrupted showed and saved no end of its
\* own, before or after ("a turn executing elsewhere is never closed under it").
ClosedTurnsHadNoEnd ==
    \A t \in closed : t \notin ended /\ emitted[t] = "none"

\* A turn that a dead process left open does not stay open: a later process
\* writes the terminal event the timeline lacks.
OrphansAreClosed ==
    \A t \in Turns : (t \in started /\ place[t] = "dead") ~> (t \in ended \cup closed)

=============================================================================
