--------------------------- MODULE ScheduleRunner ---------------------------
(***************************************************************************)
(* One scheduled task and its runs.  The clock thread (tick) starts what   *)
(* is due and holds the runner's lock throughout; a run is a turn in a     *)
(* session of its own, a message in the conversation it was asked in       *)
(* ("here"), or a tool on a thread.  _observe needs that lock for every    *)
(* event of a turn but turn.started, so no turn is seen to end during a    *)
(* tick.  The owner switches the task, empties the queue and deletes; the  *)
(* engine restarts.                                                        *)
(***************************************************************************)
EXTENDS Naturals, FiniteSets

CONSTANTS
    MAX_CHANGE_FAILURES,    \* failed runs on one change of the folder
    MaxRuns,                \* bound: runs of the task
    MaxVersions,            \* bound: versions of the watched folder
    MaxScheduleActs         \* bound: acts of the owner, and restarts

ASSUME ScheduleAssumption ==
    /\ MAX_CHANGE_FAILURES \in Nat \ {0}
    /\ MaxRuns \in Nat /\ MaxVersions \in Nat \ {0} /\ MaxScheduleActs \in Nat

VARIABLES
    kind,           \* what a run of the task is: "agent", "here" or "tool"
    watch,          \* the task watches a folder
    task,           \* the row: "on", "off" or "gone"
    runs,           \* scheduled_runs: status of each run
    tick,           \* where the thread that holds the runner's lock is
    cur,            \* the run it is at
    recovered,      \* _recovered
    toRequeue,      \* queued runs that _recover has still to put back
    due,            \* the lock is held for a due task, not for one run by hand
    live,           \* _live: runs whose turn is followed
    blocked,        \* _blocked: runs with an expired approval
    working,        \* runs whose own turn or tool is running
    conv,           \* the conversation: free, in a turn of the owner or of a run, in one
                    \* whose end was observed but is not done, or deleted
    lined,          \* runs in its queue
    folder,         \* what the watched folder looks like
    kept,           \* the fingerprint kept with the task, 0: none yet
    pending,        \* _pending_fingerprints: change each run was started for
    failures,       \* _change_failures: <<fingerprint, failed runs on it>>
    asked,          \* owner's acts so far
    seenEnds        \* history: per version, how the runs on it ended

schedVars == <<kind, watch, task, runs, tick, cur, recovered, toRequeue, due, live, blocked,
               working, conv, lined, folder, kept, pending, failures, asked, seenEnds>>

Runs == 1..MaxRuns
Versions == 1..MaxVersions
ActiveStatus == {"queued", "running", "needs_you"}
FinalStatus == {"completed", "failed", "cancelled", "skipped", "blocked"}
ActiveRuns == {r \in Runs : runs[r] \in ActiveStatus}
Unused == {r \in Runs : runs[r] = "none"}

ScheduleTypeOK ==
    /\ kind \in {"agent", "here", "tool"}
    /\ watch \in BOOLEAN
    /\ task \in {"on", "off", "gone"}
    /\ runs \in [Runs -> {"none", "deleted"} \cup ActiveStatus \cup FinalStatus]
    /\ tick \in {"idle", "due", "recover", "agent", "route", "starting", "started", "queueing",
                 "kick", "advance"}
    /\ cur \in 0..MaxRuns
    /\ recovered \in BOOLEAN
    /\ toRequeue \subseteq Runs
    /\ due \in BOOLEAN
    /\ live \subseteq Runs /\ blocked \subseteq Runs /\ working \subseteq Runs
    /\ conv \in {"free", "owner", "run", "ending", "gone"}
    /\ lined \subseteq Runs
    /\ folder \in Versions
    /\ kept \in 0..MaxVersions
    /\ pending \in [Runs -> 0..MaxVersions]
    /\ failures \in (0..MaxVersions) \X (0..MAX_CHANGE_FAILURES)
    /\ asked \in 0..MaxScheduleActs
    /\ seenEnds \in [Versions -> [taken : BOOLEAN, failed : 0..MAX_CHANGE_FAILURES]]

ScheduleInit ==
    /\ kind \in {"agent", "here", "tool"}
    /\ watch \in BOOLEAN
    /\ task = "on"
    /\ runs = [r \in Runs |-> "none"]
    /\ tick = "idle"
    /\ cur = 0
    /\ recovered = FALSE
    /\ toRequeue = {}
    /\ due = FALSE
    /\ live = {} /\ blocked = {} /\ working = {}
    /\ conv = "free"
    /\ lined = {}
    /\ folder = 1
    /\ kept = 0
    /\ pending = [r \in Runs |-> 0]
    /\ failures = <<0, 0>>
    /\ asked = 0
    /\ seenEnds = [v \in Versions |-> [taken |-> FALSE, failed |-> 0]]

-----------------------------------------------------------------------------
(* Ending a run. *)

\* _take_change: whether the end of a run on change v uses it up.  wait: skipped
\* because of the daily limit.
FailuresOn(v) == IF failures[1] = v THEN failures[2] + 1 ELSE 1
TakesChange(v, status, wait) ==
    IF status = "failed" THEN FailuresOn(v) >= MAX_CHANGE_FAILURES ELSE ~wait

\* _finish.
FinishRun(r, status, wait) ==
    LET v == pending[r]
        takes == v # 0 /\ TakesChange(v, status, wait)
        final == IF takes /\ status = "failed" THEN "blocked" ELSE status
    IN  /\ runs' = [runs EXCEPT ![r] = IF @ = "deleted" THEN @ ELSE final]
        /\ pending' = [pending EXCEPT ![r] = 0]
        /\ kept' = IF takes THEN v ELSE kept
        /\ failures' = IF v = 0 \/ (status = "skipped" /\ wait) THEN failures
                       ELSE IF takes THEN <<0, 0>> ELSE <<v, FailuresOn(v)>>
        /\ seenEnds' =
             IF v = 0 \/ wait THEN seenEnds
             ELSE IF status = "failed"
             THEN [seenEnds EXCEPT ![v].failed =
                     IF @ < MAX_CHANGE_FAILURES THEN @ + 1 ELSE @]
             ELSE [seenEnds EXCEPT ![v].taken = TRUE]

Unfinished == UNCHANGED <<runs, pending, kept, failures, seenEnds>>
Status(r, s) ==
    /\ runs' = [runs EXCEPT ![r] = IF @ = "deleted" THEN @ ELSE s]
    /\ UNCHANGED <<pending, kept, failures, seenEnds>>

\* The tick goes on with the task, or with the next run to put back.
After == IF due THEN "advance" ELSE IF toRequeue # {} THEN "recover" ELSE "idle"

-----------------------------------------------------------------------------
(* The clock thread. *)

\* _recover: what ran died with the last process.
Recover ==
    /\ tick = "idle"
    /\ ~recovered
    /\ recovered' = TRUE
    /\ toRequeue' = {r \in Runs : runs[r] = "queued"}
    /\ runs' = [r \in Runs |-> IF runs[r] \in {"running", "needs_you"} /\ r \notin live
                               THEN "failed" ELSE runs[r]]
    /\ tick' = IF toRequeue' = {} THEN "idle" ELSE "recover"
    /\ UNCHANGED <<kind, watch, task, cur, due, live, blocked, working, conv, lined, folder,
                   kept, pending, failures, asked, seenEnds>>

\* _requeue: what was queued goes back to its conversation, or is skipped when it is
\* too old; a run of a deleted task is gone with it.
Requeue(r, late) ==
    /\ tick = "recover"
    /\ r \in toRequeue
    /\ toRequeue' = toRequeue \ {r}
    /\ IF late \/ runs[r] = "deleted"
       THEN /\ FinishRun(r, "skipped", FALSE)
            /\ tick' = IF toRequeue' = {} THEN "idle" ELSE "recover"
            /\ UNCHANGED cur
       ELSE tick' = "route" /\ cur' = r /\ Unfinished
    /\ UNCHANGED <<kind, watch, task, recovered, due, live, blocked, working, conv, lined,
                   folder, asked>>

\* The queued runs of a conversation that was deleted fail.
SettleGone ==
    /\ tick = "idle"
    /\ recovered
    /\ conv = "gone"
    /\ \E r \in Runs : runs[r] = "queued" /\ FinishRun(r, "failed", FALSE)
    /\ UNCHANGED <<kind, watch, task, tick, cur, recovered, toRequeue, due, live, blocked,
                   working, conv, lined, folder, asked>>

\* tick reads the task as due.
Due ==
    /\ tick = "idle"
    /\ recovered
    /\ task = "on"
    /\ tick' = "due"
    /\ due' = TRUE
    /\ UNCHANGED <<kind, watch, task, runs, cur, recovered, toRequeue, live, blocked, working,
                   conv, lined, folder, kept, pending, failures, asked, seenEnds>>

\* Where a run of each kind goes on; a tool is on its thread.
GoesTo(k) == CASE k = "here" -> "route" [] k = "agent" -> "agent" [] k = "tool" -> After

StartRunTakesChange(missed) ==
    /\ tick = "due"
    /\ \E r \in Unused :
         /\ \A q \in Unused : r <= q
         /\ ~missed /\ ActiveRuns = {}
         /\ runs' = [runs EXCEPT ![r] = IF watch /\ kept \in {0, folder} THEN "skipped"
                                        ELSE "running"]
         /\ kept' = IF watch THEN folder ELSE kept
         /\ cur' = r
         /\ working' = IF kind = "tool" /\ runs'[r] = "running" THEN working \cup {r} ELSE working
         /\ tick' = IF runs'[r] = "running" THEN GoesTo(kind) ELSE "advance"
    /\ UNCHANGED <<kind, watch, task, recovered, toRequeue, due, live, blocked, conv, lined,
                   folder, pending, failures, asked, seenEnds>>

\* It missed its time or its last run is active (a skipped run); its folder did not
\* change (skipped); or it starts.
StartRun(missed) ==
    /\ tick = "due"
    /\ \E r \in Unused :
         /\ \A q \in Unused : r <= q
         /\ IF missed \/ ActiveRuns # {}
            THEN /\ runs' = [runs EXCEPT ![r] = "skipped"]
                 /\ tick' = "advance"
                 /\ UNCHANGED <<cur, working, kept, pending>>
            ELSE IF watch /\ kept \in {0, folder}
            THEN /\ runs' = [runs EXCEPT ![r] = "skipped"]
                 /\ kept' = folder
                 /\ tick' = "advance"
                 /\ UNCHANGED <<cur, working, pending>>
            ELSE /\ runs' = [runs EXCEPT ![r] = "running"]
                 /\ pending' = [pending EXCEPT ![r] = IF watch THEN folder ELSE 0]
                 /\ cur' = r
                 /\ working' = IF kind = "tool" THEN working \cup {r} ELSE working
                 /\ tick' = GoesTo(kind)
                 /\ UNCHANGED kept
    /\ UNCHANGED <<kind, watch, task, recovered, toRequeue, due, live, blocked, conv, lined,
                   folder, failures, asked, seenEnds>>

\* _start_agent_run: a session of its own, followed before its turn starts.
StartAgentRun(fails) ==
    /\ tick = "agent"
    /\ tick' = After
    /\ IF fails
       THEN FinishRun(cur, "failed", FALSE) /\ UNCHANGED <<live, working>>
       ELSE /\ live' = live \cup {cur}
            /\ working' = working \cup {cur}
            /\ Unfinished
    /\ UNCHANGED <<kind, watch, task, cur, recovered, toRequeue, due, blocked, conv, lined,
                   folder, asked>>

\* _start_or_queue looks at the conversation: deleted (failed, and the task is
\* switched off), free (followed before it starts), or busy.
Route ==
    /\ tick = "route"
    /\ \/ /\ conv = "gone"
          /\ FinishRun(cur, "failed", FALSE)
          /\ task' = IF task = "on" THEN "off" ELSE task
          /\ tick' = After
          /\ UNCHANGED live
       \/ /\ conv = "free" /\ lined = {}
          /\ live' = {cur}
          /\ tick' = "starting"
          /\ UNCHANGED task /\ Unfinished
       \/ /\ conv \in {"owner", "run", "ending"} \/ (conv = "free" /\ lined # {})
          /\ Status(cur, "queued")
          /\ tick' = "queueing"
          /\ UNCHANGED <<task, live>>
    /\ UNCHANGED <<kind, watch, cur, recovered, toRequeue, due, blocked, working, conv, lined,
                   folder, asked>>

\* start_turn: started, refused by a turn that began meanwhile, or refused for good.
StartRunTurn(refused) ==
    /\ tick = "starting"
    /\ \/ /\ conv = "free" /\ ~refused
          /\ conv' = "run"
          /\ working' = working \cup {cur}
          /\ tick' = "started"
          /\ UNCHANGED live /\ Unfinished
       \/ /\ conv \in {"owner", "run", "ending"} /\ ~refused
          /\ live' = {}
          /\ Status(cur, "queued")
          /\ tick' = "queueing"
          /\ UNCHANGED <<conv, working>>
       \/ /\ refused \/ conv = "gone"
          /\ live' = {}
          /\ FinishRun(cur, "failed", FALSE)
          /\ tick' = After
          /\ UNCHANGED <<conv, working>>
    /\ UNCHANGED <<kind, watch, task, cur, recovered, toRequeue, due, blocked, lined, folder,
                   asked>>

\* The run is recorded as running.
RecordStart ==
    /\ tick = "started"
    /\ Status(cur, "running")
    /\ tick' = After
    /\ UNCHANGED <<kind, watch, task, cur, recovered, toRequeue, due, live, blocked, working,
                   conv, lined, folder, asked>>

\* queue_add: the queue may be full.
QueueRun(full) ==
    /\ tick = "queueing"
    /\ IF full \/ conv = "gone"
       THEN /\ FinishRun(cur, "failed", FALSE)
            /\ tick' = After
            /\ UNCHANGED lined
       ELSE /\ lined' = lined \cup {cur}
            /\ tick' = "kick"
            /\ Unfinished
    /\ UNCHANGED <<kind, watch, task, cur, recovered, toRequeue, due, live, blocked, working,
                   conv, folder, asked>>

\* _start_next_queued: the next run of the queue starts; turn.started finds it
\* queued (_queued_run_started) and follows it.
StartsQueued(then) ==
    IF lined # {} /\ conv \in {"free", "ending"}
    THEN \E r \in lined :
           /\ \A q \in lined : r <= q
           /\ lined' = lined \ {r}
           /\ conv' = "run"
           /\ working' = working \cup {r}
           /\ IF runs[r] = "queued"
              THEN live' = {r} /\ Status(r, "running")
              ELSE UNCHANGED live /\ Unfinished
           /\ tick' = then
    ELSE tick' = then /\ UNCHANGED <<lined, conv, working, live>> /\ Unfinished

KickNot ==
    /\ tick = "kick"
    /\ tick' = After
    /\ UNCHANGED <<kind, watch, task, runs, cur, recovered, toRequeue, due, live, blocked,
                   working, conv, lined, folder, kept, pending, failures, asked, seenEnds>>

\* Without the kick the run waits for the end of a turn that is already over.
KickRun ==
    /\ tick = "kick"
    /\ IF conv = "free" THEN StartsQueued(After)
       ELSE tick' = After /\ UNCHANGED <<lined, conv, working, live>> /\ Unfinished
    /\ UNCHANGED <<kind, watch, task, cur, recovered, toRequeue, due, blocked, folder, asked>>

\* tasks.advance writes the row, also one that was deleted during the tick.
Advance(last) ==
    /\ tick = "advance"
    /\ task' = IF task = "off" \/ last THEN "off" ELSE "on"
    /\ tick' = "idle"
    /\ due' = FALSE
    /\ cur' = 0
    /\ UNCHANGED <<kind, watch, runs, recovered, toRequeue, live, blocked, working, conv,
                   lined, folder, kept, pending, failures, asked, seenEnds>>

-----------------------------------------------------------------------------
(* The turns and the tools. *)

\* The turn of a run asks, is answered, or its approval expires.
RunAsks(r) ==
    /\ tick = "idle"
    /\ r \in working /\ r \in live
    /\ runs[r] # "deleted"
    /\ Status(r, IF runs[r] = "needs_you" THEN "running" ELSE "needs_you")
    /\ UNCHANGED <<kind, watch, task, tick, cur, recovered, toRequeue, due, live, blocked,
                   working, conv, lined, folder, asked>>

ApprovalExpires(r) ==
    /\ tick = "idle"
    /\ r \in live \ blocked
    /\ runs[r] = "needs_you"
    /\ blocked' = blocked \cup {r}
    /\ UNCHANGED <<kind, watch, task, runs, tick, cur, recovered, toRequeue, due, live,
                   working, conv, lined, folder, kept, pending, failures, asked, seenEnds>>

\* A terminal event ends the run its session follows; a completed turn whose
\* approval expired leaves it blocked.
TurnTerminal(r, how) ==
    /\ r \in working
    /\ kind # "tool"
    /\ tick = "idle"
    /\ working' = working \ {r}
    /\ conv' = IF kind = "here" THEN "ending" ELSE conv
    /\ IF r \in live
       THEN /\ live' = live \ {r}
            /\ blocked' = blocked \ {r}
            /\ FinishRun(r, IF r \in blocked /\ how = "completed" THEN "blocked" ELSE how, FALSE)
       ELSE UNCHANGED <<live, blocked>> /\ Unfinished
    /\ UNCHANGED <<kind, watch, task, tick, cur, recovered, toRequeue, due, lined, folder,
                   asked>>

\* done.set, and _start_next_queued on the thread of the turn.  What it starts is
\* observed under the lock.
TurnOver ==
    /\ conv = "ending"
    /\ \A q \in lined : tick = "idle"
    /\ IF lined = {} THEN conv' = "free" /\ UNCHANGED <<lined, working, live, tick>> /\ Unfinished
       ELSE StartsQueued(tick)
    /\ UNCHANGED <<kind, watch, task, cur, recovered, toRequeue, due, blocked, folder, asked>>

\* The owner's turn starts whenever the conversation is free.
OwnerTurns ==
    /\ kind = "here"
    /\ \/ conv = "free" /\ conv' = "owner"
       \/ conv = "owner" /\ tick = "idle" /\ conv' = "ending"
    /\ UNCHANGED <<kind, watch, task, runs, tick, cur, recovered, toRequeue, due, live,
                   blocked, working, lined, folder, kept, pending, failures, asked, seenEnds>>

\* _run_tool, or _run_command: it ends, waits for the daily limit, or hands its
\* result to a turn of its own.
ToolEnds(r, status, wait) ==
    /\ r \in working
    /\ kind = "tool"
    /\ r \notin live
    /\ wait => status = "skipped"
    /\ working' = working \ {r}
    /\ FinishRun(r, status, wait)
    /\ UNCHANGED <<kind, watch, task, tick, cur, recovered, toRequeue, due, live, blocked,
                   conv, lined, folder, asked>>

ToolHandsOver(r) ==
    /\ tick = "idle"
    /\ r \in working
    /\ kind = "tool"
    /\ r \notin live
    /\ live' = live \cup {r}
    /\ UNCHANGED <<kind, watch, task, runs, tick, cur, recovered, toRequeue, due, blocked,
                   working, conv, lined, folder, kept, pending, failures, asked, seenEnds>>

HandedOverEnds(r, how) ==
    /\ tick = "idle"
    /\ r \in working \cap live
    /\ kind = "tool"
    /\ working' = working \ {r}
    /\ live' = live \ {r}
    /\ blocked' = blocked \ {r}
    /\ FinishRun(r, IF r \in blocked /\ how = "completed" THEN "blocked" ELSE how, FALSE)
    /\ UNCHANGED <<kind, watch, task, tick, cur, recovered, toRequeue, due, conv, lined,
                   folder, asked>>

FolderChanges ==
    /\ watch
    /\ folder < MaxVersions
    /\ folder' = folder + 1
    /\ UNCHANGED <<kind, watch, task, runs, tick, cur, recovered, toRequeue, due, live,
                   blocked, working, conv, lined, kept, pending, failures, asked, seenEnds>>

-----------------------------------------------------------------------------
(* The owner, and the engine. *)

Act == asked < MaxScheduleActs /\ asked' = asked + 1

\* schedule.run: as a due one, without looking at the folder; refused while a run is
\* active.
RunNow ==
    /\ Act
    /\ tick = "idle" /\ task # "gone"
    /\ ActiveRuns = {}
    /\ \E r \in Unused :
         /\ \A q \in Unused : r <= q
         /\ runs' = [runs EXCEPT ![r] = "running"]
         /\ cur' = r
         /\ working' = IF kind = "tool" THEN working \cup {r} ELSE working
         /\ tick' = GoesTo(kind)
    /\ UNCHANGED <<kind, watch, task, recovered, toRequeue, due, live, blocked, conv, lined,
                   folder, kept, pending, failures, seenEnds>>

\* schedule.update switches the task off: its queued runs leave their queue and end
\* cancelled, also one whose turn has just begun; or on again.
Switch ==
    /\ Act
    /\ tick = "idle"
    /\ \/ /\ task = "on" /\ task' = "off"
          /\ \/ \E r \in Runs : /\ runs[r] = "queued"
                                /\ lined' = lined \ {r}
                                /\ FinishRun(r, "cancelled", FALSE)
             \/ (\A r \in Runs : runs[r] # "queued") /\ UNCHANGED lined /\ Unfinished
       \/ task = "off" /\ task' = "on" /\ UNCHANGED lined /\ Unfinished
    /\ UNCHANGED <<kind, watch, tick, cur, recovered, toRequeue, due, live, blocked, working,
                   conv, folder>>

\* session.queue.clear: the runs taken out end cancelled.
ClearQueue ==
    /\ Act
    /\ \E r \in lined :
         /\ lined' = lined \ {r}
         /\ IF runs[r] = "queued" THEN FinishRun(r, "cancelled", FALSE) ELSE Unfinished
    /\ UNCHANGED <<kind, watch, task, tick, cur, recovered, toRequeue, due, live, blocked,
                   working, conv, folder>>

\* schedule.delete: the rows go.  The lock is held only for the queue, so a tick may
\* hold a copy of the task; one that is starting the run would fail on its row (its
\* task_id is NOT NULL) and is left out.
DeleteTask ==
    /\ Act
    /\ task # "gone"
    /\ tick \in {"idle", "due", "advance"}
    /\ task' = "gone"
    /\ lined' = {}
    /\ runs' = [r \in Runs |-> IF runs[r] = "none" THEN "none" ELSE "deleted"]
    /\ UNCHANGED <<kind, watch, tick, cur, recovered, toRequeue, due, live, blocked, working,
                   conv, folder, kept, pending, failures, seenEnds>>

DeleteConversation ==
    /\ Act
    /\ kind = "here" /\ conv = "free"
    /\ conv' = "gone"
    /\ lined' = {}
    /\ UNCHANGED <<kind, watch, task, runs, tick, cur, recovered, toRequeue, due, live,
                   blocked, working, folder, kept, pending, failures, seenEnds>>

RestartScheduler ==
    /\ Act
    /\ tick' = "idle"
    /\ cur' = 0
    /\ recovered' = FALSE
    /\ toRequeue' = {}
    /\ due' = FALSE
    /\ live' = {} /\ blocked' = {} /\ working' = {}
    /\ conv' = IF conv = "gone" THEN "gone" ELSE "free"
    /\ lined' = {}
    /\ pending' = [r \in Runs |-> 0]
    /\ failures' = <<0, 0>>
    /\ UNCHANGED <<kind, watch, task, runs, folder, kept, seenEnds>>

ClockThread ==
    \/ Recover
    \/ \E r \in Runs, late \in BOOLEAN : Requeue(r, late)
    \/ SettleGone
    \/ Due
    \/ \E missed \in BOOLEAN : StartRun(missed)
    \/ \E fails \in BOOLEAN : StartAgentRun(fails)
    \/ Route
    \/ \E refused \in BOOLEAN : StartRunTurn(refused)
    \/ RecordStart
    \/ \E full \in BOOLEAN : QueueRun(full)
    \/ KickRun
    \/ \E last \in BOOLEAN : Advance(last)

ScheduleNext ==
    \/ ClockThread
    \/ \E r \in Runs : RunAsks(r) \/ ApprovalExpires(r) \/ ToolHandsOver(r)
    \/ \E r \in Runs, how \in {"completed", "failed", "cancelled"} :
         TurnTerminal(r, how) \/ HandedOverEnds(r, how)
    \/ \E r \in Runs, s \in {"completed", "skipped", "failed", "blocked"}, wait \in BOOLEAN :
         ToolEnds(r, s, wait)
    \/ TurnOver
    \/ OwnerTurns
    \/ FolderChanges
    \/ RunNow
    \/ Switch
    \/ ClearQueue
    \/ DeleteTask
    \/ DeleteConversation
    \/ RestartScheduler

ScheduleSpec == ScheduleInit /\ [][ScheduleNext]_schedVars

-----------------------------------------------------------------------------
(* Properties. *)

\* "Never a silent failure", and a task whose last run is active is skipped: so every
\* active run has something that will end it.  Its turn runs and is followed, its
\* tool runs, it is in the queue behind a turn, the clock thread is at it, or the engine has not
\* recovered it or its deleted conversation yet.
ActiveRunsAreCarried ==
    \A r \in ActiveRuns :
        \/ r \in working /\ (kind = "tool" \/ r \in live)
        \/ r \in lined /\ conv # "free"
        \/ r = cur /\ tick # "idle"
        \/ ~recovered \/ r \in toRequeue
        \/ runs[r] = "queued" /\ conv = "gone"

\* A change of the watched folder is used up only by a run it caused: one that ended
\* other than failed, or MAX_CHANGE_FAILURES failed ones; a restart, a run skipped,
\* the daily limit and runs by hand do not lose it.
ChangesAreTakenByRuns ==
    [][(kept' # kept /\ kept # 0) =>
            \/ seenEnds'[kept'].taken
            \/ seenEnds'[kept'].failed = MAX_CHANGE_FAILURES]_schedVars

=============================================================================
