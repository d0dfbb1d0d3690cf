---------------------------- MODULE ResumeRunner ----------------------------
(***************************************************************************)
(* One conversation that a provider limit stopped.  ResumeRunner follows   *)
(* the turns (_observe, on the turn's thread, without a lock), continues   *)
(* what is due (tick, on its own thread) and obeys the owner (arm, now,    *)
(* cancel); ResumeService keeps the row.  While the row waits the queue of *)
(* the conversation is held (_holds_queue).                                *)
(***************************************************************************)
EXTENDS Naturals

CONSTANTS
    MAX_ATTEMPTS,   \* tries before a resume is given up
    MaxResumeTurns, \* bound: turns of the conversation
    MaxPolls,       \* bound: balances read that are still empty
    MaxResumeActs,  \* bound: acts of the owner on the resume, and restarts
    EarlyEnd        \* TRUE: a continuation may end before the runner recorded it

ASSUME ResumeAssumption ==
    /\ MAX_ATTEMPTS \in Nat \ {0}
    /\ MaxResumeTurns \in Nat
    /\ MaxPolls \in Nat
    /\ MaxResumeActs \in Nat
    /\ EarlyEnd \in BOOLEAN

VARIABLES
    always,         \* the owner's setting is "always" (else nothing is armed alone)
    row,            \* session_resumes; state "none": no row
    inflight,       \* _inflight: the continuation running, or 0
    runner,         \* who holds the runner's lock, and where it is
    asking,         \* session.resume.now has seen a waiting row
    turn,           \* number of the last turn, 0: none yet
    stage,          \* where the thread of that turn is
    seen,           \* what _observe of that turn popped and heard
    waits,          \* a queued message waits
    polls,          \* balances read
    acts,           \* acts of the owner so far
    limits          \* history: continuations in a row that a limit stopped, since the
                    \* resume was armed, by the owner or by a turn of his, or he asked for one

resumeVars == <<always, row, inflight, runner, asking, turn, stage, seen, waits,
                polls, acts, limits>>

ResumeTypeOK ==
    /\ always \in BOOLEAN
    /\ row \in [state : {"none", "waiting", "done", "failed", "cancelled", "expired"},
                attempts : 0..(MaxResumeTurns + MaxPolls), mode : {"at", "poll"}, due : BOOLEAN]
    /\ inflight \in 0..MaxResumeTurns
    /\ runner \in {"starting", "idle", "chosen", "now", "started", "recorded"}
    /\ asking \in BOOLEAN
    /\ turn \in 0..MaxResumeTurns
    /\ stage \in {"over", "running", "observed", "noted", "done"}
    /\ seen \in [limit : BOOLEAN, pop : 0..MaxResumeTurns]
    /\ waits \in BOOLEAN
    /\ polls \in 0..MaxPolls
    /\ acts \in 0..MaxResumeActs
    /\ limits \in 0..MaxResumeTurns

Nothing == [limit |-> FALSE, pop |-> 0]

ResumeInit ==
    /\ always \in BOOLEAN
    /\ row = [state |-> "none", attempts |-> 0, mode |-> "at", due |-> FALSE]
    /\ inflight = 0
    /\ runner = "starting"
    /\ asking = FALSE
    /\ turn = 0
    /\ stage = "over"
    /\ seen = Nothing
    /\ waits = FALSE
    /\ polls = 0
    /\ acts = 0
    /\ limits = 0

Waiting == row.state = "waiting"
TurnBusy == stage \in {"running", "observed", "noted"}
CanStart == ~TurnBusy /\ turn < MaxResumeTurns

\* start_turn registered a turn.  The thread of a turn that is done may still be at
\* its kick: the kick then finds the conversation busy and does nothing.
NewTurn ==
    /\ CanStart
    /\ turn' = turn + 1
    /\ stage' = "running"
    /\ seen' = Nothing

\* service.arm: attempts go on while the row waits, and begin again otherwise.
Armed(mode) == [state |-> "waiting", attempts |-> IF Waiting THEN row.attempts ELSE 0,
                mode |-> mode, due |-> FALSE]

\* service.rearm: another try, or give up after MAX_ATTEMPTS.
RearmedUncounted(mode) ==
    [state |-> "waiting", attempts |-> row.attempts, mode |-> mode, due |-> FALSE]
Rearmed(mode) ==
    IF row.attempts + 1 >= MAX_ATTEMPTS
    THEN [row EXCEPT !.state = "failed", !.attempts = @ + 1]
    ELSE [state |-> "waiting", attempts |-> row.attempts + 1, mode |-> mode, due |-> FALSE]

-----------------------------------------------------------------------------
(* The turns of the conversation. *)

\* session.turn.start, when nothing runs.
OwnerTurn ==
    /\ NewTurn
    /\ UNCHANGED <<always, row, inflight, runner, asking, waits, polls, limits, acts>>

\* A message is queued behind the turn that runs, or behind the resume.
Queue ==
    /\ ~waits
    /\ TurnBusy \/ (Waiting /\ inflight = 0)
    /\ waits' = TRUE
    /\ UNCHANGED <<always, row, inflight, runner, asking, turn, stage, seen, polls, limits, acts>>

\* _observe of a terminal event: the continuation is popped, the limit is noted.
Observe(limit) ==
    /\ stage = "running"
    /\ EarlyEnd \/ runner # "started"
    /\ stage' = "observed"
    /\ seen' = [limit |-> limit, pop |-> inflight]
    /\ inflight' = 0
    /\ UNCHANGED <<always, row, runner, asking, turn, waits, polls, limits, acts>>

\* What _observe writes: finish, rearm, arm, or nothing.
ObserveWrites(mode) ==
    /\ stage = "observed"
    /\ stage' = "noted"
    /\ \/ /\ ~seen.limit /\ seen.pop # 0
          /\ row' = [row EXCEPT !.state = "done"]
          /\ limits' = 0
       \/ /\ ~seen.limit /\ seen.pop = 0
          /\ UNCHANGED <<row, limits>>
       \/ /\ seen.limit /\ seen.pop # 0
          /\ row' = Rearmed(mode)
          /\ limits' = limits + 1
       \/ /\ seen.limit /\ seen.pop = 0
          /\ row' = IF always THEN Armed(mode) ELSE row
          /\ limits' = IF always /\ ~Waiting THEN 0 ELSE limits
    /\ UNCHANGED <<always, inflight, runner, asking, turn, seen, waits, polls, acts>>

\* done.set.
TurnDone ==
    /\ stage = "noted"
    /\ stage' = "done"
    /\ UNCHANGED <<always, row, inflight, runner, asking, turn, seen, waits, polls, limits, acts>>

\* _start_next_queued at the end of the turn: held while the resume waits.
TurnKicks ==
    /\ stage = "done"
    /\ IF waits /\ ~(Waiting /\ inflight = 0) /\ turn < MaxResumeTurns
       THEN /\ waits' = FALSE
            /\ turn' = turn + 1
            /\ stage' = "running"
            /\ seen' = Nothing
       ELSE /\ stage' = "over"
            /\ UNCHANGED <<waits, turn, seen>>
    /\ UNCHANGED <<always, row, inflight, runner, asking, polls, limits, acts>>

-----------------------------------------------------------------------------
(* The runner. *)

\* The first tick: what waited past its time by more than 12 hours expires.
ExpireStale(stale) ==
    /\ runner = "starting"
    /\ runner' = "idle"
    /\ row' = IF stale /\ Waiting /\ row.due THEN [row EXCEPT !.state = "expired"] ELSE row
    /\ UNCHANGED <<always, inflight, asking, turn, stage, seen, waits, polls, limits, acts>>

\* The time of the row comes.
TimePasses ==
    /\ Waiting /\ ~row.due
    /\ row' = [row EXCEPT !.due = TRUE]
    /\ UNCHANGED <<always, inflight, runner, asking, turn, stage, seen, waits, polls, limits, acts>>

TickBehindQueue ==
    /\ runner = "idle"
    /\ Waiting /\ row.due
    /\ inflight = 0
    /\ ~TurnBusy /\ ~waits
    /\ runner' = "chosen"
    /\ UNCHANGED <<always, row, inflight, asking, turn, stage, seen, waits, polls, limits, acts>>

\* tick takes a due row of a conversation where nothing runs.
Tick ==
    /\ runner = "idle"
    /\ Waiting /\ row.due
    /\ inflight = 0
    /\ ~TurnBusy
    /\ runner' = "chosen"
    /\ UNCHANGED <<always, row, inflight, asking, turn, stage, seen, waits, polls, limits, acts>>

\* The balance is still empty: looked at again later, and counted.
Postpone ==
    /\ runner = "chosen"
    /\ row.mode = "poll"
    /\ polls < MaxPolls
    /\ polls' = polls + 1
    /\ row' = [row EXCEPT !.due = FALSE, !.attempts = @ + 1]
    /\ runner' = "idle"
    /\ UNCHANGED <<always, inflight, asking, turn, stage, seen, waits, limits, acts>>

\* _continue: the turn starts; refused because another one runs; or refused for
\* good, which ends the resume (also one the owner has cancelled meanwhile).
Continue(refused) ==
    /\ runner \in {"chosen", "now"}
    /\ asking' = (asking /\ runner = "chosen")
    /\ limits' = IF runner = "now" THEN 0 ELSE limits
    /\ \/ /\ ~refused
          /\ NewTurn
          /\ runner' = "started"
          /\ UNCHANGED row
       \/ /\ ~refused /\ TurnBusy
          /\ runner' = "idle"
          /\ UNCHANGED <<row, turn, stage, seen>>
       \/ /\ refused
          /\ row' = [row EXCEPT !.state = "failed"]
          /\ runner' = "idle"
          /\ UNCHANGED <<turn, stage, seen>>
    /\ UNCHANGED <<always, inflight, waits, polls, acts>>

\* The continuation is recorded, then the row is put off for a day.
Record ==
    /\ runner = "started"
    /\ inflight' = turn
    /\ runner' = "recorded"
    /\ UNCHANGED <<always, row, asking, turn, stage, seen, waits, polls, limits, acts>>

PutOff ==
    /\ runner = "recorded"
    /\ row' = [row EXCEPT !.due = FALSE]
    /\ runner' = "idle"
    /\ UNCHANGED <<always, inflight, asking, turn, stage, seen, waits, polls, limits, acts>>

-----------------------------------------------------------------------------
(* The owner. *)

\* session.resume.arm from the error card of the last limit.
Arm(mode) ==
    /\ acts < MaxResumeActs
    /\ acts' = acts + 1
    /\ turn > 0
    /\ row' = Armed(mode)
    /\ limits' = 0
    /\ UNCHANGED <<always, inflight, runner, asking, turn, stage, seen, waits, polls>>

\* session.resume.now: the row is read before the lock is taken.
Now ==
    /\ acts < MaxResumeActs
    /\ acts' = acts + 1
    /\ Waiting
    /\ ~asking
    /\ asking' = TRUE
    /\ UNCHANGED <<always, row, inflight, runner, turn, stage, seen, waits, polls, limits>>

NowContinues ==
    /\ asking
    /\ runner \in {"starting", "idle"}
    /\ runner' = "now"
    /\ UNCHANGED <<always, row, inflight, asking, turn, stage, seen, waits, polls, limits, acts>>

\* session.resume.cancel: only a waiting row; the queue is released.
CancelResume ==
    /\ acts < MaxResumeActs
    /\ acts' = acts + 1
    /\ Waiting
    /\ row' = [row EXCEPT !.state = "cancelled"]
    /\ IF waits /\ CanStart
       THEN /\ waits' = FALSE
            /\ turn' = turn + 1
            /\ stage' = "running"
            /\ seen' = Nothing
       ELSE UNCHANGED <<waits, turn, stage, seen>>
    /\ UNCHANGED <<always, inflight, runner, asking, polls, limits>>

SetMode ==
    /\ acts < MaxResumeActs
    /\ acts' = acts + 1
    /\ always' = ~always
    /\ UNCHANGED <<row, inflight, runner, asking, turn, stage, seen, waits, polls, limits>>

\* The engine is restarted: the row survives, the queue and the runner do not.
RestartEngine ==
    /\ acts < MaxResumeActs
    /\ acts' = acts + 1
    /\ turn > 0
    /\ inflight' = 0
    /\ runner' = "starting"
    /\ asking' = FALSE
    /\ stage' = "over"
    /\ seen' = Nothing
    /\ waits' = FALSE
    /\ UNCHANGED <<always, row, turn, polls, limits>>

TurnThread ==
    \/ \E limit \in BOOLEAN : Observe(limit)
    \/ \E mode \in {"at", "poll"} : ObserveWrites(mode)
    \/ TurnDone
    \/ TurnKicks

RunnerThread ==
    \/ \E stale \in BOOLEAN : ExpireStale(stale)
    \/ Tick
    \/ Postpone
    \/ \E refused \in BOOLEAN : Continue(refused)
    \/ Record
    \/ PutOff

ResumeNext ==
    \/ OwnerTurn
    \/ Queue
    \/ TurnThread
    \/ RunnerThread
    \/ TimePasses
    \/ \E mode \in {"at", "poll"} : Arm(mode)
    \/ Now
    \/ NowContinues
    \/ CancelResume
    \/ SetMode
    \/ RestartEngine

ResumeSpec == ResumeInit /\ [][ResumeNext]_resumeVars

\* A turn ends (it is bounded by the agent loop), the runner ticks, time passes.
ResumeFairness ==
    /\ WF_resumeVars(TurnThread)
    /\ WF_resumeVars(RunnerThread)
    /\ WF_resumeVars(TimePasses)

-----------------------------------------------------------------------------
(* Properties. *)

\* A conversation does not continue by itself for ever against the same limit: after
\* MAX_ATTEMPTS continuations in a row stopped by it the runner gives up, whatever the
\* order of ticks, polls and terminal events, until the owner arms it, asks for
\* another, or a turn of his own that was not one of them meets the limit again.
ContinuationsAreBounded == limits <= MAX_ATTEMPTS

\* A resume that waits is continued or ended; neither a continuation that was
\* started nor a message that is queued leaves it waiting for ever.
WaitingResumesContinue ==
    Waiting ~> (TurnBusy \/ ~Waiting \/ turn = MaxResumeTurns)

=============================================================================
