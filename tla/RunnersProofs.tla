---------------------------- MODULE RunnersProofs ----------------------------
(***************************************************************************)
(* Proofs about what starts turns by itself: the resume of a conversation  *)
(* that a provider limit stopped (ResumeRunner) is given up after          *)
(* MAX_ATTEMPTS continuations, and the goal of a conversation (GoalRunner) *)
(* takes no more turns than its cap.                                       *)
(***************************************************************************)
EXTENDS MCServices, TLAPS

(***************************************************************************)
(* The resume.  A continuation that may still be counted, because it was   *)
(* chosen, runs or is about to be noted, is counted once, and was chosen   *)
(* while the row waited, below MAX_ATTEMPTS.                               *)
(***************************************************************************)

\* A continuation is on its way to be counted.
Continuing ==
    \/ runner \in {"chosen", "started"}
    \/ inflight # 0
    \/ stage = "observed" /\ seen.pop # 0

ResumeInv ==
    /\ limits <= MAX_ATTEMPTS /\ limits <= row.attempts
    /\ Waiting \/ Continuing => limits < MAX_ATTEMPTS
    /\ inflight # 0 => stage = "running" /\ runner \notin {"chosen", "started"}
    /\ runner = "started" => stage = "running"
    /\ stage = "observed" /\ seen.pop # 0 => runner \notin {"chosen", "started"}

\* An attempt is a turn that ended at the limit, or a balance that was read.
AttemptsInv ==
    /\ row.attempts <= turn + polls /\ limits <= turn
    /\ stage \in {"running", "observed"} => row.attempts < turn + polls /\ limits < turn

\* The row of session_resumes, and what _observe heard.
ResumeRows == [state : {"none", "waiting", "done", "failed", "cancelled", "expired"},
               attempts : 0..(MaxResumeTurns + MaxPolls), mode : {"at", "poll"}, due : BOOLEAN]
Heard == [limit : BOOLEAN, pop : 0..MaxResumeTurns]

ResumeTypes ==
    /\ always \in BOOLEAN /\ row \in ResumeRows
    /\ inflight \in 0..MaxResumeTurns /\ turn \in 0..MaxResumeTurns
    /\ runner \in {"starting", "idle", "chosen", "now", "started", "recorded"}
    /\ asking \in BOOLEAN
    /\ stage \in {"over", "running", "observed", "noted", "done"}
    /\ seen \in Heard
    /\ waits \in BOOLEAN
    /\ polls \in 0..MaxPolls /\ acts \in 0..MaxResumeActs
    /\ limits \in 0..MaxResumeTurns

\* The types as the runner states them.
LEMMA ResumeTypesOK == ResumeTypeOK <=> ResumeTypes
BY DEF ResumeTypeOK, ResumeTypes, ResumeRows, Heard

\* A row that is written is a row, with the fields that were written.
LEMMA ResumeRowTypes ==
    ASSUME NEW r \in ResumeRows
    PROVE  /\ r.attempts \in 0..(MaxResumeTurns + MaxPolls)
           /\ \A n \in 0..(MaxResumeTurns + MaxPolls), m \in {"at", "poll"} :
                [state |-> "waiting", attempts |-> n, mode |-> m, due |-> FALSE] \in ResumeRows
           /\ \A s \in {"done", "failed", "cancelled", "expired"} :
                /\ [r EXCEPT !.state = s] \in ResumeRows /\ [r EXCEPT !.state = s].state = s
                /\ [r EXCEPT !.state = s].attempts = r.attempts
           /\ \A n \in 0..(MaxResumeTurns + MaxPolls) :
                /\ [r EXCEPT !.state = "failed", !.attempts = n] \in ResumeRows
                /\ [r EXCEPT !.state = "failed", !.attempts = n].state = "failed"
                /\ [r EXCEPT !.state = "failed", !.attempts = n].attempts = n
                /\ [r EXCEPT !.due = FALSE, !.attempts = n] \in ResumeRows
                /\ [r EXCEPT !.due = FALSE, !.attempts = n].state = r.state
                /\ [r EXCEPT !.due = FALSE, !.attempts = n].attempts = n
           /\ \A d \in BOOLEAN :
                /\ [r EXCEPT !.due = d] \in ResumeRows /\ [r EXCEPT !.due = d].state = r.state
                /\ [r EXCEPT !.due = d].attempts = r.attempts
BY DEF ResumeRows

\* Nothing was heard yet, and no attempt is one.
LEMMA NothingHeard ==
    /\ Nothing \in Heard /\ 0 \in 0..MaxResumeTurns /\ 0 \in 0..(MaxResumeTurns + MaxPolls)
    /\ \A h \in Heard : h.pop \in 0..MaxResumeTurns
<1>1. 0 \in 0..MaxResumeTurns /\ 0 \in 0..(MaxResumeTurns + MaxPolls) BY ResumeAssumption
<1>2. QED BY <1>1 DEF Nothing, Heard

\* A continuation that may end before it is recorded is counted late or never: then only the
\* types hold, and an attempt still needs a turn or a poll.
ResumeIInv == ResumeTypes /\ AttemptsInv /\ (EarlyEnd \/ ResumeInv)

\* The turns, which the observer follows without a lock.
LEMMA ResumeTurns ==
    ASSUME ResumeIInv,
           \/ OwnerTurn \/ Queue \/ TurnDone \/ TurnKicks
           \/ \E limit \in BOOLEAN : Observe(limit)
    PROVE  ResumeIInv'
<1>0. row.attempts \in 0..(MaxResumeTurns + MaxPolls) /\ seen.pop \in 0..MaxResumeTurns
  BY ResumeRowTypes, NothingHeard, ResumeAssumption DEF ResumeIInv, ResumeTypes
<1> USE <1>0, ResumeAssumption, NothingHeard
    DEF ResumeIInv, ResumeTypes, AttemptsInv, ResumeInv, Continuing, Waiting
<1>1. CASE OwnerTurn BY <1>1 DEF OwnerTurn, NewTurn, CanStart, TurnBusy
<1>2. CASE Queue BY <1>2 DEF Queue
<1>3. CASE TurnDone BY <1>3 DEF TurnDone
<1>4. CASE TurnKicks
  <2>1. /\ UNCHANGED <<always, row, inflight, runner, asking, polls, limits, acts>>
        /\ stage = "done"
    BY <1>4 DEF TurnKicks
  <2>2. CASE waits' = FALSE /\ turn < MaxResumeTurns /\ turn' = turn + 1 /\ stage' = "running"
             /\ seen' = Nothing
    <3>0. turn' \in 0..MaxResumeTurns /\ seen' \in Heard BY <2>2
    <3>1. ResumeTypes' BY <2>1, <2>2, <3>0
    <3>2. AttemptsInv' BY <2>1, <2>2
    <3>3. EarlyEnd \/ ResumeInv' BY <2>1, <2>2
    <3>4. QED BY <3>1, <3>2, <3>3
  <2>3. CASE stage' = "over" /\ UNCHANGED <<waits, turn, seen>> BY <2>1, <2>3
  <2>4. QED BY <1>4, <2>2, <2>3 DEF TurnKicks
<1>5. ASSUME NEW limit \in BOOLEAN, Observe(limit) PROVE ResumeIInv'
  <2>1. seen' = [limit |-> limit, pop |-> inflight] /\ stage' = "observed" /\ inflight' = 0
        /\ stage = "running" /\ (EarlyEnd \/ runner # "started")
        /\ UNCHANGED <<always, row, runner, asking, turn, waits, polls, limits, acts>>
    BY <1>5 DEF Observe
  <2>2. seen' \in Heard /\ seen'.pop = inflight BY <2>1 DEF Heard
  <2>3. ResumeTypes' BY <2>1, <2>2
  <2>4. AttemptsInv' BY <2>1, <2>2
  <2>5. EarlyEnd \/ ResumeInv' BY <2>1, <2>2
  <2>6. QED BY <2>3, <2>4, <2>5
<1>6. QED BY <1>1, <1>2, <1>3, <1>4, <1>5

\* What the observer writes: a limit met by a continuation counts, and is the last one
\* when the row is given up.
LEMMA ResumeNoted ==
    ASSUME ResumeIInv, NEW mode \in {"at", "poll"}, ObserveWrites(mode)
    PROVE  ResumeIInv'
<1>0. row.attempts \in 0..(MaxResumeTurns + MaxPolls) /\ seen.pop \in 0..MaxResumeTurns
  BY ResumeRowTypes, NothingHeard, ResumeAssumption DEF ResumeIInv, ResumeTypes
<1> USE <1>0, ResumeAssumption, NothingHeard
    DEF ResumeIInv, ResumeTypes, AttemptsInv, ResumeInv, Continuing, Waiting
<1>a. /\ stage = "observed" /\ stage' = "noted"
      /\ UNCHANGED <<always, inflight, runner, asking, turn, seen, waits, polls, acts>>
  BY DEF ObserveWrites
<1>1. CASE row' = [row EXCEPT !.state = "done"] /\ limits' = 0
  <2>1. row' \in ResumeRows /\ row'.state = "done" /\ row'.attempts = row.attempts
    BY <1>1, ResumeRowTypes
  <2>2. QED BY <1>a, <1>1, <2>1
<1>2. CASE row' = row /\ limits' = limits BY <1>a, <1>2
<1>3. CASE seen.pop # 0 /\ row' = Rearmed(mode) /\ limits' = limits + 1
  <2>0. /\ row.attempts + 1 \in 0..(MaxResumeTurns + MaxPolls)
        /\ EarlyEnd \/ (inflight = 0 /\ runner \notin {"chosen", "started"}
                          /\ limits < MAX_ATTEMPTS)
        /\ limits + 1 \in 0..MaxResumeTurns
    BY <1>a, <1>3
  <2>1. CASE row.attempts + 1 >= MAX_ATTEMPTS
    <3>1. row' = [row EXCEPT !.state = "failed", !.attempts = row.attempts + 1]
      BY <1>3, <2>1 DEF Rearmed
    <3>2. row' \in ResumeRows /\ row'.state = "failed" /\ row'.attempts = row.attempts + 1
      BY <2>0, <3>1 DEF ResumeRows
    <3>3. QED BY <1>a, <1>3, <2>0, <3>2
  <2>2. CASE ~(row.attempts + 1 >= MAX_ATTEMPTS)
    <3>1. row' = [state |-> "waiting", attempts |-> row.attempts + 1, mode |-> mode, due |-> FALSE]
      BY <1>3, <2>2 DEF Rearmed
    <3>2. row' \in ResumeRows BY <2>0, <3>1, ResumeRowTypes
    <3>3. row'.state = "waiting" /\ row'.attempts = row.attempts + 1 BY <3>1
    <3>4. QED BY <1>a, <1>3, <2>0, <2>2, <3>2, <3>3
  <2>3. QED BY <2>1, <2>2
<1>4. CASE seen.pop = 0 /\ row' = Armed(mode) /\ limits' = IF ~Waiting THEN 0 ELSE limits
  <2>1. row' \in ResumeRows /\ row'.attempts = IF Waiting THEN row.attempts ELSE 0
    BY <1>4, ResumeRowTypes DEF Armed
  <2>2. QED BY <1>a, <1>4, <2>1
<1>5. QED BY <1>1, <1>2, <1>3, <1>4 DEF ObserveWrites

\* The runner, which looks at the row, then at the conversation, then starts a turn.
LEMMA ResumeRuns ==
    ASSUME ResumeIInv, RunnerThread \/ TimePasses
    PROVE  ResumeIInv'
<1>0. row.attempts \in 0..(MaxResumeTurns + MaxPolls) /\ seen.pop \in 0..MaxResumeTurns
  BY ResumeRowTypes, NothingHeard, ResumeAssumption DEF ResumeIInv, ResumeTypes
<1>r. row \in ResumeRows BY DEF ResumeIInv, ResumeTypes
<1>a. \A s \in {"failed", "expired"} :
        /\ [row EXCEPT !.state = s] \in ResumeRows /\ [row EXCEPT !.state = s].state = s
        /\ [row EXCEPT !.state = s].attempts = row.attempts
  BY <1>r DEF ResumeRows
<1>b. \A d \in BOOLEAN :
        /\ [row EXCEPT !.due = d] \in ResumeRows
        /\ [row EXCEPT !.due = d].state = row.state
        /\ [row EXCEPT !.due = d].attempts = row.attempts
  BY <1>r DEF ResumeRows
<1> USE <1>0, ResumeAssumption, NothingHeard
    DEF ResumeIInv, ResumeTypes, AttemptsInv, ResumeInv, Continuing, Waiting, TurnBusy
<1>1. ASSUME NEW stale \in BOOLEAN, ExpireStale(stale) PROVE ResumeIInv'
  <2>1. row' = row \/ row' = [row EXCEPT !.state = "expired"] BY <1>1 DEF ExpireStale
  <2>2. QED BY <1>1, <1>a, <2>1 DEF ExpireStale
<1>2. CASE Tick BY <1>2 DEF Tick
<1>3. CASE Postpone
  <2>1. /\ row' = [row EXCEPT !.due = FALSE, !.attempts = row.attempts + 1]
        /\ polls' = polls + 1 /\ polls < MaxPolls /\ runner = "chosen" /\ runner' = "idle"
        /\ UNCHANGED <<always, inflight, asking, turn, stage, seen, waits, limits, acts>>
    BY <1>3 DEF Postpone
  <2>2. row.attempts + 1 \in 0..(MaxResumeTurns + MaxPolls) BY <2>1
  <2>3. row' \in ResumeRows /\ row'.attempts = row.attempts + 1 /\ row'.state = row.state
    BY <1>r, <2>1, <2>2 DEF ResumeRows
  <2>4. QED BY <2>1, <2>3
<1>4. ASSUME NEW refused \in BOOLEAN, Continue(refused) PROVE ResumeIInv'
  <2>0. /\ runner \in {"chosen", "now"} /\ UNCHANGED <<always, inflight, waits, polls, acts>>
        /\ asking' \in BOOLEAN
        /\ limits' = IF runner = "now" THEN 0 ELSE limits
        /\ EarlyEnd \/ (limits' < MAX_ATTEMPTS /\ limits' <= row.attempts)
        /\ limits' \in 0..MaxResumeTurns
        /\ limits' <= limits
    BY <1>4 DEF Continue
  <2>1. CASE NewTurn /\ runner' = "started" /\ row' = row
    BY <2>0, <2>1 DEF NewTurn, CanStart
  <2>2. CASE runner' = "idle" /\ UNCHANGED <<row, turn, stage, seen>>
    BY <2>0, <2>2
  <2>3. CASE runner' = "idle" /\ row' = [row EXCEPT !.state = "failed"]
             /\ UNCHANGED <<turn, stage, seen>>
    BY <1>a, <2>0, <2>3
  <2>4. QED BY <1>4, <2>1, <2>2, <2>3 DEF Continue
<1>5. CASE Record BY <1>5 DEF Record
<1>6. CASE PutOff BY <1>6, <1>b DEF PutOff
<1>7. CASE TimePasses BY ZenonT(30), <1>7, <1>b DEF TimePasses
<1>8. QED BY <1>1, <1>2, <1>3, <1>4, <1>5, <1>6, <1>7 DEF RunnerThread

\* The owner, and a restart.
LEMMA ResumeOwner ==
    ASSUME ResumeIInv,
           \/ \E mode \in {"at", "poll"} : Arm(mode)
           \/ Now \/ NowContinues \/ CancelResume \/ SetMode \/ RestartEngine
    PROVE  ResumeIInv'
<1>0. row.attempts \in 0..(MaxResumeTurns + MaxPolls) /\ seen.pop \in 0..MaxResumeTurns
  BY ResumeRowTypes, NothingHeard, ResumeAssumption DEF ResumeIInv, ResumeTypes
<1> USE <1>0, ResumeAssumption, NothingHeard
    DEF ResumeIInv, ResumeTypes, AttemptsInv, ResumeInv, Continuing, Waiting
<1>1. ASSUME NEW mode \in {"at", "poll"}, Arm(mode) PROVE ResumeIInv'
  <2>1. row' \in ResumeRows /\ row'.attempts = IF Waiting THEN row.attempts ELSE 0
    BY <1>1, ResumeRowTypes DEF Arm, Armed
  <2>2. QED BY <1>1, <2>1 DEF Arm
<1>2. CASE Now BY <1>2 DEF Now
<1>3. CASE NowContinues BY <1>3 DEF NowContinues
<1>4. CASE CancelResume
  <2>1. /\ UNCHANGED <<always, inflight, runner, asking, polls, limits>>
        /\ acts' \in 0..MaxResumeActs /\ row' = [row EXCEPT !.state = "cancelled"]
    BY <1>4 DEF CancelResume
  <2>a. row' \in ResumeRows /\ row'.state = "cancelled" /\ row'.attempts = row.attempts
    BY <2>1, ResumeRowTypes
  <2>2. CASE waits' = FALSE /\ turn < MaxResumeTurns /\ turn' = turn + 1 /\ stage' = "running"
             /\ seen' = Nothing /\ stage \notin {"running", "observed", "noted"}
    <3>0. turn' \in 0..MaxResumeTurns /\ seen' \in Heard BY <2>2
    <3>1. ResumeTypes' BY <2>1, <2>a, <2>2, <3>0
    <3>2. AttemptsInv' BY <2>1, <2>a, <2>2
    <3>3. EarlyEnd \/ ResumeInv' BY <2>1, <2>a, <2>2
    <3>4. QED BY <3>1, <3>2, <3>3
  <2>3. CASE UNCHANGED <<waits, turn, stage, seen>> BY <2>1, <2>a, <2>3
  <2>4. QED BY <1>4, <2>2, <2>3 DEF CancelResume, CanStart, TurnBusy
<1>5. CASE SetMode BY <1>5 DEF SetMode
<1>6. CASE RestartEngine
  <2>1. /\ UNCHANGED <<always, row, turn, polls, limits>> /\ acts' \in 0..MaxResumeActs
        /\ inflight' = 0 /\ runner' = "starting" /\ asking' = FALSE /\ stage' = "over"
        /\ seen' = Nothing /\ waits' = FALSE
    BY <1>6 DEF RestartEngine
  <2>2. ResumeTypes' BY <2>1
  <2>3. AttemptsInv' BY <2>1
  <2>4. EarlyEnd \/ ResumeInv' BY <2>1
  <2>5. QED BY <2>2, <2>3, <2>4
<1>7. QED BY <1>1, <1>2, <1>3, <1>4, <1>5, <1>6

\* A step of the resume, or none, keeps it.
LEMMA ResumeStep ==
    ASSUME ResumeIInv, [ResumeNext]_resumeVars
    PROVE  ResumeIInv'
<1>1. CASE UNCHANGED resumeVars
  BY <1>1 DEF resumeVars, ResumeIInv, ResumeTypes, AttemptsInv, ResumeInv, Continuing, Waiting
<1>2. CASE ResumeNext
  BY <1>2, ResumeTurns, ResumeNoted, ResumeRuns, ResumeOwner DEF ResumeNext, TurnThread
<1>3. QED BY <1>1, <1>2

\* It holds at the start.
LEMMA ResumeStart == ResumeInit => ResumeIInv
<1> SUFFICES ASSUME ResumeInit PROVE ResumeIInv OBVIOUS
<1> USE ResumeAssumption DEF ResumeInit
<1>1. row \in ResumeRows BY NothingHeard DEF ResumeRows
<1>2. ResumeTypes
  <2>1. always \in BOOLEAN BY <1>1
  <2>2. /\ inflight \in 0..MaxResumeTurns /\ turn \in 0..MaxResumeTurns
        /\ limits \in 0..MaxResumeTurns
    BY NothingHeard
  <2>3. polls \in 0..MaxPolls OBVIOUS
  <2>4. acts \in 0..MaxResumeActs OBVIOUS
  <2>5. seen \in Heard BY NothingHeard
  <2>6. QED BY <1>1, <2>1, <2>2, <2>3, <2>4, <2>5 DEF ResumeTypes
<1>3. AttemptsInv BY DEF AttemptsInv
<1>4. ResumeInv BY DEF ResumeInv, Continuing, Waiting
<1>5. QED BY <1>2, <1>3, <1>4 DEF ResumeIInv

\* _observe and the runner share no lock, yet after MAX_ATTEMPTS continuations in a row that
\* a limit stopped no other is started (rearm gives up), given that a continuation does not
\* end before _continue has recorded it.
THEOREM ContinuationsAreBoundedTheorem ==
    ASSUME ~EarlyEnd
    PROVE  ResumeSpec => []ContinuationsAreBounded
<1>1. ResumeIInv /\ [ResumeNext]_resumeVars => ResumeIInv' BY ResumeStep
<1>2. ResumeIInv => ContinuationsAreBounded
  BY DEF ResumeIInv, ResumeInv, ContinuationsAreBounded
<1>3. QED BY <1>1, <1>2, ResumeStart, PTL DEF ResumeSpec

\* The row, the observer and the runner keep their types: attempts are turns and polls.
THEOREM ResumeTypesTheorem == ResumeSpec => []ResumeTypeOK
<1>1. ResumeIInv /\ [ResumeNext]_resumeVars => ResumeIInv' BY ResumeStep
<1>2. ResumeIInv => ResumeTypeOK BY ResumeTypesOK DEF ResumeIInv
<1>3. QED BY <1>1, <1>2, ResumeStart, PTL DEF ResumeSpec

-----------------------------------------------------------------------------
(***************************************************************************)
(* The goal.  An iteration is written before its turn starts, and whatever *)
(* two threads read and write meanwhile it is above the turns that ran; a  *)
(* thread on its way to a turn has room below the cap, or finds a turn     *)
(* running; and a goal that is pursued at its cap waits for a turn that    *)
(* will be folded into it.                                                 *)
(***************************************************************************)

GoalFields == {"id", "state", "cap", "iteration", "quiet", "report", "reportedAt"}
Places == {"idle", "running", "done", "kicked", "stopping", "writing", "start", "begin",
           "beginning", "launch"}
Starting == {"start", "begin", "beginning", "launch"}
Wrapping == {"done", "kicked", "stopping", "writing"} \cup Starting

\* A row, the threads and what they will write.
IsGoal(g) ==
    /\ g = [f \in GoalFields |-> g[f]]
    /\ g.id \in Nat /\ g.cap \in Nat /\ g.iteration \in Nat
GoalTypes ==
    /\ IsGoal(goal)
    /\ kinds \in [GoalTurns -> Nat]
    /\ thread \in [Threads -> Places]
    /\ change = [h \in Threads |-> change[h]]
    /\ ran \in Nat /\ resumed \in Nat

\* One turn runs, and one wraps up.
ThreadsInv ==
    /\ thread[Owner] \in {"idle", "writing"} \cup Starting
    /\ \A t, u \in GoalTurns : t # u => ~(thread[t] \in Wrapping /\ thread[u] \in Wrapping)
    /\ \A t, u \in GoalTurns : t # u => ~(thread[t] = "running" /\ thread[u] = "running")

\* What a thread at that place is about to write.
MayWrite(h, at, c) ==
    /\ at = "beginning" => DOMAIN c = {"iteration"} /\ c.iteration \in Nat
    /\ at = "launch" => c.id \in Nat
    /\ at = "stopping" /\ DOMAIN c # {} =>
         DOMAIN c \in {{"state"}, {"state", "quiet"}} /\ c.state # "pursuing"
    /\ at = "writing" /\ h # Owner => DOMAIN c = {"quiet"}
    /\ at = "writing" /\ h = Owner => DOMAIN c \in {{"state"}, {"state", "quiet"}}
ChangesInv == \A h \in Threads : MayWrite(h, thread[h], change[h])

\* The iteration is above the turns that ran, also while a thread is about to write it or
\* has written it for the turn it starts.
IterationInv ==
    /\ ran <= goal.iteration
    /\ \A h \in Threads :
         /\ thread[h] = "beginning" =>
              change[h].iteration >= ran /\ (InTurn \/ change[h].iteration > ran)
         /\ thread[h] = "launch" =>
              /\ change[h].id <= goal.id
              /\ change[h].id = goal.id => InTurn \/ goal.iteration > ran

\* A turn of a goal that is not folded yet, or whose fold is about to be written.
Unfolded ==
    \E t \in GoalTurns :
       /\ kinds[t] # 0
       /\ \/ thread[t] \in {"running", "done", "kicked"}
          \/ thread[t] = "stopping" /\ DOMAIN change[t] # {}

Capped == goal.id # 0 /\ goal.cap # 0
GoesOn(h, at) == at \in Starting \/ (at = "writing" /\ h # Owner)
CapInv ==
    Capped =>
      /\ ran <= goal.cap + resumed
      /\ goal.state = "pursuing" /\ ran >= goal.cap + resumed => Unfolded
      /\ \A h \in Threads : GoesOn(h, thread[h]) => InTurn \/ ran < goal.cap + resumed

GoalInv == GoalTypes /\ ThreadsInv /\ ChangesInv /\ IterationInv /\ CapInv

\* The threads: those of two turns, and the owner's.
LEMMA ThreadSets ==
    /\ Owner \in Threads /\ Owner \notin GoalTurns
    /\ \A t \in GoalTurns : t \in Threads
    /\ \A h \in Threads : h \in GoalTurns \/ h = Owner
    /\ \A t \in GoalTurns : \E u \in GoalTurns : u # t /\ \A v \in GoalTurns : v = t \/ v = u
BY DEF Owner, Threads, GoalTurns

\* A thread that goes on moves itself and what it will write.
LEMMA GoesMoves ==
    ASSUME GoalTypes, NEW h \in Threads, NEW at \in Places, NEW c, Goes(h, at, c)
    PROVE  /\ thread' \in [Threads -> Places]
           /\ \A k \in Threads : thread'[k] = IF k = h THEN at ELSE thread[k]
           /\ change' = [k \in Threads |-> change'[k]]
           /\ \A k \in Threads : change'[k] = IF k = h THEN c ELSE change[k]
           /\ kinds' \in [GoalTurns -> Nat]
           /\ at # "idle" => kinds' = kinds
           /\ \A t \in GoalTurns : t # h => kinds'[t] = kinds[t]
<1>1. /\ thread' \in [Threads -> Places]
      /\ \A k \in Threads : thread'[k] = IF k = h THEN at ELSE thread[k]
  BY DEF Goes, GoalTypes
<1>2. /\ change' = [k \in Threads |-> change'[k]]
      /\ \A k \in Threads : change'[k] = IF k = h THEN c ELSE change[k]
  BY DEF Goes, GoalTypes
<1>3. /\ kinds' \in [GoalTurns -> Nat] /\ (at # "idle" => kinds' = kinds)
      /\ \A t \in GoalTurns : t # h => kinds'[t] = kinds[t]
  BY DEF Goes, Forgets, GoalTypes
<1>4. QED BY <1>1, <1>2, <1>3

\* A step of one thread keeps the invariant when it leaves the iteration above the turns,
\* goes on below the cap only, and takes a pursued goal at its cap to no other hands.
LEMMA GoesKeeps ==
    ASSUME GoalInv, NEW h \in Threads, NEW at \in Places \ {"running"}, NEW c, Goes(h, at, c),
           thread[h] # "running", MayWrite(h, at, c),
           h = Owner => at \in {"idle", "writing"} \cup Starting,
           at \in Wrapping => thread[h] \in Wrapping \/ h = Owner,
           IsGoal(goal'), goal'.id = goal.id, goal'.cap = goal.cap,
           ran' = ran, resumed' \in Nat, resumed' >= resumed,
           goal'.iteration = goal.iteration
             \/ (goal'.iteration >= ran /\ (InTurn \/ goal'.iteration > ran)),
           at = "beginning" => c.iteration > ran,
           at = "launch" => c.id <= goal.id,
           at = "launch" /\ c.id = goal.id => InTurn \/ goal'.iteration > ran,
           Capped /\ GoesOn(h, at) => InTurn \/ ran < goal.cap + resumed',
           Capped /\ goal'.state = "pursuing" /\ ran >= goal.cap + resumed' => Unfolded'
    PROVE  GoalInv'
<1> USE ThreadSets DEF GoalInv
<1>1. /\ thread' \in [Threads -> Places]
      /\ \A k \in Threads : thread'[k] = IF k = h THEN at ELSE thread[k]
      /\ change' = [k \in Threads |-> change'[k]]
      /\ \A k \in Threads : change'[k] = IF k = h THEN c ELSE change[k]
      /\ kinds' \in [GoalTurns -> Nat]
  BY GoesMoves
<1>2. InTurn' <=> InTurn BY <1>1 DEF InTurn
<1>3. GoalTypes' BY <1>1 DEF GoalTypes
<1>4. ThreadsInv' BY <1>1 DEF ThreadsInv
<1>5. ChangesInv' BY <1>1 DEF ChangesInv, MayWrite
<1>6. IterationInv'
  <2>1. goal.iteration \in Nat /\ goal'.iteration \in Nat /\ ran \in Nat
    BY DEF GoalTypes, IsGoal
  <2>2. ran' <= goal'.iteration BY <2>1 DEF IterationInv
  <2>3. ASSUME NEW k \in Threads, thread'[k] = "beginning"
        PROVE  change'[k].iteration >= ran /\ (InTurn \/ change'[k].iteration > ran)
    <3>1. CASE k = h
      <4>1. c.iteration \in Nat /\ c.iteration > ran BY <1>1, <2>3, <3>1 DEF MayWrite
      <4>2. QED BY <1>1, <2>1, <3>1, <4>1
    <3>2. CASE k # h BY <1>1, <2>3, <3>2 DEF IterationInv
    <3>3. QED BY <3>1, <3>2
  <2>4. ASSUME NEW k \in Threads, thread'[k] = "launch"
        PROVE  /\ change'[k].id <= goal'.id
               /\ change'[k].id = goal'.id => InTurn \/ goal'.iteration > ran
    <3>1. CASE k = h BY <1>1, <2>4, <3>1
    <3>2. CASE k # h BY <1>1, <2>1, <2>4, <3>2 DEF IterationInv
    <3>3. QED BY <3>1, <3>2
  <2>5. QED BY <1>2, <2>2, <2>3, <2>4 DEF IterationInv
<1>7. CapInv'
  <2>0. goal.cap \in Nat /\ ran \in Nat /\ resumed \in Nat BY DEF GoalTypes, IsGoal
  <2>1. SUFFICES ASSUME Capped
                 PROVE  /\ ran <= goal.cap + resumed'
                        /\ goal'.state = "pursuing" /\ ran >= goal.cap + resumed' => Unfolded'
                        /\ \A k \in Threads : GoesOn(k, thread'[k]) =>
                             InTurn \/ ran < goal.cap + resumed'
    BY <1>2 DEF CapInv, Capped, GoesOn
  <2>2. ran <= goal.cap + resumed' BY <2>0, <2>1 DEF CapInv
  <2>3. \A k \in Threads : GoesOn(k, thread'[k]) => InTurn \/ ran < goal.cap + resumed'
    BY <1>1, <2>0, <2>1 DEF CapInv
  <2>4. QED BY <2>1, <2>2, <2>3
<1>8. QED BY <1>3, <1>4, <1>5, <1>6, <1>7

\* A thread is free for the turn that starts.
LEMMA LaunchTakes ==
    ASSUME GoalInv, NEW h \in Threads, NEW n \in Nat, NEW to \in {"idle", "kicked"},
           Launches(h, n, to),
           to = "kicked" => h \in GoalTurns /\ thread[h] = "done",
           to = "idle" => thread[h] = "launch" \/ (h = Owner /\ thread[h] = "idle")
    PROVE  \E t \in GoalTurns :
              /\ [thread EXCEPT ![h] = to][t] = "idle"
              /\ kinds' = [kinds EXCEPT ![t] = n] /\ ended' = [ended EXCEPT ![t] = "no"]
              /\ thread' = [[thread EXCEPT ![h] = to] EXCEPT ![t] = "running"]
<1> USE ThreadSets DEF GoalInv
<1> DEFINE now == [thread EXCEPT ![h] = to]
           t == CHOOSE u \in GoalTurns : now[u] = "idle"
<1>1. \A k \in Threads : now[k] = IF k = h THEN to ELSE thread[k] BY DEF GoalTypes
<1>2. \A u \in GoalTurns : thread[u] \in Places /\ thread[u] # "running"
  BY DEF GoalTypes, Launches, InTurn
<1>3. \E u \in GoalTurns : now[u] = "idle"
  <2>1. CASE h \in GoalTurns
    <3>1. PICK u \in GoalTurns : u # h BY <2>1
    <3>2. thread[h] \in Wrapping BY <2>1, <1>2 DEF Wrapping, Starting, Owner, GoalTurns
    <3>3. thread[u] = "idle" BY <1>2, <3>1, <3>2, <2>1 DEF ThreadsInv, Places, Wrapping, Starting
    <3>4. QED BY <1>1, <3>1, <3>3
  <2>2. CASE h = Owner
    <3>1. \A u \in GoalTurns : now[u] = thread[u] BY <1>1, <2>2
    <3>2. 1 \in GoalTurns /\ 2 \in GoalTurns BY DEF GoalTurns
    <3>3. thread[1] = "idle" \/ thread[2] = "idle"
      BY <1>2, <3>2 DEF ThreadsInv, Places, Wrapping, Starting
    <3>4. QED BY <3>1, <3>2, <3>3
  <2>3. QED BY <2>1, <2>2
<1>4. t \in GoalTurns /\ now[t] = "idle" BY <1>3
<1>5. /\ kinds' = [kinds EXCEPT ![t] = n] /\ ended' = [ended EXCEPT ![t] = "no"]
      /\ thread' = [now EXCEPT ![t] = "running"]
  BY DEF Launches
<1>6. QED BY <1>4, <1>5

\* A turn that starts takes a free thread; the thread that starts it is done with it, or
\* has the fold of its own turn ahead.
LEMMA LaunchKeeps ==
    ASSUME GoalInv, NEW h \in Threads, NEW n \in Nat, NEW to \in {"idle", "kicked"},
           Launches(h, n, to),
           to = "kicked" => h \in GoalTurns /\ thread[h] = "done",
           to = "idle" => thread[h] = "launch" \/ (h = Owner /\ thread[h] = "idle"),
           goal' = goal, resumed' = resumed,
           change' = [k \in Threads |-> change'[k]],
           \A k \in Threads : k # h => change'[k] = change[k],
           \/ ran' = ran
           \/ /\ ran' = ran + 1 /\ goal.iteration > ran
              /\ Capped => n # 0 /\ ran < goal.cap + resumed
    PROVE  GoalInv'
<1> USE ThreadSets DEF GoalInv
<1> DEFINE now == [thread EXCEPT ![h] = to]
<1>1. /\ now \in [Threads -> Places]
      /\ \A k \in Threads : now[k] = IF k = h THEN to ELSE thread[k]
  BY DEF GoalTypes, Places
<1>2. \A u \in GoalTurns : thread[u] \in Places /\ thread[u] # "running"
  BY DEF GoalTypes, Launches, InTurn
<1>4. PICK t \in GoalTurns :
         /\ now[t] = "idle"
         /\ kinds' = [kinds EXCEPT ![t] = n] /\ thread' = [now EXCEPT ![t] = "running"]
  BY LaunchTakes
<1>5. ~InTurn /\ kinds' = [kinds EXCEPT ![t] = n] /\ thread' = [now EXCEPT ![t] = "running"]
  BY <1>4 DEF Launches
<1> HIDE DEF now
<1>6. /\ thread' \in [Threads -> Places]
      /\ thread'[t] = "running"
      /\ \A k \in Threads : k # t => thread'[k] = now[k]
      /\ kinds' \in [GoalTurns -> Nat] /\ kinds'[t] = n
      /\ \A u \in GoalTurns : u # t => kinds'[u] = kinds[u]
  BY <1>1, <1>4, <1>5 DEF GoalTypes, Places
<1>7. /\ InTurn'
      /\ \A k \in Threads : k # t /\ k # h => thread'[k] = thread[k]
      /\ h # t => thread'[h] = to
  BY <1>1, <1>4, <1>6 DEF InTurn
<1>8. GoalTypes' BY <1>6 DEF GoalTypes
<1>9. ThreadsInv'
  <2>1. thread'[Owner] \in {"idle", "writing"} \cup Starting
    BY <1>4, <1>7, <1>1 DEF ThreadsInv
  <2>2. \A u \in GoalTurns : thread'[u] \in Wrapping => u # t /\ thread[u] \in Wrapping
    BY <1>4, <1>6, <1>7 DEF Wrapping, Starting
  <2>3. \A u \in GoalTurns : thread'[u] = "running" => u = t
    BY <1>2, <1>6, <1>7
  <2>4. QED BY <2>1, <2>2, <2>3 DEF ThreadsInv
<1>10. ChangesInv'
  <2>1. SUFFICES ASSUME NEW k \in Threads PROVE MayWrite(k, thread'[k], change'[k])
    BY DEF ChangesInv
  <2>2. CASE k = t BY <2>2, <1>6 DEF MayWrite
  <2>3. CASE k # t /\ k = h BY <2>3, <1>7 DEF MayWrite
  <2>4. CASE k # t /\ k # h
    <3>1. thread'[k] = thread[k] /\ change'[k] = change[k] BY <2>4, <1>7
    <3>2. QED BY <3>1 DEF ChangesInv
  <2>5. QED BY <2>2, <2>3, <2>4
<1>11. goal.iteration \in Nat /\ ran \in Nat /\ goal.cap \in Nat /\ resumed \in Nat
  BY DEF GoalTypes, IsGoal
<1>12. IterationInv'
  <2>1. ran' <= goal'.iteration BY <1>11 DEF IterationInv
  <2>2. ASSUME NEW k \in Threads, thread'[k] = "beginning"
        PROVE  change'[k].iteration >= ran'
    <3>1. k # t /\ k # h BY <2>2, <1>6, <1>7
    <3>2. thread[k] = "beginning" /\ change'[k] = change[k] BY <2>2, <3>1, <1>7
    <3>3. change[k].iteration \in Nat /\ change[k].iteration > ran
      BY <3>2, <1>5 DEF IterationInv, ChangesInv, MayWrite
    <3>4. QED BY <3>2, <3>3, <1>11
  <2>3. ASSUME NEW k \in Threads, thread'[k] = "launch"
        PROVE  change'[k].id <= goal'.id
    <3>1. k # t /\ k # h BY <2>3, <1>6, <1>7
    <3>2. thread[k] = "launch" /\ change'[k] = change[k] BY <2>3, <3>1, <1>7
    <3>3. QED BY <3>2 DEF IterationInv
  <2>4. QED BY <1>7, <2>1, <2>2, <2>3 DEF IterationInv
<1>13. CapInv'
  <2>1. SUFFICES ASSUME Capped
                 PROVE  /\ ran' <= goal.cap + resumed
                        /\ ran' >= goal.cap + resumed /\ goal.state = "pursuing" => Unfolded'
    BY <1>7 DEF CapInv, Capped
  <2>2. ran' <= goal.cap + resumed BY <2>1, <1>11 DEF CapInv
  <2>3. CASE ran' = ran
    <3>1. SUFFICES ASSUME ran >= goal.cap + resumed, goal.state = "pursuing" PROVE Unfolded'
      BY <2>2, <2>3
    <3>2. Unfolded BY <2>1, <3>1 DEF CapInv
    <3>3. PICK u \in GoalTurns :
             /\ kinds[u] # 0
             /\ \/ thread[u] \in {"running", "done", "kicked"}
                \/ thread[u] = "stopping" /\ DOMAIN change[u] # {}
      BY <3>2 DEF Unfolded
    <3>4. u # t
      <4>1. CASE u = h BY <4>1, <3>3, <1>1, <1>4
      <4>2. CASE u # h BY <4>2, <3>3, <1>1, <1>4
      <4>3. QED BY <4>1, <4>2
    <3>5. CASE u = h BY <3>3, <3>4, <3>5, <1>6, <1>7 DEF Unfolded
    <3>6. CASE u # h
      <4>1. thread'[u] = thread[u] /\ change'[u] = change[u] /\ kinds'[u] = kinds[u]
        BY <3>4, <3>6, <1>6, <1>7
      <4>2. QED BY <4>1, <3>3 DEF Unfolded
    <3>7. QED BY <3>5, <3>6
  <2>4. CASE ran' # ran
    <3>1. kinds'[t] # 0 /\ thread'[t] = "running" BY <2>1, <2>4, <1>6
    <3>2. QED BY <2>2, <3>1, <1>4 DEF Unfolded
  <2>5. QED BY <2>2, <2>3, <2>4
<1>14. QED BY <1>8, <1>9, <1>10, <1>12, <1>13

\* A goal of which some fields are written anew.
LEMMA UpdatedFields ==
    ASSUME NEW c, IsGoal(goal), DOMAIN c \subseteq {"state", "quiet"}, goal' = Updated(c)
    PROVE  /\ IsGoal(goal') /\ goal'.id = goal.id /\ goal'.cap = goal.cap
           /\ goal'.iteration = goal.iteration
           /\ goal'.state = IF "state" \in DOMAIN c THEN c.state ELSE goal.state
<1>1. DOMAIN goal = GoalFields BY DEF IsGoal
<1>2. \A f \in GoalFields : goal'[f] = IF f \in DOMAIN c THEN c[f] ELSE goal[f]
  BY <1>1 DEF Updated
<1>3. goal' = [f \in GoalFields |-> goal'[f]] BY <1>1 DEF Updated
<1>4. QED BY <1>2, <1>3 DEF IsGoal, GoalFields

\* The iteration alone is written anew.
LEMMA UpdatedIteration ==
    ASSUME NEW c, IsGoal(goal), DOMAIN c = {"iteration"}, c.iteration \in Nat,
           goal' = Updated(c)
    PROVE  /\ IsGoal(goal') /\ goal'.id = goal.id /\ goal'.cap = goal.cap
           /\ goal'.iteration = c.iteration /\ goal'.state = goal.state
<1>1. DOMAIN goal = GoalFields BY DEF IsGoal
<1>2. \A f \in GoalFields : goal'[f] = IF f \in DOMAIN c THEN c[f] ELSE goal[f]
  BY <1>1 DEF Updated
<1>3. goal' = [f \in GoalFields |-> goal'[f]] BY <1>1 DEF Updated
<1>4. QED BY <1>2, <1>3 DEF IsGoal, GoalFields

\* What the fold of a turn writes, and that it goes on below the cap only.
LEMMA FoldFields ==
    ASSUME NEW how, NEW gate, NEW still
    PROVE  LET f == Fold(how, gate, still) IN
           /\ f.go => ~Exhausted /\ DOMAIN f.c = {"quiet"}
           /\ ~f.go => DOMAIN f.c \in {{"state"}, {"state", "quiet"}} /\ f.c.state # "pursuing"
<1> DEFINE quiet == IF still THEN goal.quiet + 1 ELSE 0
<1>1. CASE how = "cancelled" BY <1>1 DEF Fold
<1>2. CASE how = "limit" BY <1>2 DEF Fold
<1>3. CASE how = "failed" BY <1>3 DEF Fold
<1>4. CASE how = "completed" /\ IsReported("blocked") BY <1>4 DEF Fold
<1>5. CASE how = "completed" /\ ~IsReported("blocked") /\ IsReported("achieved") /\ gate
  BY <1>5 DEF Fold
<1>6. CASE /\ how \notin {"cancelled", "limit", "failed"}
           /\ ~(how = "completed" /\ IsReported("blocked"))
           /\ ~(how = "completed" /\ IsReported("achieved") /\ gate)
  <2>1. Fold(how, gate, still) =
          IF quiet >= STALL_AFTER
          THEN [go |-> FALSE, c |-> [state |-> "stalled", quiet |-> STALL_AFTER]]
          ELSE IF Exhausted
          THEN [go |-> FALSE, c |-> [state |-> "budget_limited", quiet |-> quiet]]
          ELSE [go |-> TRUE, c |-> [quiet |-> quiet]]
    BY <1>6 DEF Fold
  <2>2. QED BY <2>1
<1>7. QED BY <1>1, <1>2, <1>3, <1>4, <1>5, <1>6

\* A turn that waits to be folded is in the same hands when another thread moves.
LEMMA UnfoldedStays ==
    ASSUME GoalTypes, NEW h \in Threads, NEW at \in Places, NEW c, Goes(h, at, c), Unfolded,
           h \in GoalTurns =>
             kinds[h] = 0 \/ thread[h] \notin {"running", "done", "kicked", "stopping"}
    PROVE  Unfolded'
<1>1. PICK u \in GoalTurns :
         /\ kinds[u] # 0
         /\ \/ thread[u] \in {"running", "done", "kicked"}
            \/ thread[u] = "stopping" /\ DOMAIN change[u] # {}
  BY DEF Unfolded
<1>2. u # h BY <1>1
<1>3. thread'[u] = thread[u] /\ change'[u] = change[u] /\ kinds'[u] = kinds[u]
  BY <1>2, GoesMoves, ThreadSets
<1>4. QED BY <1>1, <1>3 DEF Unfolded

\* Nothing moves: a message is queued, a report is written on the goal.
LEMMA FrameKeeps ==
    ASSUME GoalInv, UNCHANGED <<kinds, thread, change, ran, resumed>>,
           IsGoal(goal'), goal'.id = goal.id, goal'.cap = goal.cap,
           goal'.iteration = goal.iteration, goal'.state = goal.state
    PROVE  GoalInv'
<1> USE DEF GoalInv
<1>1. InTurn' <=> InTurn BY DEF InTurn
<1>2. GoalTypes' BY DEF GoalTypes
<1>3. ThreadsInv' BY DEF ThreadsInv
<1>4. ChangesInv' BY DEF ChangesInv
<1>5. IterationInv' BY <1>1 DEF IterationInv
<1>6. CapInv' BY <1>1 DEF CapInv, Capped, Unfolded
<1>7. QED BY <1>2, <1>3, <1>4, <1>5, <1>6

\* A report names no field the invariant speaks of.
LEMMA ReportKeeps ==
    ASSUME GoalInv, NEW t \in GoalTurns, NEW s, GoalReport(t, s)
    PROVE  GoalInv'
<1>1. IsGoal(goal) BY DEF GoalInv, GoalTypes
<1>2. DOMAIN goal = GoalFields BY <1>1 DEF IsGoal
<1>3. goal' = [f \in GoalFields |->
                IF f = "report" THEN s ELSE IF f = "reportedAt" THEN goal.iteration ELSE goal[f]]
  BY <1>1, <1>2 DEF GoalReport, IsGoal, GoalFields
<1>4. /\ IsGoal(goal') /\ goal'.id = goal.id /\ goal'.cap = goal.cap
      /\ goal'.iteration = goal.iteration /\ goal'.state = goal.state
  BY <1>1, <1>3 DEF IsGoal, GoalFields
<1>5. QED BY <1>4, FrameKeeps DEF GoalReport

\* When a turn ends, nobody else is on the way, and the turn waits for its fold.
LEMMA TurnEndsKeeps ==
    ASSUME GoalInv, NEW t \in GoalTurns, NEW how \in Ends, TurnEnds(t, how)
    PROVE  GoalInv'
<1> USE ThreadSets DEF GoalInv
<1>1. /\ thread' \in [Threads -> Places]
      /\ \A k \in Threads : thread'[k] = IF k = t THEN "done" ELSE "idle"
  BY DEF TurnEnds, GoalTypes, Places
<1>2. UNCHANGED <<goal, kinds, change, ran, resumed>> BY DEF TurnEnds
<1>3. GoalTypes' BY <1>1, <1>2 DEF GoalTypes
<1>4. ThreadsInv' BY <1>1 DEF ThreadsInv, Wrapping, Starting
<1>5. ChangesInv' BY <1>1 DEF ChangesInv, MayWrite
<1>6. IterationInv' BY <1>1, <1>2 DEF IterationInv
<1>7. Unfolded => Unfolded'
  <2>1. ASSUME Unfolded PROVE kinds[t] # 0 BY <2>1 DEF Unfolded, TurnEnds
  <2>2. QED BY <2>1, <1>1, <1>2 DEF Unfolded
<1>8. CapInv' BY <1>1, <1>2, <1>7 DEF CapInv, Capped, GoesOn, Starting
<1>9. QED BY <1>3, <1>4, <1>5, <1>6, <1>8

\* The queued message goes first, or the thread goes on alone.
LEMMA KickKeeps ==
    ASSUME GoalInv, NEW t \in GoalTurns, Kick(t)
    PROVE  GoalInv'
<1> USE ThreadSets
<1>1. CASE Launches(t, 0, "kicked")
  BY <1>1, LaunchKeeps DEF Kick, GoalInv, GoalTypes
<1>2. CASE ~Launches(t, 0, "kicked")
  <2>1. thread' = [thread EXCEPT ![t] = "kicked"] /\ UNCHANGED <<kinds, ended>>
    BY <1>2 DEF Kick
  <2>2. thread[t] = "done" /\ UNCHANGED <<goal, change, ran, resumed>> BY DEF Kick
  <2>3. GoalTypes BY DEF GoalInv
  <2>4. change' = [change EXCEPT ![t] = change[t]] BY <2>2, <2>3 DEF GoalTypes
  <2>5. Goes(t, "kicked", change[t]) BY <2>1, <2>4 DEF Goes, Forgets
  <2>6. Unfolded => Unfolded'
    <3>1. \A k \in Threads : thread'[k] = IF k = t THEN "kicked" ELSE thread[k]
      BY <2>1, <2>3 DEF GoalTypes
    <3>2. QED BY <3>1, <2>1, <2>2 DEF Unfolded
  <2>7. MayWrite(t, "kicked", change[t]) BY DEF MayWrite
  <2>8. /\ "kicked" \in Places \ {"running"} /\ ~GoesOn(t, "kicked") /\ t # Owner
        /\ thread[t] \in Wrapping
    BY <2>2 DEF Places, GoesOn, Starting, Wrapping
  <2>9. IsGoal(goal') /\ resumed' \in Nat /\ resumed' >= resumed
    BY <2>2, <2>3 DEF GoalTypes
  <2>10. Capped /\ goal'.state = "pursuing" /\ ran >= goal.cap + resumed' => Unfolded'
    BY <2>2, <2>6 DEF GoalInv, CapInv
  <2>11. QED BY <2>2, <2>5, <2>7, <2>8, <2>9, <2>10, GoesKeeps
<1>3. QED BY <1>1, <1>2

\* The turn that ended is folded into the goal, or lets it go on, below the cap only.
LEMMA AfterTurnKeeps ==
    ASSUME GoalInv, NEW t \in GoalTurns, NEW gate, NEW still, AfterTurn(t, gate, still)
    PROVE  GoalInv'
<1> USE ThreadSets
<1>1. GoalTypes /\ t # Owner /\ t \in Threads BY DEF GoalInv
<1>2. /\ thread[t] = "kicked" /\ UNCHANGED <<goal, ran, resumed>>
      /\ thread[t] \in Wrapping
  BY DEF AfterTurn, Wrapping
<1>3. /\ IsGoal(goal') /\ goal'.id = goal.id /\ goal'.cap = goal.cap /\ goal'.state = goal.state
      /\ goal'.iteration = goal.iteration /\ resumed' \in Nat /\ resumed' >= resumed
      /\ ran \in Nat /\ resumed \in Nat /\ goal.cap \in Nat /\ goal.iteration \in Nat
  BY <1>1, <1>2 DEF GoalTypes, IsGoal
<1>4. CASE goal.state # "pursuing"
  <2>1. Goes(t, "idle", NoChange) BY <1>4 DEF AfterTurn
  <2>2. /\ MayWrite(t, "idle", NoChange) /\ "idle" \in Places \ {"running"}
        /\ ~GoesOn(t, "idle")
    BY DEF MayWrite, Places, GoesOn, Starting
  <2>3. QED BY <1>1, <1>2, <1>3, <1>4, <2>1, <2>2, GoesKeeps
<1>5. CASE goal.state = "pursuing" /\ kinds[t] = 0
  <2>1. Goes(t, IF ended[t] = "cancelled" THEN "stopping" ELSE "start", NoChange)
    BY <1>5 DEF AfterTurn
  <2>2. PICK at \in {"stopping", "start"} : Goes(t, at, NoChange) BY <2>1
  <2>3. MayWrite(t, at, NoChange) /\ at \in Places \ {"running"} /\ at # "launch"
    BY <1>1, <2>2 DEF MayWrite, Places, NoChange
  <2>4. Unfolded => Unfolded' BY <1>1, <1>5, <2>2, <2>3, UnfoldedStays
  <2>5. Unfolded => InTurn
    <3>1. \A u \in GoalTurns : u # t => thread[u] \notin Wrapping
      BY <1>2 DEF GoalInv, ThreadsInv
    <3>2. QED BY <3>1, <1>5 DEF Unfolded, InTurn, Wrapping
  <2>6. Capped => InTurn \/ ran < goal.cap + resumed
    BY <1>3, <1>5, <2>5 DEF GoalInv, CapInv
  <2>7. Capped /\ goal.state = "pursuing" /\ ran >= goal.cap + resumed => Unfolded'
    BY <2>4 DEF GoalInv, CapInv
  <2>8. QED BY <1>1, <1>2, <1>3, <2>2, <2>3, <2>6, <2>7, GoesKeeps
<1>6. CASE goal.state = "pursuing" /\ kinds[t] # 0
  <2> DEFINE f == Fold(ended[t], gate, still)
  <2>1. Goes(t, IF f.go THEN "writing" ELSE "stopping", f.c) BY <1>6 DEF AfterTurn
  <2>2. /\ f.go => ~Exhausted /\ DOMAIN f.c = {"quiet"}
        /\ ~f.go => DOMAIN f.c \in {{"state"}, {"state", "quiet"}} /\ f.c.state # "pursuing"
    BY FoldFields
  <2> HIDE DEF f
  <2>3. CASE f.go
    <3>1. Goes(t, "writing", f.c) BY <2>1, <2>3
    <3>2. MayWrite(t, "writing", f.c) /\ "writing" \in Places \ {"running"}
      BY <1>1, <2>2, <2>3 DEF MayWrite, Places
    <3>3. Capped => ran < goal.cap + resumed
      BY <1>3, <2>2, <2>3 DEF Capped, Exhausted, GoalInv, IterationInv
    <3>4. QED BY <1>1, <1>2, <1>3, <3>1, <3>2, <3>3, GoesKeeps
  <2>4. CASE ~f.go
    <3>1. Goes(t, "stopping", f.c) BY <2>1, <2>4
    <3>2. /\ MayWrite(t, "stopping", f.c) /\ "stopping" \in Places \ {"running"}
          /\ ~GoesOn(t, "stopping")
      BY <2>2, <2>4 DEF MayWrite, Places, GoesOn, Starting
    <3>3. thread'[t] = "stopping" /\ change'[t] = f.c /\ kinds'[t] = kinds[t]
      BY <1>1, <3>1, <3>2, GoesMoves
    <3>4. DOMAIN f.c # {} BY <2>2, <2>4
    <3>5. Unfolded' BY <1>6, <3>3, <3>4 DEF Unfolded
    <3>6. QED BY <1>1, <1>2, <1>3, <3>1, <3>2, <3>5, GoesKeeps
  <2>5. QED BY <2>3, <2>4
<1>7. QED BY <1>4, <1>5, <1>6

\* What a thread wrote while it was stopping leaves no pursued goal, and a thread that
\* wrote a count of quiet turns had room below the cap.
LEMMA FoldWrittenKeeps ==
    ASSUME GoalInv, NEW t \in GoalTurns, FoldWritten(t)
    PROVE  GoalInv'
<1> USE ThreadSets
<1>1. GoalTypes /\ t # Owner /\ t \in Threads BY DEF GoalInv
<1>2. UNCHANGED <<ran, resumed>> /\ MayWrite(t, thread[t], change[t])
  BY DEF FoldWritten, GoalInv, ChangesInv
<1>3. /\ IsGoal(goal) /\ resumed' \in Nat /\ resumed' >= resumed
      /\ ran \in Nat /\ resumed \in Nat /\ goal.cap \in Nat /\ goal.iteration \in Nat
  BY <1>1, <1>2 DEF GoalTypes, IsGoal
<1>4. CASE thread[t] = "stopping"
  <2>1. Goes(t, "idle", NoChange) /\ thread[t] \in Wrapping
    BY <1>4 DEF FoldWritten, Wrapping
  <2>2. /\ MayWrite(t, "idle", NoChange) /\ "idle" \in Places \ {"running"}
        /\ ~GoesOn(t, "idle")
    BY DEF MayWrite, Places, GoesOn, Starting
  <2>3. /\ IsGoal(goal') /\ goal'.id = goal.id /\ goal'.cap = goal.cap
        /\ goal'.iteration = goal.iteration /\ goal'.state # "pursuing"
    <3>1. CASE Writes(t)
      <4>1. /\ DOMAIN change[t] \in {{"state"}, {"state", "quiet"}}
            /\ change[t].state # "pursuing"
        BY <1>2, <1>4, <3>1 DEF MayWrite, Writes
      <4>2. goal' = Updated(change[t]) BY <3>1 DEF FoldWritten
      <4>3. "state" \in DOMAIN change[t] /\ DOMAIN change[t] \subseteq {"state", "quiet"}
        BY <4>1
      <4>4. QED BY <1>3, <4>1, <4>2, <4>3, UpdatedFields
    <3>2. CASE ~Writes(t) /\ goal.state \in {"pursuing", "waiting_limits"}
      <4>1. goal' = [goal EXCEPT !.state = "paused"] BY <3>2 DEF FoldWritten
      <4>2. DOMAIN goal = GoalFields BY <1>3 DEF IsGoal
      <4>3. goal' = [f \in GoalFields |-> IF f = "state" THEN "paused" ELSE goal[f]]
        BY <4>1, <4>2, <1>3 DEF IsGoal, GoalFields
      <4>4. QED BY <4>3, <1>3 DEF IsGoal, GoalFields
    <3>3. CASE ~Writes(t) /\ goal.state \notin {"pursuing", "waiting_limits"}
      BY <3>3, <1>3 DEF FoldWritten
    <3>4. QED BY <3>1, <3>2, <3>3
  <2>4. QED BY <1>1, <1>2, <1>3, <1>4, <2>1, <2>2, <2>3, GoesKeeps
<1>5. CASE thread[t] = "writing"
  <2>1. Goes(t, "start", NoChange) /\ thread[t] \in Wrapping
    BY <1>5 DEF FoldWritten, Wrapping
  <2>2. DOMAIN change[t] = {"quiet"} BY <1>1, <1>2, <1>5 DEF MayWrite
  <2>3. goal' = Updated(change[t]) BY <2>2 DEF FoldWritten, Writes
  <2>4. /\ IsGoal(goal') /\ goal'.id = goal.id /\ goal'.cap = goal.cap
        /\ goal'.iteration = goal.iteration /\ goal'.state = goal.state
    BY <1>3, <2>2, <2>3, UpdatedFields
  <2>5. MayWrite(t, "start", NoChange) /\ "start" \in Places \ {"running"}
    BY DEF MayWrite, Places
  <2>6. Capped => InTurn \/ ran < goal.cap + resumed
    BY <1>1, <1>5 DEF GoalInv, CapInv, GoesOn
  <2>7. Unfolded => Unfolded' BY <1>1, <1>5, <2>1, <2>5, UnfoldedStays
  <2>8. Capped /\ goal'.state = "pursuing" /\ ran >= goal.cap + resumed' => Unfolded'
    BY <1>2, <2>4, <2>7 DEF GoalInv, CapInv
  <2>9. QED BY <1>1, <1>2, <1>3, <1>5, <2>1, <2>4, <2>5, <2>6, <2>8, GoesKeeps
<1>6. QED BY <1>4, <1>5 DEF FoldWritten

\* The way to a turn: the goal is pursued and the conversation free.
LEMMA StartKeeps ==
    ASSUME GoalInv, NEW h \in Threads, StartGoalTurn(h)
    PROVE  GoalInv'
<1> USE ThreadSets
<1>1. GoalTypes BY DEF GoalInv
<1>2. /\ thread[h] = "start" /\ thread[h] \in Wrapping
      /\ GoesOn(h, thread[h]) /\ UNCHANGED <<goal, ran, resumed>>
  BY DEF StartGoalTurn, Wrapping, Starting, GoesOn
<1>3. /\ IsGoal(goal') /\ resumed' \in Nat /\ resumed' >= resumed
      /\ ran \in Nat /\ resumed \in Nat /\ goal.cap \in Nat /\ goal.iteration \in Nat
  BY <1>1, <1>2 DEF GoalTypes, IsGoal
<1>4. PICK at \in {"begin", "idle"} : Goes(h, at, NoChange) BY DEF StartGoalTurn
<1>5. /\ MayWrite(h, at, NoChange) /\ at \in Places \ {"running"}
      /\ at \in {"idle", "writing"} \cup Starting /\ at \notin {"beginning", "launch"}
  BY DEF MayWrite, Places, Starting
<1>6. Capped => InTurn \/ ran < goal.cap + resumed BY <1>2 DEF GoalInv, CapInv
<1>7. Unfolded => Unfolded' BY <1>1, <1>2, <1>4, <1>5, UnfoldedStays
<1>8. Capped /\ goal'.state = "pursuing" /\ ran >= goal.cap + resumed' => Unfolded'
  BY <1>2, <1>7 DEF GoalInv, CapInv
<1>9. QED BY <1>2, <1>3, <1>4, <1>5, <1>6, <1>8, GoesKeeps

\* The iteration read is above the turns that ran.
LEMMA BeginKeeps ==
    ASSUME GoalInv, NEW h \in Threads, BeginIteration(h)
    PROVE  GoalInv'
<1> USE ThreadSets
<1>1. GoalTypes BY DEF GoalInv
<1>2. /\ thread[h] = "begin" /\ thread[h] \in Wrapping
      /\ GoesOn(h, thread[h]) /\ UNCHANGED <<goal, ran, resumed>>
  BY DEF BeginIteration, Wrapping, Starting, GoesOn
<1>3. /\ IsGoal(goal') /\ resumed' \in Nat /\ resumed' >= resumed
      /\ ran \in Nat /\ resumed \in Nat /\ goal.cap \in Nat /\ goal.iteration \in Nat
  BY <1>1, <1>2 DEF GoalTypes, IsGoal
<1>4. Capped => InTurn \/ ran < goal.cap + resumed BY <1>2 DEF GoalInv, CapInv
<1>5. ASSUME NEW at \in Places, NEW c, Goes(h, at, c) PROVE Unfolded => Unfolded'
  BY <1>1, <1>2, <1>5, UnfoldedStays
<1>6. CASE goal.state = "pursuing"
  <2> DEFINE c == [iteration |-> goal.iteration + 1]
  <2>1. Goes(h, "beginning", c) BY <1>6 DEF BeginIteration
  <2>2. /\ MayWrite(h, "beginning", c) /\ "beginning" \in Places \ {"running"}
        /\ "beginning" \in {"idle", "writing"} \cup Starting
    BY <1>3 DEF MayWrite, Places, Starting
  <2>3. c.iteration > ran BY <1>3 DEF GoalInv, IterationInv
  <2>4. Unfolded => Unfolded' BY <1>5, <2>1, <2>2
  <2>5. Capped /\ goal'.state = "pursuing" /\ ran >= goal.cap + resumed' => Unfolded'
    BY <1>2, <2>4 DEF GoalInv, CapInv
  <2> HIDE DEF c
  <2>6. QED BY <1>2, <1>3, <1>4, <2>1, <2>2, <2>3, <2>5, GoesKeeps
<1>7. CASE goal.state # "pursuing"
  <2>1. Goes(h, "idle", NoChange) BY <1>7 DEF BeginIteration
  <2>2. /\ MayWrite(h, "idle", NoChange) /\ "idle" \in Places \ {"running"}
        /\ ~GoesOn(h, "idle")
    BY DEF MayWrite, Places, GoesOn, Starting
  <2>3. QED BY <1>2, <1>3, <1>7, <2>1, <2>2, GoesKeeps
<1>8. QED BY <1>6, <1>7

\* And is still when it is written, or a turn runs.
LEMMA IterationKeeps ==
    ASSUME GoalInv, NEW h \in Threads, IterationWritten(h)
    PROVE  GoalInv'
<1> USE ThreadSets
<1>1. GoalTypes BY DEF GoalInv
<1>2. /\ thread[h] = "beginning" /\ thread[h] \in Wrapping
      /\ GoesOn(h, thread[h]) /\ UNCHANGED <<ran, resumed>>
      /\ Goes(h, "launch", [id |-> goal.id]) /\ goal' = Updated(change[h])
  BY DEF IterationWritten, Wrapping, Starting, GoesOn
<1>3. /\ IsGoal(goal) /\ resumed' \in Nat /\ resumed' >= resumed /\ goal.id \in Nat
      /\ ran \in Nat /\ resumed \in Nat /\ goal.cap \in Nat /\ goal.iteration \in Nat
  BY <1>1, <1>2 DEF GoalTypes, IsGoal
<1>4. /\ DOMAIN change[h] = {"iteration"} /\ change[h].iteration \in Nat
      /\ change[h].iteration >= ran /\ (InTurn \/ change[h].iteration > ran)
  BY <1>2 DEF GoalInv, ChangesInv, MayWrite, IterationInv
<1>5. /\ IsGoal(goal') /\ goal'.id = goal.id /\ goal'.cap = goal.cap
      /\ goal'.iteration = change[h].iteration /\ goal'.state = goal.state
  BY <1>2, <1>3, <1>4, UpdatedIteration
<1>6. /\ MayWrite(h, "launch", [id |-> goal.id]) /\ "launch" \in Places \ {"running"}
      /\ "launch" \in {"idle", "writing"} \cup Starting
      /\ [id |-> goal.id].id <= goal.id
  BY <1>3 DEF MayWrite, Places, Starting
<1>7. Capped => InTurn \/ ran < goal.cap + resumed BY <1>2 DEF GoalInv, CapInv
<1>8. Unfolded => Unfolded' BY <1>1, <1>2, <1>6, UnfoldedStays
<1>9. Capped /\ goal'.state = "pursuing" /\ ran >= goal.cap + resumed' => Unfolded'
  BY <1>2, <1>5, <1>8 DEF GoalInv, CapInv
<1>10. QED BY <1>2, <1>3, <1>4, <1>5, <1>6, <1>7, <1>9, GoesKeeps

\* The turn starts, or finds another one running.
LEMMA LaunchTurnKeeps ==
    ASSUME GoalInv, NEW h \in Threads, LaunchGoalTurn(h)
    PROVE  GoalInv'
<1> USE ThreadSets
<1>1. GoalTypes BY DEF GoalInv
<1>2. /\ thread[h] = "launch" /\ thread[h] \in Wrapping
      /\ GoesOn(h, thread[h]) /\ UNCHANGED <<goal, resumed>>
      /\ change' = [change EXCEPT ![h] = NoChange]
  BY DEF LaunchGoalTurn, Wrapping, Starting, GoesOn
<1>3. /\ IsGoal(goal') /\ resumed' \in Nat /\ resumed' >= resumed
      /\ ran \in Nat /\ resumed \in Nat /\ goal.cap \in Nat /\ goal.iteration \in Nat
  BY <1>1, <1>2 DEF GoalTypes, IsGoal
<1>4. CASE /\ Launches(h, change[h].id, "idle")
           /\ ran' = IF change[h].id = goal.id THEN ran + 1 ELSE ran
  <2>1. change[h].id \in Nat BY <1>2 DEF GoalInv, ChangesInv, MayWrite
  <2>2. ~InTurn BY <1>4 DEF Launches
  <2>3. ASSUME change[h].id = goal.id
        PROVE  /\ ran' = ran + 1 /\ goal.iteration > ran
               /\ Capped => change[h].id # 0 /\ ran < goal.cap + resumed
    BY <2>3, <1>2, <1>4, <2>2 DEF GoalInv, IterationInv, CapInv, Capped
  <2>4. /\ change' = [k \in Threads |-> change'[k]]
        /\ \A k \in Threads : k # h => change'[k] = change[k]
    BY <1>1, <1>2 DEF GoalTypes
  <2>5. QED BY <1>2, <1>4, <2>1, <2>3, <2>4, LaunchKeeps
<1>5. CASE ~Launches(h, change[h].id, "idle")
  <2>1. Goes(h, "idle", NoChange) /\ ran' = ran
    BY <1>2, <1>5 DEF LaunchGoalTurn, Goes
  <2>2. /\ MayWrite(h, "idle", NoChange) /\ "idle" \in Places \ {"running"}
        /\ ~GoesOn(h, "idle")
    BY DEF MayWrite, Places, GoesOn, Starting
  <2>3. Unfolded => Unfolded' BY <1>1, <1>2, <2>1, <2>2, UnfoldedStays
  <2>4. Capped /\ goal'.state = "pursuing" /\ ran >= goal.cap + resumed' => Unfolded'
    BY <1>2, <2>3 DEF GoalInv, CapInv
  <2>5. QED BY <1>2, <1>3, <2>1, <2>2, <2>4, GoesKeeps
<1>6. CASE /\ Launches(h, change[h].id, "idle")
           /\ InTurn
  BY <1>6 DEF Launches
<1>7. QED BY <1>4, <1>5, <1>6 DEF LaunchGoalTurn

\* A new goal has no turns, and none of those on their way is its.
LEMMA SetKeeps ==
    ASSUME GoalInv, NEW cap \in Caps, GoalSet(cap)
    PROVE  GoalInv'
<1> USE ThreadSets DEF GoalInv
<1>1. /\ goal' = [id |-> goal.id + 1, state |-> "pursuing", cap |-> cap, iteration |-> 0,
                  quiet |-> 0, report |-> "progress", reportedAt |-> 0]
      /\ Goes(Owner, "start", NoChange) /\ resumed' = 0 /\ ran' = 0
  BY DEF GoalSet
<1>2. /\ thread' \in [Threads -> Places]
      /\ \A k \in Threads : thread'[k] = IF k = Owner THEN "start" ELSE thread[k]
      /\ change' = [k \in Threads |-> change'[k]]
      /\ \A k \in Threads : change'[k] = IF k = Owner THEN NoChange ELSE change[k]
      /\ kinds' \in [GoalTurns -> Nat]
  BY <1>1, GoesMoves DEF Places
<1>3. cap \in Nat /\ goal.id \in Nat /\ goal.iteration \in Nat /\ ran \in Nat
  BY GoalAssumption DEF GoalTypes, IsGoal
<1>4. /\ IsGoal(goal') /\ goal'.id = goal.id + 1 /\ goal'.cap = cap /\ goal'.iteration = 0
  BY <1>1, <1>3 DEF IsGoal, GoalFields
<1>5. InTurn' <=> InTurn BY <1>2 DEF InTurn
<1>6. GoalTypes' BY <1>1, <1>2, <1>4 DEF GoalTypes
<1>7. ThreadsInv' BY <1>2 DEF ThreadsInv, Starting
<1>8. ChangesInv' BY <1>2 DEF ChangesInv, MayWrite
<1>9. IterationInv'
  <2>1. ASSUME NEW k \in Threads, thread'[k] = "beginning"
        PROVE  change'[k].iteration >= 0 /\ (InTurn \/ change'[k].iteration > 0)
    <3>1. thread[k] = "beginning" /\ change'[k] = change[k] BY <2>1, <1>2
    <3>2. change[k].iteration \in Nat /\ (InTurn \/ change[k].iteration > ran)
      BY <3>1 DEF ChangesInv, MayWrite, IterationInv
    <3>3. QED BY <3>1, <3>2, <1>3
  <2>2. ASSUME NEW k \in Threads, thread'[k] = "launch"
        PROVE  change'[k].id <= goal'.id /\ change'[k].id # goal'.id
    <3>1. thread[k] = "launch" /\ change'[k] = change[k] BY <2>2, <1>2
    <3>2. change[k].id \in Nat /\ change[k].id <= goal.id
      BY <3>1 DEF ChangesInv, MayWrite, IterationInv
    <3>3. QED BY <3>1, <3>2, <1>3, <1>4
  <2>3. QED BY <1>1, <1>4, <1>5, <2>1, <2>2 DEF IterationInv
<1>10. CapInv' BY <1>1, <1>3, <1>4 DEF CapInv, Capped
<1>11. QED BY <1>6, <1>7, <1>8, <1>9, <1>10

\* The owner reads the goal before he changes its state.
LEMMA ActsKeeps ==
    ASSUME GoalInv, NEW to \in {"paused", "pursuing", "cleared"}, OwnerActs(to)
    PROVE  GoalInv'
<1> USE ThreadSets
<1>1. GoalTypes BY DEF GoalInv
<1>2. /\ thread[Owner] = "idle" /\ UNCHANGED <<goal, ran, resumed>>
      /\ Goes(Owner, "writing", IF to = "pursuing" THEN [state |-> to, quiet |-> 0]
                                ELSE [state |-> to])
  BY DEF OwnerActs
<1>3. /\ IsGoal(goal') /\ resumed' \in Nat /\ resumed' >= resumed
      /\ ran \in Nat /\ resumed \in Nat /\ goal.cap \in Nat /\ goal.iteration \in Nat
  BY <1>1, <1>2 DEF GoalTypes, IsGoal
<1>4. PICK c \in {[state |-> to, quiet |-> 0], [state |-> to]} : Goes(Owner, "writing", c)
  BY <1>2
<1>5. /\ MayWrite(Owner, "writing", c) /\ "writing" \in Places \ {"running"}
      /\ ~GoesOn(Owner, "writing") /\ thread[Owner] # "running"
  BY <1>2 DEF MayWrite, Places, GoesOn, Starting
<1>6. Unfolded => Unfolded' BY <1>1, <1>4, <1>5, UnfoldedStays
<1>7. Capped /\ goal'.state = "pursuing" /\ ran >= goal.cap + resumed' => Unfolded'
  BY <1>2, <1>6 DEF GoalInv, CapInv
<1>8. QED BY <1>2, <1>3, <1>4, <1>5, <1>7, GoesKeeps

\* A resume allows one turn more; another act leaves no pursued goal.
LEMMA WritesKeeps ==
    ASSUME GoalInv, OwnerWrites
    PROVE  GoalInv'
<1> USE ThreadSets
<1>1. GoalTypes BY DEF GoalInv
<1>2. /\ thread[Owner] = "writing" /\ ran' = ran /\ goal' = Updated(change[Owner])
      /\ resumed' = IF change[Owner].state = "pursuing" THEN resumed + 1 ELSE resumed
      /\ Goes(Owner, IF change[Owner].state = "pursuing" THEN "start" ELSE "idle", NoChange)
  BY DEF OwnerWrites
<1>3. /\ IsGoal(goal) /\ resumed' \in Nat /\ resumed' >= resumed
      /\ ran \in Nat /\ resumed \in Nat /\ goal.cap \in Nat /\ goal.iteration \in Nat
  BY <1>1, <1>2 DEF GoalTypes, IsGoal
<1>4. DOMAIN change[Owner] \in {{"state"}, {"state", "quiet"}}
  BY <1>2 DEF GoalInv, ChangesInv, MayWrite
<1>5. "state" \in DOMAIN change[Owner] /\ DOMAIN change[Owner] \subseteq {"state", "quiet"}
  BY <1>4
<1>6. /\ IsGoal(goal') /\ goal'.id = goal.id /\ goal'.cap = goal.cap
      /\ goal'.iteration = goal.iteration /\ goal'.state = change[Owner].state
  BY <1>2, <1>3, <1>5, UpdatedFields
<1>7. Capped => ran <= goal.cap + resumed BY DEF GoalInv, CapInv
<1>8. CASE change[Owner].state = "pursuing"
  <2>1. Goes(Owner, "start", NoChange) /\ resumed' = resumed + 1 BY <1>2, <1>8
  <2>2. /\ MayWrite(Owner, "start", NoChange) /\ "start" \in Places \ {"running"}
        /\ "start" \in {"idle", "writing"} \cup Starting
    BY DEF MayWrite, Places, Starting
  <2>3. Capped => ran < goal.cap + resumed' BY <1>3, <1>7, <2>1
  <2>4. QED BY <1>2, <1>3, <1>6, <2>1, <2>2, <2>3, GoesKeeps
<1>9. CASE change[Owner].state # "pursuing"
  <2>1. Goes(Owner, "idle", NoChange) /\ resumed' = resumed BY <1>2, <1>9
  <2>2. /\ MayWrite(Owner, "idle", NoChange) /\ "idle" \in Places \ {"running"}
        /\ ~GoesOn(Owner, "idle")
    BY DEF MayWrite, Places, GoesOn, Starting
  <2>3. QED BY <1>2, <1>3, <1>6, <1>9, <2>1, <2>2, GoesKeeps
<1>10. QED BY <1>8, <1>9

\* No goal, no turn.
LEMMA GoalInitial ==
    ASSUME GoalInit
    PROVE  GoalInv
<1> USE ThreadSets DEF GoalInit
<1>1. GoalTypes BY DEF GoalTypes, IsGoal, GoalFields, Places
<1>2. ThreadsInv BY DEF ThreadsInv, Wrapping, Starting
<1>3. ChangesInv BY DEF ChangesInv, MayWrite
<1>4. IterationInv BY DEF IterationInv
<1>5. CapInv BY DEF CapInv, Capped
<1>6. QED BY <1>1, <1>2, <1>3, <1>4, <1>5 DEF GoalInv

\* Every step of the threads, the owner and the turns.
LEMMA GoalStep ==
    ASSUME GoalInv, [GoalNext]_goalVars
    PROVE  GoalInv'
<1> USE ThreadSets
<1>1. GoalTypes BY DEF GoalInv
<1>2. IsGoal(goal) BY <1>1 DEF GoalTypes
<1>3. ASSUME UserTurn PROVE GoalInv'
  <2>1. Launches(Owner, 0, "idle") /\ thread[Owner] = "idle"
    BY <1>3 DEF UserTurn
  <2>2. UNCHANGED <<goal, change, ran, resumed>> BY <1>3 DEF UserTurn
  <2>3. change' = [k \in Threads |-> change'[k]] BY <1>1, <2>2 DEF GoalTypes
  <2>4. QED BY <2>1, <2>2, <2>3, LaunchKeeps
<1>4. ASSUME QueueMessage PROVE GoalInv' BY <1>2, <1>4, FrameKeeps DEF QueueMessage
<1>5. ASSUME NEW t \in GoalTurns, TurnWrapUp(t) PROVE GoalInv'
  BY <1>5, KickKeeps, AfterTurnKeeps, FoldWrittenKeeps DEF TurnWrapUp
<1>6. ASSUME NEW h \in Threads, Starts(h) PROVE GoalInv'
  BY <1>6, StartKeeps, BeginKeeps, IterationKeeps, LaunchTurnKeeps DEF Starts
<1>7. ASSUME UNCHANGED goalVars PROVE GoalInv' BY <1>2, <1>7, FrameKeeps DEF goalVars
<1>8. QED
  BY <1>3, <1>4, <1>5, <1>6, <1>7, ReportKeeps, TurnEndsKeeps, SetKeeps, ActsKeeps, WritesKeeps
     DEF GoalNext

\* However the turns, the messages, the reports and the acts of the owner interleave, the
\* turns of a goal keep to its cap, but for one more each time the owner resumes it.
THEOREM GoalTurnsWithinCapTheorem == GoalSpec => []GoalTurnsWithinCap
<1>1. GoalInv => GoalTurnsWithinCap BY DEF GoalInv, CapInv, Capped, GoalTurnsWithinCap
<1>2. QED BY GoalInitial, GoalStep, <1>1, PTL DEF GoalSpec

\* Between two turns each thread that wraps up or serves the owner begins at most one
\* iteration: at is a place from which h may still begin one.
MayBegin(h, at) ==
    IF InTurn THEN at \in {"begin", "beginning"}
    ELSE IF h = Owner THEN at # "launch" ELSE at \in Wrapping \ {"launch"}
Begins(h) == IF MayBegin(h, thread[h]) THEN 1 ELSE 0
Beginning == Begins(Owner) + Begins(1) + Begins(2)

\* The owner begins one before the first turn, and two threads begin one after each.
Rounds == IF InTurn THEN 2 * begun ELSE 2 * begun + 2
RoundsInv ==
    /\ begun \in 0..MaxGoalTurns
    /\ goal.iteration + Beginning < Rounds
    /\ \A h \in Threads :
         thread[h] = "beginning" => change[h].iteration + Beginning <= Rounds

\* The threads of the model, one by one.
LEMMA ThreeThreads ==
    /\ Owner \in Threads /\ 1 \in Threads /\ 2 \in Threads
    /\ \A h \in Threads : h = Owner \/ h = 1 \/ h = 2
    /\ Owner # 1 /\ Owner # 2
BY DEF Owner, Threads, GoalTurns

\* Each thread counts once; the fewer threads may begin an iteration, the smaller the sum.
LEMMA BeginningSums ==
    /\ \A h \in Threads : Begins(h) \in {0, 1} /\ Begins(h)' \in {0, 1}
    /\ Beginning \in 0..3 /\ Beginning' \in 0..3
    /\ (\A h \in Threads : MayBegin(h, thread[h])' => MayBegin(h, thread[h])) =>
         /\ Beginning' <= Beginning
         /\ \A h \in Threads :
              MayBegin(h, thread[h]) /\ ~MayBegin(h, thread[h])' => Beginning' + 1 <= Beginning
<1>1. \A h \in Threads : Begins(h) \in {0, 1} /\ Begins(h)' \in {0, 1} BY DEF Begins
<1>2. Beginning \in 0..3 /\ Beginning' \in 0..3 BY <1>1, ThreeThreads DEF Beginning
<1>3. ASSUME \A h \in Threads : MayBegin(h, thread[h])' => MayBegin(h, thread[h])
      PROVE  /\ Beginning' <= Beginning
             /\ \A h \in Threads :
                  MayBegin(h, thread[h]) /\ ~MayBegin(h, thread[h])' =>
                    Beginning' + 1 <= Beginning
  <2>1. \A h \in Threads : Begins(h)' <= Begins(h) BY <1>3 DEF Begins
  <2>2. \A h \in Threads : MayBegin(h, thread[h]) /\ ~MayBegin(h, thread[h])' =>
          Begins(h)' + 1 <= Begins(h)
    BY DEF Begins
  <2>3. Begins(Owner)' <= Begins(Owner) /\ Begins(1)' <= Begins(1) /\ Begins(2)' <= Begins(2)
    BY <2>1, ThreeThreads
  <2>4. /\ Begins(Owner) \in {0, 1} /\ Begins(1) \in {0, 1} /\ Begins(2) \in {0, 1}
        /\ Begins(Owner)' \in {0, 1} /\ Begins(1)' \in {0, 1} /\ Begins(2)' \in {0, 1}
    BY <1>1, ThreeThreads
  <2>5. Beginning' <= Beginning BY <2>3, <2>4 DEF Beginning
  <2>6. ASSUME NEW h \in Threads, MayBegin(h, thread[h]), ~MayBegin(h, thread[h])'
        PROVE  Beginning' + 1 <= Beginning
    <3>1. Begins(h)' + 1 <= Begins(h) BY <2>2, <2>6
    <3>2. CASE h = Owner BY <3>1, <3>2, <2>3, <2>4 DEF Beginning
    <3>3. CASE h = 1 BY <3>1, <3>3, <2>3, <2>4 DEF Beginning
    <3>4. CASE h = 2 BY <3>1, <3>4, <2>3, <2>4 DEF Beginning
    <3>5. QED BY <3>2, <3>3, <3>4, ThreeThreads
  <2>7. QED BY <2>5, <2>6
<1>4. QED BY <1>1, <1>2, <1>3

\* A thread that goes on, and at most uses up its iteration.
LEMMA GoesInRounds ==
    ASSUME GoalInv, RoundsInv, NEW h \in Threads, NEW at \in Places \ {"running"}, NEW c,
           Goes(h, at, c), thread[h] # "running", begun' = begun,
           MayBegin(h, at) => MayBegin(h, thread[h]),
           \/ goal'.iteration \in Nat /\ goal'.iteration <= goal.iteration
           \/ /\ thread[h] = "beginning" /\ at = "launch"
              /\ goal'.iteration = change[h].iteration,
           at = "beginning" => c.iteration = goal.iteration + 1
    PROVE  RoundsInv'
<1> USE ThreadSets
<1>1. /\ GoalTypes /\ goal.iteration \in Nat /\ begun \in 0..MaxGoalTurns
      /\ \A k \in Threads : thread[k] = "beginning" => change[k].iteration \in Nat
  BY DEF GoalInv, GoalTypes, IsGoal, RoundsInv, ChangesInv, MayWrite
<1>2. /\ \A k \in Threads : thread'[k] = IF k = h THEN at ELSE thread[k]
      /\ \A k \in Threads : change'[k] = IF k = h THEN c ELSE change[k]
  BY <1>1, GoesMoves
<1>3. InTurn' <=> InTurn
  <2>1. at # "running" OBVIOUS
  <2>2. \A k \in Threads : thread'[k] = "running" <=> thread[k] = "running" BY <1>2, <2>1
  <2>3. QED BY <2>2 DEF InTurn
<1>4. Rounds' = Rounds /\ Rounds \in Nat BY <1>1, <1>3, GoalAssumption DEF Rounds
<1>5. \A k \in Threads : MayBegin(k, thread[k])' <=>
        MayBegin(k, IF k = h THEN at ELSE thread[k])
  BY <1>2, <1>3 DEF MayBegin
<1>6. \A k \in Threads : MayBegin(k, thread[k])' => MayBegin(k, thread[k]) BY <1>5
<1>7. Beginning \in 0..3 /\ Beginning' \in 0..3 /\ Beginning' <= Beginning
  BY <1>6, BeginningSums
<1>8. goal'.iteration + Beginning' < Rounds
  <2>1. CASE goal'.iteration \in Nat /\ goal'.iteration <= goal.iteration
    BY <2>1, <1>1, <1>4, <1>7 DEF RoundsInv
  <2>2. CASE /\ thread[h] = "beginning" /\ at = "launch"
             /\ goal'.iteration = change[h].iteration
    <3>1. MayBegin(h, thread[h]) BY <2>2 DEF MayBegin, Wrapping, Starting
    <3>2. ~MayBegin(h, thread[h])' BY <2>2, <1>5 DEF MayBegin
    <3>3. Beginning' + 1 <= Beginning BY <3>1, <3>2, <1>6, BeginningSums
    <3>4. change[h].iteration + Beginning <= Rounds BY <2>2 DEF RoundsInv
    <3>5. \A x, a, b, r \in Nat : a + 1 <= b /\ x + b <= r => x + a < r OBVIOUS
    <3>6. /\ change[h].iteration \in Nat /\ Beginning \in Nat /\ Beginning' \in Nat
          /\ Rounds \in Nat
      BY <2>2, <1>1, <1>4, <1>7
    <3>7. change[h].iteration + Beginning' < Rounds BY <3>3, <3>4, <3>5, <3>6
    <3>8. QED BY <2>2, <3>7
  <2>3. QED BY <2>1, <2>2
<1>9. ASSUME NEW k \in Threads, thread'[k] = "beginning"
      PROVE  change'[k].iteration + Beginning' <= Rounds
  <2>1. CASE k = h
    <3>1. change'[k].iteration = goal.iteration + 1 BY <1>2, <1>9, <2>1
    <3>2. goal.iteration + Beginning < Rounds BY DEF RoundsInv
    <3>3. QED BY <3>1, <3>2, <1>1, <1>4, <1>7
  <2>2. CASE k # h
    <3>1. thread[k] = "beginning" /\ change'[k] = change[k] BY <1>2, <1>9, <2>2
    <3>2. change[k].iteration + Beginning <= Rounds BY <3>1 DEF RoundsInv
    <3>3. QED BY <3>1, <3>2, <1>1, <1>4, <1>7
  <2>3. QED BY <2>1, <2>2
<1>10. QED BY <1>1, <1>4, <1>8, <1>9 DEF RoundsInv

\* A turn that starts ends the round; who is still on the way to an iteration was before.
LEMMA LaunchInRounds ==
    ASSUME GoalInv, RoundsInv, NEW h \in Threads, NEW n \in Nat, NEW to \in {"idle", "kicked"},
           Launches(h, n, to), goal' = goal,
           to = "kicked" => h \in GoalTurns /\ thread[h] = "done",
           to = "idle" => thread[h] = "launch" \/ (h = Owner /\ thread[h] = "idle"),
           \A k \in Threads : k # h => change'[k] = change[k]
    PROVE  RoundsInv'
<1> USE ThreadSets
<1> DEFINE now == [thread EXCEPT ![h] = to]
<1>1. ~InTurn /\ begun < MaxGoalTurns /\ begun' = begun + 1 BY DEF Launches
<1>2. now \in [Threads -> Places] /\ \A k \in Threads : now[k] = IF k = h THEN to ELSE thread[k]
  BY DEF Places, GoalInv, GoalTypes
<1>13. PICK t \in GoalTurns : now[t] = "idle" /\ thread' = [now EXCEPT ![t] = "running"]
  BY LaunchTakes
<1> HIDE DEF now
<1>3. \A k \in Threads : thread'[k] \in {"running", to, thread[k]} BY <1>13, <1>2
<1>4. \A k \in Threads : k = h => thread'[k] \in {"running", to} BY <1>13, <1>2
<1>5. InTurn' BY <1>13, <1>2 DEF InTurn
<1>6. \A k \in Threads : MayBegin(k, thread[k])' => MayBegin(k, thread[k])
  BY <1>1, <1>3, <1>5 DEF MayBegin, Wrapping, Starting
<1>7. Beginning \in 0..3 /\ Beginning' \in 0..3 /\ Beginning' <= Beginning
  BY <1>6, BeginningSums
<1>8. /\ begun \in Nat /\ MaxGoalTurns \in Nat /\ goal.iteration \in Nat
      /\ begun' \in 0..MaxGoalTurns
  BY <1>1, GoalAssumption DEF RoundsInv, GoalInv, GoalTypes, IsGoal
<1>9. Rounds' = Rounds /\ Rounds \in Nat BY <1>1, <1>5, <1>8 DEF Rounds
<1>10. goal.iteration + Beginning' < Rounds BY <1>7, <1>8, <1>9 DEF RoundsInv
<1>11. ASSUME NEW k \in Threads, thread'[k] = "beginning"
       PROVE  change'[k].iteration + Beginning' <= Rounds
  <2>1. thread[k] = "beginning" /\ change'[k] = change[k] BY <1>3, <1>4, <1>11
  <2>2. change[k].iteration \in Nat BY <2>1 DEF GoalInv, ChangesInv, MayWrite
  <2>3. change[k].iteration + Beginning <= Rounds BY <2>1 DEF RoundsInv
  <2>4. QED BY <2>1, <2>2, <2>3, <1>7, <1>9
<1>12. QED BY <1>8, <1>9, <1>10, <1>11 DEF RoundsInv

\* Nobody begins or launches anything: a message is queued, a report is written.
LEMMA RoundsRest ==
    ASSUME GoalInv, RoundsInv, UNCHANGED <<thread, change, begun>>,
           goal'.iteration = goal.iteration
    PROVE  RoundsInv'
<1>1. InTurn' <=> InTurn BY DEF InTurn
<1>2. Beginning' = Beginning BY <1>1 DEF Beginning, Begins, MayBegin
<1>3. QED BY <1>1, <1>2 DEF RoundsInv, Rounds

\* The turn that ends leaves its round to its own thread and the owner's.
LEMMA TurnEndsRound ==
    ASSUME GoalInv, RoundsInv, NEW t \in GoalTurns, NEW how \in Ends, TurnEnds(t, how)
    PROVE  RoundsInv'
<1> USE ThreadSets
<1>1. /\ thread[t] = "running" /\ \A k \in Threads : k # t => thread[k] = "idle"
      /\ \A k \in Threads : thread'[k] = IF k = t THEN "done" ELSE "idle"
      /\ UNCHANGED <<goal, change, begun>>
  BY DEF TurnEnds, GoalInv, GoalTypes, Places
<1>2. InTurn /\ ~InTurn' BY <1>1 DEF InTurn
<1>3. /\ goal.iteration \in Nat /\ begun \in 0..MaxGoalTurns /\ MaxGoalTurns \in Nat
  BY GoalAssumption DEF GoalInv, GoalTypes, IsGoal, RoundsInv
<1>4. Beginning \in 0..3 BY BeginningSums
<1>5. Beginning' <= 2
  <2>1. \A k \in Threads : k # t /\ k # Owner => Begins(k)' = 0
    BY <1>1, <1>2 DEF Begins, MayBegin, Wrapping, Starting
  <2>2. \A k \in Threads : Begins(k)' \in {0, 1} BY BeginningSums
  <2>3. t = 1 \/ t = 2 BY DEF GoalTurns
  <2>4. Begins(1)' = 0 \/ Begins(2)' = 0 BY <2>1, <2>3, ThreeThreads
  <2>5. QED BY <2>2, <2>4, ThreeThreads DEF Beginning
<1>6. Beginning' \in 0..3 BY BeginningSums
<1>7. Rounds = 2 * begun /\ Rounds' = 2 * begun + 2 BY <1>1, <1>2 DEF Rounds
<1>8. goal.iteration + Beginning < 2 * begun BY <1>7 DEF RoundsInv
<1>9. goal.iteration + Beginning' < 2 * begun + 2 BY <1>3, <1>4, <1>5, <1>6, <1>8
<1>10. QED BY <1>1, <1>3, <1>7, <1>9 DEF RoundsInv

\* Whatever the turns, the messages and the owner do, the iterations keep to the rounds.
LEMMA RoundsStep ==
    ASSUME GoalInv, RoundsInv, [GoalNext]_goalVars
    PROVE  RoundsInv'
<1> USE ThreadSets
<1>1. GoalInv' BY GoalStep
<1>2. IsGoal(goal) /\ goal.iteration \in Nat /\ GoalTypes BY DEF GoalInv, GoalTypes, IsGoal
<1>3. /\ \A at \in {"idle", "stopping", "writing", "start", "begin", "beginning", "launch",
                    "kicked"} : at \in Places \ {"running"}
      /\ \A h \in Threads : ~InTurn /\ (h = Owner => thread[h] # "launch")
                            /\ (h # Owner => thread[h] \in Wrapping \ {"launch"}) =>
           MayBegin(h, thread[h])
      /\ \A h \in Threads, at \in {"idle", "stopping", "writing", "start", "kicked"} :
           InTurn => ~MayBegin(h, at)
  BY DEF Places, MayBegin
<1>4. ASSUME UserTurn PROVE RoundsInv'
  <2>1. Launches(Owner, 0, "idle") /\ thread[Owner] = "idle" /\ UNCHANGED <<goal, change>>
    BY <1>4 DEF UserTurn
  <2>2. QED BY <2>1, LaunchInRounds
<1>5. ASSUME QueueMessage PROVE RoundsInv' BY <1>5, RoundsRest DEF QueueMessage
<1>6. ASSUME NEW t \in GoalTurns, NEW s, GoalReport(t, s) PROVE RoundsInv'
  <2>1. goal'.iteration = goal.iteration BY <1>2, <1>6 DEF GoalReport, IsGoal, GoalFields
  <2>2. QED BY <1>6, <2>1, RoundsRest DEF GoalReport
<1>7. ASSUME NEW t \in GoalTurns, Kick(t) PROVE RoundsInv'
  <2>1. thread[t] = "done" /\ UNCHANGED <<goal, change>> BY <1>7 DEF Kick
  <2>2. CASE Launches(t, 0, "kicked") BY <2>1, <2>2, LaunchInRounds
  <2>3. CASE ~Launches(t, 0, "kicked")
    <3>1. thread' = [thread EXCEPT ![t] = "kicked"] /\ UNCHANGED <<kinds, ended, begun>>
      BY <1>7, <2>3 DEF Kick
    <3>2. change' = [change EXCEPT ![t] = change[t]] BY <1>2, <2>1 DEF GoalTypes
    <3>3. Goes(t, "kicked", change[t]) BY <3>1, <3>2 DEF Goes, Forgets
    <3>4. MayBegin(t, "kicked") => MayBegin(t, thread[t])
      BY <2>1 DEF MayBegin, Wrapping, Starting, Owner, GoalTurns
    <3>5. QED BY <1>2, <1>3, <2>1, <3>1, <3>3, <3>4, GoesInRounds
  <2>4. QED BY <2>2, <2>3
<1>8. ASSUME NEW t \in GoalTurns, NEW gate, NEW still, AfterTurn(t, gate, still)
      PROVE  RoundsInv'
  <2>1. thread[t] = "kicked" /\ UNCHANGED <<goal, begun>> BY <1>8 DEF AfterTurn
  <2>2. PICK at \in {"idle", "stopping", "start", "writing"} : \E c : Goes(t, at, c)
    <3>1. CASE goal.state # "pursuing" BY <1>8, <3>1 DEF AfterTurn
    <3>2. CASE goal.state = "pursuing" /\ kinds[t] = 0 BY <1>8, <3>2 DEF AfterTurn
    <3>3. CASE goal.state = "pursuing" /\ kinds[t] # 0
      <4> DEFINE f == Fold(ended[t], gate, still)
      <4>1. Goes(t, IF f.go THEN "writing" ELSE "stopping", f.c) BY <1>8, <3>3 DEF AfterTurn
      <4> HIDE DEF f
      <4>2. QED BY <4>1
    <3>4. QED BY <3>1, <3>2, <3>3
  <2>3. PICK c : Goes(t, at, c) BY <2>2
  <2>4. MayBegin(t, at) => MayBegin(t, thread[t])
    BY <2>1, <2>2, <1>3 DEF MayBegin, Wrapping
  <2>5. QED BY <1>2, <1>3, <2>1, <2>2, <2>3, <2>4, GoesInRounds
<1>9. ASSUME NEW t \in GoalTurns, FoldWritten(t) PROVE RoundsInv'
  <2>1. /\ thread[t] \in {"stopping", "writing"} /\ begun' = begun
        /\ MayWrite(t, thread[t], change[t])
    BY <1>9 DEF FoldWritten, GoalInv, ChangesInv
  <2>2. PICK at \in {"start", "idle"} : Goes(t, at, NoChange) BY <1>9 DEF FoldWritten
  <2>3. MayBegin(t, at) => MayBegin(t, thread[t])
    BY <2>1, <2>2, <1>3 DEF MayBegin, Wrapping
  <2>4. goal'.iteration = goal.iteration
    <3>1. CASE Writes(t)
      <4>1. DOMAIN change[t] \subseteq {"state", "quiet"}
        BY <2>1, <3>1 DEF MayWrite, Writes
      <4>2. goal' = Updated(change[t]) BY <1>9, <3>1 DEF FoldWritten
      <4>3. QED BY <1>2, <4>1, <4>2, UpdatedFields
    <3>2. CASE ~Writes(t)
      <4>1. goal' = goal \/ goal' = [goal EXCEPT !.state = "paused"]
        BY <1>9, <3>2 DEF FoldWritten
      <4>2. QED BY <1>2, <4>1 DEF IsGoal, GoalFields
    <3>3. QED BY <3>1, <3>2
  <2>5. QED BY <1>2, <1>3, <2>1, <2>2, <2>3, <2>4, GoesInRounds
<1>10. ASSUME NEW h \in Threads, StartGoalTurn(h) PROVE RoundsInv'
  <2>1. thread[h] = "start" /\ UNCHANGED <<goal, begun>> BY <1>10 DEF StartGoalTurn
  <2>2. PICK at \in {"begin", "idle"} : Goes(h, at, NoChange) /\ (at = "begin" => ~InTurn)
    BY <1>10 DEF StartGoalTurn
  <2>3. MayBegin(h, at) => MayBegin(h, thread[h])
    BY <2>1, <2>2, <1>3 DEF MayBegin, Wrapping, Starting
  <2>4. QED BY <1>2, <1>3, <2>1, <2>2, <2>3, GoesInRounds
<1>11. ASSUME NEW h \in Threads, BeginIteration(h) PROVE RoundsInv'
  <2>1. thread[h] = "begin" /\ UNCHANGED <<goal, begun>> BY <1>11 DEF BeginIteration
  <2>2. MayBegin(h, thread[h]) BY <2>1 DEF MayBegin, Wrapping, Starting
  <2>3. CASE goal.state = "pursuing"
    <3>1. Goes(h, "beginning", [iteration |-> goal.iteration + 1])
      BY <1>11, <2>3 DEF BeginIteration
    <3>2. QED BY <1>2, <1>3, <2>1, <2>2, <3>1, GoesInRounds
  <2>4. CASE goal.state # "pursuing"
    <3>1. Goes(h, "idle", NoChange) BY <1>11, <2>4 DEF BeginIteration
    <3>2. QED BY <1>2, <1>3, <2>1, <2>2, <3>1, GoesInRounds
  <2>5. QED BY <2>3, <2>4
<1>12. ASSUME NEW h \in Threads, IterationWritten(h) PROVE RoundsInv'
  <2>1. /\ thread[h] = "beginning" /\ begun' = begun /\ goal' = Updated(change[h])
        /\ Goes(h, "launch", [id |-> goal.id])
    BY <1>12 DEF IterationWritten
  <2>2. DOMAIN change[h] = {"iteration"} /\ change[h].iteration \in Nat
    BY <2>1 DEF GoalInv, ChangesInv, MayWrite
  <2>3. goal'.iteration = change[h].iteration BY <1>2, <2>1, <2>2, UpdatedIteration
  <2>4. MayBegin(h, thread[h]) BY <2>1 DEF MayBegin, Wrapping, Starting
  <2>5. QED BY <1>2, <1>3, <2>1, <2>3, <2>4, GoesInRounds
<1>13. ASSUME NEW h \in Threads, LaunchGoalTurn(h) PROVE RoundsInv'
  <2>1. /\ thread[h] = "launch" /\ goal' = goal
        /\ change' = [change EXCEPT ![h] = NoChange]
    BY <1>13 DEF LaunchGoalTurn
  <2>2. CASE Launches(h, change[h].id, "idle")
    <3>1. change[h].id \in Nat BY <2>1 DEF GoalInv, ChangesInv, MayWrite
    <3>2. \A k \in Threads : k # h => change'[k] = change[k] BY <1>2, <2>1 DEF GoalTypes
    <3>3. QED BY <2>1, <2>2, <3>1, <3>2, LaunchInRounds
  <2>3. CASE ~Launches(h, change[h].id, "idle")
    <3>1. Goes(h, "idle", NoChange) /\ InTurn /\ begun' = begun
      BY <1>13, <2>3 DEF LaunchGoalTurn, Goes
    <3>2. QED BY <1>2, <1>3, <2>1, <3>1, GoesInRounds
  <2>4. QED BY <2>2, <2>3
<1>14. ASSUME NEW cap \in Caps, GoalSet(cap) PROVE RoundsInv'
  <2>1. /\ thread[Owner] = "idle" /\ Goes(Owner, "start", NoChange) /\ begun' = begun
        /\ goal'.iteration = 0
    BY <1>14 DEF GoalSet
  <2>2. MayBegin(Owner, "start") => MayBegin(Owner, thread[Owner]) BY <2>1, <1>3
  <2>3. QED BY <1>2, <1>3, <2>1, <2>2, GoesInRounds
<1>15. ASSUME NEW to \in {"paused", "pursuing", "cleared"}, OwnerActs(to) PROVE RoundsInv'
  <2>1. thread[Owner] = "idle" /\ UNCHANGED <<goal, begun>> BY <1>15 DEF OwnerActs
  <2>2. PICK c : Goes(Owner, "writing", c) BY <1>15 DEF OwnerActs
  <2>3. MayBegin(Owner, "writing") => MayBegin(Owner, thread[Owner]) BY <2>1, <1>3
  <2>4. QED BY <1>2, <1>3, <2>1, <2>2, <2>3, GoesInRounds
<1>16. ASSUME OwnerWrites PROVE RoundsInv'
  <2>1. thread[Owner] = "writing" /\ begun' = begun /\ goal' = Updated(change[Owner])
    BY <1>16 DEF OwnerWrites
  <2>2. PICK at \in {"start", "idle"} : Goes(Owner, at, NoChange) BY <1>16 DEF OwnerWrites
  <2>3. DOMAIN change[Owner] \subseteq {"state", "quiet"}
    BY <2>1 DEF GoalInv, ChangesInv, MayWrite
  <2>4. goal'.iteration = goal.iteration BY <1>2, <2>1, <2>3, UpdatedFields
  <2>5. MayBegin(Owner, at) => MayBegin(Owner, thread[Owner]) BY <2>1, <2>2, <1>3
  <2>6. QED BY <1>2, <1>3, <2>1, <2>2, <2>4, <2>5, GoesInRounds
<1>17. ASSUME UNCHANGED goalVars PROVE RoundsInv' BY <1>17, RoundsRest DEF goalVars
<1>18. QED
  BY <1>4, <1>5, <1>6, <1>7, <1>8, <1>9, <1>10, <1>11, <1>12, <1>13, <1>14, <1>15, <1>16, <1>17,
     TurnEndsRound
  DEF GoalNext, TurnWrapUp, Starts

\* The fields of a goal, and what a thread may write into it.
RowTypes(g) ==
    /\ g.id \in 0..MaxGoals /\ g.state \in GoalStates /\ g.cap \in Caps \cup {0}
    /\ g.quiet \in 0..STALL_AFTER /\ g.report \in {"progress", "achieved", "blocked"}
    /\ g.reportedAt \in 0..(2 * MaxGoalTurns + 1)
Fits(c) ==
    /\ DOMAIN c \subseteq Fields
    /\ "state" \in DOMAIN c => c.state \in GoalStates
    /\ "quiet" \in DOMAIN c => c.quiet \in 0..STALL_AFTER
    /\ "id" \in DOMAIN c => c.id \in 0..MaxGoals

\* An act of the owner that is not written yet is no resume.
OwnerHeld == IF thread[Owner] = "writing" THEN 1 ELSE 0
GoalRows ==
    /\ RowTypes(goal) /\ \A h \in Threads : Fits(change[h])
    /\ kinds \in [GoalTurns -> 0..MaxGoals] /\ ended \in [GoalTurns -> Ends \cup {"no"}]
    /\ ahead \in BOOLEAN /\ owed \in 0..MaxGoalActs
    /\ ran <= begun /\ resumed + OwnerHeld <= owed

\* A row of which only the state, the count of quiet turns or the iteration is written.
LEMMA UpdatedRow ==
    ASSUME NEW c, IsGoal(goal), RowTypes(goal), Fits(c),
           DOMAIN c \subseteq {"state", "quiet", "iteration"}, goal' = Updated(c)
    PROVE  RowTypes(goal')
<1>1. DOMAIN goal = GoalFields BY DEF IsGoal
<1>2. \A f \in GoalFields : goal'[f] = IF f \in DOMAIN c THEN c[f] ELSE goal[f]
  BY <1>1 DEF Updated
<1>3. /\ goal'.id = goal.id /\ goal'.cap = goal.cap /\ goal'.report = goal.report
      /\ goal'.reportedAt = goal.reportedAt
      /\ goal'.state = IF "state" \in DOMAIN c THEN c.state ELSE goal.state
      /\ goal'.quiet = IF "quiet" \in DOMAIN c THEN c.quiet ELSE goal.quiet
  BY <1>2 DEF GoalFields
<1>4. goal'.state \in GoalStates /\ goal'.quiet \in 0..STALL_AFTER
  BY <1>3 DEF RowTypes, Fits
<1>5. QED BY <1>3, <1>4 DEF RowTypes

\* What the fold of a turn writes fits the row.
LEMMA FoldFits ==
    ASSUME goal.quiet \in 0..STALL_AFTER, NEW how, NEW gate, NEW still
    PROVE  Fits(Fold(how, gate, still).c)
<1> USE GoalAssumption
<1> DEFINE quiet == IF still THEN goal.quiet + 1 ELSE 0
<1>1. quiet \in Nat /\ (quiet < STALL_AFTER => quiet \in 0..STALL_AFTER)
      /\ STALL_AFTER \in 0..STALL_AFTER
  OBVIOUS
<1>2. Fold(how, gate, still).c \in
        {[state |-> "paused"], [state |-> "waiting_limits"], [state |-> "blocked"],
         [state |-> "achieved"], [state |-> "stalled", quiet |-> STALL_AFTER]}
      \/ (/\ ~(quiet >= STALL_AFTER)
          /\ Fold(how, gate, still).c \in
               {[state |-> "budget_limited", quiet |-> quiet], [quiet |-> quiet]})
  <2>1. CASE how = "cancelled" BY <2>1 DEF Fold
  <2>2. CASE how = "limit" BY <2>2 DEF Fold
  <2>3. CASE how = "failed" BY <2>3 DEF Fold
  <2>4. CASE how = "completed" /\ IsReported("blocked") BY <2>4 DEF Fold
  <2>5. CASE how = "completed" /\ ~IsReported("blocked") /\ IsReported("achieved") /\ gate
    BY <2>5 DEF Fold
  <2>6. CASE /\ how \notin {"cancelled", "limit", "failed"}
             /\ ~(how = "completed" /\ IsReported("blocked"))
             /\ ~(how = "completed" /\ IsReported("achieved") /\ gate)
    <3>1. Fold(how, gate, still) =
            IF quiet >= STALL_AFTER
            THEN [go |-> FALSE, c |-> [state |-> "stalled", quiet |-> STALL_AFTER]]
            ELSE IF Exhausted
            THEN [go |-> FALSE, c |-> [state |-> "budget_limited", quiet |-> quiet]]
            ELSE [go |-> TRUE, c |-> [quiet |-> quiet]]
      BY <2>6 DEF Fold
    <3> HIDE DEF quiet
    <3>2. QED BY <3>1
  <2>7. QED BY <2>1, <2>2, <2>3, <2>4, <2>5, <2>6
<1>3. ~(quiet >= STALL_AFTER) => quiet \in 0..STALL_AFTER BY <1>1
<1> HIDE DEF quiet
<1>4. QED BY <1>1, <1>2, <1>3 DEF Fits, Fields, GoalStates

\* Nothing is written yet.
LEMMA NoChangeFits == Fits(NoChange) /\ 0 \in 0..MaxGoals
<1>1. DOMAIN NoChange = {} BY DEF NoChange
<1>2. QED BY <1>1, GoalAssumption DEF Fits

\* A thread that goes on, with what it will write.
LEMMA GoesRows ==
    ASSUME GoalInv, GoalRows, NEW h \in Threads, NEW at \in Places \ {"running"}, NEW c,
           Goes(h, at, c), Fits(c), RowTypes(goal'), ahead' = ahead, begun' = begun,
           ran' <= begun, owed' \in 0..MaxGoalActs, resumed' + OwnerHeld' <= owed'
    PROVE  GoalRows'
<1>1. GoalTypes BY DEF GoalInv
<1>2. \A k \in Threads : Fits(change'[k]) BY <1>1, GoesMoves DEF GoalRows
<1>3. kinds' \in [GoalTurns -> 0..MaxGoals] /\ ended' \in [GoalTurns -> Ends \cup {"no"}]
  BY NoChangeFits DEF Goes, Forgets, GoalRows
<1>4. QED BY <1>2, <1>3 DEF GoalRows

\* What the owner's thread holds when another one moves, or his own from place to place.
LEMMA HeldMoves ==
    ASSUME GoalInv, NEW h \in Threads, NEW at \in Places, NEW c, Goes(h, at, c)
    PROVE  OwnerHeld' = IF h = Owner THEN (IF at = "writing" THEN 1 ELSE 0) ELSE OwnerHeld
<1>1. \A k \in Threads : thread'[k] = IF k = h THEN at ELSE thread[k]
  BY GoesMoves DEF GoalInv
<1>2. QED BY <1>1, ThreadSets DEF OwnerHeld

\* A turn that starts.
LEMMA LaunchRows ==
    ASSUME GoalInv, GoalRows, NEW h \in Threads, NEW n \in 0..MaxGoals,
           NEW to \in {"idle", "kicked"}, Launches(h, n, to),
           to = "kicked" => h \in GoalTurns /\ thread[h] = "done",
           to = "idle" => thread[h] = "launch" \/ (h = Owner /\ thread[h] = "idle"),
           begun \in 0..MaxGoalTurns, UNCHANGED <<goal, owed, resumed>>, ahead' \in BOOLEAN,
           change' = change \/ change' = [change EXCEPT ![h] = NoChange],
           ran' = ran \/ ran' = ran + 1
    PROVE  GoalRows'
<1> USE ThreadSets
<1>1. n \in Nat /\ ran \in Nat /\ begun \in Nat
  BY GoalAssumption DEF GoalInv, GoalTypes
<1>2. PICK t \in GoalTurns :
         /\ [thread EXCEPT ![h] = to][t] = "idle"
         /\ kinds' = [kinds EXCEPT ![t] = n] /\ ended' = [ended EXCEPT ![t] = "no"]
         /\ thread' = [[thread EXCEPT ![h] = to] EXCEPT ![t] = "running"]
  BY <1>1, LaunchTakes
<1>3. kinds' \in [GoalTurns -> 0..MaxGoals] /\ ended' \in [GoalTurns -> Ends \cup {"no"}]
  BY <1>2 DEF GoalRows
<1>4. OwnerHeld' = OwnerHeld
  <2>1. thread'[Owner] = "writing" <=> thread[Owner] = "writing"
    BY <1>2 DEF GoalInv, GoalTypes
  <2>2. QED BY <2>1 DEF OwnerHeld
<1>5. \A k \in Threads : Fits(change'[k])
  BY NoChangeFits DEF GoalRows, GoalInv, GoalTypes
<1>6. begun' = begun + 1 BY DEF Launches
<1>7. ran' <= begun' BY <1>1, <1>6 DEF GoalRows
<1>8. QED BY <1>3, <1>4, <1>5, <1>7 DEF GoalRows

\* Every step keeps the row, the threads and the counts in their types.
LEMMA RowsStep ==
    ASSUME GoalInv, RoundsInv, GoalRows, [GoalNext]_goalVars
    PROVE  GoalRows'
<1> USE ThreadSets, GoalAssumption
<1>1. /\ GoalTypes /\ IsGoal(goal) /\ RowTypes(goal) /\ begun \in 0..MaxGoalTurns
      /\ goal.iteration \in Nat /\ goal.id \in Nat /\ resumed \in Nat /\ ran <= begun
      /\ owed \in 0..MaxGoalActs /\ resumed + OwnerHeld <= owed /\ ahead \in BOOLEAN
      /\ OwnerHeld \in {0, 1} /\ \A h \in Threads : Fits(change[h])
  BY DEF GoalInv, GoalTypes, IsGoal, GoalRows, RoundsInv, OwnerHeld
<1>2. /\ \A at \in {"idle", "stopping", "writing", "start", "begin", "beginning", "launch",
                    "kicked"} : at \in Places /\ at \in Places \ {"running"}
      /\ \A h \in Threads : MayWrite(h, thread[h], change[h])
  BY DEF Places, GoalInv, ChangesInv
<1>3. ASSUME NEW h \in Threads, NEW at \in Places \ {"running"}, NEW c, Goes(h, at, c),
             Fits(c), RowTypes(goal'), UNCHANGED <<ahead, begun, ran, owed, resumed>>,
             h # Owner \/ at # "writing"
      PROVE  GoalRows'
  <2>1. OwnerHeld' = OwnerHeld \/ OwnerHeld' = 0 BY <1>3, HeldMoves
  <2>2. resumed' + OwnerHeld' <= owed' BY <1>1, <1>3, <2>1
  <2>3. QED BY <1>1, <1>3, <2>2, GoesRows
<1>4. ASSUME UserTurn PROVE GoalRows'
  <2>1. /\ Launches(Owner, 0, "idle") /\ thread[Owner] = "idle"
        /\ UNCHANGED <<goal, change, ahead, owed, ran, resumed>>
    BY <1>4 DEF UserTurn
  <2>2. QED BY <1>1, <2>1, LaunchRows, NoChangeFits
<1>5. ASSUME UNCHANGED <<kinds, ended, thread, change, owed, begun, ran, resumed>>,
             RowTypes(goal'), ahead' \in BOOLEAN
      PROVE  GoalRows'
  BY <1>5 DEF GoalRows, OwnerHeld
<1>6. ASSUME QueueMessage PROVE GoalRows' BY <1>1, <1>5, <1>6 DEF QueueMessage
<1>7. ASSUME NEW t \in GoalTurns, NEW s \in {"progress", "achieved", "blocked"},
             GoalReport(t, s)
      PROVE  GoalRows'
  <2>1. goal.iteration \in 0..(2 * MaxGoalTurns + 1)
    <3>1. Beginning \in 0..3 /\ goal.iteration + Beginning < Rounds
      BY BeginningSums DEF RoundsInv
    <3>2. Rounds \in Nat /\ Rounds <= 2 * MaxGoalTurns + 2 BY <1>1 DEF Rounds
    <3>3. QED BY <1>1, <3>1, <3>2
  <2>2. goal' = [goal EXCEPT !.report = s, !.reportedAt = goal.iteration]
    BY <1>7 DEF GoalReport
  <2>3. /\ goal'.id = goal.id /\ goal'.state = goal.state /\ goal'.cap = goal.cap
        /\ goal'.quiet = goal.quiet /\ goal'.report = s /\ goal'.reportedAt = goal.iteration
    BY <1>1, <2>2 DEF IsGoal, GoalFields
  <2>4. RowTypes(goal') BY <1>1, <2>1, <2>3 DEF RowTypes
  <2>5. QED BY <1>1, <1>5, <1>7, <2>4 DEF GoalReport
<1>8. ASSUME NEW t \in GoalTurns, NEW how \in Ends, TurnEnds(t, how) PROVE GoalRows'
  <2>1. ended' \in [GoalTurns -> Ends \cup {"no"}] BY <1>8 DEF TurnEnds, GoalRows
  <2>2. OwnerHeld' = OwnerHeld BY <1>1, <1>8 DEF TurnEnds, OwnerHeld, GoalTypes
  <2>3. QED BY <1>8, <2>1, <2>2 DEF TurnEnds, GoalRows
<1>9. ASSUME NEW t \in GoalTurns, Kick(t) PROVE GoalRows'
  <2>1. /\ thread[t] = "done" /\ UNCHANGED <<goal, change, owed, ran, resumed>>
        /\ ahead' \in BOOLEAN
    BY <1>1, <1>9 DEF Kick
  <2>2. CASE Launches(t, 0, "kicked") BY <1>1, <2>1, <2>2, LaunchRows, NoChangeFits
  <2>3. CASE ~Launches(t, 0, "kicked")
    <3>1. /\ thread' = [thread EXCEPT ![t] = "kicked"]
          /\ UNCHANGED <<kinds, ended, begun, ahead>>
      BY <1>9, <2>3 DEF Kick
    <3>2. change' = [change EXCEPT ![t] = change[t]] BY <1>1, <2>1 DEF GoalTypes
    <3>3. Goes(t, "kicked", change[t]) BY <3>1, <3>2 DEF Goes, Forgets
    <3>4. QED BY <1>1, <1>2, <1>3, <2>1, <3>1, <3>3
  <2>4. QED BY <2>2, <2>3
<1>10. ASSUME NEW t \in GoalTurns, NEW gate, NEW still, AfterTurn(t, gate, still)
       PROVE  GoalRows'
  <2>1. UNCHANGED <<goal, ahead, owed, begun, ran, resumed>> BY <1>10 DEF AfterTurn
  <2>2. PICK at \in {"idle", "stopping", "start", "writing"} :
           \E c : Fits(c) /\ Goes(t, at, c)
    <3>1. CASE goal.state # "pursuing" BY <1>10, <3>1, NoChangeFits DEF AfterTurn
    <3>2. CASE goal.state = "pursuing" /\ kinds[t] = 0
      BY <1>10, <3>2, NoChangeFits DEF AfterTurn
    <3>3. CASE goal.state = "pursuing" /\ kinds[t] # 0
      <4> DEFINE f == Fold(ended[t], gate, still)
      <4>1. Goes(t, IF f.go THEN "writing" ELSE "stopping", f.c) BY <1>10, <3>3 DEF AfterTurn
      <4>2. Fits(f.c) BY <1>1, FoldFits DEF RowTypes
      <4> HIDE DEF f
      <4>3. QED BY <4>1, <4>2
    <3>4. QED BY <3>1, <3>2, <3>3
  <2>3. PICK c : Fits(c) /\ Goes(t, at, c) BY <2>2
  <2>4. QED BY <1>1, <1>2, <1>3, <2>1, <2>2, <2>3
<1>11. ASSUME NEW t \in GoalTurns, FoldWritten(t) PROVE GoalRows'
  <2>1. thread[t] \in {"stopping", "writing"} /\ UNCHANGED <<ahead, owed, begun, ran, resumed>>
    BY <1>11 DEF FoldWritten
  <2>2. PICK at \in {"start", "idle"} : Goes(t, at, NoChange) BY <1>11 DEF FoldWritten
  <2>3. RowTypes(goal')
    <3>1. CASE Writes(t)
      <4>1. DOMAIN change[t] \subseteq {"state", "quiet"}
        BY <1>2, <2>1, <3>1 DEF MayWrite, Writes
      <4>2. goal' = Updated(change[t]) BY <1>11, <3>1 DEF FoldWritten
      <4>3. QED BY <1>1, <4>1, <4>2, UpdatedRow
    <3>2. CASE ~Writes(t)
      <4>1. goal' = goal \/ goal' = [goal EXCEPT !.state = "paused"]
        BY <1>11, <3>2 DEF FoldWritten
      <4>2. QED BY <1>1, <4>1 DEF IsGoal, GoalFields, RowTypes, GoalStates
    <3>3. QED BY <3>1, <3>2
  <2>4. QED BY <1>2, <1>3, <2>1, <2>2, <2>3, NoChangeFits
<1>12. ASSUME NEW h \in Threads, StartGoalTurn(h) PROVE GoalRows'
  <2>1. UNCHANGED <<goal, ahead, owed, begun, ran, resumed>> BY <1>12 DEF StartGoalTurn
  <2>2. PICK at \in {"begin", "idle"} : Goes(h, at, NoChange) BY <1>12 DEF StartGoalTurn
  <2>3. QED BY <1>1, <1>2, <1>3, <2>1, <2>2, NoChangeFits
<1>13. ASSUME NEW h \in Threads, BeginIteration(h) PROVE GoalRows'
  <2>1. UNCHANGED <<goal, ahead, owed, begun, ran, resumed>> BY <1>13 DEF BeginIteration
  <2>2. Fits([iteration |-> goal.iteration + 1]) BY DEF Fits, Fields
  <2>3. PICK at \in {"beginning", "idle"} : \E c : Fits(c) /\ Goes(h, at, c)
    BY <1>13, <2>2, NoChangeFits DEF BeginIteration
  <2>4. PICK c : Fits(c) /\ Goes(h, at, c) BY <2>3
  <2>5. QED BY <1>1, <1>2, <1>3, <2>1, <2>3, <2>4
<1>14. ASSUME NEW h \in Threads, IterationWritten(h) PROVE GoalRows'
  <2>1. /\ thread[h] = "beginning" /\ goal' = Updated(change[h])
        /\ Goes(h, "launch", [id |-> goal.id])
        /\ UNCHANGED <<ahead, owed, begun, ran, resumed>>
    BY <1>14 DEF IterationWritten
  <2>2. DOMAIN change[h] = {"iteration"} BY <1>2, <2>1 DEF MayWrite
  <2>3. RowTypes(goal') BY <1>1, <2>1, <2>2, UpdatedRow
  <2>4. Fits([id |-> goal.id]) BY <1>1 DEF Fits, Fields, RowTypes
  <2>5. QED BY <1>2, <1>3, <2>1, <2>3, <2>4
<1>15. ASSUME NEW h \in Threads, LaunchGoalTurn(h) PROVE GoalRows'
  <2>1. /\ thread[h] = "launch" /\ change' = [change EXCEPT ![h] = NoChange]
        /\ UNCHANGED <<goal, ahead, owed, resumed>>
    BY <1>15 DEF LaunchGoalTurn
  <2>2. CASE Launches(h, change[h].id, "idle")
    <3>1. change[h].id \in 0..MaxGoals
      <4>1. change[h].id \in Nat /\ change[h].id <= goal.id
        BY <1>2, <2>1 DEF MayWrite, GoalInv, IterationInv
      <4>2. QED BY <1>1, <4>1 DEF RowTypes
    <3>2. ran' = ran \/ ran' = ran + 1 BY <1>15 DEF LaunchGoalTurn
    <3>3. QED BY <1>1, <2>1, <2>2, <3>1, <3>2, LaunchRows
  <2>3. CASE ~Launches(h, change[h].id, "idle")
    <3>1. Goes(h, "idle", NoChange) /\ UNCHANGED <<begun, ran>>
      BY <1>15, <2>3 DEF LaunchGoalTurn, Goes
    <3>2. QED BY <1>1, <1>2, <1>3, <2>1, <3>1, NoChangeFits
  <2>4. QED BY <2>2, <2>3
<1>16. ASSUME NEW cap \in Caps, GoalSet(cap) PROVE GoalRows'
  <2>1. /\ thread[Owner] = "idle" /\ Goes(Owner, "start", NoChange) /\ resumed' = 0 /\ ran' = 0
        /\ goal.id < MaxGoals /\ UNCHANGED <<ahead, owed, begun>>
        /\ goal' = [id |-> goal.id + 1, state |-> "pursuing", cap |-> cap, iteration |-> 0,
                    quiet |-> 0, report |-> "progress", reportedAt |-> 0]
    BY <1>16 DEF GoalSet
  <2>2. /\ goal'.id \in 0..MaxGoals /\ goal'.quiet \in 0..STALL_AFTER
        /\ goal'.reportedAt \in 0..(2 * MaxGoalTurns + 1)
    BY <1>1, <2>1
  <2>3. RowTypes(goal') BY <2>1, <2>2 DEF RowTypes, GoalStates
  <2>4. OwnerHeld' = 0 BY <1>2, <2>1, HeldMoves
  <2>5. resumed' + OwnerHeld' <= owed' BY <1>1, <2>1, <2>4
  <2>6. QED BY <1>1, <1>2, <2>1, <2>3, <2>5, GoesRows, NoChangeFits
<1>17. ASSUME NEW to \in {"paused", "pursuing", "cleared"}, OwnerActs(to) PROVE GoalRows'
  <2>1. /\ thread[Owner] = "idle" /\ owed < MaxGoalActs /\ owed' = owed + 1
        /\ UNCHANGED <<goal, ahead, begun, ran, resumed>>
    BY <1>17 DEF OwnerActs
  <2>2. PICK c \in {[state |-> to, quiet |-> 0], [state |-> to]} : Goes(Owner, "writing", c)
    BY <1>17 DEF OwnerActs
  <2>3. Fits(c)
    <3>1. 0 \in 0..STALL_AFTER /\ to \in GoalStates BY DEF GoalStates
    <3>2. QED BY <2>2, <3>1 DEF Fits, Fields
  <2>4. OwnerHeld' = 1 /\ OwnerHeld = 0
    BY <1>2, <2>1, <2>2, HeldMoves DEF OwnerHeld
  <2>5. owed' \in 0..MaxGoalActs /\ resumed' + OwnerHeld' <= owed' BY <1>1, <2>1, <2>4
  <2>6. QED BY <1>1, <1>2, <2>1, <2>2, <2>3, <2>5, GoesRows
<1>18. ASSUME OwnerWrites PROVE GoalRows'
  <2>1. /\ thread[Owner] = "writing" /\ goal' = Updated(change[Owner])
        /\ resumed' \in {resumed, resumed + 1}
        /\ UNCHANGED <<ahead, owed, begun, ran>>
    BY <1>18 DEF OwnerWrites
  <2>2. PICK at \in {"start", "idle"} : Goes(Owner, at, NoChange) BY <1>18 DEF OwnerWrites
  <2>3. DOMAIN change[Owner] \subseteq {"state", "quiet"} BY <1>2, <2>1 DEF MayWrite
  <2>4. RowTypes(goal') BY <1>1, <2>1, <2>3, UpdatedRow
  <2>5. OwnerHeld' = 0 /\ OwnerHeld = 1
    BY <1>2, <2>1, <2>2, HeldMoves DEF OwnerHeld
  <2>6. resumed' + OwnerHeld' <= owed' BY <1>1, <2>1, <2>5
  <2>7. QED BY <1>1, <1>2, <2>1, <2>2, <2>4, <2>6, GoesRows, NoChangeFits
<1>19. ASSUME UNCHANGED goalVars PROVE GoalRows' BY <1>1, <1>5, <1>19 DEF goalVars
<1>20. QED
  BY <1>4, <1>6, <1>7, <1>8, <1>9, <1>10, <1>11, <1>12, <1>13, <1>14, <1>15, <1>16, <1>17, <1>18,
     <1>19
  DEF GoalNext, TurnWrapUp, Starts

\* The types of a goal, from its rounds and rows.
LEMMA GoalTypesOK ==
    ASSUME GoalInv, RoundsInv, GoalRows
    PROVE  GoalTypeOK
<1> USE GoalAssumption
<1>1. begun \in Nat /\ goal.iteration \in Nat /\ ran \in Nat /\ resumed \in Nat
  BY DEF GoalInv, GoalTypes, IsGoal, RoundsInv
<1>2. goal.iteration \in 0..(2 * MaxGoalTurns + 1)
  <2>1. Beginning \in 0..3 /\ goal.iteration + Beginning < Rounds
    BY BeginningSums DEF RoundsInv
  <2>2. Rounds \in Nat /\ Rounds <= 2 * MaxGoalTurns + 2 BY <1>1 DEF Rounds, RoundsInv
  <2>3. QED BY <1>1, <2>1, <2>2
<1>3. goal \in [id : 0..MaxGoals, state : GoalStates, cap : Caps \cup {0},
                iteration : 0..(2 * MaxGoalTurns + 1), quiet : 0..STALL_AFTER,
                report : {"progress", "achieved", "blocked"},
                reportedAt : 0..(2 * MaxGoalTurns + 1)]
  <2>1. goal = [f \in GoalFields |-> goal[f]] BY DEF GoalInv, GoalTypes, IsGoal
  <2>2. RowTypes(goal) BY DEF GoalRows
  <2> HIDE DEF GoalAssumption
  <2>3. QED BY <1>2, <2>1, <2>2 DEF RowTypes, GoalFields
<1>4. ran \in 0..MaxGoalTurns BY <1>1 DEF GoalRows, RoundsInv
<1>5. resumed \in 0..MaxGoalActs BY <1>1 DEF GoalRows, OwnerHeld
<1>6. thread \in [Threads -> {"idle", "running", "done", "kicked", "stopping", "writing",
                              "start", "begin", "beginning", "launch"}]
  BY DEF GoalInv, GoalTypes, Places
<1>7. QED BY <1>3, <1>4, <1>5, <1>6 DEF GoalTypeOK, GoalRows, RoundsInv, Fits

\* No goal, no turn, no round.
LEMMA RoundsInitial ==
    ASSUME GoalInit
    PROVE  RoundsInv /\ GoalRows
<1> USE ThreadSets, GoalAssumption DEF GoalInit
<1>1. ~InTurn BY DEF InTurn
<1>2. Beginning = 1
  <2>1. Begins(Owner) = 1 BY <1>1 DEF Begins, MayBegin
  <2>2. Begins(1) = 0 /\ Begins(2) = 0
    BY <1>1, ThreeThreads DEF Begins, MayBegin, Wrapping, Starting
  <2>3. QED BY <2>1, <2>2 DEF Beginning
<1>3. begun \in 0..MaxGoalTurns /\ Rounds = 2 BY <1>1 DEF Rounds
<1>4. RoundsInv BY <1>2, <1>3 DEF RoundsInv
<1>5. 0 \in 0..STALL_AFTER /\ 0 \in 0..(2 * MaxGoalTurns + 1) /\ 0 \in 0..MaxGoalActs OBVIOUS
<1>6. RowTypes(goal) BY <1>5, NoChangeFits DEF RowTypes, GoalStates
<1>7. OwnerHeld = 0 BY DEF OwnerHeld
<1>8. \A h \in Threads : Fits(change[h]) BY NoChangeFits
<1>9. kinds \in [GoalTurns -> 0..MaxGoals] /\ ended \in [GoalTurns -> Ends \cup {"no"}]
  BY NoChangeFits
<1>10. ahead \in BOOLEAN OBVIOUS
<1>11. owed \in 0..MaxGoalActs
  <2>1. owed = 0 OBVIOUS
  <2>2. QED BY <1>5, <2>1
<1>12. ran <= begun /\ resumed + OwnerHeld <= owed
  <2>1. ran = 0 /\ begun = 0 /\ resumed = 0 /\ owed = 0 OBVIOUS
  <2>2. QED BY <1>7, <2>1
<1>13. GoalRows BY <1>6, <1>8, <1>9, <1>10, <1>11, <1>12 DEF GoalRows
<1>14. QED BY <1>4, <1>13

\* The goal of a conversation keeps its types; in particular its iterations, of which the
\* owner begins one before the first turn and two threads begin one after each turn, are
\* bounded by the turns, though one that finds a turn running is written for nothing.
THEOREM GoalTypesTheorem == GoalSpec => []GoalTypeOK
<1>1. GoalInit => GoalInv /\ RoundsInv /\ GoalRows BY GoalInitial, RoundsInitial
<1>2. GoalInv /\ RoundsInv /\ GoalRows /\ [GoalNext]_goalVars => (GoalInv /\ RoundsInv /\ GoalRows)'
  BY GoalStep, RoundsStep, RowsStep
<1>3. GoalInv /\ RoundsInv /\ GoalRows => GoalTypeOK BY GoalTypesOK
<1>4. QED BY <1>1, <1>2, <1>3, PTL DEF GoalSpec

-----------------------------------------------------------------------------

-----------------------------------------------------------------------------
\* The two services share no state: the steps of both are steps of each, or of the other.
LEMMA ServicesParts == FairSpec => ResumeSpec /\ GoalSpec
<1>1. Init => ResumeInit /\ GoalInit BY DEF Init
<1>2. [Next]_<<part, resumeVars, goalVars>> => [ResumeNext]_resumeVars /\ [GoalNext]_goalVars
  BY DEF Next
<1>3. QED BY <1>1, <1>2, PTL DEF FairSpec, ResumeSpec, GoalSpec

\* Whichever service moves, both keep their types, and each its bounds on what it counts.
THEOREM ServicesTheorem == FairSpec => [](TypeOK /\ GoalTurnsWithinCap)
<1>1. ResumeTypeOK /\ GoalTypeOK => TypeOK BY DEF TypeOK
<1>2. QED
  BY <1>1, ServicesParts, ResumeTypesTheorem, GoalTypesTheorem, GoalTurnsWithinCapTheorem, PTL

=============================================================================
