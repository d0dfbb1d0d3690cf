----------------------------- MODULE ErrandBoard -----------------------------
(***************************************************************************)
(* The board of a team of the Agency (engine_protocol/agency_teams.py,     *)
(* agency/teams.py): the errands the owner leaves to one agent, the tick   *)
(* that starts a turn in the agent's post for one of them at a time, the   *)
(* end of that turn, and the owner, who reviews, cancels, retries, stops   *)
(* and resumes the team and may write in the post himself.                 *)
(*                                                                         *)
(* save_errand writes a whole row from the copy its caller read before:    *)
(* the tick, the end of a turn and the owner's request thread each keep    *)
(* such a copy between a step that reads and one that writes.  A tick      *)
(* asked for while one runs means one more round; here a round may begin   *)
(* at any time.  Agents that leave errands to each other, mentions and     *)
(* waits are left out.                                                     *)
(***************************************************************************)
EXTENDS Naturals

CONSTANTS
    Errands, NoErrand,
    MaxBoardActs    \* bound: other acts of the owner, and restarts

ASSUME BoardAssumption == NoErrand \notin Errands /\ MaxBoardActs \in Nat

\* The row of an errand.  note is errand["halted"]: what a stop found, or the retry
\* to come; why: return_reason, "stopped_by_owner" or another.
Ready == {"pending", "returned"}
Closed == {"delivered", "reviewed", "cancelled"}
Open == Ready \cup {"in_progress", "blocked"}
RowType == [status : {"none"} \cup Closed \cup Open, why : {"stopped_by_owner", "other"},
            note : {"none", "was", "wasReturned", "failure", "budget", "retried"}]
NoRow == [status |-> "none", why |-> "other", note |-> "none"]

VARIABLES
    row,             \* agency_errands
    liveErrand,      \* _live: the errand of the post's turn, NoErrand when there is none
    original,        \* the entry of _live is the one _start put there
    halted,          \* the team is in stopped_teams
    boardRecovered,  \* _recovered
    round,           \* where the thread with the tick lock is, with its locals
    desk,            \* where the owner's request thread is, with its locals
    post,            \* where the thread of the post's turn is, with its locals
    ours,            \* that turn was started by the board
    cut,             \* it was cancelled
    boardActs        \* acts so far

boardVars == <<row, liveErrand, original, halted, boardRecovered, round, desk, post, ours, cut,
               boardActs>>
memory == <<liveErrand, original, boardRecovered>>
turnOfPost == <<post, ours, cut>>

\* A thread at rest; the rows it keeps copies of are those of its errands.
NoCopies == [e \in Errands |-> NoRow]
IdleRound == [at |-> "idle", errands |-> {}, copy |-> NoCopies, result |-> "none"]
IdleDesk == [at |-> "idle", errands |-> {}, copy |-> NoCopies, cuts |-> FALSE]
IdlePost == [at |-> "idle", errand |-> NoErrand, copy |-> NoRow, how |-> "completed"]

BoardTypeOK ==
    /\ row \in [Errands -> RowType]
    /\ liveErrand \in Errands \cup {NoErrand} /\ original \in BOOLEAN
    /\ halted \in BOOLEAN /\ boardRecovered \in BOOLEAN
    /\ round \in [at : {"idle", "recover", "retry", "retrying", "take", "check",
                        "register", "active", "start", "look", "settle"},
                  errands : SUBSET Errands, copy : [Errands -> RowType],
                  result : {"none", "busy", "halted", "refused", "budget", "started"}]
    /\ desk \in [at : {"idle", "review", "cancelling", "cancel", "retry", "owner", "snap", "list",
                       "block", "cut", "blocked", "restore"},
                 errands : SUBSET Errands, copy : [Errands -> RowType], cuts : BOOLEAN]
    /\ post \in [at : {"idle", "run", "finish", "save", "leaving"},
                 errand : Errands \cup {NoErrand}, copy : RowType,
                 how : {"completed", "failed", "cancelled"}]
    /\ ours \in BOOLEAN /\ cut \in BOOLEAN
    /\ boardActs \in 0..MaxBoardActs

BoardInit ==
    /\ row = [e \in Errands |-> NoRow]
    /\ liveErrand = NoErrand /\ original = FALSE /\ halted = FALSE /\ boardRecovered = TRUE
    /\ round = IdleRound /\ desk = IdleDesk /\ post = IdlePost
    /\ ours = FALSE /\ cut = FALSE /\ boardActs = 0

Save(e, r) == row' = [row EXCEPT ![e] = r]
Blocked(r, w, n) == [r EXCEPT !.status = "blocked", !.why = w, !.note = n]
PostBusy == liveErrand # NoErrand \/ post.at # "idle"
Acts == boardActs < MaxBoardActs /\ boardActs' = boardActs + 1

-----------------------------------------------------------------------------
(* The tick. *)

TickKeeps == UNCHANGED <<halted, desk, boardActs>>
TickAt(l) == round' = [round EXCEPT !.at = l]
Reads(thread, l, S) ==
    [thread EXCEPT !.at = l, !.errands = S,
                   !.copy = [e \in Errands |-> IF e \in S THEN row[e] ELSE NoRow]]
Wrote(thread, e) == [thread EXCEPT !.errands = @ \ {e}, !.copy[e] = NoRow]

\* The first round after a restart: the turns of what was in progress are gone.  The
\* board's lock is held throughout.
BoardUnlocked == round.at # "recover"
RecoverErrands ==
    /\ round.at = "idle" /\ ~boardRecovered /\ boardRecovered' = TRUE
    /\ round' = Reads(round, "recover", {e \in Errands : row[e].status = "in_progress"})
    /\ UNCHANGED <<row, liveErrand, original, turnOfPost>> /\ TickKeeps

RecoverSaves(e) ==
    /\ round.at = "recover" /\ e \in round.errands
    /\ Save(e, [round.copy[e] EXCEPT !.status = "pending"])
    /\ round' = Wrote(round, e)
    /\ UNCHANGED <<memory, turnOfPost>> /\ TickKeeps

\* The stops are read once for the round; a stopped team is passed over.
TickBegin ==
    /\ \/ round.at = "idle" /\ boardRecovered
       \/ round.at = "recover" /\ round.errands = {}
    /\ TickAt(IF halted THEN "idle" ELSE "retry")
    /\ UNCHANGED <<row, memory, turnOfPost>> /\ TickKeeps

\* _retry_blocked: those whose time has come.
RetryReads(due) ==
    /\ round.at = "retry"
    /\ \A e \in due : row[e].status = "blocked" /\ row[e].note \in {"failure", "budget"}
    /\ round' = Reads(round, "retrying", due)
    /\ UNCHANGED <<row, memory, turnOfPost>> /\ TickKeeps

RetrySaves(e) ==
    /\ round.at = "retrying" /\ e \in round.errands
    /\ Save(e, [round.copy[e] EXCEPT !.status = "pending",
                                     !.note = IF @ = "failure" THEN "retried" ELSE "none"])
    /\ round' = Wrote(round, e)
    /\ UNCHANGED <<memory, turnOfPost>> /\ TickKeeps

\* An errand that is ready, for a free post.
Choose(e) ==
    /\ round.at = "retrying" /\ round.errands = {} /\ ~PostBusy /\ row[e].status \in Ready
    /\ round' = Reads(round, "take", {e})
    /\ UNCHANGED <<row, memory, turnOfPost>> /\ TickKeeps

ChooseNone ==
    /\ round.at = "retrying" /\ round.errands = {}
    /\ PostBusy \/ \A e \in Errands : row[e].status \notin Ready
    /\ round' = IdleRound
    /\ UNCHANGED <<row, memory, turnOfPost>> /\ TickKeeps

\* _start_errand marks the errand before it starts the turn.
Take(e) ==
    /\ round.at = "take" /\ e \in round.errands
    /\ IF PostBusy
       THEN round' = IdleRound /\ UNCHANGED row
       ELSE TickAt("check") /\ Save(e, [round.copy[e] EXCEPT !.status = "in_progress"])
    /\ UNCHANGED <<memory, turnOfPost>> /\ TickKeeps

\* _start: the stop; _live; the turn manager; the turn; the stop again.
Answers(why) == round' = [round EXCEPT !.at = "settle", !.result = why]
Unregister ==
    /\ liveErrand' = IF original THEN NoErrand ELSE liveErrand
    /\ original' = FALSE

StartLooks ==
    /\ round.at = "check"
    /\ IF halted THEN Answers("halted") ELSE TickAt("register")
    /\ UNCHANGED <<row, memory, turnOfPost>> /\ TickKeeps

StartRegisters(e) ==
    /\ round.at = "register" /\ e \in round.errands
    /\ IF liveErrand # NoErrand
       THEN Answers("busy") /\ UNCHANGED <<liveErrand, original>>
       ELSE TickAt("active") /\ liveErrand' = e /\ original' = TRUE
    /\ UNCHANGED <<row, boardRecovered, turnOfPost>> /\ TickKeeps

StartAsks ==
    /\ round.at = "active"
    /\ IF post.at # "idle"
       THEN Answers("busy") /\ Unregister
       ELSE TickAt("start") /\ UNCHANGED <<liveErrand, original>>
    /\ UNCHANGED <<row, boardRecovered, turnOfPost>> /\ TickKeeps

\* start_turn raises: a turn runs by now, the post is archived, or a budget is spent.
StartRefused(why) ==
    /\ round.at = "start"
    /\ Answers(why) /\ Unregister
    /\ UNCHANGED <<row, boardRecovered, turnOfPost>> /\ TickKeeps

StartBegins ==
    /\ round.at = "start" /\ post.at = "idle"
    /\ TickAt("look") /\ post' = [post EXCEPT !.at = "run"] /\ ours' = TRUE
    /\ UNCHANGED <<row, memory, cut>> /\ TickKeeps

\* Mutant: the stop is looked at only before the start.
StartLooksOnce ==
    /\ round.at = "look"
    /\ Answers("started") /\ original' = FALSE
    /\ UNCHANGED <<row, liveErrand, boardRecovered, turnOfPost>> /\ TickKeeps

\* The turn's id goes into _live, in a new entry; a stop that came meanwhile cuts it.
StartLooksAgain ==
    /\ round.at = "look"
    /\ Answers("started") /\ original' = FALSE
    /\ cut' = (cut \/ (halted /\ ours))
    /\ UNCHANGED <<row, liveErrand, boardRecovered, post, ours>> /\ TickKeeps

\* Mutant: an errand whose post was busy after all is not put back.
SettleBusyTaken(e) ==
    /\ round.at = "settle" /\ e \in round.errands
    /\ row' = [row EXCEPT ![e] =
         CASE round.result \in {"started", "busy"} -> @
           [] round.result = "budget" -> Blocked(round.copy[e], "other", "budget")
           [] round.result = "refused" -> Blocked(round.copy[e], "other", round.copy[e].note)
           [] round.result = "halted" ->
                Blocked(round.copy[e], "stopped_by_owner", round.copy[e].note)]
    /\ round' = IdleRound
    /\ UNCHANGED <<memory, turnOfPost>> /\ TickKeeps

\* What becomes of the errand.
SettleErrand(e) ==
    /\ round.at = "settle" /\ e \in round.errands
    /\ row' = [row EXCEPT ![e] =
         CASE round.result = "started" -> @
           [] round.result = "busy" -> round.copy[e]
           [] round.result = "budget" -> Blocked(round.copy[e], "other", "budget")
           [] round.result = "refused" -> Blocked(round.copy[e], "other", round.copy[e].note)
           [] round.result = "halted" ->
                Blocked(round.copy[e], "stopped_by_owner", round.copy[e].note)]
    /\ round' = IdleRound
    /\ UNCHANGED <<memory, turnOfPost>> /\ TickKeeps

-----------------------------------------------------------------------------
(* The turn of the post. *)

TurnKeeps == UNCHANGED <<halted, boardRecovered, round, desk, boardActs>>

OwnerWritesInPost ==
    /\ Acts /\ post.at = "idle" /\ post' = [post EXCEPT !.at = "run"]
    /\ UNCHANGED <<row, memory, halted, round, desk, ours, cut>>

\* The terminal event (_observe) takes what _live says of the session, whoever
\* started the turn.
TurnEnds(how) ==
    /\ post.at = "run" /\ BoardUnlocked
    /\ liveErrand' = NoErrand /\ original' = FALSE
    /\ post' = IF liveErrand = NoErrand THEN [IdlePost EXCEPT !.at = "leaving"]
               ELSE [post EXCEPT !.at = "finish", !.errand = liveErrand, !.how = how]
    /\ UNCHANGED <<row, ours, cut>> /\ TurnKeeps

\* _finish_errand reads the errand, and leaves one that is closed or blocked alone ...
FinishReads ==
    /\ post.at = "finish"
    /\ post' = IF row[post.errand].status \in Ready \cup {"in_progress"}
               THEN [post EXCEPT !.at = "save", !.copy = row[post.errand]]
               ELSE [IdlePost EXCEPT !.at = "leaving"]
    /\ UNCHANGED <<row, liveErrand, original, ours, cut>> /\ TurnKeeps

\* ... delivers it, or blocks it; one that failed is tried once more.
FinishSaves ==
    /\ post.at = "save"
    /\ LET again == post.how = "failed" /\ post.copy.note # "retried"
       IN Save(post.errand, IF post.how = "completed" THEN [post.copy EXCEPT !.status = "delivered"]
                            ELSE Blocked(post.copy, "other", IF again THEN "failure" ELSE "none"))
    /\ post' = [IdlePost EXCEPT !.at = "leaving"]
    /\ UNCHANGED <<liveErrand, original, ours, cut>> /\ TurnKeeps

TurnDone ==
    /\ post.at = "leaving" /\ post' = IdlePost /\ ours' = FALSE /\ cut' = FALSE
    /\ UNCHANGED <<row, liveErrand, original>> /\ TurnKeeps

-----------------------------------------------------------------------------
(* The owner's requests, served one at a time. *)

DeskKeeps == UNCHANGED <<memory, round, post, ours>>
DeskAt(l) == desk' = [desk EXCEPT !.at = l]
Holds(l, S) == desk' = Reads(desk, l, S)

\* errand_create: a stopped team is resumed first (_owner_acts).
CreateErrand(e) ==
    /\ desk.at = "idle" /\ ~halted /\ row[e].status = "none"
    /\ Save(e, [NoRow EXCEPT !.status = "pending"])
    /\ UNCHANGED <<halted, desk, cut, boardActs>> /\ DeskKeeps

\* errand_review, errand_cancel and errand_retry look at the errand first.
Looks(what, e) ==
    /\ desk.at = "idle" /\ Acts
    /\ row[e].status \in CASE what = "review" -> {"delivered"}
                           [] what = "cancel" -> Open
                           [] what = "retry" -> {"blocked"}
    /\ Holds(what, {e})
    /\ UNCHANGED <<row, halted, cut>> /\ DeskKeeps

Review(e) ==
    /\ desk.at = "review" /\ e \in desk.errands
    /\ \/ Save(e, [desk.copy[e] EXCEPT !.status = "reviewed"])
       \/ Save(e, [desk.copy[e] EXCEPT !.status = "returned", !.why = "other"])
    /\ desk' = IdleDesk
    /\ UNCHANGED <<halted, cut, boardActs>> /\ DeskKeeps

\* teams.cancel reads the errand again, and leaves a closed one alone; that its turn
\* is to be cut was decided before.
CancelReads(e) ==
    /\ desk.at = "cancel" /\ e \in desk.errands
    /\ desk' = [desk EXCEPT !.at = "cancelling", !.copy[e] = row[e],
                            !.cuts = desk.copy[e].status = "in_progress"]
    /\ UNCHANGED <<row, halted, cut, boardActs>> /\ DeskKeeps

CancelSaves(e) ==
    /\ desk.at = "cancelling" /\ e \in desk.errands
    /\ IF desk.copy[e].status \in Open THEN Save(e, [desk.copy[e] EXCEPT !.status = "cancelled"])
       ELSE UNCHANGED row
    /\ desk' = IF desk.cuts /\ liveErrand = e THEN [IdleDesk EXCEPT !.at = "cut", !.cuts = TRUE]
               ELSE IdleDesk
    /\ UNCHANGED <<halted, cut, boardActs>> /\ DeskKeeps

Retry(e) ==
    /\ desk.at = "retry" /\ e \in desk.errands
    /\ Save(e, [desk.copy[e] EXCEPT !.status = "pending"])
    /\ desk' = [IdleDesk EXCEPT !.at = "owner"]
    /\ UNCHANGED <<halted, cut, boardActs>> /\ DeskKeeps

\* stop_team marks the team, then _halt_teams: what runs is noted, every open errand
\* is blocked, and the turns noted are cut last.
Stop ==
    /\ desk.at = "idle" /\ Acts
    /\ halted' = TRUE /\ DeskAt("snap")
    /\ UNCHANGED <<row, cut>> /\ DeskKeeps

StopSnaps ==
    /\ desk.at = "snap" /\ BoardUnlocked
    /\ desk' = [desk EXCEPT !.at = "list", !.cuts = liveErrand # NoErrand]
    /\ UNCHANGED <<row, halted, cut, boardActs>> /\ DeskKeeps

StopLists ==
    /\ desk.at = "list"
    /\ Holds("block", {e \in Errands : row[e].status \in Ready \cup {"in_progress"}})
    /\ UNCHANGED <<row, halted, cut, boardActs>> /\ DeskKeeps

StopBlocks(e) ==
    /\ desk.at = "block" /\ e \in desk.errands
    /\ Save(e, Blocked(desk.copy[e], "stopped_by_owner",
                       IF desk.copy[e].status = "returned" THEN "wasReturned" ELSE "was"))
    /\ desk' = Wrote(desk, e)
    /\ UNCHANGED <<halted, cut, boardActs>> /\ DeskKeeps

StopBlocked ==
    /\ desk.at = "block" /\ desk.errands = {} /\ DeskAt("cut")
    /\ UNCHANGED <<row, halted, cut, boardActs>> /\ DeskKeeps

Cuts ==
    /\ desk.at = "cut"
    /\ cut' = (cut \/ (desk.cuts /\ post.at \in {"run", "finish", "save"})) /\ desk' = IdleDesk
    /\ UNCHANGED <<row, halted, boardActs>> /\ DeskKeeps

\* resume_team, asked for or after a retry in a stopped team (_owner_acts); what the
\* stop blocked goes back as it was (_restore_teams).
Resume ==
    /\ halted
    /\ \/ desk.at = "idle" /\ Acts
       \/ desk.at = "owner" /\ boardActs' = boardActs
    /\ halted' = FALSE /\ DeskAt("blocked")
    /\ UNCHANGED <<row, cut>> /\ DeskKeeps

NotStopped ==
    /\ desk.at = "owner" /\ ~halted /\ desk' = IdleDesk
    /\ UNCHANGED <<row, halted, cut, boardActs>> /\ DeskKeeps

RestoreLists ==
    /\ desk.at = "blocked" /\ Holds("restore", {e \in Errands : row[e].status = "blocked"})
    /\ UNCHANGED <<row, halted, cut, boardActs>> /\ DeskKeeps

Restore(e) ==
    /\ desk.at = "restore" /\ e \in desk.errands
    /\ LET was == desk.copy[e]
       IN IF was.why = "stopped_by_owner" /\ was.note # "none"
          THEN Save(e, [status |-> IF was.note = "wasReturned" THEN "returned" ELSE "pending",
                        why |-> "other", note |-> "none"])
          ELSE UNCHANGED row
    /\ desk' = Wrote(desk, e)
    /\ UNCHANGED <<halted, cut, boardActs>> /\ DeskKeeps

Restored ==
    /\ desk.at = "restore" /\ desk.errands = {} /\ desk' = IdleDesk
    /\ UNCHANGED <<row, halted, cut, boardActs>> /\ DeskKeeps

\* The Engine dies and is started again: the rows and the stop are what is left.
BoardRestarts ==
    /\ Acts /\ boardRecovered' = FALSE
    /\ liveErrand' = NoErrand /\ original' = FALSE
    /\ round' = IdleRound /\ desk' = IdleDesk /\ post' = IdlePost
    /\ ours' = FALSE /\ cut' = FALSE
    /\ UNCHANGED <<row, halted>>

BoardTick ==
    \/ RecoverErrands \/ TickBegin \/ ChooseNone \/ StartLooks \/ StartAsks \/ StartBegins
    \/ StartLooksAgain
    \/ \E due \in SUBSET Errands : RetryReads(due)
    \/ \E why \in {"refused", "budget"} : StartRefused(why)
    \/ \E e \in Errands :
          \/ RecoverSaves(e) \/ RetrySaves(e) \/ Choose(e) \/ Take(e) \/ StartRegisters(e)
          \/ SettleErrand(e)

PostTurn ==
    \/ FinishReads \/ FinishSaves \/ TurnDone
    \/ \E how \in {"completed", "failed", "cancelled"} : TurnEnds(how)

Desk ==
    \/ Stop \/ StopSnaps \/ StopLists \/ StopBlocked \/ Cuts \/ Resume \/ NotStopped
    \/ RestoreLists \/ Restored
    \/ \E e \in Errands :
          \/ CreateErrand(e) \/ Review(e) \/ CancelReads(e) \/ CancelSaves(e) \/ Retry(e)
          \/ StopBlocks(e) \/ Restore(e)
          \/ \E what \in {"review", "cancel", "retry"} : Looks(what, e)

BoardNext == BoardTick \/ PostTurn \/ OwnerWritesInPost \/ Desk \/ BoardRestarts
BoardSpec == BoardInit /\ [][BoardNext]_boardVars

-----------------------------------------------------------------------------
(* Properties. *)

\* An errand in progress is in somebody's hands, in spite of stale copies, stops and
\* restarts: the turn of the post or its end, the tick, or a stop that will block it.
ErrandsInProgressAreCarried ==
    boardRecovered => \A e \in Errands : row[e].status = "in_progress" =>
        \/ liveErrand = e
        \/ post.at \in {"finish", "save"} /\ post.errand = e
        \/ e \in round.errands /\ round.at \notin {"retrying", "take"}
        \/ desk.at \in {"snap", "list"}
        \/ desk.at = "block" /\ e \in desk.errands

\* When a stop has done its work no turn for an errand goes on uncut, also one that
\* was being started meanwhile: the second look of _start finds it.
StoppedTeamsRunNothing ==
    halted /\ desk.at \notin {"snap", "list", "block", "cut"} =>
        ~ours \/ liveErrand = NoErrand \/ cut \/ round.at = "look"

=============================================================================
