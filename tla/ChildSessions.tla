---------------------------- MODULE ChildSessions ----------------------------
(***************************************************************************)
(* A mother conversation, the child sessions it opened and their reports   *)
(* (engine_protocol/children.py, children/store.py).  A child's worker     *)
(* saves its report when its turn ends and wakes the mother; a free mother *)
(* starts a turn, a busy one gets the report steered into the turn she     *)
(* runs, and the end of each of her turns looks for reports again.         *)
(*                                                                         *)
(* Every turn has a number and a worker thread, which goes on after the    *)
(* turn; the number of a worker that ended is used again.  The row of a    *)
(* child holds its last report, and a copy of it that a worker or the      *)
(* mother's turn keeps may be older by the time it is used.  Completed,    *)
(* failed and cancelled turns of a child report alike.                     *)
(***************************************************************************)
EXTENDS Naturals, FiniteSets

CONSTANTS
    Mother,         \* the conversation that opened the children
    Children,
    Opened,         \* the children of an origin in OPENED_BY_RINARI
    ACTIVE_LIMIT,   \* children working at once when one is created, store.py:22
    MaxAlive,       \* bound: turns and workers alive at once
    MaxChildActs    \* bound: turns and messages the owner or the mother asks for

ASSUME ChildrenAssumption ==
    /\ Mother \notin Children /\ Opened \subseteq Children
    /\ ACTIVE_LIMIT \in Nat /\ MaxAlive \in Nat /\ MaxChildActs \in Nat

TurnIds == 1..MaxAlive
Conversations == Children \cup {Mother}

VARIABLES
    of,         \* [TurnIds -> the session of the turn]
    by,         \* [TurnIds -> "owner", "parent" (the mother or the brief) or "report"]
    at,         \* [TurnIds -> where the turn or its worker is, "none" when over]
    snap,       \* [TurnIds -> the reports the worker read: <<child, "last" or "older">>]
    card,       \* [Children -> session_children.state: "none", "working", "ended"]
    report,     \* [Children -> the turn whose report the row holds, 0 when none]
    ownerRow,   \* the children whose report says by_owner
    reported,   \* the children whose row says the mother saw the report
    flying,     \* _in_flight[Mother]
    letters,    \* the reports steered into the mother's turn
    mail,       \* the children with an unread message of the mother
    marking,    \* the children message() is about to mark as working
    shown,      \* the children whose last report the mother's model was given
    stopped,    \* the mother's last turn was cancelled
    acts        \* calls so far

childVars == <<of, by, at, snap, card, report, ownerRow, reported, flying, letters, mail,
               marking, shown, stopped, acts>>

\* What changes in the rows, in the mother's turn, and in what is asked.
cardVars == <<card, report, ownerRow, reported>>
motherVars == <<flying, letters, shown, stopped>>
askVars == <<mail, marking, acts>>

\* The turns of s that are not done: _busy.
Running(s) == {t \in TurnIds : of[t] = s /\ at[t] \in {"prep", "mark", "run", "closing"}}
Busies(s) == Running(s) # {}

ChildrenInit ==
    /\ of = [t \in TurnIds |-> Mother] /\ by = [t \in TurnIds |-> "owner"]
    /\ at = [t \in TurnIds |-> "none"] /\ snap = [t \in TurnIds |-> {}]
    /\ card = [c \in Children |-> "none"] /\ report = [c \in Children |-> 0]
    /\ ownerRow = {} /\ reported = Children
    /\ flying = {} /\ letters = {} /\ mail = {} /\ marking = {} /\ shown = {}
    /\ stopped = FALSE /\ acts = 0

\* The worker of t goes on at l with S in its local variables.
Keeps(t, l, S) ==
    /\ at' = [at EXCEPT ![t] = l] /\ snap' = [snap EXCEPT ![t] = S]
    /\ UNCHANGED <<of, by>>

GoesOn(t, l) == Keeps(t, l, snap[t])

\* The worker of t ends.
Ends(t) ==
    /\ at' = [at EXCEPT ![t] = "none"] /\ snap' = [snap EXCEPT ![t] = {}]
    /\ of' = [of EXCEPT ![t] = Mother] /\ by' = [by EXCEPT ![t] = "owner"]

-----------------------------------------------------------------------------
(***************************************************************************)
(* Turns begin.                                                            *)
(***************************************************************************)

\* The number of a new turn.
NextId == LET free == {n \in TurnIds : at[n] = "none"}
          IN  {n \in free : \A k \in free : n <= k}

\* start_turn registers a turn of a free session s.  before_turn marks a child's
\* card as working before the turn's thread exists; the mother's turn first
\* assembles its context.
NewTurn(s, b) ==
    /\ ~Busies(s)
    /\ \E n \in NextId :
        /\ of' = [of EXCEPT ![n] = s] /\ by' = [by EXCEPT ![n] = b]
        /\ at' = [at EXCEPT ![n] = IF s = Mother THEN "prep" ELSE "run"]
    /\ card' = IF s = Mother THEN card ELSE [card EXCEPT ![s] = "working"]
    /\ snap' = snap

\* Within the bound one more call comes in.
Asked == acts < MaxChildActs /\ acts' = acts + 1

\* The owner writes to the mother, or in a child.
OwnerStarts(s) ==
    /\ Asked
    /\ s # Mother => card[s] # "none"
    /\ NewTurn(s, "owner")
    /\ UNCHANGED <<report, ownerRow, reported, motherVars, mail, marking>>

\* create: the depth of the mother never reaches its limit here; the children at
\* work are counted under the lock, and the brief starts the new session's turn.
Create(c) ==
    /\ Asked
    /\ card[c] = "none"
    /\ Cardinality({d \in Children : card[d] = "working"}) < ACTIVE_LIMIT
    /\ NewTurn(c, "parent")
    /\ UNCHANGED <<report, ownerRow, reported, motherVars, mail, marking>>

\* message, called by the mother's turn: steered into a busy child, a turn of its
\* own in a free one; afterwards the row is marked as working.
Message(c) ==
    /\ Asked
    /\ \E t \in Running(Mother) : at[t] = "run"
    /\ card[c] # "none" /\ c \notin marking
    /\ marking' = marking \cup {c}
    /\ IF Busies(c)
         THEN /\ mail' = mail \cup {c}
              /\ UNCHANGED <<of, by, at, snap, card>>
         ELSE /\ NewTurn(c, "parent")
              /\ mail' = mail
    /\ UNCHANGED <<report, ownerRow, reported, motherVars>>

MessageMarks(c) ==
    /\ c \in marking
    /\ marking' = marking \ {c}
    /\ card' = [card EXCEPT ![c] = "working"]
    /\ UNCHANGED <<of, by, at, snap, report, ownerRow, reported, motherVars, mail, acts>>

-----------------------------------------------------------------------------
(***************************************************************************)
(* A child's turn ends.                                                    *)
(***************************************************************************)

\* The child's loop reads what the mother sent, or the turn ends: unread mail is
\* queued after a completed turn and given back otherwise (_settle_steering).
ReadMail(t) ==
    /\ of[t] \in mail /\ at[t] = "run"
    /\ mail' = mail \ {of[t]}
    /\ UNCHANGED <<of, by, at, snap, cardVars, motherVars, marking, acts>>

EndChild(t) ==
    /\ of[t] \in Children /\ at[t] = "run"
    /\ mail' \in {mail, mail \ {of[t]}}
    /\ GoesOn(t, "done")
    /\ UNCHANGED <<cardVars, motherVars, marking, acts>>

\* The copies in S of child c's report are no longer the last one.
Aged(S, c) == {<<p[1], IF p[1] = c THEN "older" ELSE p[2]>> : p \in S}

\* report_turn: the row gets the report, whatever turn runs by now.
ReportTurn(t) ==
    /\ at[t] = "done"
    /\ card' = [card EXCEPT ![of[t]] = "ended"]
    /\ report' = [report EXCEPT ![of[t]] = t]
    /\ ownerRow' = IF by[t] = "owner" THEN ownerRow \cup {of[t]} ELSE ownerRow \ {of[t]}
    /\ reported' = reported \ {of[t]}
    /\ shown' = shown \ {of[t]}
    /\ at' = [at EXCEPT ![t] = "kick"]
    /\ snap' = [u \in TurnIds |-> Aged(snap[u], of[t])]
    /\ letters' = Aged(letters, of[t])
    /\ UNCHANGED <<of, by, flying, stopped, askVars>>

\* _start_next_queued: a message of the mother that waits gets a turn.
KickChild(t) ==
    /\ at[t] = "kick"
    /\ of[t] \in mail /\ NewTurn(of[t], "parent")
    /\ mail' = mail \ {of[t]}
    /\ UNCHANGED <<report, ownerRow, reported, motherVars, marking, acts>>

\* after_turn of a child: a child that goes on reports at the end; a turn the owner
\* wrote waits until the child has been quiet for a while.
AfterTurn(t) ==
    /\ at[t] = "kick"
    /\ of[t] \in mail => Busies(of[t])
    /\ IF Busies(of[t]) THEN Ends(t)
       ELSE GoesOn(t, IF by[t] = "owner" THEN "timer" ELSE "pending")
    /\ UNCHANGED <<cardVars, motherVars, askVars>>

\* _wake_when_quiet: the timer fires.
QuietCheck(t) ==
    /\ at[t] = "timer"
    /\ IF of[t] \in reported \/ Busies(of[t]) \/ report[of[t]] # t
         THEN Ends(t) ELSE GoesOn(t, "pending")
    /\ UNCHANGED <<cardVars, motherVars, askVars>>

-----------------------------------------------------------------------------
(***************************************************************************)
(* wake, run by the worker of t: the turn of a child, or of the mother.    *)
(***************************************************************************)

\* The reports that may wake the mother; the quiet check includes the owner's.
Waking(t) ==
    {<<c, "last">> : c \in {d \in Opened \ reported :
        d \notin ownerRow \/ (of[t] # Mother /\ by[t] = "owner")}}

\* Not while a child Rinari opened is still working.
WakePending(t) ==
    /\ at[t] = "pending"
    /\ IF Waking(t) = {} \/ \E c \in Opened : card[c] = "working"
         THEN Ends(t) ELSE Keeps(t, "busy", Waking(t))
    /\ UNCHANGED <<cardVars, motherVars, askVars>>

WakeBusy(t) ==
    /\ at[t] = "busy"
    /\ IF Busies(Mother) THEN GoesOn(t, "fly") ELSE Keeps(t, "start", {})
    /\ UNCHANGED <<cardVars, motherVars, askVars>>

\* start_turn; TURN_RUNNING ends the wake.
WakeStart(t) ==
    /\ at[t] = "start"
    /\ IF Busies(Mother)
         THEN Ends(t) /\ card' = card
         ELSE \E n \in NextId :
                /\ at' = [at EXCEPT ![n] = "prep", ![t] = "none"]
                /\ of' = [of EXCEPT ![n] = Mother, ![t] = Mother]
                /\ by' = [by EXCEPT ![n] = "report", ![t] = "owner"]
                /\ UNCHANGED <<snap, card>>
    /\ UNCHANGED <<report, ownerRow, reported, motherVars, askVars>>

\* _steer_reports, under its lock: a child already on its way is left out.
WakeFly(t) ==
    LET fresh == {p \in snap[t] : p[1] \notin flying} IN
    /\ at[t] = "fly"
    /\ flying' = flying \cup {p[1] : p \in fresh}
    /\ IF fresh = {} THEN Ends(t) ELSE Keeps(t, "steer", fresh)
    /\ UNCHANGED <<cardVars, letters, shown, stopped, askVars>>

\* steer with queue_if_idle false: into her running turn while it is open.
WakeSteer(t) ==
    /\ at[t] = "steer"
    /\ IF \E u \in Running(Mother) : at[u] # "closing"
         THEN letters' = letters \cup snap[t] /\ Ends(t)
         ELSE letters' = letters /\ GoesOn(t, "forget")
    /\ UNCHANGED <<cardVars, flying, shown, stopped, askVars>>

\* _forget_in_flight.
WakeForget(t) ==
    /\ at[t] = "forget"
    /\ flying' = flying \ {p[1] : p \in snap[t]}
    /\ Ends(t)
    /\ UNCHANGED <<cardVars, letters, shown, stopped, askVars>>

WakeStep(t) ==
    \/ WakePending(t) \/ WakeBusy(t) \/ WakeStart(t)
    \/ WakeFly(t) \/ WakeSteer(t) \/ WakeForget(t)

-----------------------------------------------------------------------------
(***************************************************************************)
(* The mother's turn.                                                      *)
(***************************************************************************)

\* _children_text: the rows are read and rendered (a child at work only by its
\* name), then the children whose rows were not marked are marked as seen.
TextReads(t) ==
    /\ at[t] = "prep"
    /\ shown' = shown \cup {c \in Children \ reported : card[c] # "working"}
    /\ Keeps(t, "mark", (Children \ reported) \X {"last"})
    /\ UNCHANGED <<cardVars, flying, letters, stopped, askVars>>

TextMarks(t) ==
    /\ at[t] = "mark"
    /\ reported' = reported \cup {p[1] : p \in snap[t]}
    /\ Keeps(t, "run", {})
    /\ UNCHANGED <<card, report, ownerRow, motherVars, askVars>>

\* The loop takes the steered reports; steer.applied calls reports_read, which
\* marks the rows of these children and forgets that they are on their way.
ReportsRead(t) ==
    /\ of[t] = Mother /\ at[t] = "run" /\ letters # {}
    /\ shown' = shown \cup {c \in Children : <<c, "last">> \in letters}
    /\ reported' = reported \cup {p[1] : p \in letters}
    /\ flying' = flying \ {p[1] : p \in letters}
    /\ letters' = {}
    /\ UNCHANGED <<of, by, at, snap, card, report, ownerRow, stopped, askVars>>

\* The turn ends, by Stop or otherwise, and _close_steering drops unread reports;
\* then done is set.
EndMother(t) ==
    /\ of[t] = Mother /\ at[t] = "run"
    /\ stopped' \in BOOLEAN
    /\ letters' = {}
    /\ GoesOn(t, "closing")
    /\ UNCHANGED <<cardVars, flying, shown, askVars>>

MotherDone(t) ==
    /\ at[t] = "closing"
    /\ GoesOn(t, IF stopped THEN "popstop" ELSE "pop")
    /\ UNCHANGED <<cardVars, motherVars, askVars>>

\* Mutant: the end of a turn that was not stopped does not look for reports.
MotherAfterTurnQuiet(t) ==
    /\ at[t] \in {"pop", "popstop"}
    /\ flying' = {}
    /\ Ends(t)
    /\ UNCHANGED <<cardVars, letters, shown, stopped, askVars>>

\* after_turn of the mother: what was not read is no longer on its way, and unless
\* the owner pressed Stop she looks for reports.
MotherAfterTurn(t) ==
    /\ at[t] \in {"pop", "popstop"}
    /\ flying' = {}
    /\ IF at[t] = "popstop" THEN Ends(t) ELSE GoesOn(t, "pending")
    /\ UNCHANGED <<cardVars, letters, shown, stopped, askVars>>

-----------------------------------------------------------------------------
WorkerStep(t) ==
    \/ EndChild(t) \/ ReportTurn(t) \/ KickChild(t) \/ AfterTurn(t)
    \/ QuietCheck(t) \/ WakeStep(t) \/ TextReads(t) \/ TextMarks(t)
    \/ EndMother(t) \/ MotherDone(t) \/ MotherAfterTurn(t)

ChildrenNext ==
    \/ \E s \in Conversations : OwnerStarts(s)
    \/ \E c \in Children : Create(c) \/ Message(c) \/ MessageMarks(c)
    \/ \E t \in TurnIds : WorkerStep(t) \/ ReadMail(t) \/ ReportsRead(t)

ChildrenSpec == ChildrenInit /\ [][ChildrenNext]_childVars

-----------------------------------------------------------------------------
ChildrenTypeOK ==
    /\ of \in [TurnIds -> Conversations] /\ by \in [TurnIds -> {"owner", "parent", "report"}]
    /\ at \in [TurnIds -> {"none", "run", "done", "kick", "timer", "pending", "busy", "start",
                       "fly", "steer", "forget", "prep", "mark", "closing",
                       "pop", "popstop"}]
    /\ snap \in [TurnIds -> SUBSET (Children \X {"last", "older"})]
    /\ card \in [Children -> {"none", "working", "ended"}]
    /\ report \in [Children -> 0..MaxAlive]
    /\ ownerRow \subseteq Children /\ reported \subseteq Children
    /\ flying \subseteq Children /\ letters \subseteq Children \X {"last", "older"}
    /\ mail \subseteq Children /\ marking \subseteq Children /\ shown \subseteq Children
    /\ stopped \in BOOLEAN /\ acts \in 0..MaxChildActs

\* A report that waits for the mother, of a turn the owner did not write.
Unseen(c) == c \notin reported \cup ownerRow

\* The worker of t will start the mother's turn or find her at one, or is the end
\* of her turn, which looks for reports, or is a child's turn that has to report;
\* the quiet check counts while it will not give up.
OnItsWay(t) ==
    \/ at[t] \in {"pending", "busy", "start", "pop", "done", "kick"}
    \/ at[t] = "timer" /\ report[of[t]] = t /\ of[t] \notin reported

\* No wake-up is lost between the ends of two children, a turn of the mother that
\* ends and one that starts: while a report of a child Rinari opened waits, the
\* mother or a child Rinari opened works or shows as working, a worker is on its
\* way to her, or the owner stopped her last turn (wake, _steer_reports, after_turn).
NoWakeIsLost ==
    \A c \in Opened : Unseen(c) =>
        \/ stopped \/ Busies(Mother)
        \/ \E d \in Opened : card[d] = "working" \/ Busies(d)
        \/ \E t \in TurnIds : OnItsWay(t)

\* "The mother read these reports inside her turn" (reports_read), "rendering them
\* is how the mother sees a report: it is marked seen" (_children_text): the report
\* of a child that rests and whose row says it was seen was given to her model.
MarkedReportsWereShown ==
    \A c \in Children :
        card[c] = "ended" /\ c \in reported => c \in shown

=============================================================================
