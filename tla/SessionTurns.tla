---------------------------- MODULE SessionTurns ----------------------------
(***************************************************************************)
(* What the turn manager (engine_protocol/turns.py) promises for a         *)
(* session, without its queue, its lock or its threads: turns run one      *)
(* after the other, and every message the Engine took in has one end, in   *)
(* which no later step can touch it again.                                 *)
(***************************************************************************)
EXTENDS Naturals

CONSTANT Messages

VARIABLES
    fate,    \* [Messages -> what became of it]
    into,    \* [Messages -> the running turn it was sent into, 0 when none]
    turns,   \* turns started so far
    busy     \* the last of them still runs

sessionVars == <<fate, into, turns, busy>>

Waiting == {m \in Messages : fate[m] = "pending"}

\* The messages of S meet their end.
Become(S, end) == fate' = [m \in Messages |-> IF m \in S THEN end ELSE fate[m]]

SessionInit ==
    /\ fate = [m \in Messages |-> "unsent"]
    /\ into = [m \in Messages |-> 0]
    /\ turns = 0 /\ busy = FALSE

\* A call brings a message: it is kept, refused, or (a child's report nobody
\* reads) dropped.
Receive(m) ==
    /\ fate[m] = "unsent"
    /\ \E f \in {"pending", "refused", "unreported"} : Become({m}, f)
    /\ into' = into
    /\ UNCHANGED <<turns, busy>>

\* A call sends a message into the turn that runs.
ReceiveInto(m) ==
    /\ fate[m] = "unsent" /\ busy
    /\ Become({m}, "pending")
    /\ into' = [into EXCEPT ![m] = turns]
    /\ UNCHANGED <<turns, busy>>

\* A turn starts, with some of the messages that wait or with none.
StartTurn ==
    /\ ~busy /\ busy' = TRUE
    /\ turns' = turns + 1
    /\ \E S \in SUBSET Waiting : Become(S, "started")
    /\ into' = into

\* The agent loop takes what was sent into its own turn.
Take ==
    /\ busy
    /\ Become({m \in Waiting : into[m] = turns}, "taken")
    /\ UNCHANGED <<into, turns, busy>>

\* The owner withdraws a message the running turn has not read.
Withdraw(m) ==
    /\ busy /\ m \in Waiting /\ into[m] = turns
    /\ Become({m}, "withdrawn")
    /\ UNCHANGED <<into, turns, busy>>

EndTurn ==
    /\ busy /\ busy' = FALSE
    /\ UNCHANGED <<fate, into, turns>>

\* Waiting messages are refused, cleared from the queue, or were sent into a turn
\* that is over: the owner gets them back, a report is dropped.
GiveBack ==
    /\ \E S \in SUBSET Waiting :
        \/ \E end \in {"refused", "cleared"} : Become(S, end)
        \/ /\ \A m \in S : into[m] # 0 /\ (into[m] = turns => ~busy)
           /\ \E R \in SUBSET S :
                fate' = [m \in Messages |-> IF m \in R THEN "unreported"
                                            ELSE IF m \in S THEN "returned" ELSE fate[m]]
    /\ UNCHANGED <<into, turns, busy>>

SessionNext ==
    \/ \E m \in Messages : Receive(m) \/ ReceiveInto(m) \/ Withdraw(m)
    \/ StartTurn \/ Take \/ EndTurn \/ GiveBack

SessionSpec == SessionInit /\ [][SessionNext]_sessionVars

=============================================================================
