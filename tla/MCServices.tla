------------------------------ MODULE MCServices ------------------------------
(***************************************************************************)
(* The services that start turns by themselves, for TLC: the resume after  *)
(* a provider limit and the goal of a conversation.  They share no state   *)
(* in the model, so each is explored with the other at rest: part names    *)
(* the one that moves.                                                     *)
(***************************************************************************)
EXTENDS ResumeRunner, GoalRunner

VARIABLE part

Init ==
    /\ part \in {"resume", "goal"}
    /\ ResumeInit /\ GoalInit
    /\ part # "resume" => always

Next ==
    /\ UNCHANGED part
    /\ \/ part = "resume" /\ ResumeNext /\ UNCHANGED goalVars
       \/ part = "goal" /\ GoalNext /\ UNCHANGED resumeVars

\* The runner that rests is under no obligation to move; a goal that rests cannot.
FairSpec ==
    /\ Init /\ [][Next]_<<part, resumeVars, goalVars>>
    /\ WF_resumeVars(part = "resume" /\ TurnThread)
    /\ WF_resumeVars(part = "resume" /\ RunnerThread)
    /\ WF_resumeVars(part = "resume" /\ TimePasses)
    /\ GoalFairness

TypeOK == ResumeTypeOK /\ GoalTypeOK

=============================================================================
