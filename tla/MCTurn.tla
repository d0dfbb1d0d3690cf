-------------------------------- MODULE MCTurn --------------------------------
(***************************************************************************)
(* The thread of a turn, the agent's loop it runs and the questions of its *)
(* tools, for TLC.  They share no state in the model, so each is explored  *)
(* with the others at rest: part names the one that moves.                 *)
(***************************************************************************)
EXTENDS TurnRun, AgentLoop, Questions

VARIABLE part

Init ==
    /\ part \in {"run", "loop", "questions"}
    /\ RunInit
    /\ LoopInit
    /\ QuestionsInit

Next ==
    /\ UNCHANGED part
    /\ \/ part = "run" /\ RunNext /\ UNCHANGED <<agentVars, questionVars>>
       \/ part = "loop" /\ LoopNext /\ UNCHANGED <<runVars, questionVars>>
       \/ part = "questions" /\ QuestionsNext /\ UNCHANGED <<runVars, agentVars>>

\* The loop that rests is under no obligation to move; the others that rest cannot.
FairSpec ==
    /\ Init /\ [][Next]_<<part, runVars, agentVars, questionVars>>
    /\ RunFairness
    /\ part = "loop" => LoopFairness
    /\ QuestionsFairness

TypeOK == RunTypeOK /\ LoopTypeOK /\ QuestionsTypeOK

=============================================================================
