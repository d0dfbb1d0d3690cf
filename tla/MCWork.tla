-------------------------------- MODULE MCWork --------------------------------
(***************************************************************************)
(* The work around the turns of a conversation, for TLC: the operations of *)
(* the ledger, the approvals of the tools, the subagents, the child        *)
(* sessions, the runs of a scheduled task, and the board of a team.  They  *)
(* share no state in the model (what one sees of another is part of each), *)
(* so each is explored with the others at rest: part names the one that    *)
(* moves.  Operation ids, and requests, are interchangeable.               *)
(***************************************************************************)
EXTENDS OperationLedger, Approvals, Subagents, ChildSessions, ScheduleRunner,
        ErrandBoard, TLC

\* An ask that lasting answers may cover, and one of another conversation that
\* they may not.
MCAskRequests ==
    {[session |-> "s1", rule |-> 1, target |-> 1, exact |-> FALSE, reusable |-> TRUE,
      always |-> TRUE],
     [session |-> "s2", rule |-> 1, target |-> 1, exact |-> FALSE, reusable |-> FALSE,
      always |-> FALSE]}

Symmetry == Permutations(Ops) \cup Permutations(Requests)

VARIABLE part

\* The choices of the parts that rest are fixed.
WorkInit ==
    /\ part \in {"operations", "approvals", "subagents", "children", "schedule", "board"}
    /\ Init /\ ApprovalsInit /\ SubagentsInit /\ ChildrenInit /\ ScheduleInit
    /\ BoardInit
    /\ part # "approvals" => \A a \in Asks : req[a].always
    /\ part # "schedule" => kind = "agent" /\ ~watch

WorkNext ==
    /\ UNCHANGED part
    /\ \/ part = "operations" /\ Next
          /\ UNCHANGED <<approvalVars, subagentVars, childVars, schedVars, boardVars>>
       \/ part = "approvals" /\ ApprovalsNext
          /\ UNCHANGED <<vars, subagentVars, childVars, schedVars, boardVars>>
       \/ part = "subagents" /\ SubagentsNext
          /\ UNCHANGED <<vars, approvalVars, childVars, schedVars, boardVars>>
       \/ part = "children" /\ ChildrenNext
          /\ UNCHANGED <<vars, approvalVars, subagentVars, schedVars, boardVars>>
       \/ part = "schedule" /\ ScheduleNext
          /\ UNCHANGED <<vars, approvalVars, subagentVars, childVars, boardVars>>
       \/ part = "board" /\ BoardNext
          /\ UNCHANGED <<vars, approvalVars, subagentVars, childVars, schedVars>>

workVars == <<part, vars, approvalVars, subagentVars, childVars, schedVars, boardVars>>

WorkSpec == WorkInit /\ [][WorkNext]_workVars

WorkTypeOK ==
    /\ part = "operations" => TypeOK
    /\ part = "approvals" => ApprovalsTypeOK
    /\ part = "subagents" => SubagentsTypeOK
    /\ part = "children" => ChildrenTypeOK
    /\ part = "schedule" => ScheduleTypeOK
    /\ part = "board" => BoardTypeOK

=============================================================================
