-------------------------- MODULE MCPermissionBroker --------------------------
(***************************************************************************)
(* A small instance of PermissionBroker: approvals of an older and of a    *)
(* present hook, and a question that may be shown at the desk as well.     *)
(***************************************************************************)
EXTENDS PermissionBroker, TLC

OldApproval == [kind |-> "approval", held |-> FALSE, wait |-> LegacyWait]
Approval == [kind |-> "approval", held |-> FALSE, wait |-> LongWait]
Question == [kind |-> "question", held |-> TRUE, wait |-> LongWait]

OldQuestion == [kind |-> "question", held |-> FALSE, wait |-> LegacyWait]

CONSTANTS r1, r2  \* the requests

SomeMixes ==
  {(r1 :> pair[1]) @@ (r2 :> pair[2]) :
     pair \in {<<OldApproval, Approval>>, <<Question, OldQuestion>>}}

\* Bound: the server restarts under questions only.
Restarts == restarts = 0 \/ \E r \in Request : shape[r].kind = "question"
=============================================================================
