--------------------------- MODULE MCRemoteQueue ---------------------------
(* The queues of remote tasks, legacy tasks and callbacks, the deletion of     *)
(* artifacts and the schema.  The modules share no state: a behaviour is one   *)
(* of the module that part names, the others rest in their first state.        *)
EXTENDS RemoteRun, LegacyWorker, CallbackOutbox, ArtifactDeletion, SchemaMigration

CONSTANTS n1, n2
VARIABLE part

TwoTasks == {1, 2}
TwoRows == {1, 2}
Home == [t \in DelTasks |-> n1]
NodeProtocol == [n \in SmNodes |-> IF n = "a" THEN "h3-node-v1" ELSE "minimax-v2"]

SuiteInit ==
    /\ part \in {"remote", "legacy", "callbacks", "deletion", "schema"}
    /\ Init /\ LwInit /\ CbInit /\ DelInit /\ SmInit
    /\ part = "callbacks" \/ \A d \in Delivery : readable[d]

SuiteNext ==
    /\ UNCHANGED part
    /\ \/ part = "remote" /\ Next /\ UNCHANGED <<lwVars, cbVars, delVars, smVars>>
       \/ part = "legacy" /\ LwNext /\ UNCHANGED <<vars, cbVars, delVars, smVars>>
       \/ part = "callbacks" /\ CbNext /\ UNCHANGED <<vars, lwVars, delVars, smVars>>
       \/ part = "deletion" /\ DelNext /\ UNCHANGED <<vars, lwVars, cbVars, smVars>>
       \/ part = "schema" /\ SmNext /\ UNCHANGED <<vars, lwVars, cbVars, delVars>>

SuiteSpec ==
    SuiteInit /\ [][SuiteNext]_<<part, vars, lwVars, cbVars, delVars, smVars>>
=============================================================================
