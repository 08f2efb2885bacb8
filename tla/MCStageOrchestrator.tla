------------------------ MODULE MCStageOrchestrator ------------------------
EXTENDS StageOrchestrator

OneTask  == {1}
TwoTasks == {1, 2}
Everywhere == [t \in Task |-> Node]
=============================================================================
