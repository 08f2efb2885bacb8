--------------------------- MODULE MCStageSafety ---------------------------
(* The stages of an h3 task, the admission and routing of tasks, official      *)
(* tasks and the object storage settings.  The modules share no state: a       *)
(* behaviour is one of the module that part names, the others rest in their    *)
(* first state.                                                                *)
EXTENDS StageOrchestrator, TaskAdmission, ModelRouting, OfficialProcessor, ObjectStorage

CONSTANTS n1, n2
VARIABLE part

OneTask == {1}
Everywhere == [t \in Task |-> Node]
Owner == [t \in TaTasks |-> IF t = 0 THEN "o2" ELSE "o1"]
SameKey == [t \in TaRequests |-> "k"]
TaskProtocol == [t \in TaTasks |-> IF t = 2 THEN "p2" ELSE "p1"]
NodeProtocol == [n \in MrNodes |-> IF n \in MrDiscovered THEN "tk2sd" ELSE "official"]
Alike == [t \in OfTasks |-> 1]

SuiteInit ==
    /\ part \in {"stages", "admission", "routing", "official", "storage"}
    /\ Init /\ TaInit /\ MrInit /\ OsInit /\ OfInit
    /\ part = "official" \/ ofCap = 1

SuiteNext ==
    /\ UNCHANGED part
    /\ \/ part = "stages" /\ Next /\ UNCHANGED <<taVars, mrVars, osVars, ofVars>>
       \/ part = "admission" /\ TaNext /\ UNCHANGED <<vars, mrVars, osVars, ofVars>>
       \/ part = "routing" /\ MrNext /\ UNCHANGED <<vars, taVars, osVars, ofVars>>
       \/ part = "storage" /\ OsNext /\ UNCHANGED <<vars, taVars, mrVars, ofVars>>
       \/ part = "official" /\ OfNext /\ UNCHANGED <<vars, taVars, mrVars, osVars>>

SuiteSpec == SuiteInit /\ [][SuiteNext]_<<part, vars, taVars, mrVars, osVars, ofVars>>
=============================================================================
