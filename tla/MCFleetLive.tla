---------------------------- MODULE MCFleetLive ----------------------------
(* Node runtimes, the deletion of artifacts, and callbacks, under fairness.    *)
(* The modules share no state: a behaviour is one of the module that part      *)
(* names, the others rest in their first state.                                *)
EXTENDS NodeFleet, ArtifactDeletion, CallbackOutbox

CONSTANTS n1, n2
VARIABLE part

TwoRows == {1, 2}
Home == [t \in DelTasks |-> n1]

SuiteInit ==
    /\ part \in {"fleet", "deletion", "callbacks"}
    /\ NfInit /\ DelInit /\ CbInit
    /\ part = "callbacks" \/ \A d \in Delivery : readable[d]

SuiteNext ==
    /\ UNCHANGED part
    /\ \/ part = "fleet" /\ NfNext /\ UNCHANGED <<delVars, cbVars>>
       \/ part = "deletion" /\ DelNext /\ UNCHANGED <<nfVars, cbVars>>
       \/ part = "callbacks" /\ CbNext /\ UNCHANGED <<nfVars, delVars>>

(* NfFairness, DelFairness and CbFairness, each for its own part.              *)
SuiteFairness ==
    /\ WF_nfVars(part = "fleet" /\ NfReconcile)
    /\ \A n \in NfNodes : WF_nfVars(part = "fleet" /\ \E r \in nfRun[n] : SlotAbandons(n, r))
    /\ WF_delVars(part = "deletion" /\ \E c \in Copies : WorkerClaims(c))
    /\ WF_delVars(part = "deletion" /\ (CompleteDeletionItem \/ \E r \in BOOLEAN : FailDeletionItem(r)))
    /\ \A w \in CbWorker : WF_cbVars(part = "callbacks" /\ CbWorkerStep(w))
    /\ \A d \in Delivery :
        /\ SF_cbVars(part = "callbacks" /\ \E w \in CbWorker : ClaimCallbackDelivery(w, d))
        /\ WF_cbVars(part = "callbacks" /\ RetryComesDue(d))
        /\ WF_cbVars(part = "callbacks" /\ CbExpireAbandoned(d))

SuiteSpec == SuiteInit /\ [][SuiteNext]_<<part, nfVars, delVars, cbVars>> /\ SuiteFairness
=============================================================================
