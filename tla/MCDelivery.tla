----------------------------- MODULE MCDelivery -----------------------------
(* Result deliveries, official tasks and the snapshot of API keys, under       *)
(* fairness.  The modules share no state: a behaviour is one of the module     *)
(* that part names, the others rest in their first state.                      *)
EXTENDS ResultDelivery, OfficialProcessor, ApiKeys

VARIABLE part

OneTask == {1}
Shapes == [t \in OfTasks |-> t]

SuiteInit ==
    /\ part \in {"delivery", "official", "keys"}
    /\ Init /\ OfInit /\ KeyInit
    /\ part = "official" \/ ofCap = 1
    /\ part = "delivery" \/ \A t \in Task : protocol[t] = "minimax-v2"

SuiteNext ==
    /\ UNCHANGED part
    /\ \/ part = "delivery" /\ Next /\ UNCHANGED <<ofVars, apiKeyVars>>
       \/ part = "official" /\ OfNext /\ UNCHANGED <<vars, apiKeyVars>>
       \/ part = "keys" /\ KeyNext /\ UNCHANGED <<vars, ofVars>>

(* Fairness, OfFairness and KeyFairness, each for its own part.                *)
SuiteFairness ==
    /\ \A w \in Worker : WF_vars(part = "delivery" /\ WorkerStep(w))
    /\ \A t \in Task : /\ WF_vars(part = "delivery" /\ RetryComesDue(t))
                       /\ WF_vars(part = "delivery" /\ ExpireAbandoned(t))
    /\ \A t \in OfTasks : WF_ofVars(part = "official" /\ OfStep(t))
    /\ \A j \in OfJobs : WF_ofVars(part = "official" /\ UpstreamMoves(j))
    /\ WF_apiKeyVars(part = "keys" /\ Tick)
    /\ \A a \in Admin \cup {Ticker} : /\ SF_apiKeyVars(part = "keys" /\ ReloadLists(a))
                                      /\ WF_apiKeyVars(part = "keys" /\ ReloadStores(a))

SuiteSpec ==
    SuiteInit /\ [][SuiteNext]_<<part, vars, ofVars, apiKeyVars>> /\ SuiteFairness
=============================================================================
