---------------------------- MODULE MCRemoteLive ----------------------------
(* One remote task, the preparation of its inputs, and one legacy task, under  *)
(* fairness.  The modules share no state: a behaviour is one of the module     *)
(* that part names, the others rest in their first state.                      *)
EXTENDS RemoteRun, RemoteInputs, LegacyWorker

VARIABLE part

OneTask == {1}
Inputs == <<[kind |-> "audio", spooled |-> TRUE], [kind |-> "video", spooled |-> FALSE]>>
Contents == [a |-> [kind |-> "audio", time |-> 5, big |-> FALSE],
             b |-> [kind |-> "audio", time |-> 5, big |-> FALSE],
             v |-> [kind |-> "video", time |-> 8, big |-> FALSE],
             w |-> [kind |-> "video", time |-> 12, big |-> FALSE],
             x |-> [kind |-> "video", time |-> 8, big |-> TRUE]]
Source == <<<<"a", "b">>, <<"v", "w", "x">>>>

SuiteInit == part \in {"remote", "inputs", "legacy"} /\ Init /\ RiInit /\ LwInit

SuiteNext ==
    /\ UNCHANGED part
    /\ \/ part = "remote" /\ Next /\ UNCHANGED <<riVars, lwVars>>
       \/ part = "inputs" /\ RiNext /\ UNCHANGED <<vars, lwVars>>
       \/ part = "legacy" /\ LwNext /\ UNCHANGED <<vars, riVars>>

(* Fairness, RiFairness and LwFairness, each for its own part.                 *)
SuiteFairness ==
    /\ \A w \in Worker : WF_vars(part = "remote" /\ WorkerStep(w))
    /\ \A t \in Task : /\ SF_vars(part = "remote" /\ \E w \in Worker : Acquire(w, t))
                       /\ WF_vars(part = "remote" /\ ExpireGone(t))
    /\ \A k \in Key : /\ WF_vars(part = "remote" /\ (JobStarts(k) \/ JobEnds(k)))
                      /\ WF_vars(part = "remote" /\ JobEnds(k))
    /\ WF_riVars(part = "inputs" /\ \E w \in RiWorkers : Prepare(w))
    /\ \A w \in RiWorkers : WF_riVars(part = "inputs" /\ RiStep(w))
    /\ WF_riVars(part = "inputs" /\ RiExpires /\ riPc[riLease] = "idle")
    /\ WF_lwVars(part = "legacy" /\ \E t \in LwTasks : LwWorkerStep(t))
    /\ \A t \in LwTasks : SF_lwVars(part = "legacy" /\ RetryOrFail(t))
    /\ WF_lwVars(part = "legacy" /\ LwTimePasses)

SuiteSpec == SuiteInit /\ [][SuiteNext]_<<part, vars, riVars, lwVars>> /\ SuiteFairness
=============================================================================
