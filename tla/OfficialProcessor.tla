------------------------- MODULE OfficialProcessor -------------------------
(***************************************************************************)
(* The tasks of one official (minimax-v2) node: internal/official's        *)
(* Processor over store/sqlite/official_task_store.go, run by the slots    *)
(* and the recovery goroutines of registry.startOfficialV2, against the    *)
(* account's list of upstream tasks.  A submission whose answer is lost    *)
(* is looked up as the one new upstream task of the same shape; it is      *)
(* never sent again.                                                       *)
(*                                                                         *)
(* A goroutine works on one task and a task has at most one goroutine, so  *)
(* the program counter is the task's.  Stopping a runtime cancels its      *)
(* context and waits; what a cut-off call has done upstream stays done,    *)
(* which is what a crash leaves too: one action, Restart, is both.         *)
(***************************************************************************)
EXTENDS Naturals, FiniteSets

CONSTANTS
    OfTasks,        \* queued official tasks, named by queue_seq
    OfShape,        \* resolution, duration and ratio of each
    OfCapacities,   \* values an administrator gives to max_concurrency
    OfReplace,      \* the node's replace_result_url
    OfMaxRestarts,  \* bound on restarts of the node's runtime
    OfMaxFaults,    \* bound on store errors and late submissions
    OfNoJob,        \* upstream_job_id = ''
    OfNoBaseline    \* official_submission_baseline_saved = 0

OfMaxSubmits == 2   \* two, so that a second submission of a task has a name
OfJobs == OfTasks \X (1..OfMaxSubmits)

ASSUME OfAssumption ==
    /\ OfTasks \subseteq Nat /\ IsFiniteSet(OfTasks)
    /\ DOMAIN OfShape = OfTasks
    /\ OfCapacities \subseteq Nat \ {0} /\ OfCapacities # {}
    /\ OfReplace \in BOOLEAN
    /\ OfMaxRestarts \in Nat /\ OfMaxFaults \in Nat
    /\ OfNoJob \notin OfJobs

VARIABLES
    ofStatus,    \* video_tasks.status
    ofBound,     \* upstream_job_id
    ofBaseline,  \* upstream_jobs_before_json
    ofPc,        \* where in ProcessTask the task's goroutine is
    ofFound,     \* the upstream id the goroutine is about to bind
    ofSent,      \* submissions sent so far
    ofJob,       \* the account: state of each upstream task
    ofCap,       \* model_service_nodes.max_concurrency
    ofRun,       \* capacity the running runtime was started with
    ofStale,     \* the node row has a newer version than the runtime
    ofRestarts,
    ofFaults

ofRow  == <<ofStatus, ofBound, ofBaseline>>
ofNode == <<ofCap, ofRun, ofStale, ofRestarts>>
ofVars == <<ofRow, ofPc, ofFound, ofSent, ofJob, ofNode, ofFaults>>

(* "late": the request was given up and the account may still take it.       *)
OfJobState == {"none", "late", "active", "done", "failed"}
OfEnded == {"reconciling", "succeeded", "failed"}

OfInit ==
    /\ ofStatus = [t \in OfTasks |-> "queued"]
    /\ ofBound = [t \in OfTasks |-> OfNoJob]
    /\ ofBaseline = [t \in OfTasks |-> OfNoBaseline]
    /\ ofPc = [t \in OfTasks |-> "none"]
    /\ ofFound = [t \in OfTasks |-> OfNoJob]
    /\ ofSent = [t \in OfTasks |-> 0]
    /\ ofJob = [j \in OfJobs |-> "none"]
    /\ ofCap \in OfCapacities /\ ofRun = ofCap
    /\ ofStale = FALSE
    /\ ofRestarts = 0
    /\ ofFaults = 0

OfGo(t, pc) == ofPc' = [ofPc EXCEPT ![t] = pc]
-----------------------------------------------------------------------------
(* The store. *)

(* upstream_slot_active = 1: set by the claim, cleared with the task's end.  *)
OfHolds(t) == ofStatus[t] \in {"dispatching", "running"}
ListActiveOfficialTasks == {t \in OfTasks : OfHolds(t)}

MStaleMayClaim == Cardinality(ListActiveOfficialTasks) < ofRun
(* The node row must have the runtime's version, and the smaller of the two
   capacities counts.                                                        *)
MayClaim ==
    /\ ~ofStale
    /\ Cardinality(ListActiveOfficialTasks) < (IF ofCap < ofRun THEN ofCap ELSE ofRun)

ClaimNextOfficial(t) ==
    /\ MayClaim
    /\ ofStatus[t] = "queued"
    /\ \A u \in OfTasks : ofStatus[u] = "queued" => t <= u
    /\ ofStatus' = [ofStatus EXCEPT ![t] = "dispatching"]
    /\ OfGo(t, "list")
    /\ UNCHANGED <<ofBound, ofBaseline, ofFound, ofSent, ofJob, ofNode, ofFaults>>

SaveOfficialSubmissionBaseline(t, ids) == ofBaseline' = [ofBaseline EXCEPT ![t] = ids]

BindOfficialTask(t, j) ==
    /\ ofBound' = [ofBound EXCEPT ![t] = j]
    /\ ofStatus' = [ofStatus EXCEPT ![t] = "running"]
    /\ UNCHANGED ofBaseline

(* In an ended row nothing reads the submission columns again.               *)
OfEnd(t, status) ==
    /\ ofStatus' = [ofStatus EXCEPT ![t] = status]
    /\ ofBaseline' = [ofBaseline EXCEPT ![t] = OfNoBaseline]
    /\ ofFound' = [ofFound EXCEPT ![t] = OfNoJob]
    /\ OfGo(t, "none")
    /\ UNCHANGED ofBound

MarkOfficialGenerated(t) == OfEnd(t, IF OfReplace THEN "reconciling" ELSE "succeeded")
MarkOfficialFailed(t) == OfEnd(t, "failed")
-----------------------------------------------------------------------------
(* The account, as the client reads it. *)

OfList == {j \in OfJobs : ofJob[j] \in {"active", "done", "failed"}}

(* reconcileSubmission: what is listed now, was not before, and looks like
   the request.                                                              *)
Candidates(t) == {j \in OfList \ ofBaseline[t] : OfShape[j[1]] = OfShape[t]}

(* The account moves its tasks on by itself. *)
UpstreamMoves(j) ==
    /\ \/ ofJob[j] = "active" /\ \E s \in {"done", "failed"} : ofJob' = [ofJob EXCEPT ![j] = s]
       \/ ofJob[j] = "late" /\ ofJob' = [ofJob EXCEPT ![j] = "active"]
    /\ UNCHANGED <<ofRow, ofPc, ofFound, ofSent, ofNode, ofFaults>>
-----------------------------------------------------------------------------
(* ProcessTask. *)

(* Restore and List; the baseline is in the row before anything is sent.     *)
Baseline(t) ==
    /\ ofPc[t] = "list"
    /\ \/ /\ SaveOfficialSubmissionBaseline(t, OfList)
          /\ OfGo(t, "submit")
          /\ UNCHANGED <<ofStatus, ofBound, ofFound>>
       \/ MarkOfficialFailed(t)
    /\ UNCHANGED <<ofSent, ofJob, ofNode, ofFaults>>

(* Submit: answered; or an error, whatever the account has made of it.       *)
SubmitOfficial(t) ==
    /\ ofPc[t] = "submit" /\ ofSent[t] < OfMaxSubmits
    /\ LET j == <<t, ofSent[t] + 1>> IN
       /\ ofSent' = [ofSent EXCEPT ![t] = @ + 1]
       /\ \/ /\ ofJob' = [ofJob EXCEPT ![j] = "active"]
             /\ ofFound' = [ofFound EXCEPT ![t] = j]
             /\ OfGo(t, "bind")
             /\ UNCHANGED ofFaults
          \/ /\ \/ ofJob' = [ofJob EXCEPT ![j] = "active"] /\ UNCHANGED ofFaults
                \/ UNCHANGED <<ofJob, ofFaults>>
                \/ /\ ofFaults < OfMaxFaults
                   /\ ofFaults' = ofFaults + 1
                   /\ ofJob' = [ofJob EXCEPT ![j] = "late"]
             /\ OfGo(t, "look1")
             /\ UNCHANGED ofFound
    /\ UNCHANGED <<ofRow, ofNode>>

MLookForever(pc) == IF pc = "look1" THEN "look2" ELSE "look1"
(* reconcileSubmissionWithRetry looks three times.                           *)
NextLook(pc) == IF pc = "look1" THEN "look2" ELSE IF pc = "look2" THEN "look3" ELSE "none"

reconcileSubmission(t) ==
    /\ ofPc[t] \in {"look1", "look2", "look3"}
    /\ \/ /\ Cardinality(Candidates(t)) = 1
          /\ ofFound' = [ofFound EXCEPT ![t] = CHOOSE j \in Candidates(t) : TRUE]
          /\ OfGo(t, "bind")
          /\ UNCHANGED ofRow
       \/ /\ Candidates(t) = {} /\ NextLook(ofPc[t]) # "none"
          /\ OfGo(t, NextLook(ofPc[t]))
          /\ UNCHANGED <<ofRow, ofFound>>
       \/ Candidates(t) = {} /\ NextLook(ofPc[t]) = "none" /\ MarkOfficialFailed(t)
       \/ Cardinality(Candidates(t)) > 1 /\ MarkOfficialFailed(t)   \* ambiguous
    /\ UNCHANGED <<ofSent, ofJob, ofNode, ofFaults>>

(* ... or the listing itself fails, once the submission has failed.          *)
LookFails(t) ==
    /\ ofPc[t] \in {"look1", "look2", "look3"}
    /\ MarkOfficialFailed(t)
    /\ UNCHANGED <<ofSent, ofJob, ofNode, ofFaults>>

Bind(t) ==
    /\ ofPc[t] = "bind"
    /\ BindOfficialTask(t, ofFound[t])
    /\ ofFound' = [ofFound EXCEPT ![t] = OfNoJob]
    /\ OfGo(t, "poll")
    /\ UNCHANGED <<ofSent, ofJob, ofNode, ofFaults>>

(* An error of a store write ends the goroutine and leaves the row as it is.  *)
StoreFails(t) ==
    /\ ofPc[t] \in {"list", "bind"} /\ ofFaults < OfMaxFaults
    /\ ofFaults' = ofFaults + 1
    /\ ofFound' = [ofFound EXCEPT ![t] = OfNoJob]
    /\ OfGo(t, "none")
    /\ UNCHANGED <<ofRow, ofSent, ofJob, ofNode>>

(* Query: a retryable error or an unfinished task waits, which changes
   nothing; any other error is final.                                        *)
Query(t) ==
    /\ ofPc[t] = "poll"
    /\ \/ ofJob[ofBound[t]] = "done" /\ MarkOfficialGenerated(t)
       \/ ofJob[ofBound[t]] = "failed" /\ MarkOfficialFailed(t)
    /\ UNCHANGED <<ofSent, ofJob, ofNode, ofFaults>>

QueryFails(t) ==
    /\ ofPc[t] = "poll"
    /\ MarkOfficialFailed(t)
    /\ UNCHANGED <<ofSent, ofJob, ofNode, ofFaults>>
-----------------------------------------------------------------------------
(* The runtime. *)

MResubmits(t) == IF ofBound[t] # OfNoJob THEN "poll" ELSE "list"
(* Where ProcessTask begins with a row of the active list.                   *)
Recovered(t) ==
    IF ofBound[t] # OfNoJob THEN "poll"
    ELSE IF ofBaseline[t] # OfNoBaseline THEN "look1" ELSE "list"

(* startOfficialV2, after a crash or when the registry applies a new version:
   one goroutine for each active row, listed before the slots run.           *)
Restart ==
    /\ ofRestarts < OfMaxRestarts
    /\ ofRestarts' = ofRestarts + 1
    /\ ofPc' = [t \in OfTasks |-> IF t \in ListActiveOfficialTasks THEN Recovered(t) ELSE "none"]
    /\ ofFound' = [t \in OfTasks |-> OfNoJob]
    /\ ofRun' = ofCap
    /\ ofStale' = FALSE
    /\ UNCHANGED <<ofRow, ofSent, ofJob, ofCap, ofFaults>>

(* UpdateModelNode lets max_concurrency only grow while tasks are active.    *)
ChangeCapacity(c) ==
    /\ ~ofStale /\ c # ofCap /\ ofRestarts < OfMaxRestarts
    /\ \/ c > ofCap
       \/ \A t \in OfTasks : ofStatus[t] \notin {"dispatching", "running", "reconciling"}
    /\ ofCap' = c
    /\ ofStale' = TRUE
    /\ UNCHANGED <<ofRow, ofPc, ofFound, ofSent, ofJob, ofRun, ofRestarts, ofFaults>>

OfStep(t) ==
    \/ Baseline(t) \/ SubmitOfficial(t) \/ reconcileSubmission(t) \/ LookFails(t)
    \/ Bind(t) \/ Query(t)

OfNext ==
    \/ \E t \in OfTasks : ClaimNextOfficial(t) \/ OfStep(t) \/ StoreFails(t) \/ QueryFails(t)
    \/ \E j \in OfJobs : UpstreamMoves(j)
    \/ Restart
    \/ \E c \in OfCapacities : ChangeCapacity(c)

(* A goroutine is scheduled and its calls return (they have timeouts); the
   account ends what it runs.                                                *)
OfFairness ==
    /\ \A t \in OfTasks : WF_ofVars(OfStep(t))
    /\ \A j \in OfJobs : WF_ofVars(UpstreamMoves(j))
-----------------------------------------------------------------------------
(* A request is sent to the official API at most once, over lost answers,
   store errors and restarts: the saved baseline makes ProcessTask look the
   submission up instead of repeating it.                                    *)
OfSubmittedOnce == \A t \in OfTasks : ofSent[t] <= 1

(* No claim takes the node above the capacity the administrator has set by
   then, although the runtime may still be one of an earlier version.        *)
OfCapacityKept ==
    [][\A t \in OfTasks : ofStatus[t] = "queued" /\ ofStatus'[t] = "dispatching"
            => Cardinality(ListActiveOfficialTasks') <= ofCap]_ofVars

(* A claimed task gives its slot back, over restarts and lost answers, unless
   a store error has left it without a goroutine: then only a restart of the
   runtime takes it up again.                                                *)
OfSlotIsReturned ==
    \A t \in OfTasks : OfHolds(t) ~> (ofStatus[t] \in OfEnded \/ ofPc[t] = "none")

(* The account is used as agreed: one submission per task, and no claim above
   the capacity set by then (ProcessTask, ClaimNextOfficial).                *)
OfAccountSpared == []OfSubmittedOnce /\ OfCapacityKept
=============================================================================
