--------------------------- MODULE ResultDelivery ---------------------------
(***************************************************************************)
(* Delivery of generated videos to object storage: the upload jobs         *)
(* (internal/store/sqlite/result_delivery_store.go) and the workers that   *)
(* claim them (internal/resultdelivery/worker.go), with the operations     *)
(* that meet a delivery under way: an admin cancel, an admin retry and the *)
(* deletion of the task.                                                   *)
(*                                                                         *)
(* One process runs one worker; a second worker is the process that        *)
(* replaces it during a redeployment.  Store methods are transactions, so  *)
(* each is one action; ProcessOne is a sequence of them with the download  *)
(* and the upload in between.                                              *)
(***************************************************************************)
EXTENDS Naturals, FiniteSets

CONSTANTS
    Task,         \* tasks whose result must be delivered, numbered as they are generated
    Worker,       \* result delivery workers
    MaxAttempts,  \* max_attempts of a job, 3 in the schema
    MaxRounds,    \* bound: rounds an administrator starts
    MaxFaults,    \* bound: crashes, and leases that run out under a live worker
    NoTask,       \* an idle worker
    NoToken,      \* lease_token IS NULL
    Gone          \* the token of a worker that no longer exists

ASSUME TaskAssumption == Task \subseteq Nat /\ NoTask \notin Task
ASSUME WorkerAssumption == NoToken \notin Worker /\ Gone \notin Worker /\ NoToken # Gone
ASSUME BoundAssumption ==
    MaxAttempts \in Nat \ {0} /\ MaxRounds \in Nat \ {0} /\ MaxFaults \in Nat

VARIABLES
    protocol,  \* video_tasks.protocol_version: decides whether a cancel is refused
    status,    \* video_tasks.status; "failed" here has error_code result_upload_failed
    deleted,   \* video_tasks.deleted_at IS NOT NULL
    told,      \* external_status of the latest callback_deliveries row
    calls,     \* number of callback_deliveries rows
    job,       \* result_upload_jobs.status, "none" when there is no row
    round,     \* round_no
    attempt,   \* attempt_no
    token,     \* lease_token
    live,      \* lease_expires_at > now
    due,       \* next_attempt_at <= now
    pc,        \* where in ProcessOne the worker is
    cur,       \* the task whose job it claimed
    final,     \* its failure is not worth a retry
    uploads,   \* uploads of the video that reached the object store
    deciding,  \* tasks seen terminal by a deletion that has not committed yet
    faults     \* faults so far

taskRow == <<protocol, status, deleted, told, calls>>
jobRow  == <<job, round, attempt, token, live, due>>
local   == <<pc, cur, final>>
vars    == <<taskRow, jobRow, local, uploads, deciding, faults>>

Waiting  == {"pending", "retry_wait", "uploading"}
Ended    == {"succeeded", "failed"}

TypeOK ==
    /\ protocol \in [Task -> {"minimax-v2", "tk2sd-v1"}]
    /\ status \in [Task -> {"generating", "reconciling", "cancelling"} \cup Ended]
    /\ deleted \in [Task -> BOOLEAN]
    /\ told \in [Task -> Ended \cup {"none"}]
    /\ calls \in [Task -> Nat]
    /\ job \in [Task -> Waiting \cup Ended \cup {"none"}]
    /\ round \in [Task -> 0..MaxRounds]
    /\ attempt \in [Task -> 0..MaxAttempts]
    /\ token \in [Task -> Worker \cup {NoToken, Gone}]
    /\ live \in [Task -> BOOLEAN]
    /\ due \in [Task -> BOOLEAN]
    /\ pc \in [Worker -> {"idle", "claim", "source", "deliver", "complete", "fail"}]
    /\ cur \in [Worker -> Task \cup {NoTask}]
    /\ final \in [Worker -> BOOLEAN]
    /\ uploads \in [Task -> Nat]
    /\ deciding \subseteq Task
    /\ faults \in 0..MaxFaults

Init ==
    /\ protocol \in [Task -> {"minimax-v2", "tk2sd-v1"}]
    /\ status = [t \in Task |-> "generating"]
    /\ deleted = [t \in Task |-> FALSE]
    /\ told = [t \in Task |-> "none"]
    /\ calls = [t \in Task |-> 0]
    /\ job = [t \in Task |-> "none"]
    /\ round = [t \in Task |-> 0]
    /\ attempt = [t \in Task |-> 0]
    /\ token = [t \in Task |-> NoToken]
    /\ live = [t \in Task |-> FALSE]
    /\ due = [t \in Task |-> FALSE]
    /\ pc = [w \in Worker |-> "idle"]
    /\ cur = [w \in Worker |-> NoTask]
    /\ final = [w \in Worker |-> FALSE]
    /\ uploads = [t \in Task |-> 0]
    /\ deciding = {}
    /\ faults = 0

-----------------------------------------------------------------------------
(* The worker: ProcessOne. *)

Goto(w, label) == pc' = [pc EXCEPT ![w] = label]

Finish(w) ==
    /\ Goto(w, "idle")
    /\ cur' = [cur EXCEPT ![w] = NoTask]
    /\ final' = [final EXCEPT ![w] = FALSE]

HoldsUnchecked(w, t) == TRUE

(* WHERE id=? AND status='uploading' AND lease_token=?: the lease may have   *)
(* run out, as long as nobody took the job over.                             *)
Holds(w, t) == job[t] = "uploading" /\ token[t] = w

(* MarkOfficialGenerated or CompleteRemoteRun with an upload job.            *)
Generated(t) ==
    /\ status[t] = "generating"
    /\ \A u \in Task : u < t => status[u] # "generating"
    /\ status' = [status EXCEPT ![t] = "reconciling"]
    /\ job' = [job EXCEPT ![t] = "pending"]
    /\ round' = [round EXCEPT ![t] = 1]
    /\ UNCHANGED <<protocol, deleted, told, calls, attempt, token, live, due, local,
                   uploads, deciding, faults>>

ExhaustedUnlessUploading(t) ==
    attempt[t] >= MaxAttempts /\ job[t] \in {"pending", "retry_wait"}

Exhausted(t) ==
    /\ attempt[t] >= MaxAttempts
    /\ \/ job[t] \in {"pending", "retry_wait"}
       \/ job[t] = "uploading" /\ ~live[t]

(* failDeliveredTask for every task of S: only one that waits for its        *)
(* delivery fails, with a callback.                                          *)
FailDeliveredTask(S) ==
    LET F == {t \in S : status[t] = "reconciling"} IN
    /\ status' = [t \in Task |-> IF t \in F THEN "failed" ELSE status[t]]
    /\ told' = [t \in Task |-> IF t \in F THEN "failed" ELSE told[t]]
    /\ calls' = [t \in Task |-> IF t \in F THEN calls[t] + 1 ELSE calls[t]]

(* recoverExhaustedResultUploads, the first transaction of a claim.          *)
RecoverExhausted(w) ==
    /\ pc[w] = "idle"
    /\ LET S == {t \in Task : Exhausted(t)} IN
       /\ job' = [t \in Task |-> IF t \in S THEN "failed" ELSE job[t]]
       /\ token' = [t \in Task |-> IF t \in S THEN NoToken ELSE token[t]]
       /\ live' = [t \in Task |-> live[t] /\ t \notin S]
       /\ due' = [t \in Task |-> due[t] /\ t \notin S]
       /\ FailDeliveredTask(S)
    /\ Goto(w, "claim")
    /\ UNCHANGED <<protocol, deleted, round, attempt, cur, final, uploads, deciding, faults>>

Claimable(t) ==
    /\ attempt[t] < MaxAttempts
    /\ \/ job[t] = "pending"
       \/ job[t] = "retry_wait" /\ due[t]
       \/ job[t] = "uploading" /\ ~live[t]

NextAttemptUncounted(t) ==
    IF job[t] = "uploading" THEN attempt ELSE [attempt EXCEPT ![t] = @ + 1]

NextAttempt(t) == [attempt EXCEPT ![t] = @ + 1]

(* The claim proper: the oldest job that may be worked on.                   *)
ClaimResultUploadJob(w, t) ==
    /\ pc[w] = "claim"
    /\ Claimable(t) /\ \A u \in Task : Claimable(u) => t <= u
    /\ job' = [job EXCEPT ![t] = "uploading"]
    /\ attempt' = NextAttempt(t)
    /\ token' = [token EXCEPT ![t] = w]
    /\ live' = [live EXCEPT ![t] = TRUE]
    /\ due' = [due EXCEPT ![t] = FALSE]
    /\ Goto(w, "source")
    /\ cur' = [cur EXCEPT ![w] = t]
    /\ UNCHANGED <<taskRow, round, final, uploads, deciding, faults>>

ClaimFindsNothing(w) ==
    /\ pc[w] = "claim" /\ \A t \in Task : ~Claimable(t)
    /\ Finish(w)
    /\ UNCHANGED <<taskRow, jobRow, uploads, deciding, faults>>

(* GetResultUploadSource finds the task ...                                  *)
SourceFound(w) ==
    /\ pc[w] = "source" /\ ~deleted[cur[w]]
    /\ Goto(w, "deliver")
    /\ UNCHANGED <<taskRow, jobRow, cur, final, uploads, deciding, faults>>

(* ... or the task is deleted, or there is no usable storage configuration:  *)
(* a failure that is not retried.                                            *)
SourceMissing(w) ==
    /\ pc[w] = "source"
    /\ Goto(w, "fail")
    /\ final' = [final EXCEPT ![w] = TRUE]
    /\ UNCHANGED <<taskRow, jobRow, cur, uploads, deciding, faults>>

(* Download and upload succeed.                                              *)
Deliver(w) ==
    /\ pc[w] = "deliver"
    /\ uploads' = [uploads EXCEPT ![cur[w]] = @ + 1]
    /\ Goto(w, "complete")
    /\ UNCHANGED <<taskRow, jobRow, cur, final, deciding, faults>>

(* One of them fails; the upload may have taken effect.                      *)
DeliverFails(w) ==
    /\ pc[w] = "deliver"
    /\ \E n \in {0, 1} : uploads' = [uploads EXCEPT ![cur[w]] = @ + n]
    /\ \E f \in BOOLEAN : final' = [final EXCEPT ![w] = f]
    /\ Goto(w, "fail")
    /\ UNCHANGED <<taskRow, jobRow, cur, deciding, faults>>

(* Guard of the UPDATE of video_tasks: without it nothing is committed.      *)
MayComplete(t) == status[t] = "reconciling"

CompleteResultUpload(w) ==
    /\ pc[w] = "complete"
    /\ LET t == cur[w] IN
       IF Holds(w, t) /\ MayComplete(t)
       THEN /\ job' = [job EXCEPT ![t] = "succeeded"]
            /\ token' = [token EXCEPT ![t] = NoToken]
            /\ live' = [live EXCEPT ![t] = FALSE]
            /\ status' = [status EXCEPT ![t] = "succeeded"]
            /\ told' = [told EXCEPT ![t] = "succeeded"]
            /\ calls' = [calls EXCEPT ![t] = @ + 1]
       ELSE UNCHANGED <<job, token, live, status, told, calls>>
    /\ Finish(w)
    /\ UNCHANGED <<protocol, deleted, round, attempt, due, uploads, deciding, faults>>

FailResultUploadAttempt(w) ==
    /\ pc[w] = "fail"
    /\ LET t == cur[w]
           again == ~final[w] /\ attempt[t] < MaxAttempts
       IN IF Holds(w, t)
          THEN /\ job' = [job EXCEPT ![t] = IF again THEN "retry_wait" ELSE "failed"]
               /\ token' = [token EXCEPT ![t] = NoToken]
               /\ live' = [live EXCEPT ![t] = FALSE]
               /\ FailDeliveredTask(IF again THEN {} ELSE {t})
          ELSE UNCHANGED <<job, token, live, status, told, calls>>
    /\ Finish(w)
    /\ UNCHANGED <<protocol, deleted, round, attempt, due, uploads, deciding, faults>>

-----------------------------------------------------------------------------
(* Time and faults. *)

Fault == faults < MaxFaults /\ faults' = faults + 1

RetryComesDue(t) ==
    /\ job[t] = "retry_wait" /\ ~due[t]
    /\ due' = [due EXCEPT ![t] = TRUE]
    /\ UNCHANGED <<taskRow, job, round, attempt, token, live, local, uploads, deciding, faults>>

(* The lease of a job runs out: its worker died or left without settling it. *)
ExpireAbandoned(t) ==
    /\ live[t] /\ \A w \in Worker : cur[w] = t => token[t] # w
    /\ live' = [live EXCEPT ![t] = FALSE]
    /\ UNCHANGED <<taskRow, job, round, attempt, token, due, local, uploads, deciding, faults>>

(* ... or its worker was stalled for longer than the lease.                  *)
ExpireLive(t) ==
    /\ live[t] /\ \E w \in Worker : cur[w] = t /\ token[t] = w
    /\ Fault
    /\ live' = [live EXCEPT ![t] = FALSE]
    /\ UNCHANGED <<taskRow, job, round, attempt, token, due, local, uploads, deciding>>

(* The process dies, or is told to stop: fail() then stores nothing.  The    *)
(* database refusing the last transaction of ProcessOne has the same effect. *)
Crash(w) ==
    /\ pc[w] # "idle" /\ Fault
    /\ token' = [t \in Task |-> IF token[t] = w THEN Gone ELSE token[t]]
    /\ Finish(w)
    /\ UNCHANGED <<taskRow, job, round, attempt, live, due, uploads, deciding>>

-----------------------------------------------------------------------------
(* Requests that meet a delivery. *)

(* RequestAdminCancel of a task whose slot is already free: refused for an   *)
(* official node, otherwise the task is marked for its worker.               *)
RequestAdminCancel(t) ==
    /\ status[t] = "reconciling" /\ protocol[t] = "tk2sd-v1" /\ ~deleted[t]
    /\ status' = [status EXCEPT ![t] = "cancelling"]
    /\ UNCHANGED <<protocol, deleted, told, calls, jobRow, local, uploads, deciding, faults>>

MayRetryFailedJob(t) == job[t] = "failed"
MayRetryEnded(t) == status[t] \in Ended

(* RetryResultUpload: both rows must match or the transaction rolls back.    *)
MayRetry(t) == job[t] = "failed" /\ status[t] = "failed"

RetryResultUpload(t) ==
    /\ MayRetry(t) /\ round[t] < MaxRounds
    /\ job' = [job EXCEPT ![t] = "pending"]
    /\ round' = [round EXCEPT ![t] = @ + 1]
    /\ attempt' = [attempt EXCEPT ![t] = 0]
    /\ due' = [due EXCEPT ![t] = FALSE]
    /\ status' = [status EXCEPT ![t] = "reconciling"]
    /\ UNCHANGED <<protocol, deleted, told, calls, token, live, local, uploads, deciding, faults>>

(* RequestOwnedTaskDeletion and CleanupExpired read the status first ...     *)
DecideDeletion(t) ==
    /\ status[t] \in Ended /\ ~deleted[t] /\ t \notin deciding
    /\ deciding' = deciding \cup {t}
    /\ UNCHANGED <<taskRow, jobRow, local, uploads, faults>>

(* ... and RequestTaskDeletion does not look at it again.                    *)
RequestTaskDeletion(t) ==
    /\ t \in deciding
    /\ deleted' = [deleted EXCEPT ![t] = TRUE]
    /\ deciding' = deciding \ {t}
    /\ UNCHANGED <<protocol, status, told, calls, jobRow, local, uploads, faults>>

-----------------------------------------------------------------------------
WorkerStep(w) ==
    \/ RecoverExhausted(w)
    \/ \E t \in Task : ClaimResultUploadJob(w, t)
    \/ ClaimFindsNothing(w)
    \/ SourceFound(w) \/ SourceMissing(w)
    \/ Deliver(w) \/ DeliverFails(w)
    \/ CompleteResultUpload(w) \/ FailResultUploadAttempt(w)

Next ==
    \/ \E w \in Worker : WorkerStep(w) \/ Crash(w)
    \/ \E t \in Task :
        \/ Generated(t)
        \/ RetryComesDue(t) \/ ExpireAbandoned(t) \/ ExpireLive(t)
        \/ RequestAdminCancel(t) \/ RetryResultUpload(t)
        \/ DecideDeletion(t) \/ RequestTaskDeletion(t)

Spec == Init /\ [][Next]_vars

(* Run loops until the process stops; time passes.                           *)
Fairness ==
    /\ \A w \in Worker : WF_vars(WorkerStep(w))
    /\ \A t \in Task : WF_vars(RetryComesDue(t)) /\ WF_vars(ExpireAbandoned(t))

FairSpec == Spec /\ Fairness

-----------------------------------------------------------------------------
(* Properties. *)

(* The job and the task never part: a task waits for its delivery only while *)
(* its job can still be worked on, and a job ends in the same transaction as *)
(* its task unless a cancel took the task away (FailResultUploadAttempt,     *)
(* CompleteResultUpload, recoverExhaustedResultUploads, RetryResultUpload).  *)
JobMatchesTask ==
    \A t \in Task :
        /\ status[t] = "reconciling" => job[t] \in Waiting
        /\ status[t] \in Ended => job[t] = status[t]
        /\ status[t] = "cancelling" => job[t] \in Waiting \cup {"failed"}

(* Each round of attempts is announced once, when it ends, and the latest    *)
(* callback tells the status the task has (createCallbackDeliveryWithConn in *)
(* failDeliveredTask and CompleteResultUpload).                              *)
OneCallbackPerRound ==
    \A t \in Task :
        IF status[t] \in Ended THEN calls[t] = round[t] /\ told[t] = status[t]
        ELSE calls[t] < round[t] \/ calls[t] = 0

(* The video is uploaded at most max_attempts times per round, whatever      *)
(* crashes, stalls and takeovers happen on the way.                          *)
UploadsBounded == \A t \in Task : uploads[t] <= MaxAttempts * round[t]

(* A delivered task stays delivered: no late failure, retry, recovery or     *)
(* cancel changes it.                                                        *)
DeliveredIsFinal ==
    [][\A t \in Task : status[t] = "succeeded" =>
          status'[t] = "succeeded" /\ job'[t] = "succeeded" /\ calls'[t] = calls[t]]_vars

(* Every delivery ends, or an administrator cancels it: crashed and stalled  *)
(* workers cannot leave a task waiting.                                      *)
DeliveryEnds ==
    \A t \in Task : status[t] = "reconciling" ~> status[t] \in Ended \cup {"cancelling"}

(* A task that is being cancelled is settled in the end.                     *)
CancellingEnds == \A t \in Task : status[t] = "cancelling" ~> status[t] \in Ended

(* A deleted task has ended: the deletion of a task that still works is      *)
(* refused (RequestOwnedTaskDeletion).                                       *)
DeletedHasEnded == \A t \in Task : deleted[t] => status[t] \in Ended

\* Job, task and callbacks tell one story, and a delivered task's is over: through
\* expired tokens, crashes, retries and cancels.
DeliveryIsConsistent == []JobMatchesTask /\ []OneCallbackPerRound /\ DeliveredIsFinal

\* Every delivery ends, after no more uploads a round than attempts are allowed.
DeliveryTerminates == []UploadsBounded /\ DeliveryEnds
=============================================================================
