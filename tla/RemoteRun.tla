----------------------------- MODULE RemoteRun -----------------------------
(***************************************************************************)
(* The life of a tk2sd-v1 task on one node: the store's remote runs        *)
(* (internal/store/sqlite/remote_task_store.go) driven by the concurrent   *)
(* goroutines of a node runtime (internal/remote/processor.go), against a  *)
(* remote service that deduplicates submissions by idempotency key.        *)
(*                                                                         *)
(* Every store method runs in one SQLite transaction on one connection, so *)
(* it is one action.  Between two of them, and around every HTTP call, any *)
(* other goroutine, a cancel request, a lease expiry or a crash of the     *)
(* process may intervene.                                                  *)
(***************************************************************************)
EXTENDS Naturals, FiniteSets

CONSTANTS
    Task,            \* tk2sd tasks, named by their queue_seq
    Worker,          \* goroutines that call ProcessTask: scheduler slots, resume loop
    Capacity,        \* max_concurrency of the node
    ProtectedSlots,  \* options.ProtectedSlots
    MaxFaults,       \* bound: failed calls, expiries of a live lease, crashes
    NoTask,          \* a worker or client that handles no task
    NoLease,         \* lease_token IS NULL
    Gone             \* the token of a goroutine that no longer exists

ASSUME TaskAssumption == Task \subseteq Nat /\ IsFiniteSet(Task) /\ NoTask \notin Task
ASSUME WorkerAssumption == NoLease \notin Worker /\ Gone \notin Worker /\ NoLease # Gone
ASSUME BoundAssumption == Capacity \in Nat /\ ProtectedSlots \in Nat /\ MaxFaults \in Nat

VARIABLES
    status,     \* video_tasks.status
    slot,       \* video_tasks.upstream_slot_active
    delivery,   \* video_tasks.delivery_required
    notified,   \* state of the callback row created for the task's end
    phase,      \* task_remote_runs.phase, "none" when there is no row
    upstreamID, \* task_remote_runs.upstream_task_id: the key it was created under
    upstream,   \* task_remote_runs.upstream_status
    cancel,     \* task_remote_runs.cancel_state
    recon,      \* task_remote_runs.reconciliation_required
    tried,      \* task_remote_runs.submit_attempts > 0
    lease,      \* task_remote_runs.lease_token
    live,       \* lease_expires_at > now
    pc,         \* where in ProcessTask the worker is
    cur,        \* the task it processes
    replay,     \* run.SubmitAttempts > 0 in its copy of the run
    seen,       \* the remote status it will write: a poll result or a completion
    intent,     \* the cancelState it will write
    flag,       \* the reconcile flag its deferred release will write
    client,     \* task of the cancel request in progress
    path,       \* branch that request took when it read the task
    job,        \* the remote service: state of the job created under each key
    late,       \* submissions whose caller gave up and that may still arrive
    faults      \* faults so far

taskRow   == <<status, slot, delivery, notified>>
runRow    == <<phase, upstreamID, upstream, cancel, recon, tried>>
leaseRow  == <<lease, live>>
rows      == <<taskRow, runRow, leaseRow>>
local     == <<cur, replay, seen, intent, flag>>
request   == <<client, path>>
remote    == <<job, late>>
vars      == <<taskRow, runRow, leaseRow, pc, local, request, remote, faults>>

Queued   == {"queued_open", "queued_locked"}
Claimed  == {"dispatching", "running", "reconciling", "cancelling"}
Terminal == {"succeeded", "failed", "cancelled"}
Status   == Queued \cup Claimed \cup Terminal
Phase    == {"none", "preparing", "prepared", "submit_intent", "submitted", "terminal"}
JobState == {"none", "queued", "running"} \cup Terminal
PC       == {"idle", "prepare", "begin", "submit", "bind", "query", "decide",
             "cancel", "requery", "observe", "complete", "release"}

(* The second component tells keys of one task apart; the code only uses 0.  *)
Key   == Task \X {0, 1}
NoKey == <<NoTask, 0>>

-----------------------------------------------------------------------------
(* Helpers. *)

(* rebalance: the first ProtectedSlots queued tasks are locked, the others   *)
(* open.                                                                     *)
Rebalance(s) ==
    [t \in Task |->
        IF s[t] \notin Queued THEN s[t]
        ELSE IF Cardinality({u \in Task : s[u] \in Queued /\ u < t}) < ProtectedSlots
             THEN "queued_locked" ELSE "queued_open"]

(* lease_token=? AND lease_expires_at>now, for the task the worker handles.  *)
HoldsLease(w) == lease[cur[w]] = w /\ live[cur[w]]

SubmissionKeyPerAttempt(w) == <<cur[w], IF replay[w] THEN 1 ELSE 0>>

(* The key fixed when the task is claimed, "proxy:" instance ":" task.       *)
SubmissionKey(w) == <<cur[w], 0>>

Goto(w, label) == pc' = [pc EXCEPT ![w] = label]

(* The deferred ReleaseRemoteLease is the next step of the worker.           *)
GiveUp(w, reconcile) ==
    /\ Goto(w, "release")
    /\ flag' = [flag EXCEPT ![w] = reconcile]
    /\ UNCHANGED <<cur, replay, seen, intent>>

Fault == faults < MaxFaults /\ faults' = faults + 1

Settle(t, s) == notified' = [notified EXCEPT ![t] = s]

(* Guard of the UPDATE of video_tasks in BindRemoteTask, CompleteRemoteRun.  *)
TaskIsClaimed(t) == slot[t] /\ status[t] \in Claimed

TypeOK ==
    /\ status \in [Task -> Status]
    /\ slot \in [Task -> BOOLEAN]
    /\ delivery \in [Task -> BOOLEAN]
    /\ notified \in [Task -> Terminal \cup {"none"}]
    /\ phase \in [Task -> Phase]
    /\ upstreamID \in [Task -> Key \cup {NoKey}]
    /\ upstream \in [Task -> JobState]
    /\ cancel \in [Task -> {"none", "requested", "confirmed", "rejected"}]
    /\ recon \in [Task -> BOOLEAN]
    /\ tried \in [Task -> BOOLEAN]
    /\ lease \in [Task -> Worker \cup {NoLease, Gone}]
    /\ live \in [Task -> BOOLEAN]
    /\ pc \in [Worker -> PC]
    /\ cur \in [Worker -> Task \cup {NoTask}]
    /\ replay \in [Worker -> BOOLEAN]
    /\ seen \in [Worker -> JobState]
    /\ intent \in [Worker -> {"none", "requested", "confirmed", "rejected"}]
    /\ flag \in [Worker -> BOOLEAN]
    /\ client \in Task \cup {NoTask}
    /\ path \in {"none", "remote", "admin", "user"}
    /\ job \in [Key -> JobState]
    /\ late \subseteq Key
    /\ faults \in 0..MaxFaults

Init ==
    /\ status = Rebalance([t \in Task |-> "queued_open"])
    /\ slot = [t \in Task |-> FALSE]
    /\ delivery = [t \in Task |-> FALSE]
    /\ notified = [t \in Task |-> "none"]
    /\ phase = [t \in Task |-> "none"]
    /\ upstreamID = [t \in Task |-> NoKey]
    /\ upstream = [t \in Task |-> "none"]
    /\ cancel = [t \in Task |-> "none"]
    /\ recon = [t \in Task |-> FALSE]
    /\ tried = [t \in Task |-> FALSE]
    /\ lease = [t \in Task |-> NoLease]
    /\ live = [t \in Task |-> FALSE]
    /\ pc = [w \in Worker |-> "idle"]
    /\ cur = [w \in Worker |-> NoTask]
    /\ replay = [w \in Worker |-> FALSE]
    /\ seen = [w \in Worker |-> "none"]
    /\ intent = [w \in Worker |-> "none"]
    /\ flag = [w \in Worker |-> FALSE]
    /\ client = NoTask
    /\ path = "none"
    /\ job = [k \in Key |-> "none"]
    /\ late = {}
    /\ faults = 0

-----------------------------------------------------------------------------
(* Claiming and leasing. *)

Active == {t \in Task : slot[t]}

HasRoomOffByOne == Cardinality(Active) <= Capacity

(* active < capacity; the dashboard admission can only lower the capacity,   *)
(* which the claim's nondeterminism (it need not happen) covers.             *)
HasRoom == Cardinality(Active) < Capacity

(* ORDER BY queue_seq among queued tasks that have no run yet.               *)
Oldest(t) ==
    /\ status[t] \in Queued /\ phase[t] = "none"
    /\ \A u \in Task : status[u] \in Queued /\ phase[u] = "none" => t <= u

ClaimNextRemote(w, t) ==
    /\ pc[w] = "idle" /\ HasRoom /\ Oldest(t)
    /\ status' = Rebalance([status EXCEPT ![t] = "dispatching"])
    /\ slot' = [slot EXCEPT ![t] = TRUE]
    /\ \E d \in BOOLEAN : delivery' = [delivery EXCEPT ![t] = d]
    /\ phase' = [phase EXCEPT ![t] = "preparing"]
    /\ UNCHANGED <<notified, upstreamID, upstream, cancel, recon, tried, leaseRow,
                   pc, local, request, remote, faults>>

MayAcquireUnleased(t) ==
    /\ phase[t] \notin {"none", "terminal"} /\ ~recon[t] /\ slot[t]
    /\ lease[t] = NoLease

(* The WHERE of AcquireRemoteLease.                                          *)
MayAcquire(t) ==
    /\ phase[t] \notin {"none", "terminal"} /\ ~recon[t] /\ slot[t]
    /\ ~live[t]

(* AcquireRemoteLease and the branch advance takes on the run it returned.   *)
Acquire(w, t) ==
    /\ pc[w] = "idle" /\ MayAcquire(t)
    /\ lease' = [lease EXCEPT ![t] = w]
    /\ live' = [live EXCEPT ![t] = TRUE]
    /\ cur' = [cur EXCEPT ![w] = t]
    /\ replay' = [replay EXCEPT ![w] = tried[t]]
    /\ LET early == cancel[t] = "requested" /\ phase[t] \in {"preparing", "prepared"}
       IN  /\ Goto(w, CASE early                     -> "complete"
                        [] ~early /\ phase[t] = "preparing" -> "prepare"
                        [] ~early /\ phase[t] \in {"prepared", "submit_intent"} -> "begin"
                        [] OTHER                     -> "query")
           /\ seen' = [seen EXCEPT ![w] = IF early THEN "cancelled" ELSE "none"]
    /\ UNCHANGED <<intent, flag, taskRow, runRow, request, remote, faults>>

(* The lease runs out although its holder is alive: renewals failed or the   *)
(* goroutine was stalled for longer than the lease.                          *)
ExpireLive(t) ==
    /\ lease[t] \in Worker /\ live[t] /\ Fault
    /\ live' = [live EXCEPT ![t] = FALSE]
    /\ UNCHANGED <<taskRow, runRow, lease, pc, local, request, remote>>

(* The lease of a holder that died runs out.                                 *)
ExpireGone(t) ==
    /\ lease[t] = Gone /\ live[t]
    /\ live' = [live EXCEPT ![t] = FALSE]
    /\ UNCHANGED <<taskRow, runRow, lease, pc, local, request, remote, faults>>

(* ReleaseRemoteLease, deferred by ProcessTask; a lost lease is not touched. *)
Release(w) ==
    /\ pc[w] = "release"
    /\ IF HoldsLease(w) /\ phase[cur[w]] # "terminal"
       THEN /\ lease' = [lease EXCEPT ![cur[w]] = NoLease]
            /\ live' = [live EXCEPT ![cur[w]] = FALSE]
            /\ recon' = [recon EXCEPT ![cur[w]] = flag[w]]
       ELSE UNCHANGED <<lease, live, recon>>
    /\ Goto(w, "idle")
    /\ cur' = [cur EXCEPT ![w] = NoTask]
    /\ replay' = [replay EXCEPT ![w] = FALSE]
    /\ seen' = [seen EXCEPT ![w] = "none"]
    /\ intent' = [intent EXCEPT ![w] = "none"]
    /\ flag' = [flag EXCEPT ![w] = FALSE]
    /\ UNCHANGED <<taskRow, phase, upstreamID, upstream, cancel, tried, request,
                   remote, faults>>

-----------------------------------------------------------------------------
(* Preparing and submitting. *)

(* inputs.Prepare succeeded: PrepareRemoteRequest, then the run is reloaded. *)
PrepareDone(w) ==
    /\ pc[w] = "prepare"
    /\ IF HoldsLease(w) /\ phase[cur[w]] = "preparing" /\ cancel[cur[w]] = "none"
       THEN /\ phase' = [phase EXCEPT ![cur[w]] = "prepared"]
            /\ Goto(w, "begin")
            /\ UNCHANGED local
       ELSE GiveUp(w, FALSE) /\ UNCHANGED phase
    /\ UNCHANGED <<taskRow, upstreamID, upstream, cancel, recon, tried, leaseRow,
                   request, remote, faults>>

(* The inputs are invalid, or the node's asset service refuses them.         *)
PrepareInvalid(w) ==
    /\ pc[w] = "prepare"
    /\ Goto(w, "complete")
    /\ seen' = [seen EXCEPT ![w] = "failed"]
    /\ UNCHANGED <<rows, cur, replay, intent, flag, request, remote, faults>>

(* A call before or after submission fails in a way that is worth a retry:   *)
(* inputs.Prepare, Query, or a result URL that does not validate.            *)
CallFails(w) ==
    /\ \/ pc[w] \in {"prepare", "query"}
       \/ pc[w] = "decide" /\ seen[w] = "succeeded"
    /\ Fault
    /\ GiveUp(w, FALSE)
    /\ UNCHANGED <<rows, request, remote>>

MayBeginDespiteCancel(t) == ~recon[t] /\ phase[t] \in {"prepared", "submit_intent"}

MayBegin(t) ==
    /\ ~recon[t]
    /\ \/ phase[t] = "submit_intent"
       \/ phase[t] = "prepared" /\ cancel[t] = "none"

(* BeginRemoteSubmission: the intent is stored before the request is sent.   *)
BeginRemoteSubmission(w) ==
    /\ pc[w] = "begin"
    /\ IF HoldsLease(w) /\ MayBegin(cur[w])
       THEN /\ phase' = [phase EXCEPT ![cur[w]] = "submit_intent"]
            /\ tried' = [tried EXCEPT ![cur[w]] = TRUE]
            /\ Goto(w, "submit")
            /\ UNCHANGED local
       ELSE GiveUp(w, FALSE) /\ UNCHANGED <<phase, tried>>
    /\ UNCHANGED <<taskRow, upstreamID, upstream, cancel, recon, leaseRow, request,
                   remote, faults>>

Created(k) == [job EXCEPT ![k] = IF @ = "none" THEN "queued" ELSE @]

(* The service answers with the id of the job it has under that key.         *)
SubmitAccepted(w) ==
    /\ pc[w] = "submit"
    /\ job' = Created(SubmissionKey(w))
    /\ Goto(w, "bind")
    /\ UNCHANGED <<rows, local, request, late, faults>>

(* No usable answer: the request was lost, is still on its way, or took      *)
(* effect and the answer was lost.                                           *)
SubmitUnknown(w) ==
    /\ pc[w] = "submit" /\ Fault
    /\ late' = late \cup {SubmissionKey(w)}
    /\ GiveUp(w, FALSE)
    /\ UNCHANGED <<rows, request, job>>

RejectionIsFinalAlways(w) == TRUE

(* run.SubmitAttempts = 0: no earlier submission can have taken effect.      *)
RejectionIsFinal(w) == ~replay[w]

(* 400, 413 or 422.                                                          *)
SubmitRejected(w) ==
    /\ pc[w] = "submit"
    /\ IF RejectionIsFinal(w)
       THEN /\ Goto(w, "complete")
            /\ seen' = [seen EXCEPT ![w] = "failed"]
            /\ UNCHANGED <<cur, replay, intent, flag>>
       ELSE GiveUp(w, TRUE)
    /\ UNCHANGED <<rows, request, remote, faults>>

(* 409: the key is bound to a different request.                             *)
SubmitConflict(w) ==
    /\ pc[w] = "submit"
    /\ GiveUp(w, TRUE)
    /\ UNCHANGED <<rows, request, remote, faults>>

BindRemoteTask(w) ==
    /\ pc[w] = "bind"
    /\ LET t == cur[w] IN
       IF HoldsLease(w) /\ phase[t] = "submit_intent" /\ TaskIsClaimed(t)
       THEN /\ phase' = [phase EXCEPT ![t] = "submitted"]
            /\ upstreamID' = [upstreamID EXCEPT ![t] = SubmissionKey(w)]
            /\ upstream' = [upstream EXCEPT ![t] = "queued"]
            /\ status' = [status EXCEPT ![t] = IF @ = "cancelling" THEN @ ELSE "running"]
            /\ Goto(w, "query")
            /\ UNCHANGED local
       ELSE GiveUp(w, FALSE) /\ UNCHANGED <<phase, upstreamID, upstream, status>>
    /\ UNCHANGED <<slot, delivery, notified, cancel, recon, tried, leaseRow, request,
                   remote, faults>>

-----------------------------------------------------------------------------
(* Polling, cancelling and finishing. *)

Query(w) ==
    /\ pc[w] = "query"
    /\ seen' = [seen EXCEPT ![w] = job[upstreamID[cur[w]]]]
    /\ Goto(w, "decide")
    /\ UNCHANGED <<rows, cur, replay, intent, flag, request, remote, faults>>

(* GetRemoteRun after the query, for cancel requests that arrived meanwhile, *)
(* and the switch on the polled status.                                      *)
Decide(w) ==
    /\ pc[w] = "decide"
    /\ IF lease[cur[w]] # w THEN GiveUp(w, FALSE)
       ELSE LET asked == cancel[cur[w]] = "requested" IN
            /\ Goto(w, CASE seen[w] \in Terminal         -> "complete"
                         [] seen[w] = "queued" /\ asked  -> "cancel"
                         [] OTHER                        -> "observe")
            /\ intent' = [intent EXCEPT ![w] =
                            IF asked /\ seen[w] = "running" THEN "rejected"
                            ELSE cancel[cur[w]]]
            /\ UNCHANGED <<cur, replay, seen, flag>>
    /\ UNCHANGED <<rows, request, remote, faults>>

(* Client.Cancel succeeds: the job was still queued.                         *)
CancelConfirmed(w) ==
    /\ pc[w] = "cancel"
    /\ job[upstreamID[cur[w]]] \in {"queued", "cancelled"}
    /\ job' = [job EXCEPT ![upstreamID[cur[w]]] = "cancelled"]
    /\ seen' = [seen EXCEPT ![w] = "cancelled"]
    /\ Goto(w, "complete")
    /\ UNCHANGED <<rows, cur, replay, intent, flag, request, late, faults>>

(* 409: the job is no longer queued; the status is queried again.            *)
CancelConflict(w) ==
    /\ pc[w] = "cancel"
    /\ job[upstreamID[cur[w]]] # "queued"
    /\ Goto(w, "requery")
    /\ UNCHANGED <<rows, local, request, remote, faults>>

(* Any other answer, or none: the job may or may not have been cancelled.    *)
CancelUnknown(w) ==
    /\ pc[w] = "cancel" /\ Fault
    /\ \/ UNCHANGED job
       \/ /\ job[upstreamID[cur[w]]] = "queued"
          /\ job' = [job EXCEPT ![upstreamID[cur[w]]] = "cancelled"]
    /\ Goto(w, "observe")
    /\ UNCHANGED <<rows, local, request, late>>

Requery(w) ==
    /\ pc[w] = "requery"
    /\ LET now == job[upstreamID[cur[w]]] IN
       /\ seen' = [seen EXCEPT ![w] = now]
       /\ intent' = [intent EXCEPT ![w] = IF now = "running" THEN "rejected" ELSE @]
       /\ Goto(w, IF now \in Terminal THEN "complete" ELSE "observe")
    /\ UNCHANGED <<rows, cur, replay, flag, request, remote, faults>>

RequeryFails(w) ==
    /\ pc[w] = "requery" /\ Fault
    /\ Goto(w, "observe")
    /\ UNCHANGED <<rows, local, request, remote>>

ObserveRemoteTask(w) ==
    /\ pc[w] = "observe"
    /\ LET t == cur[w] IN
       IF HoldsLease(w) /\ phase[t] = "submitted"
       THEN /\ upstream' = [upstream EXCEPT ![t] = seen[w]]
            /\ cancel' = [cancel EXCEPT ![t] = IF intent[w] = "rejected" THEN "rejected" ELSE @]
            /\ status' = [status EXCEPT ![t] =
                            IF intent[w] = "rejected" /\ @ = "cancelling" THEN "running" ELSE @]
       ELSE UNCHANGED <<upstream, cancel, status>>
    /\ GiveUp(w, FALSE)
    /\ UNCHANGED <<slot, delivery, notified, phase, upstreamID, recon, tried, leaseRow,
                   request, remote, faults>>

CancelAfterUnanswered(t, s) == IF s = "cancelled" THEN "confirmed" ELSE cancel[t]

(* cancel_state after a completion.                                          *)
CancelAfter(t, s) ==
    IF s = "cancelled" THEN "confirmed"
    ELSE IF cancel[t] = "requested" THEN "rejected" ELSE cancel[t]

(* CompleteRemoteRun: a success that must be delivered leaves the task       *)
(* reconciling with an upload job, any other end settles it.                 *)
CompleteRemoteRun(w) ==
    /\ pc[w] = "complete"
    /\ LET t == cur[w]
           upload == seen[w] = "succeeded" /\ delivery[t]
       IN IF HoldsLease(w) /\ phase[t] # "terminal" /\ TaskIsClaimed(t)
          THEN /\ phase' = [phase EXCEPT ![t] = "terminal"]
               /\ upstream' = [upstream EXCEPT ![t] = seen[w]]
               /\ cancel' = [cancel EXCEPT ![t] = CancelAfter(t, seen[w])]
               /\ lease' = [lease EXCEPT ![t] = NoLease]
               /\ live' = [live EXCEPT ![t] = FALSE]
               /\ slot' = [slot EXCEPT ![t] = FALSE]
               /\ status' = [status EXCEPT ![t] = IF upload THEN "reconciling" ELSE seen[w]]
               /\ IF upload THEN UNCHANGED notified ELSE Settle(t, seen[w])
          ELSE UNCHANGED <<phase, upstream, cancel, lease, live, slot, status, notified>>
    /\ GiveUp(w, FALSE)
    /\ UNCHANGED <<delivery, upstreamID, recon, tried, request, remote, faults>>

-----------------------------------------------------------------------------
(* Cancel requests: the handlers read the task, then act in a transaction of *)
(* their own.                                                                *)

(* The v2 DELETE handler and RequestAdminCancel look at upstream_slot_active *)
(* to choose RequestRemoteCancel.                                            *)
ReadForCancel(t) ==
    /\ client = NoTask
    /\ client' = t
    /\ \E who \in {"admin", "user"} : path' = IF slot[t] THEN "remote" ELSE who
    /\ UNCHANGED <<rows, pc, local, remote, faults>>

RefusesRemoteCancel(t) ==
    \/ phase[t] \in {"none", "terminal"}
    \/ upstream[t] = "running" \/ cancel[t] = "rejected"

RequestRemoteCancel ==
    /\ client # NoTask /\ path = "remote"
    /\ IF ~RefusesRemoteCancel(client) /\ TaskIsClaimed(client)
       THEN /\ status' = [status EXCEPT ![client] = "cancelling"]
            /\ cancel' = [cancel EXCEPT ![client] = "requested"]
       ELSE UNCHANGED <<status, cancel>>
    /\ client' = NoTask /\ path' = "none"
    /\ UNCHANGED <<slot, delivery, notified, phase, upstreamID, upstream, recon, tried,
                   leaseRow, pc, local, remote, faults>>

CancelQueuedUnchecked ==
    /\ (path = "user" => status[client] = "queued_open")
    /\ status' = Rebalance([status EXCEPT ![client] = "cancelled"])
    /\ Settle(client, "cancelled")

(* CancelOrDelete takes an open queued task, RequestAdminCancel any queued   *)
(* one.                                                                      *)
CancelQueued ==
    /\ \/ path = "user" /\ status[client] = "queued_open"
       \/ path = "admin" /\ status[client] \in Queued
    /\ status' = Rebalance([status EXCEPT ![client] = "cancelled"])
    /\ Settle(client, "cancelled")

CancelOwnedUnchecked ==
    /\ path = "admin" /\ status[client] \notin Queued
    /\ status' = [status EXCEPT ![client] = "cancelling"]
    /\ UNCHANGED notified

(* RequestAdminCancel, generic branch, for a task that a node owns.          *)
CancelOwned ==
    /\ path = "admin" /\ status[client] \in {"dispatching", "running", "reconciling"}
    /\ status' = [status EXCEPT ![client] = "cancelling"]
    /\ UNCHANGED notified

(* CancelOrDelete or the rest of RequestAdminCancel; anything else is        *)
(* refused or already cancelling.                                            *)
CancelLocally ==
    /\ client # NoTask /\ path \in {"admin", "user"}
    /\ \/ CancelQueued
       \/ CancelOwned
       \/ /\ path = "user" => status[client] # "queued_open"
          /\ path = "admin" => status[client] \in Terminal \cup {"cancelling"}
          /\ UNCHANGED <<status, notified>>
    /\ client' = NoTask /\ path' = "none"
    /\ UNCHANGED <<slot, delivery, runRow, leaseRow, pc, local, remote, faults>>

-----------------------------------------------------------------------------
(* The remote service and the process. *)

(* A submission nobody waits for reaches the service.                        *)
LateArrival(k) ==
    /\ k \in late
    /\ job' = Created(k)
    /\ late' = late \ {k}
    /\ UNCHANGED <<rows, pc, local, request, faults>>

(* ... or is dropped on the way.                                             *)
LateLoss(k) ==
    /\ k \in late
    /\ late' = late \ {k}
    /\ UNCHANGED <<rows, pc, local, request, job, faults>>

JobStarts(k) ==
    /\ job[k] = "queued"
    /\ job' = [job EXCEPT ![k] = "running"]
    /\ UNCHANGED <<rows, pc, local, request, late, faults>>

(* A job ends on its own; an operator of the service may cancel a queued one. *)
JobEnds(k) ==
    /\ \/ job[k] = "running" /\ \E s \in {"succeeded", "failed"} : job' = [job EXCEPT ![k] = s]
       \/ job[k] = "queued" /\ \E s \in {"failed", "cancelled"} : job' = [job EXCEPT ![k] = s]
    /\ UNCHANGED <<rows, pc, local, request, late, faults>>

(* The process dies and restarts: goroutines and requests in progress are    *)
(* gone, the rows remain, with leases nobody holds; a submission under way   *)
(* may still arrive.                                                         *)
Crash ==
    /\ Fault
    /\ lease' = [t \in Task |-> IF lease[t] \in Worker THEN Gone ELSE lease[t]]
    /\ late' = late \cup {SubmissionKey(w) : w \in {v \in Worker : pc[v] = "submit"}}
    /\ pc' = [w \in Worker |-> "idle"]
    /\ cur' = [w \in Worker |-> NoTask]
    /\ replay' = [w \in Worker |-> FALSE]
    /\ seen' = [w \in Worker |-> "none"]
    /\ intent' = [w \in Worker |-> "none"]
    /\ flag' = [w \in Worker |-> FALSE]
    /\ client' = NoTask /\ path' = "none"
    /\ UNCHANGED <<taskRow, runRow, live, job>>

WorkerStep(w) ==
    \/ PrepareDone(w) \/ PrepareInvalid(w) \/ CallFails(w)
    \/ BeginRemoteSubmission(w)
    \/ SubmitAccepted(w) \/ SubmitUnknown(w) \/ SubmitRejected(w) \/ SubmitConflict(w)
    \/ BindRemoteTask(w)
    \/ Query(w) \/ Decide(w)
    \/ CancelConfirmed(w) \/ CancelConflict(w) \/ CancelUnknown(w)
    \/ Requery(w) \/ RequeryFails(w)
    \/ ObserveRemoteTask(w) \/ CompleteRemoteRun(w) \/ Release(w)

Next ==
    \/ \E w \in Worker : WorkerStep(w)
    \/ \E w \in Worker, t \in Task : ClaimNextRemote(w, t) \/ Acquire(w, t)
    \/ \E t \in Task : ExpireLive(t) \/ ExpireGone(t) \/ ReadForCancel(t)
    \/ RequestRemoteCancel \/ CancelLocally
    \/ \E k \in Key : LateArrival(k) \/ LateLoss(k) \/ JobStarts(k) \/ JobEnds(k)
    \/ Crash

Spec == Init /\ [][Next]_vars

(* A goroutine that started keeps running; the lease of a dead one expires.  *)
(* The resume loop walks all active tasks and next_poll_at keeps a task just *)
(* polled out of the next walk, so no active task is passed over forever.    *)
(* The service works on its jobs.                                            *)
Fairness ==
    /\ \A w \in Worker : WF_vars(WorkerStep(w))
    /\ \A t \in Task : /\ SF_vars(\E w \in Worker : Acquire(w, t))
                       /\ WF_vars(ExpireGone(t))
    /\ \A k \in Key : /\ WF_vars(JobStarts(k) \/ JobEnds(k))
                      /\ WF_vars(JobEnds(k))

FairSpec == Spec /\ Fairness

-----------------------------------------------------------------------------
(* Properties. *)

(* A task is never generated twice: however often its submission is repeated *)
(* after lost answers, crashes and takeovers, the service holds one job for  *)
(* it (BeginRemoteSubmission, Submit with the stored key).                   *)
OneJobPerTask ==
    \A t \in Task : \A j, k \in {t} \X {0, 1} :
        (job[j] # "none" \/ j \in late) /\ (job[k] # "none" \/ k \in late) => j = k

(* A run that ended locally left nothing behind: its job does not exist and  *)
(* cannot appear any more, or it ended the way the run says                  *)
(* (CompleteRemoteRun after a rejection, a cancel or a poll).                *)
VerdictMatchesJob ==
    \A t \in Task : phase[t] = "terminal" =>
        /\ \A k \in {t} \X {0, 1} :
              job[k] \in {"none", upstream[t]} /\ (k \in late => job[k] # "none")
        /\ upstream[t] = "succeeded" => \E k \in {t} \X {0, 1} : job[k] = "succeeded"

(* The jobs this proxy has at the service, unfinished or still on their way, *)
(* never exceed the node's max_concurrency (ClaimNextRemote counts slots,    *)
(* not jobs; slots are given back by CompleteRemoteRun).                     *)
LoadBounded ==
    Cardinality({k \in Key : job[k] \in {"queued", "running"} \/ (k \in late /\ job[k] = "none")})
        <= Capacity

(* The slot, the phase and the status of a task agree in every state         *)
(* (ClaimNextRemote, CompleteRemoteRun and the cancel paths update them in   *)
(* different tables).                                                        *)
SlotMatchesRun ==
    \A t \in Task :
        /\ slot[t] <=> phase[t] \notin {"none", "terminal"}
        /\ slot[t] => status[t] \in Claimed
        /\ phase[t] = "none" => status[t] \in Queued \cup {"cancelled"}

(* A cancel request accepted before the submission intent was stored is      *)
(* final: the run can only end, it is never submitted                        *)
(* (PrepareRemoteRequest, BeginRemoteSubmission check cancel_state).         *)
EarlyCancelStopsRun ==
    [][\A t \in Task :
         cancel[t] = "requested" /\ phase[t] \in {"preparing", "prepared"}
           => phase'[t] \in {phase[t], "terminal"} /\ ~tried'[t]]_vars

(* The end of a task is announced once and never revised: the callback row   *)
(* tells the status the task keeps.                                          *)
EndIsAnnouncedOnce ==
    [][\A t \in Task :
         /\ notified[t] # "none" => notified'[t] = notified[t] /\ status'[t] = status[t]
         /\ status'[t] \in Terminal => notified'[t] = status'[t]]_vars

(* Every task that holds a slot ends, or is set aside for reconciliation.    *)
SlotIsFreed == \A t \in Task : slot[t] ~> (~slot[t] \/ recon[t])

(* Every accepted cancel request gets an answer: the task is cancelled, or   *)
(* the request is rejected, unless the run is set aside.                     *)
CancelIsAnswered ==
    \A t \in Task : cancel[t] = "requested" ~> (cancel[t] \in {"confirmed", "rejected"} \/ recon[t])

(* A task shown as cancelling while a node works on it is one whose run was  *)
(* told to cancel.                                                           *)
CancellingIsPursued ==
    \A t \in Task : status[t] = "cancelling" /\ slot[t] => cancel[t] = "requested"

\* What has ended stays so: a run cancelled before its submission is not submitted,
\* and each end is announced once (BeginRemoteSubmission, CompleteRemoteRun).
EndIsFinal == EarlyCancelStopsRun /\ EndIsAnnouncedOnce

\* A remote run comes to its end: the slot is free again and a cancel answered.
RemoteRunEnds == SlotIsFreed /\ CancelIsAnswered
=============================================================================
