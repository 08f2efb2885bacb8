------------------------- MODULE StageOrchestrator -------------------------
(***************************************************************************)
(* The life of an h3-node-v1 task: a pipeline of stages, each executed on  *)
(* some node by numbered attempts (internal/orchestrator/orchestrator.go   *)
(* over internal/store/sqlite/stage_store.go), and the dispatch barrier    *)
(* that a cancelled task leaves on its node until the execution is known   *)
(* to have stopped (dispatch_barrier.go).                                  *)
(*                                                                         *)
(* The registry runs one scheduler slot per h3 node and waits for a        *)
(* stopped runtime before it starts the next one, so a node has one        *)
(* worker, and the node names it.  Every store method is one transaction   *)
(* and one action; a lease, a cancel request, another node's worker, a     *)
(* crash or a late request may come between two actions.                   *)
(***************************************************************************)
EXTENDS Naturals, FiniteSets

CONSTANTS
    Task,         \* h3 tasks, named by their queue_seq
    Stages,       \* stages of a task, in stage_order
    MaxAttempts,  \* task_stages.max_attempts
    Node,         \* h3 nodes, each with its worker
    Eligible,     \* taskEligibleForNode: the nodes that serve a task's model
    MaxFaults,    \* bound: failed calls, crashes, expiries of a held lease
    NoNode,       \* upstream_id IS NULL, lease_token IS NULL
    NoStage,      \* a worker that handles no stage
    NoOp          \* a node without a barrier

ASSUME TaskAssumption == Task \subseteq Nat /\ IsFiniteSet(Task)
ASSUME NodeAssumption == NoNode \notin Node /\ Eligible \in [Task -> SUBSET Node]
ASSUME BoundAssumption ==
    Stages \in Nat \ {0} /\ MaxAttempts \in Nat \ {0} /\ MaxFaults \in Nat

Stage == Task \X (1..Stages)
Op    == Stage \X (1..MaxAttempts)      \* an attempt and its operation_id

ASSUME NameAssumption == NoStage \notin Stage /\ NoOp \notin Op

VARIABLES
    status,    \* video_tasks.status
    upstream,  \* video_tasks.upstream_id
    active,    \* video_tasks.active_stage_id IS NOT NULL
    calls,     \* callbacks created for the end of the task
    stage,     \* task_stages.status
    count,     \* task_stages.attempt_count
    node,      \* task_stages.current_node_id
    lease,     \* task_stages.lease_token, named by the worker that made it
    live,      \* lease_expires_at > now
    try,       \* stage_attempts.status, "none" when there is no row
    tryNode,   \* stage_attempts.node_id
    bound,     \* stage_attempts.execution_id IS NOT NULL
    saved,     \* stage_attempts.request_snapshot_json IS NOT NULL
    barrier,   \* node_dispatch_barriers: the attempt a node is blocked for
    barBound,  \* node_dispatch_barriers.execution_id IS NOT NULL
    job,       \* the nodes: state of the execution of each operation
    late,      \* submissions whose caller gave up and that may still arrive
    pc,        \* where in ProcessOne the worker is
    cur,       \* the stage it handles
    had,       \* stage.AttemptCount in its copy of the stage
    no,        \* the number of the attempt it makes or resumes, 0 before
    final,     \* the failure it will record is not retryable
    faults     \* faults so far

taskRow    == <<status, upstream, active, calls>>
stageRow   == <<stage, count, node, lease, live>>
attemptRow == <<try, tryNode, bound, saved>>
fence      == <<barrier, barBound>>
remote     == <<job, late>>
local      == <<cur, had, no, final>>
rows       == <<taskRow, stageRow, attemptRow, fence>>
vars       == <<rows, remote, pc, local, faults>>

(* "queued" stands for queued_open and queued_locked, which h3 treats alike. *)
Open      == {"queued", "dispatching", "running"}
Ended     == {"succeeded", "failed", "cancelled"}
Trying    == {"dispatching", "running"}
JobEnded  == {"succeeded", "failed", "cancelled"}
(* "aborted" is status failed with error_code task_cancelled.                *)
TryStatus == {"none", "succeeded", "failed", "aborted"} \cup Trying
PC == {"idle", "look", "prepare", "create", "submit", "bind", "poll", "complete",
       "fail", "bindBarrier", "stop", "confirm", "resolve"}

TypeOK ==
    /\ status \in [Task -> Open \cup Ended \cup {"cancelling"}]
    /\ upstream \in [Task -> Node \cup {NoNode}]
    /\ active \in [Task -> BOOLEAN]
    /\ calls \in [Task -> Nat]
    /\ stage \in [Stage -> {"pending", "leased", "running"} \cup Ended]
    /\ count \in [Stage -> 0..MaxAttempts]
    /\ node \in [Stage -> Node \cup {NoNode}]
    /\ lease \in [Stage -> Node \cup {NoNode}]
    /\ live \in [Stage -> BOOLEAN]
    /\ try \in [Op -> TryStatus]
    /\ tryNode \in [Op -> Node \cup {NoNode}]
    /\ bound \in [Op -> BOOLEAN]
    /\ saved \in [Op -> BOOLEAN]
    /\ barrier \in [Node -> Op \cup {NoOp}]
    /\ barBound \in [Node -> BOOLEAN]
    /\ job \in [Op -> {"none", "live"} \cup JobEnded]
    /\ late \in SUBSET Op
    /\ pc \in [Node -> PC]
    /\ cur \in [Node -> Stage \cup {NoStage}]
    /\ had \in [Node -> 0..MaxAttempts]
    /\ no \in [Node -> 0..MaxAttempts]
    /\ final \in [Node -> BOOLEAN]
    /\ faults \in 0..MaxFaults

Init ==
    /\ status = [t \in Task |-> "queued"]
    /\ upstream = [t \in Task |-> NoNode]
    /\ active = [t \in Task |-> FALSE]
    /\ calls = [t \in Task |-> 0]
    /\ stage = [x \in Stage |-> "pending"]
    /\ count = [x \in Stage |-> 0]
    /\ node = [x \in Stage |-> NoNode]
    /\ lease = [x \in Stage |-> NoNode]
    /\ live = [x \in Stage |-> FALSE]
    /\ try = [o \in Op |-> "none"]
    /\ tryNode = [o \in Op |-> NoNode]
    /\ bound = [o \in Op |-> FALSE]
    /\ saved = [o \in Op |-> FALSE]
    /\ barrier = [n \in Node |-> NoOp]
    /\ barBound = [n \in Node |-> FALSE]
    /\ job = [o \in Op |-> "none"]
    /\ late = {}
    /\ pc = [n \in Node |-> "idle"]
    /\ cur = [n \in Node |-> NoStage]
    /\ had = [n \in Node |-> 0]
    /\ no = [n \in Node |-> 0]
    /\ final = [n \in Node |-> FALSE]
    /\ faults = 0
-----------------------------------------------------------------------------
(* Helpers. *)

Mine(n)       == <<cur[n], no[n]>>      \* the attempt the worker works on
TaskOf(n)     == cur[n][1]
Goto(n, label) == pc' = [pc EXCEPT ![n] = label]

(* ProcessOne returns; what it left in the database stays there.             *)
Return(n) ==
    /\ Goto(n, "idle")
    /\ cur' = [cur EXCEPT ![n] = NoStage]
    /\ had' = [had EXCEPT ![n] = 0]
    /\ no' = [no EXCEPT ![n] = 0]
    /\ final' = [final EXCEPT ![n] = FALSE]

Fault == faults < MaxFaults /\ faults' = faults + 1

(* taskCancelled; poll also stops for a task that is cancelling.             *)
TaskCancelled(n) == status[TaskOf(n)] = "cancelled"
PollStops(n)     == status[TaskOf(n)] \in {"cancelled", "cancelling"}
TryingOf(x)  == {k \in 1..MaxAttempts : try[<<x, k>>] \in Trying}

(* The call to fail, with the verdict on the error code.                     *)
Fail(n, verdict) ==
    /\ Goto(n, "fail")
    /\ final' = [final EXCEPT ![n] = verdict]
    /\ UNCHANGED <<cur, had, no>>

(* A node creates one execution per operation_id and returns it ever after.  *)
CreateExecution(o) == job' = [job EXCEPT ![o] = IF @ = "none" THEN "live" ELSE @]

-----------------------------------------------------------------------------
(* Claiming. *)

TakeableIfPending(n, x) == stage[x] = "pending" /\ count[x] < MaxAttempts

(* An attempt that is not over keeps the stage on its node.                  *)
Placed(n, x) == \A k \in TryingOf(x) : tryNode[<<x, k>>] = n

Takeable(n, x) ==
    \/ stage[x] = "pending" /\ count[x] < MaxAttempts
    \/ stage[x] = "leased" /\ count[x] <= MaxAttempts
    \/ stage[x] = "running" /\ node[x] = n

(* claimStageCandidateSelect and the eligibility test of nextEligibleStage,  *)
(* which an attempt on this node does not have to pass.                      *)
Candidate(n, x) ==
    /\ status[x[1]] \in Open
    /\ lease[x] = NoNode \/ ~live[x]
    /\ Takeable(n, x) /\ Placed(n, x)
    /\ \A s \in 1..(x[2] - 1) : stage[<<x[1], s>>] = "succeeded"
    /\ n \in Eligible[x[1]] \/ TryingOf(x) # {} \/ stage[x] = "running"

(* ORDER BY queue_seq, stage_order.                                          *)
Before(x, y) == x[1] < y[1] \/ (x[1] = y[1] /\ x[2] < y[2])

ClaimStage(n, x) ==
    /\ pc[n] = "idle"
    /\ barrier[n] = NoOp
    /\ Candidate(n, x)
    /\ \A y \in Stage : Candidate(n, y) => ~Before(y, x)
    /\ stage' = [stage EXCEPT ![x] = "leased"]
    /\ node' = [node EXCEPT ![x] = n]
    /\ lease' = [lease EXCEPT ![x] = n]
    /\ live' = [live EXCEPT ![x] = TRUE]
    /\ Goto(n, "look")
    /\ cur' = [cur EXCEPT ![n] = x]
    /\ had' = [had EXCEPT ![n] = count[x]]
    /\ UNCHANGED <<taskRow, count, attemptRow, fence, remote, no, final, faults>>

ResumesIfBound(n) ==
    LET x == cur[n] IN
    had[n] > 0 /\ lease[x] = n /\ try[<<x, count[x]>>] = "running"

(* resumeStageAttempt: the attempt of an earlier worker is taken up again.   *)
Resumes(n) ==
    LET x == cur[n] IN
    had[n] > 0 /\ lease[x] = n /\ try[<<x, count[x]>>] \in Trying

ResumedNoNext(n) == count[cur[n]] + 1

(* The number of the attempt that GetRunningStageAttempt returns.            *)
ResumedNo(n) == count[cur[n]]

(* taskCancelled, then resumeStageAttempt up to its first remote call.  An   *)
(* attempt without request snapshot was made by fail for a stage whose       *)
(* inputs could not be prepared; it is refused.                              *)
Look(n) ==
    /\ pc[n] = "look"
    /\ LET x == cur[n]  o == <<x, count[x]>> IN
       IF TaskCancelled(n) \/ (Resumes(n) /\ (tryNode[o] # n \/ (~bound[o] /\ ~saved[o])))
       THEN Return(n)
       ELSE /\ Goto(n, IF ~Resumes(n) THEN "prepare" ELSE IF bound[o] THEN "bind" ELSE "submit")
            /\ no' = [no EXCEPT ![n] = IF Resumes(n) THEN ResumedNo(n) ELSE 0]
            /\ UNCHANGED <<cur, had, final>>
    /\ UNCHANGED <<rows, remote, faults>>

(* localizeInput, executionRequest, Materialize.                             *)
Prepared(n) ==
    /\ pc[n] = "prepare"
    /\ IF TaskCancelled(n) THEN Return(n) ELSE Goto(n, "create") /\ UNCHANGED local
    /\ UNCHANGED <<rows, remote, faults>>

(* One of them fails; none of the error codes they use is retryable.         *)
PrepareFails(n) ==
    /\ pc[n] = "prepare"
    /\ Fault
    /\ Goto(n, "create")
    /\ final' = [final EXCEPT ![n] = TRUE]
    /\ UNCHANGED <<rows, remote, cur, had, no>>

-----------------------------------------------------------------------------
(* Attempts. *)

MayCreate(n) ==
    LET x == cur[n] IN
    /\ stage[x] = "leased" /\ lease[x] = n /\ node[x] = n /\ live[x]
    /\ status[x[1]] \in Open
    /\ n \in Eligible[x[1]]
    /\ had[n] = count[x] /\ count[x] < MaxAttempts

(* CreateStageAttempt, from ProcessOne with a request snapshot or from fail  *)
(* without one.  It does not look at the node's barrier.                     *)
CreateStageAttempt(n) ==
    /\ pc[n] = "create"
    /\ LET x == cur[n]  o == <<x, count[x] + 1>> IN
       IF MayCreate(n)
       THEN /\ try' = [try EXCEPT ![o] = "dispatching"]
            /\ tryNode' = [tryNode EXCEPT ![o] = n]
            /\ saved' = [saved EXCEPT ![o] = ~final[n]]
            /\ count' = [count EXCEPT ![x] = @ + 1]
            /\ status' = [status EXCEPT ![x[1]] = "dispatching"]
            /\ upstream' = [upstream EXCEPT ![x[1]] = n]
            /\ active' = [active EXCEPT ![x[1]] = TRUE]
            /\ no' = [no EXCEPT ![n] = had[n] + 1]
            /\ Goto(n, IF final[n] THEN "fail" ELSE "submit")
            /\ UNCHANGED <<calls, stage, node, lease, live, bound, cur, had, final>>
       ELSE Return(n) /\ UNCHANGED <<taskRow, stageRow, attemptRow>>
    /\ UNCHANGED <<fence, remote, faults>>

(* The node stopped serving the model since the claim.                       *)
CreateRefused(n) ==
    /\ pc[n] = "create"
    /\ Fault
    /\ Return(n)
    /\ UNCHANGED <<rows, remote>>

Submit(n) ==
    /\ pc[n] = "submit"
    /\ CreateExecution(Mine(n))
    /\ Goto(n, "bind")
    /\ UNCHANGED <<rows, late, local, faults>>

(* No answer: ProcessOne fails the attempt with the retryable code           *)
(* node_submit_unavailable; resumeStageAttempt returns the error.            *)
SubmitUnanswered(n) ==
    /\ pc[n] = "submit"
    /\ Fault
    /\ late' = late \cup {Mine(n)}
    /\ IF no[n] = had[n] THEN Return(n) ELSE Fail(n, FALSE)
    /\ UNCHANGED <<rows, job>>

(* An error answer: nothing was created; its code may be retryable.          *)
SubmitRejected(n) ==
    /\ pc[n] = "submit"
    /\ Fault
    /\ IF no[n] = had[n] THEN Return(n) ELSE \E v \in BOOLEAN : Fail(n, v)
    /\ UNCHANGED <<rows, remote>>

(* BindStageExecution.  Its deferred commit sees an error variable that the  *)
(* row checks shadow, so the UPDATEs before a failed check are kept.         *)
BindStageExecution(n) ==
    /\ pc[n] = "bind"
    /\ LET x == cur[n]  t == TaskOf(n)  o == Mine(n)
           first  == try[o] \in Trying
           second == first /\ lease[x] = n /\ stage[x] = "leased"
           third  == second /\ status[t] \in Open
       IN /\ IF first
             THEN /\ try' = [try EXCEPT ![o] = "running"]
                  /\ bound' = [bound EXCEPT ![o] = TRUE]
             ELSE UNCHANGED <<try, bound>>
          /\ stage' = IF second THEN [stage EXCEPT ![x] = "running"] ELSE stage
          /\ IF third
             THEN /\ status' = [status EXCEPT ![t] = "running"]
                  /\ upstream' = [upstream EXCEPT ![t] = tryNode[o]]
                  /\ active' = [active EXCEPT ![t] = TRUE]
                  /\ Goto(n, "poll")
                  /\ UNCHANGED local
             ELSE UNCHANGED <<status, upstream, active>> /\ Return(n)
    /\ UNCHANGED <<calls, count, node, lease, live, tryNode, saved, fence, remote, faults>>

-----------------------------------------------------------------------------
(* Polling. *)

(* The task is cancelled: CancelExecution, whatever it answers.              *)
PollCancelled(n) ==
    /\ pc[n] = "poll"
    /\ PollStops(n)
    /\ \E j \in {job[Mine(n)]} \cup {k \in {"cancelled"} : job[Mine(n)] = "live"} :
            job' = [job EXCEPT ![Mine(n)] = j]
    /\ Return(n)
    /\ UNCHANGED <<rows, late, faults>>

(* RenewStageLease finds the lease gone or expired.                          *)
PollLosesLease(n) ==
    /\ pc[n] = "poll"
    /\ ~PollStops(n)
    /\ lease[cur[n]] # n \/ ~live[cur[n]] \/ stage[cur[n]] \notin {"leased", "running"}
    /\ Return(n)
    /\ UNCHANGED <<rows, remote, faults>>

(* GetExecution shows the end of the execution; for a failure, execution.    *)
(* Error says whether it is retryable.  404 is not.                          *)
PollEnds(n) ==
    /\ pc[n] = "poll"
    /\ ~PollStops(n)
    /\ \/ job[Mine(n)] = "succeeded" /\ Goto(n, "complete") /\ UNCHANGED local
       \/ job[Mine(n)] \in {"failed", "cancelled"} /\ \E v \in BOOLEAN : Fail(n, v)
       \/ job[Mine(n)] = "none" /\ Fail(n, TRUE)
    /\ UNCHANGED <<rows, remote, faults>>

(* A 4xx answer or an unknown status while the execution goes on, or a       *)
(* result whose metadata cannot be read (retryable) or is not valid.         *)
PollRejected(n) ==
    /\ pc[n] = "poll"
    /\ ~PollStops(n)
    /\ Fault
    /\ \/ job[Mine(n)] = "live" /\ Fail(n, TRUE)
       \/ job[Mine(n)] = "succeeded" /\ \E v \in BOOLEAN : Fail(n, v)
    /\ UNCHANGED <<rows, remote>>

(* CompleteStageWithOutput: rolled back unless the attempt is running and    *)
(* the stage is still leased to this worker.  The task's own status is not   *)
(* looked at.                                                                *)
CompleteStage(n) ==
    /\ pc[n] = "complete"
    /\ LET x == cur[n]  t == TaskOf(n)
           last == \A s \in (1..Stages) \ {x[2]} : stage[<<t, s>>] = "succeeded"
       IN IF try[Mine(n)] = "running" /\ lease[x] = n /\ stage[x] = "running"
          THEN /\ try' = [try EXCEPT ![Mine(n)] = "succeeded"]
               /\ stage' = [stage EXCEPT ![x] = "succeeded"]
               /\ lease' = [lease EXCEPT ![x] = NoNode]
               /\ live' = [live EXCEPT ![x] = FALSE]
               /\ status' = [status EXCEPT ![t] = IF last THEN "succeeded" ELSE "running"]
               /\ upstream' = [upstream EXCEPT ![t] = IF last THEN @ ELSE NoNode]
               /\ active' = [active EXCEPT ![t] = FALSE]
               /\ calls' = [calls EXCEPT ![t] = IF last THEN @ + 1 ELSE @]
          ELSE UNCHANGED <<try, stage, lease, live, taskRow>>
    /\ Return(n)
    /\ UNCHANGED <<count, node, tryNode, bound, saved, fence, remote, faults>>

IsTerminalEarly(n) == final[n] \/ had[n] + 2 >= MaxAttempts

(* fail, for a fresh attempt and for a resumed one, whose own number is      *)
(* already in stage.AttemptCount.                                            *)
IsTerminal(n) == final[n] \/ had[n] + 1 >= MaxAttempts

MayFailAnyway(n) == TRUE

(* FailStage is rolled back unless the stage is still leased to this worker. *)
MayFail(n) == lease[cur[n]] = n

NodeAfterFailureKept(n) == upstream[TaskOf(n)]

NodeAfterFailure(n) == IF IsTerminal(n) THEN upstream[TaskOf(n)] ELSE NoNode

FailStage(n) ==
    /\ pc[n] = "fail"
    /\ LET x == cur[n]  t == TaskOf(n) IN
       IF MayFail(n)
       THEN /\ try' = [try EXCEPT ![Mine(n)] = "failed"]
            /\ stage' = [stage EXCEPT ![x] = IF IsTerminal(n) THEN "failed" ELSE "pending"]
            /\ lease' = [lease EXCEPT ![x] = NoNode]
            /\ live' = [live EXCEPT ![x] = FALSE]
            /\ status' = [status EXCEPT ![t] = IF IsTerminal(n) THEN "failed" ELSE "running"]
            /\ upstream' = [upstream EXCEPT ![t] = NodeAfterFailure(n)]
            /\ active' = [active EXCEPT ![t] = FALSE]
            /\ calls' = [calls EXCEPT ![t] = IF IsTerminal(n) THEN @ + 1 ELSE @]
       ELSE UNCHANGED <<try, stage, lease, live, taskRow>>
    /\ Return(n)
    /\ UNCHANGED <<count, node, tryNode, bound, saved, fence, remote, faults>>

-----------------------------------------------------------------------------
(* Cancelling. *)

TryingIn(t) == {o \in Op : o[1][1] = t /\ try[o] \in Trying}

(* The attempt that createNodeDispatchBarrierForTask selects.                *)
Newest(ops) ==
    CHOOSE o \in ops : \A p \in ops :
        p = o \/ Before(p[1], o[1]) \/ (p[1] = o[1] /\ p[2] < o[2])

(* finishStageTaskCancellation.                                              *)
FinishStageTaskCancellation(t) ==
    LET ends(x) == x[1] = t /\ stage[x] \in {"pending", "leased", "running"} IN
    /\ try' = [o \in Op |-> IF o \in TryingIn(t) THEN "aborted" ELSE try[o]]
    /\ stage' = [x \in Stage |-> IF ends(x) THEN "cancelled" ELSE stage[x]]
    /\ lease' = [x \in Stage |-> IF ends(x) THEN NoNode ELSE lease[x]]
    /\ live' = [x \in Stage |-> live[x] /\ ~ends(x)]
    /\ status' = [status EXCEPT ![t] = "cancelled"]
    /\ upstream' = [upstream EXCEPT ![t] = NoNode]
    /\ active' = [active EXCEPT ![t] = FALSE]
    /\ calls' = [calls EXCEPT ![t] = @ + 1]

(* RequestAdminCancel for an h3 task; the owner's cancel of a queued_open    *)
(* task is its first case.  node_id is the primary key of the barriers: a    *)
(* second barrier on the node makes the whole request fail.                  *)
RequestAdminCancel(t) ==
    /\ status[t] \in Open
    /\ IF TryingIn(t) # {}
       THEN LET o == Newest(TryingIn(t))  n == tryNode[o] IN
            /\ barrier[n] = NoOp
            /\ barrier' = [barrier EXCEPT ![n] = o]
            /\ barBound' = [barBound EXCEPT ![n] = bound[o]]
       ELSE UNCHANGED fence
    /\ IF status[t] = "queued" /\ TryingIn(t) = {}
       THEN /\ status' = [status EXCEPT ![t] = "cancelled"]
            /\ calls' = [calls EXCEPT ![t] = @ + 1]
            /\ UNCHANGED <<upstream, active, stage, lease, live, try>>
       ELSE IF TryingIn(t) # {} \/ active[t] \/ upstream[t] = NoNode
       THEN FinishStageTaskCancellation(t)
       ELSE /\ status' = [status EXCEPT ![t] = "cancelling"]
            /\ UNCHANGED <<upstream, active, calls, stage, lease, live, try>>
    /\ UNCHANGED <<count, node, tryNode, bound, saved, remote, pc, local, faults>>

-----------------------------------------------------------------------------
(* reconcileCancellationBarrier.  Only the node's worker updates its row,    *)
(* so the row_version tests of the three UPDATEs succeed.                    *)

(* No execution_id: the request is sent again under its operation_id.        *)
(* Without a snapshot the barrier is deferred.                               *)
BarrierRecovers(n) ==
    /\ pc[n] = "idle"
    /\ barrier[n] # NoOp /\ ~barBound[n] /\ saved[barrier[n]]
    /\ CreateExecution(barrier[n])
    /\ Goto(n, "bindBarrier")
    /\ UNCHANGED <<rows, late, local, faults>>

BarrierRecoveryFails(n) ==
    /\ pc[n] = "idle"
    /\ barrier[n] # NoOp /\ ~barBound[n] /\ saved[barrier[n]]
    /\ Fault
    /\ late' = late \cup {barrier[n]}
    /\ UNCHANGED <<rows, job, pc, local>>

BindBarrierExecution(n) ==
    /\ pc[n] = "bindBarrier"
    /\ barBound' = [barBound EXCEPT ![n] = TRUE]
    /\ Goto(n, "stop")
    /\ UNCHANGED <<taskRow, stageRow, attemptRow, barrier, remote, local, faults>>

(* CancelExecution: the node may stop the execution at once, later or never. *)
StopExecution(n) ==
    /\ pc[n] = "stop" \/ (pc[n] = "idle" /\ barrier[n] # NoOp /\ barBound[n])
    /\ LET o == barrier[n] IN
       \E j \in {job[o]} \cup {k \in {"cancelled"} : job[o] = "live"} :
            job' = [job EXCEPT ![o] = j]
    /\ Goto(n, "confirm")
    /\ UNCHANGED <<rows, late, local, faults>>

(* The node's queue is empty and nothing runs.                               *)
QueueIdle(n) == \A o \in Op : tryNode[o] = n => job[o] # "live"

StoppedOnceAsked(n)    == TRUE
StoppedIfCancelled(n)  == job[barrier[n]] = "cancelled"

(* What GetExecution and, after a 404, Health must show.                     *)
Stopped(n) ==
    \/ job[barrier[n]] \in JobEnded
    \/ job[barrier[n]] = "none" /\ QueueIdle(n)

ConfirmStopped(n) ==
    /\ pc[n] = "confirm"
    /\ Goto(n, IF Stopped(n) THEN "resolve" ELSE "idle")
    /\ UNCHANGED <<rows, remote, local, faults>>

ResolveNodeDispatchBarrier(n) ==
    /\ pc[n] = "resolve"
    /\ barrier' = [barrier EXCEPT ![n] = NoOp]
    /\ barBound' = [barBound EXCEPT ![n] = FALSE]
    /\ Goto(n, "idle")
    /\ UNCHANGED <<taskRow, stageRow, attemptRow, remote, local, faults>>

-----------------------------------------------------------------------------
(* Time, faults and the nodes. *)

(* The lease of a stage that its worker no longer handles runs out.          *)
ExpireAbandoned(x) ==
    /\ lease[x] # NoNode /\ live[x]
    /\ cur[lease[x]] # x
    /\ live' = [live EXCEPT ![x] = FALSE]
    /\ UNCHANGED <<taskRow, stage, count, node, lease, attemptRow, fence, remote, pc, local, faults>>

(* The worker is slower than its lease.                                      *)
ExpireHeld(x) ==
    /\ lease[x] # NoNode /\ live[x]
    /\ cur[lease[x]] = x
    /\ Fault
    /\ live' = [live EXCEPT ![x] = FALSE]
    /\ UNCHANGED <<taskRow, stage, count, node, lease, attemptRow, fence, remote, pc, local>>

(* The process dies, or the registry stops the runtime.                      *)
Crash(n) ==
    /\ pc[n] # "idle"
    /\ Fault
    /\ Return(n)
    /\ late' = IF pc[n] = "submit" THEN late \cup {Mine(n)} ELSE late
    /\ UNCHANGED <<rows, job>>

ExecutionEnds(o) ==
    /\ job[o] = "live"
    /\ \E j \in {"succeeded", "failed"} : job' = [job EXCEPT ![o] = j]
    /\ UNCHANGED <<rows, late, pc, local, faults>>

LateArrives(o) ==
    /\ o \in late
    /\ CreateExecution(o)
    /\ late' = late \ {o}
    /\ UNCHANGED <<rows, pc, local, faults>>

(* A node restarts without its executions.  Assumed of the network: requests *)
(* under way belong to connections of the old process and are lost with it.  *)
NodeForgets(n) ==
    /\ Fault
    /\ job' = [o \in Op |-> IF tryNode[o] = n THEN "none" ELSE job[o]]
    /\ late' = {o \in late : tryNode[o] # n}
    /\ UNCHANGED <<rows, pc, local>>

-----------------------------------------------------------------------------
WorkerStep(n) ==
    \/ \E x \in Stage : ClaimStage(n, x)
    \/ Look(n) \/ Prepared(n) \/ CreateStageAttempt(n) \/ Submit(n)
    \/ BindStageExecution(n) \/ PollCancelled(n) \/ PollLosesLease(n) \/ PollEnds(n)
    \/ CompleteStage(n) \/ FailStage(n)
    \/ BarrierRecovers(n) \/ BindBarrierExecution(n) \/ StopExecution(n)
    \/ ConfirmStopped(n) \/ ResolveNodeDispatchBarrier(n)

WorkerFault(n) ==
    \/ PrepareFails(n) \/ CreateRefused(n) \/ SubmitUnanswered(n) \/ SubmitRejected(n)
    \/ PollRejected(n) \/ BarrierRecoveryFails(n) \/ Crash(n) \/ NodeForgets(n)

Next ==
    \/ \E n \in Node : WorkerStep(n) \/ WorkerFault(n)
    \/ \E x \in Stage : ExpireAbandoned(x) \/ ExpireHeld(x)
    \/ \E t \in Task : RequestAdminCancel(t)
    \/ \E o \in Op : ExecutionEnds(o) \/ LateArrives(o)

Spec == Init /\ [][Next]_vars

(* Workers keep running (the scheduler calls ProcessOne again and again),    *)
(* time passes, and a node ends what it runs.  A lease lasts ten minutes or  *)
(* more, the scheduler waits seconds: a stage that can be claimed while      *)
(* another one is leased is not passed over for ever.                        *)
Fairness ==
    /\ \A n \in Node : WF_vars(WorkerStep(n))
    /\ \A x \in Stage : /\ SF_vars(\E n \in Node : ClaimStage(n, x))
                        /\ WF_vars(ExpireAbandoned(x))
    /\ \A o \in Op : WF_vars(ExecutionEnds(o))

FairSpec == Spec /\ Fairness

-----------------------------------------------------------------------------
(* Properties. *)

(* Each stage has at most one attempt that is not over, the newest one, made *)
(* for a task that has not ended, on the node the task row names, and a task *)
(* never has two stages in hand: CreateStageAttempt, FailStage,              *)
(* CompleteStage and the cancellation keep stage_attempts, task_stages and   *)
(* video_tasks in step.                                                      *)
OneAttemptInHand ==
    \A x \in Stage : \A k \in TryingOf(x) :
        /\ k = count[x]
        /\ stage[x] \in {"leased", "running"}
        /\ status[x[1]] \in {"dispatching", "running"}
        /\ active[x[1]] /\ upstream[x[1]] = tryNode[<<x, k>>]
        /\ \A s \in (1..Stages) \ {x[2]} : TryingOf(<<x[1], s>>) = {}

(* RequestAdminCancel never leaves an h3 task in status cancelling, where no *)
(* worker would ever finish it: an h3 task without a running attempt and     *)
(* without an active stage is assigned to no node.                           *)
CancelNeverWaits == \A t \in Task : status[t] # "cancelling"

(* Once a running task is cancelled, the barrier stands on its node for as   *)
(* long as its execution runs, or its submission may still start one: the    *)
(* purpose of node_dispatch_barriers.                                        *)
CancelledIsFenced ==
    \A o \in Op :
        /\ try[o] = "aborted"
        /\ \/ job[o] = "live"
           \/ job[o] = "none" /\ o \in late
           \/ job[o] = "none" /\ \E n \in Node : pc[n] = "submit" /\ Mine(n) = o
        => barrier[tryNode[o]] = o

(* A stage ends by a retryable failure only when its attempts are used up;   *)
(* a resumed attempt, which fail counts twice, may end it one too early.     *)
RetriesAreUsed ==
    [][\A n \in Node :
            FailStage(n) /\ ~final[n] /\ stage'[cur[n]] = "failed" /\ lease[cur[n]] = n
                => \/ count[cur[n]] >= MaxAttempts
                   \/ no[n] = had[n] /\ count[cur[n]] + 1 >= MaxAttempts]_vars

Pipeline ==
    INSTANCE StagePipeline WITH
        done    <- [t \in Task |-> {s \in 1..Stages : stage[<<t, s>>] = "succeeded"}],
        verdict <- [t \in Task |-> IF status[t] \in Ended THEN status[t] ELSE "open"],
        told    <- calls

(* The orchestrator implements StagePipeline: whatever leases, attempts,     *)
(* crashes and cancellations do, stages complete in stage_order, a task      *)
(* succeeds with its last stage and ends once, with one callback.            *)
ImplementsPipeline == Pipeline!PipeSpec

(* An attempt that a crash inside fail, between CreateStageAttempt and       *)
(* FailStage, left without request snapshot: resumeStageAttempt refuses it.  *)
Stranded(t) ==
    \E o \in TryingIn(t) :
        ~saved[o] /\ ~(pc[tryNode[o]] = "fail" /\ Mine(tryNode[o]) = o)

(* A barrier for such an attempt: the node is given no stage any more, and   *)
(* tasks that wait for it starve.                                            *)
Blocked(n) == barrier[n] # NoOp /\ ~barBound[n] /\ ~saved[barrier[n]]

(* Every task ends, unless it is stranded or a node is blocked: no other     *)
(* interleaving of workers, leases, barriers and faults leaves a stage that  *)
(* no worker takes up again.                                                 *)
TaskEnds ==
    \A t \in Task : <>(status[t] \in Ended \/ Stranded(t) \/ \E n \in Node : Blocked(n))

(* The barrier of an attempt that can be reconciled does not stay for ever:  *)
(* the node is given stages again once its execution has stopped.            *)
RecoverableBarrierIsLifted ==
    \A n \in Node :
        (barrier[n] # NoOp /\ (barBound[n] \/ saved[barrier[n]])) ~> (barrier[n] = NoOp)

(* Every barrier is lifted in the end, because every attempt has the request *)
(* snapshot that reconcileCancellationBarrier needs (DATABASE_DELTA of 009). *)
BarrierIsLifted == \A n \in Node : (barrier[n] # NoOp) ~> (barrier[n] = NoOp)

(* Two executions of one stage never run together: a submission without      *)
(* answer is repeated under its operation_id.                                *)
NoDuplicateGeneration ==
    \A x \in Stage : \A k, l \in 1..MaxAttempts :
        job[<<x, k>>] = "live" /\ job[<<x, l>>] = "live" => k = l

\* The rows of attempt, stage and task keep their domains and agree, and a cancelled
\* h3 task has ended at once, whatever the cancel met (CreateStageAttempt, fail,
\* RequestAdminCancel).
StageRowsAgree == TypeOK /\ OneAttemptInHand /\ CancelNeverWaits
=============================================================================
