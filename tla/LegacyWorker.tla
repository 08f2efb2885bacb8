---------------------------- MODULE LegacyWorker ----------------------------
(***************************************************************************)
(* The worker of a legacy Gradio node (internal/worker/processor.go) over  *)
(* the task rows of internal/store/sqlite/store.go, the collector that     *)
(* decides whether the node may be given work (internal/monitor), and the  *)
(* private service behind it.  The service has no task identifiers: the    *)
(* worker recognises its own job, and its own video, as the one that was   *)
(* not there before it submitted.                                          *)
(*                                                                         *)
(* One node, so at most one active task: the row in hand is the active row *)
(* and the worker keeps little of its own.  The worker holds the node's    *)
(* Gate during ProcessOne and the collector only tries it, so a probe runs *)
(* only between two rounds.  Any call to the service may fail, any number  *)
(* of times; a proxy crash, a service restart and a late job are faults.   *)
(***************************************************************************)
EXTENDS Naturals, FiniteSets

CONSTANTS
    LwTasks,      \* legacy tasks, named by queue_seq
    LwMaxSubmits, \* bound on the submissions of one task
    LwMaxFaults,  \* bound: proxy crashes, service restarts, late jobs
    LwNoJob,      \* upstream_job_id IS NULL, no result
    LwNoBaseline  \* gallery_before_json, attempt_started_at IS NULL

LwJobs == LwTasks \X (1..LwMaxSubmits)   \* <<t, k>>: what the k-th submission of t makes

ASSUME LwAssumption ==
    /\ LwTasks \subseteq Nat /\ IsFiniteSet(LwTasks)
    /\ LwMaxSubmits \in Nat \ {0} /\ LwMaxFaults \in Nat
    /\ LwNoJob \notin LwJobs

VARIABLES
    lwStatus,   \* video_tasks.status; "queued" is queued_open or queued_locked
    lwBound,    \* of the active row: upstream_job_id,
    lwBefore,   \*   upstream_jobs_before_json and attempt_started_at,
    lwGallery,  \*   gallery_before_json (a video is named by its job),
    lwRetries,  \*   retry_count; NULL in a queued row, unread in an ended one
    lwResult,   \* result_internal_url
    lwOver,     \* the attempt in hand is older than the execution timeout
    lwSubmits,  \* submissions sent so far
    lwJob,      \* the private service: state of each job
    lwNode,     \* monitor cache: unknown, idle (schedulable), busy, blocked
    lwPc,       \* where in ProcessOne the worker is
    lwSeen,     \* the gallery and the idleness the poll round has read
    lwMissing,  \* completedWithoutResult
    lwKill,     \* the job cancel found and is stopping
    lwFaults    \* faults so far

lwRow   == <<lwStatus, lwBound, lwBefore, lwGallery, lwRetries, lwResult, lwOver>>
lwLocal == <<lwSeen, lwMissing, lwKill>>
lwSvc   == <<lwSubmits, lwJob>>
lwVars  == <<lwRow, lwSvc, lwNode, lwPc, lwLocal, lwFaults>>

LwActive == {"dispatching", "running", "reconciling", "cancelling"}
LwEnded  == {"succeeded", "failed", "cancelled"}
(* "none": never made, or lost; "late": the submission was given up and may
   still come up, then "tardy"; "made": completed, the gallery not yet updated;
   "stopped": failed or cancelled; "forgotten": only the video is left.      *)
LwJobState == {"none", "late", "active", "tardy", "made", "done", "stopped", "forgotten"}
LwRunning  == {"active", "tardy"}
LwNothingSeen == [gallery |-> {}, idle |-> FALSE]

LwInit ==
    /\ lwStatus = [t \in LwTasks |-> "queued"]
    /\ lwBound = LwNoJob
    /\ lwBefore = LwNoBaseline
    /\ lwGallery = LwNoBaseline
    /\ lwRetries = 0
    /\ lwResult = [t \in LwTasks |-> LwNoJob]
    /\ lwOver = FALSE
    /\ lwSubmits = [t \in LwTasks |-> 0]
    /\ lwJob = [j \in LwJobs |-> "none"]
    /\ lwNode = "unknown"
    /\ lwPc = "idle"
    /\ lwSeen = LwNothingSeen
    /\ lwMissing = 0
    /\ lwKill = LwNoJob
    /\ lwFaults = 0
-----------------------------------------------------------------------------
(* The private service as the client reads it. *)

(* GET /api/jobs; activeJobs and hasActiveJob keep the unfinished ones.      *)
ListJobs   == {j \in LwJobs : lwJob[j] \in LwRunning \cup {"made", "done", "stopped"}}
activeJobs == {j \in LwJobs : lwJob[j] \in LwRunning}
GalleryURLs == {j \in LwJobs : lwJob[j] \in {"done", "forgotten"}}
(* The jobs that appeared since the attempt began; without a list from before,
   the unfinished ones.                                                      *)
newJobs == IF lwBefore = LwNoBaseline THEN activeJobs ELSE ListJobs \ lwBefore

(* POST /api/jobs/{id}/cancel stops a job that has not ended.                *)
CancelJob(j) == lwJob' = [lwJob EXCEPT ![j] = IF @ \in LwRunning THEN "stopped" ELSE @]
-----------------------------------------------------------------------------
(* The store: one UPDATE each, refused when the row has moved on. *)

LwSet(t, status) == lwStatus' = [lwStatus EXCEPT ![t] = status]
LwInHand(t) == lwStatus[t] \in LwActive
LwMovable(t) == lwStatus[t] \in {"dispatching", "running", "reconciling"}

(* The columns of a row that leaves the worker: Requeue clears them, and in an
   ended row nothing reads them again.                                       *)
LwClear ==
    /\ lwBound' = LwNoJob
    /\ lwBefore' = LwNoBaseline
    /\ lwGallery' = LwNoBaseline
    /\ lwRetries' = 0
    /\ lwOver' = FALSE

LwRequeue(t) == LwSet(t, "queued") /\ LwClear /\ UNCHANGED lwResult

MRequeueAlways == lwGallery = LwNoBaseline \/ lwBound = LwNoJob
(* resume may only put back a task whose baseline was never saved.           *)
NothingSubmitted == lwGallery = LwNoBaseline

MBaselineEmpty == lwGallery' = {}
SaveBaseline == lwGallery' = GalleryURLs

BindUpstreamJob(t, j) ==
    /\ lwBound' = j
    /\ LwSet(t, "running")
    /\ UNCHANGED <<lwBefore, lwGallery, lwRetries, lwResult, lwOver>>

MarkReconciling(t) ==
    /\ LwSet(t, "reconciling")
    /\ UNCHANGED <<lwBound, lwBefore, lwGallery, lwRetries, lwResult, lwOver>>

MRetryUncounted == UNCHANGED lwRetries
(* The one automatic retry is taken in the row, so that a restart keeps it.  *)
TakeRetry == lwRetries' = 1

BeginRetry(t) ==
    /\ lwStatus[t] \in {"running", "reconciling"} /\ lwRetries = 0
    /\ LwSet(t, "dispatching")
    /\ TakeRetry
    /\ lwBound' = LwNoJob
    /\ lwBefore' = ListJobs
    /\ lwGallery' = lwSeen.gallery
    /\ lwOver' = FALSE
    /\ UNCHANGED lwResult
-----------------------------------------------------------------------------
(* The monitor cache. *)

(* markFinished, clearCurrent: a healthy node is schedulable at once.        *)
markFinished == lwNode' = IF lwNode = "busy" THEN "idle" ELSE lwNode
markPollFailure == lwNode' = IF lwNode = "blocked" THEN "blocked" ELSE "unknown"
(* mergeObservation of the worker: healthy, and busy with the task in hand.  *)
mergeObservation == lwNode' = IF lwNode = "blocked" THEN "blocked" ELSE "busy"
MBlockForgotten == UNCHANGED lwNode
blockScheduling == lwNode' = "blocked"

LwFault == lwFaults < LwMaxFaults /\ lwFaults' = lwFaults + 1
LwGoto(label) == lwPc' = label
LwForget == lwSeen' = LwNothingSeen /\ lwMissing' = 0 /\ lwKill' = LwNoJob
LwReturn == LwGoto("idle") /\ LwForget
-----------------------------------------------------------------------------
(* ProcessOne, a new task. *)

(* The slot's Health: the cache must show the node healthy and idle.         *)
LwSchedulable == lwNode = "idle"

(* Store.ClaimNext: the first queued task, when the node has no active one.  *)
LwFirst(t) ==
    /\ \A u \in LwTasks : ~LwInHand(u)
    /\ lwStatus[t] = "queued" /\ \A u \in LwTasks : lwStatus[u] = "queued" => t <= u

ClaimNext(t) ==
    /\ lwPc = "idle" /\ LwSchedulable
    /\ LwFirst(t)
    /\ LwSet(t, "dispatching")
    /\ lwOver' = FALSE
    /\ lwNode' = "busy"
    /\ \/ LwGoto("jobs")
       \/ LwGoto("fail")                \* invalid_persisted_request
    /\ UNCHANGED <<lwBound, lwBefore, lwGallery, lwRetries, lwResult, lwSvc,
                   lwLocal, lwFaults>>

(* The jobs before the attempt, which begins now.                            *)
SaveSubmissionContext == lwBefore' = ListJobs /\ lwOver' = FALSE

(* The jobs and the gallery as they are before the submission.  The admin may
   have moved the row to cancelling: the write is refused and the round ends. *)
JobsBaseline(t) ==
    /\ lwPc = "jobs" /\ LwInHand(t)
    /\ IF lwStatus[t] = "dispatching"
       THEN SaveSubmissionContext /\ LwGoto("gallery") /\ UNCHANGED lwLocal
       ELSE LwReturn /\ UNCHANGED <<lwBefore, lwOver>>
    /\ UNCHANGED <<lwStatus, lwBound, lwGallery, lwRetries, lwResult, lwSvc, lwNode, lwFaults>>

GalleryBaseline(t) ==
    /\ lwPc = "gallery" /\ LwInHand(t)
    /\ mergeObservation
    /\ IF lwStatus[t] = "dispatching"
       THEN SaveBaseline /\ LwGoto("submit") /\ UNCHANGED lwLocal
       ELSE LwReturn /\ UNCHANGED lwGallery
    /\ UNCHANGED <<lwStatus, lwBound, lwBefore, lwRetries, lwResult, lwOver, lwSvc, lwFaults>>

(* Either baseline cannot be read: the task goes back to the queue.          *)
BaselineFails(t) ==
    /\ lwPc \in {"jobs", "gallery"} /\ LwInHand(t)
    /\ markPollFailure
    /\ IF lwStatus[t] = "dispatching" THEN LwRequeue(t) ELSE UNCHANGED lwRow
    /\ LwReturn
    /\ UNCHANGED <<lwSvc, lwFaults>>

(* The submission: refused, accepted, or of unknown fate.  A job whose call
   failed may exist now, come up later, or never.                            *)
Submit(t) ==
    /\ lwPc = "submit" /\ LwInHand(t) /\ lwSubmits[t] < LwMaxSubmits
    /\ lwSubmits' = [lwSubmits EXCEPT ![t] = @ + 1]
    /\ LET j == <<t, lwSubmits[t] + 1>>
       IN  \/ LwGoto("fail") /\ UNCHANGED <<lwJob, lwFaults>>     \* upstream_rejected
           \/ LwGoto("listed") /\ lwJob' = [lwJob EXCEPT ![j] = "active"] /\ UNCHANGED lwFaults
           \/ \E s \in {"none", "active"} :
                 LwGoto("unknown") /\ lwJob' = [lwJob EXCEPT ![j] = s] /\ UNCHANGED lwFaults
           \/ /\ LwFault
              /\ LwGoto("unknown") /\ lwJob' = [lwJob EXCEPT ![j] = "late"]
    /\ UNCHANGED <<lwRow, lwNode, lwLocal>>

(* After the call: exactly one new job is bound, none or an unreadable list
   leaves the task to reconciliation, several are ambiguous.                 *)
AfterSubmit(t) ==
    /\ lwPc \in {"listed", "unknown"} /\ LwInHand(t)
    /\ \/ /\ lwPc = "listed" /\ Cardinality(newJobs) = 1
          /\ \E j \in newJobs :
                IF lwStatus[t] = "dispatching"
                THEN BindUpstreamJob(t, j) /\ LwGoto("poll") /\ UNCHANGED lwLocal
                ELSE LwReturn /\ UNCHANGED lwRow
       \/ /\ lwPc = "listed" /\ Cardinality(newJobs) > 1
          /\ LwGoto("fail") /\ LwForget /\ UNCHANGED lwRow
       \/ IF LwMovable(t)                \* unknown, no new job, or no list
          THEN MarkReconciling(t) /\ LwGoto("poll") /\ UNCHANGED lwLocal
          ELSE LwReturn /\ UNCHANGED lwRow
    /\ UNCHANGED <<lwSvc, lwNode, lwFaults>>
-----------------------------------------------------------------------------
(* ProcessOne, a task found active: resume. *)

Resume(t) ==
    /\ lwPc = "idle" /\ LwInHand(t)
    /\ IF lwStatus[t] = "cancelling"
       THEN LwGoto("cancel") /\ UNCHANGED <<lwRow, lwNode>>
       ELSE IF NothingSubmitted /\ lwStatus[t] = "dispatching"
       THEN LwRequeue(t) /\ markFinished /\ LwGoto("idle")
       ELSE MarkReconciling(t) /\ LwGoto("poll") /\ UNCHANGED lwNode
    /\ UNCHANGED <<lwSvc, lwLocal, lwFaults>>

(* One round of poll: the row, then the gallery.                             *)
PollGallery(t) ==
    /\ lwPc = "poll" /\ LwInHand(t)
    /\ IF lwStatus[t] = "cancelling"
       THEN LwGoto("cancel") /\ UNCHANGED <<lwNode, lwLocal>>
       ELSE /\ mergeObservation
            /\ LET new == Cardinality(GalleryURLs \ lwGallery)
               IN \/ new > 1 /\ LwGoto("fail") /\ LwForget
                  \/ /\ new <= 1 /\ LwGoto(IF new = 1 THEN "succeed" ELSE "job")
                     /\ lwSeen' = [gallery |-> GalleryURLs, idle |-> activeJobs = {}]
                     /\ UNCHANGED <<lwMissing, lwKill>>
    /\ UNCHANGED <<lwRow, lwSvc, lwFaults>>

PollFails(t) ==
    /\ lwPc = "poll" /\ LwInHand(t) /\ lwStatus[t] # "cancelling"
    /\ markPollFailure
    /\ MarkReconciling(t)
    /\ LwGoto(IF lwOver THEN "timeout" ELSE "poll")
    /\ UNCHANGED <<lwSvc, lwLocal, lwFaults>>

(* The rest of the round when the gallery shows nothing new.                 *)
MNextRoundForever == LwGoto("poll") /\ lwSeen' = LwNothingSeen
LwNextRound == LwGoto(IF lwOver THEN "timeout" ELSE "poll") /\ lwSeen' = LwNothingSeen

FindJob(t) ==
    /\ lwPc = "job" /\ LwInHand(t) /\ lwBound = LwNoJob
    /\ LET created == newJobs
       IN \/ created = {} /\ lwSeen.idle /\ LwGoto("retry")
             /\ UNCHANGED <<lwRow, lwLocal>>
          \/ created = {} /\ ~lwSeen.idle /\ LwNextRound
             /\ UNCHANGED <<lwRow, lwMissing, lwKill>>
          \/ \E j \in created : Cardinality(created) = 1 /\
                IF lwStatus[t] \in {"dispatching", "reconciling"}
                THEN BindUpstreamJob(t, j) /\ LwNextRound /\ UNCHANGED <<lwMissing, lwKill>>
                ELSE LwReturn /\ UNCHANGED lwRow
          \/ Cardinality(created) > 1 /\ LwGoto("fail") /\ LwForget /\ UNCHANGED lwRow
    /\ UNCHANGED <<lwSvc, lwNode, lwFaults>>

CheckJob(t) ==
    /\ lwPc = "job" /\ LwInHand(t) /\ lwBound # LwNoJob
    /\ LET s == lwJob[lwBound]
       IN \/ s \in {"none", "forgotten"} /\ LwGoto("retry") /\ UNCHANGED lwLocal
          \/ s = "stopped" /\ LwGoto("fail") /\ LwForget
          \/ s \in {"made", "done"} /\ lwMissing = 2 /\ LwGoto("fail") /\ LwForget
          \/ s \in {"made", "done"} /\ lwMissing < 2 /\ lwMissing' = lwMissing + 1
             /\ LwNextRound /\ UNCHANGED lwKill
          \/ s \in LwRunning /\ lwMissing' = 0 /\ LwNextRound /\ UNCHANGED lwKill
    /\ UNCHANGED <<lwRow, lwSvc, lwNode, lwFaults>>

(* The jobs API does not answer: markReconciling is silent about a conflict. *)
JobCallFails(t) ==
    /\ lwPc = "job" /\ LwInHand(t)
    /\ markPollFailure
    /\ IF LwMovable(t) THEN MarkReconciling(t) ELSE UNCHANGED lwRow
    /\ LwNextRound
    /\ UNCHANGED <<lwSvc, lwMissing, lwKill, lwFaults>>
-----------------------------------------------------------------------------
(* The ends of a round. *)

(* timeout: the job is cancelled; a job unknown or out of reach blocks the
   node until the collector has seen it idle.                                *)
Timeout(t) ==
    /\ lwPc = "timeout" /\ LwInHand(t)
    /\ IF lwBound = LwNoJob THEN blockScheduling /\ UNCHANGED lwJob
       ELSE \/ CancelJob(lwBound) /\ UNCHANGED lwNode
            \/ blockScheduling /\ UNCHANGED lwJob
    /\ LwGoto("fail")
    /\ UNCHANGED <<lwRow, lwSubmits, lwLocal, lwFaults>>

(* retryOrFail: once; any trouble before BeginRetry ends the round.          *)
RetryOrFail(t) ==
    /\ lwPc = "retry" /\ LwInHand(t)
    /\ IF lwRetries >= 1 THEN LwGoto("fail") /\ LwForget /\ UNCHANGED lwRow
       ELSE \/ BeginRetry(t) /\ LwGoto("submit") /\ LwForget
            \/ lwStatus[t] = "cancelling" /\ LwReturn /\ UNCHANGED lwRow
    /\ UNCHANGED <<lwSvc, lwNode, lwFaults>>

RetryCallFails(t) ==
    /\ lwPc = "retry" /\ LwInHand(t) /\ lwRetries = 0
    /\ LwReturn
    /\ UNCHANGED <<lwRow, lwSvc, lwNode, lwFaults>>

MarkSucceeded(t) ==
    /\ lwPc = "succeed" /\ LwInHand(t)
    /\ IF LwMovable(t)
       THEN /\ \E j \in lwSeen.gallery \ lwGallery : lwResult' = [lwResult EXCEPT ![t] = j]
            /\ LwSet(t, "succeeded") /\ LwClear /\ markFinished
       ELSE UNCHANGED <<lwRow, lwNode>>
    /\ LwReturn
    /\ UNCHANGED <<lwSvc, lwFaults>>

MarkFailed(t) ==
    /\ lwPc = "fail" /\ LwInHand(t)
    /\ IF LwMovable(t)
       THEN LwSet(t, "failed") /\ LwClear /\ markFinished /\ UNCHANGED lwResult
       ELSE UNCHANGED <<lwRow, lwNode>>
    /\ LwReturn
    /\ UNCHANGED <<lwSvc, lwFaults>>

(* cancel: find the job to stop.  The round repeats while the list cannot be
   read or names several; no job at all is taken as unconfirmed.             *)
CancelFind(t) ==
    /\ lwPc = "cancel" /\ LwInHand(t)
    /\ LET found == IF lwBound # LwNoJob THEN {lwBound} ELSE newJobs
       IN  \/ /\ Cardinality(found) = 1
              /\ \E j \in found : lwKill' = j
              /\ LwGoto("kill") /\ UNCHANGED lwNode
           \/ /\ lwBound = LwNoJob /\ (found = {} \/ lwOver)
              /\ blockScheduling /\ LwGoto("finish") /\ UNCHANGED lwKill
    /\ UNCHANGED <<lwRow, lwSvc, lwSeen, lwMissing, lwFaults>>

CancelKill(t) ==
    /\ lwPc = "kill" /\ LwInHand(t)
    /\ \/ CancelJob(lwKill) /\ UNCHANGED lwNode
       \/ lwOver /\ blockScheduling /\ UNCHANGED lwJob
    /\ LwGoto("finish")
    /\ UNCHANGED <<lwRow, lwSubmits, lwLocal, lwFaults>>

FinishCancelled(t) ==
    /\ lwPc = "finish" /\ lwStatus[t] = "cancelling"
    /\ LwSet(t, "cancelled") /\ LwClear /\ markFinished /\ LwReturn
    /\ UNCHANGED <<lwResult, lwSvc, lwFaults>>
-----------------------------------------------------------------------------
(* Everyone else. *)

(* RequestAdminCancel: a queued task ends, an active one is left to its worker. *)
LwAdminCancel(t) ==
    /\ lwStatus[t] \in {"queued", "dispatching", "running", "reconciling"}
    /\ LwSet(t, IF lwStatus[t] = "queued" THEN "cancelled" ELSE "cancelling")
    /\ UNCHANGED <<lwBound, lwBefore, lwGallery, lwRetries, lwResult, lwOver, lwSvc,
                   lwNode, lwPc, lwLocal, lwFaults>>

(* The collector's probe.  A block is lifted only when the node is seen idle. *)
LwProbe(answered) ==
    /\ lwPc = "idle"
    /\ lwNode' =
         IF ~answered THEN IF lwNode = "blocked" THEN "blocked" ELSE "unknown"
         ELSE IF lwNode = "blocked" /\ activeJobs # {} THEN "blocked"
         ELSE IF activeJobs # {} \/ \E t \in LwTasks : LwInHand(t) THEN "busy" ELSE "idle"
    /\ UNCHANGED <<lwRow, lwSvc, lwPc, lwLocal, lwFaults>>

(* Time: the attempt in hand passes the execution timeout.                   *)
LwTimePasses ==
    /\ ~lwOver /\ \E t \in LwTasks : LwInHand(t)
    /\ lwOver' = TRUE
    /\ UNCHANGED <<lwStatus, lwBound, lwBefore, lwGallery, lwRetries, lwResult,
                   lwSvc, lwNode, lwPc, lwLocal, lwFaults>>

(* The private service works, and a submission given up may still come up.   *)
LwServiceStep(j) ==
    /\ \/ lwJob[j] \in LwRunning /\ lwJob' = [lwJob EXCEPT ![j] = "made"]
       \/ lwJob[j] \in LwRunning /\ lwJob' = [lwJob EXCEPT ![j] = "stopped"]
       \/ lwJob[j] = "made" /\ lwJob' = [lwJob EXCEPT ![j] = "done"]
       \/ lwJob[j] = "late" /\ lwJob' = [lwJob EXCEPT ![j] = "tardy"]
    /\ UNCHANGED <<lwRow, lwSubmits, lwNode, lwPc, lwLocal, lwFaults>>

(* A restarted service knows no job; the files of its gallery remain.        *)
LwServiceRestarts ==
    /\ LwFault
    /\ lwJob' = [j \in LwJobs |-> CASE lwJob[j] \in LwRunning \cup {"made", "stopped"} -> "none"
                                    [] lwJob[j] = "done" -> "forgotten"
                                    [] OTHER -> lwJob[j]]
    /\ UNCHANGED <<lwRow, lwSubmits, lwNode, lwPc, lwLocal>>

(* The proxy stops and starts: the rows stay, the cache and the block do not;
   the snapshot of a starting runtime is applying until the first probe.     *)
LwCrash ==
    /\ LwFault
    /\ lwNode' = "unknown"
    /\ LwReturn
    /\ UNCHANGED <<lwRow, lwSvc>>

LwWorkerStep(t) ==
    \/ ClaimNext(t) \/ JobsBaseline(t) \/ GalleryBaseline(t) \/ Submit(t) \/ AfterSubmit(t)
    \/ Resume(t) \/ PollGallery(t) \/ PollFails(t) \/ FindJob(t) \/ CheckJob(t)
    \/ JobCallFails(t) \/ Timeout(t) \/ RetryOrFail(t) \/ MarkSucceeded(t) \/ MarkFailed(t)
    \/ CancelFind(t) \/ CancelKill(t) \/ FinishCancelled(t)

LwNext ==
    \/ \E t \in LwTasks :
          \/ LwWorkerStep(t)
          \/ BaselineFails(t) \/ RetryCallFails(t)
          \/ LwAdminCancel(t)
    \/ \E answered \in BOOLEAN : LwProbe(answered)
    \/ LwTimePasses
    \/ \E j \in LwJobs : LwServiceStep(j)
    \/ LwServiceRestarts
    \/ LwCrash

(* Fairness: the slot keeps calling ProcessOne and a round always goes on or
   returns; time passes.  The service need not answer, except that a listing
   asked for again and again before the retry is answered some time.         *)
LwFairness ==
    /\ WF_lwVars(\E t \in LwTasks : LwWorkerStep(t))
    /\ \A t \in LwTasks : SF_lwVars(RetryOrFail(t))
    /\ WF_lwVars(LwTimePasses)
-----------------------------------------------------------------------------
(* Two tasks never deliver the same video: what one has delivered is in the
   baseline of every later attempt.                                          *)
NoVideoTwice ==
    \A t, u \in LwTasks : lwResult[t] # LwNoJob /\ lwResult[t] = lwResult[u] => t = u

(* A node is not given a new task while a job of a task cancelled on it still
   runs, unless that job came up after its submission had been given up.     *)
QuietAfterCancel ==
    [][\A t \in LwTasks : ClaimNext(t) =>
          \A j \in {i \in LwJobs : lwJob[i] = "active"} : lwStatus[j[1]] # "cancelled"]_lwVars

(* A task in the hands of a worker leaves them, whatever the service does:
   it ends, or goes back to the queue before it was submitted.               *)
ClaimedTaskLeaves ==
    \A t \in LwTasks : LwInHand(t) ~> ~LwInHand(t)

(* What earlier tasks have left at the node is kept apart from the next one:
   its videos by the baseline, its running jobs by the schedule block.       *)
OldJobsKeptApart == []NoVideoTwice /\ QuietAfterCancel

(* No attempt is made unnoticed: a queued task, also one put back by a failed
   baseline or a restart, was never submitted, and the automatic retry happens
   once over the whole life of a task (requeue, RetryOrFail).                *)
SubmissionsCounted ==
    \A t \in LwTasks : lwSubmits[t] <= IF lwStatus[t] = "queued" THEN 0 ELSE 2
=============================================================================
