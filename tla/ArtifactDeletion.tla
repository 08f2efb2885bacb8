--------------------------- MODULE ArtifactDeletion ---------------------------
(***************************************************************************)
(* The life and the deletion of the artifacts that nodes hold for tasks:   *)
(*   - artifact_store.go, artifact_location_store.go: the registered copy  *)
(*     and its primary location;                                           *)
(*   - artifact/service.go Migrate: the copy made for a stage that runs on *)
(*     another node, in five steps that no transaction holds together;     *)
(*   - deletion_store.go, cleanup_store.go, cleaner.go: the jobs and items *)
(*     written by an owner's deletion, by expiry and by a confirmed        *)
(*     cleanup, and the retry of a cleanup;                                *)
(*   - cleanup/worker.go: the goroutine that asks nodes to delete;         *)
(*   - httpapi/manager deleteTask and store.go AdminDelete: the physical   *)
(*     deletion by an administrator.                                       *)
(*                                                                         *)
(* One artifact per task.  A copy is <<task, node>>; its row, its deletion *)
(* item and the file on the node share that index, because the row id is   *)
(* derived from artifact and node (orchestrator.go localizeInput).         *)
(***************************************************************************)
EXTENDS Naturals, FiniteSets

CONSTANTS
  DelTasks,        \* tasks
  DelNodes,        \* nodes that speak the node API
  DelHome,         \* the node each task's artifact was produced on
  DelMaxAttempts,  \* cleanup.Worker.MaxAttempts
  DelMaxFaults,    \* bound on crashes of the worker and switches of a node
  DelMaxRetries    \* bound on calls of RetryArtifactCleanup

ASSUME DelAssumption ==
  /\ DelHome \in [DelTasks -> DelNodes]
  /\ DelMaxAttempts \in Nat \ {0}
  /\ DelMaxFaults \in Nat /\ DelMaxRetries \in Nat

Copies == DelTasks \X DelNodes
CleanupJob == "cleanup"
DelJobs == DelTasks \cup {CleanupJob}
DelNoTask == "none"

VARIABLES
  delTask,    \* video_tasks.status: open, ended (terminal), gone (row deleted)
  delMark,    \* video_tasks.deletion_state; "no" while deleted_at IS NULL
  delArt,     \* task_artifacts.state
  delLoc,     \* artifact_locations: state, is_primary, whether node_artifact_id is real
  delDisk,    \* the copies the nodes really hold
  delItem,    \* artifact_deletion_items
  delJob,     \* artifact_deletion_jobs.status
  delMig,     \* the call of Migrate that holds migrationMu
  delWork,    \* the item the cleanup worker holds
  delPurge,   \* the call of manager deleteTask
  delOff,     \* nodes that are disabled
  delFaults, delRetries

delRows == <<delTask, delMark, delArt, delLoc, delItem, delJob>>
delVars == <<delRows, delDisk, delMig, delWork, delPurge, delOff, delFaults, delRetries>>

DelGone == {"deleted", "missing"}
DelSettled == {"deleted", "already_absent", "failed"}
Removed == {"deleted", "already_absent"}
NoLoc == [state |-> "none", primary |-> FALSE, real |-> FALSE]
NoItem == [status |-> "none", att |-> 0, job |-> DelNoTask]
NoMig == [pc |-> "idle", t |-> DelNoTask, to |-> DelNoTask]
NoCopy == <<>>
NoPurge == [pc |-> "idle", t |-> DelNoTask, seen |-> {}, left |-> {}]

Held(t) == {c \in Copies : c[1] = t /\ delLoc[c].state \notin DelGone \cup {"none"}}
ItemsOf(j) == {c \in Copies : delItem[c].job = j}

DelInit ==
  /\ delTask = [t \in DelTasks |-> "open"]
  /\ delMark = [t \in DelTasks |-> "no"]
  /\ delArt = [t \in DelTasks |-> "none"]
  /\ delLoc = [c \in Copies |-> NoLoc]
  /\ delDisk = {}
  /\ delItem = [c \in Copies |-> NoItem]
  /\ delJob = [j \in DelJobs |-> "none"]
  /\ delMig = NoMig
  /\ delWork = NoCopy
  /\ delPurge = NoPurge
  /\ delOff = {}
  /\ delFaults = 0
  /\ delRetries = 0

(***************************************************************************)
(* Registration and migration.                                             *)
(***************************************************************************)
\* registerStageOutputWithConn: the artifact and its primary row, for a task
\* that is not deleted.  The node has the file already.
RegisterStageOutput(t) ==
  LET c == <<t, DelHome[t]>> IN
  /\ delTask[t] = "open" /\ delMark[t] = "no" /\ delArt[t] = "none"
  /\ delArt' = [delArt EXCEPT ![t] = "active"]
  /\ delLoc' = [delLoc EXCEPT ![c] = [state |-> "active", primary |-> TRUE, real |-> TRUE]]
  /\ delDisk' = delDisk \cup {c}
  /\ UNCHANGED <<delTask, delMark, delItem, delJob, delMig, delWork,
                 delPurge, delOff, delFaults, delRetries>>

\* The task reaches a terminal status.  A cancellation reaches it there while
\* a slot is inside Migrate: no attempt exists yet, so no barrier is written.
DelTaskEnds(t) ==
  /\ delTask[t] = "open"
  /\ delTask' = [delTask EXCEPT ![t] = "ended"]
  /\ UNCHANGED <<delMark, delArt, delLoc, delItem, delJob, delDisk, delMig,
                 delWork, delPurge, delOff, delFaults, delRetries>>

Primary(t) == {c \in Copies : c[1] = t /\ delLoc[c].state = "active" /\ delLoc[c].primary}

\* localizeInput and the first reads of Migrate: no active row on this node,
\* an active artifact, a primary source with the file, both nodes enabled.
MigrateBegin(t, n) ==
  /\ delMig.pc = "idle"
  /\ delTask[t] = "open" /\ delArt[t] = "active"
  /\ delLoc[<<t, n>>].state # "active"
  /\ \E c \in Primary(t) : c \in delDisk /\ c[2] # n /\ c[2] \notin delOff
  /\ n \notin delOff
  /\ delMig' = [pc |-> "row", t |-> t, to |-> n]
  /\ UNCHANGED <<delRows, delDisk, delWork, delPurge, delOff, delFaults, delRetries>>

\* The row "importing" with a placeholder for node_artifact_id, unless the
\* row is there from an earlier try (its state is not looked at).  Only a
\* foreign key, the artifact's row, stands in the way of the INSERT.
MigrateRow ==
  LET c == <<delMig.t, delMig.to>> IN
  /\ delMig.pc = "row"
  /\ delArt[delMig.t] # "none"
  /\ delLoc' = IF delLoc[c].state = "none"
               THEN [delLoc EXCEPT ![c] = [state |-> "importing", primary |-> FALSE, real |-> FALSE]]
               ELSE delLoc
  /\ delMig' = [delMig EXCEPT !.pc = "import"]
  /\ UNCHANGED <<delTask, delMark, delArt, delItem, delJob, delDisk, delWork,
                 delPurge, delOff, delFaults, delRetries>>

\* The stream from the source to the target.  The target keeps the file; the
\* operation id makes a repeated import find the same file.
MigrateImport ==
  LET c == <<delMig.t, delMig.to>> IN
  /\ delMig.pc = "import"
  /\ \E s \in delDisk : s[1] = delMig.t /\ s # c
  /\ delDisk' = delDisk \cup {c}
  /\ delMig' = [delMig EXCEPT !.pc = "update"]
  /\ UNCHANGED <<delRows, delWork, delPurge, delOff, delFaults, delRetries>>

\* UpdateImportingArtifactLocation: the real id, only while the row is still
\* importing (or active with that very id).
MigrateUpdate ==
  LET c == <<delMig.t, delMig.to>> IN
  /\ delMig.pc = "update"
  /\ delLoc[c].state = "importing" \/ (delLoc[c].state = "active" /\ delLoc[c].real)
  /\ delLoc' = [delLoc EXCEPT ![c].real = TRUE]
  /\ delMig' = [delMig EXCEPT !.pc = "activate"]
  /\ UNCHANGED <<delTask, delMark, delArt, delItem, delJob, delDisk, delWork,
                 delPurge, delOff, delFaults, delRetries>>

MActivateKeepsOldPrimary(t, c) ==
  [delLoc EXCEPT ![c] = [state |-> "active", primary |-> TRUE, real |-> delLoc[c].real]]

\* The rows after ActivatePrimaryArtifactLocation: every other row of the
\* artifact loses is_primary, this one becomes active and primary.
ActivatedRows(t, c) ==
  [d \in Copies |-> IF d = c THEN [state |-> "active", primary |-> TRUE, real |-> delLoc[c].real]
                    ELSE IF d[1] = t THEN [delLoc[d] EXCEPT !.primary = FALSE] ELSE delLoc[d]]

MigrateActivate ==
  LET c == <<delMig.t, delMig.to>> IN
  /\ delMig.pc = "activate"
  /\ delArt[delMig.t] = "active"
  /\ delLoc[c].state \in {"importing", "active"}
  /\ delLoc' = ActivatedRows(delMig.t, c)
  /\ delMig' = NoMig
  /\ UNCHANGED <<delTask, delMark, delArt, delItem, delJob, delDisk, delWork,
                 delPurge, delOff, delFaults, delRetries>>

\* Any read, request or guarded write that fails, and a restart: Migrate
\* returns and leaves behind what it has done so far.
MigrateGiveUp ==
  /\ delMig.pc # "idle"
  /\ delMig' = NoMig
  /\ UNCHANGED <<delRows, delDisk, delWork, delPurge, delOff, delFaults, delRetries>>

(***************************************************************************)
(* The three ways to ask for deletion.                                     *)
(***************************************************************************)
\* MarkTaskDeletion: every row that is not gone gets an item, also one that
\* is still importing.
MarkTaskDeletion(t) ==
  /\ delTask[t] # "gone" /\ delMark[t] = "no"
  /\ delMark' = [delMark EXCEPT ![t] = IF Held(t) = {} THEN "deleted" ELSE "pending"]
  /\ delJob' = [delJob EXCEPT ![t] = IF Held(t) = {} THEN "succeeded" ELSE "pending"]
  /\ delItem' = [c \in Copies |-> IF c \in Held(t) THEN [NoItem EXCEPT !.status = "pending", !.job = t]
                                  ELSE delItem[c]]
  /\ delLoc' = [c \in Copies |-> IF c \in Held(t)
                                 THEN [delLoc[c] EXCEPT !.state = "delete_pending", !.primary = FALSE]
                                 ELSE delLoc[c]]
  /\ delArt' = [delArt EXCEPT ![t] = IF @ = "active" THEN "delete_pending" ELSE @]
  /\ UNCHANGED <<delTask, delDisk, delMig, delWork, delPurge, delOff,
                 delFaults, delRetries>>

\* RequestOwnedTaskDeletion and CancelOrDelete: the owner deletes a terminal task.
RequestOwnedTaskDeletion(t) == delTask[t] = "ended" /\ MarkTaskDeletion(t)

\* CleanupExpired, one task of its batch: terminal and past expires_at.
CleanupExpired(t) == delTask[t] = "ended" /\ MarkTaskDeletion(t)

\* cleanupCandidates: the active rows of active artifacts of ended tasks.
cleanupCandidates ==
  {c \in Copies : /\ delTask[c[1]] = "ended" /\ delMark[c[1]] = "no"
                  /\ delArt[c[1]] = "active" /\ delLoc[c].state = "active"}

\* ConfirmArtifactCleanup of a previewed cleanup.  The preview row keeps count,
\* bytes and digest of the candidates it showed, and the confirmation goes on
\* only when the candidates, computed again, are those: so the items are the
\* candidates of this moment, and a stale preview changes nothing.
ConfirmArtifactCleanup ==
  LET S == cleanupCandidates
      T == {c[1] : c \in S} IN
  /\ delJob[CleanupJob] = "none" /\ S # {}
  /\ delJob' = [delJob EXCEPT ![CleanupJob] = "pending"]
  /\ delItem' = [c \in Copies |-> IF c \in S THEN [NoItem EXCEPT !.status = "pending", !.job = CleanupJob]
                                  ELSE delItem[c]]
  /\ delLoc' = [c \in Copies |-> IF c \in S
                                 THEN [delLoc[c] EXCEPT !.state = "delete_pending", !.primary = FALSE]
                                 ELSE delLoc[c]]
  /\ delArt' = [t \in DelTasks |-> IF t \in T THEN "delete_pending" ELSE delArt[t]]
  /\ delMark' = [t \in DelTasks |-> IF t \in T THEN "pending" ELSE delMark[t]]
  /\ UNCHANGED <<delTask, delDisk, delMig, delWork, delPurge, delOff, delFaults, delRetries>>

\* RetryArtifactCleanup: the failed items of a job (of one node, or of all)
\* become pending; attempt_count and the tasks' deletion_state stay.
RetryArtifactCleanup(j, N) ==
  LET S == {c \in ItemsOf(j) : delItem[c].status = "failed" /\ c[2] \in N} IN
  /\ delRetries < DelMaxRetries
  /\ S # {}
  /\ delItem' = [c \in Copies |-> IF c \in S THEN [delItem[c] EXCEPT !.status = "pending"]
                                  ELSE delItem[c]]
  /\ delLoc' = [c \in Copies |-> IF c \in ItemsOf(j) /\ (c \in S \/ delItem[c].status = "pending")
                                 THEN [delLoc[c] EXCEPT !.state = "delete_pending"] ELSE delLoc[c]]
  /\ delJob' = [delJob EXCEPT ![j] = "pending"]
  /\ delRetries' = delRetries + 1
  /\ UNCHANGED <<delTask, delMark, delArt, delDisk, delMig, delWork, delPurge,
                 delOff, delFaults>>

(***************************************************************************)
(* The cleanup worker.                                                     *)
(***************************************************************************)
MClaimSkipsDeleting(c) ==
  /\ delItem[c].status \in {"pending", "retry_wait"}
  /\ delItem' = [delItem EXCEPT ![c].status = "deleting",
                                ![c].att = IF @ < DelMaxAttempts THEN @ + 1 ELSE @]
  /\ delLoc' = [delLoc EXCEPT ![c].state = "deleting"]
  /\ delJob' = [delJob EXCEPT ![delItem[c].job] = IF @ = "pending" THEN "running" ELSE @]
  /\ delWork' = c
  /\ UNCHANGED <<delTask, delMark, delArt, delDisk, delMig, delPurge, delOff, delFaults, delRetries>>

\* ClaimDeletionItem: an item that is open and not under a live lease.  The only holder of leases is this
\* worker, so an item it finds "deleting" is one whose lease, from before a
\* restart, has run out.  attempt_count counts no further than the comparison
\* with MaxAttempts needs.
ClaimDeletionItem(c) ==
  /\ delItem[c].status \in {"pending", "retry_wait", "deleting"}
  /\ delItem' = [delItem EXCEPT ![c].status = "deleting",
                                ![c].att = IF @ < DelMaxAttempts THEN @ + 1 ELSE @]
  /\ delLoc' = IF delLoc[c].state \in {"active", "delete_pending", "delete_failed", "deleting"}
               THEN [delLoc EXCEPT ![c].state = "deleting"] ELSE delLoc
  /\ delJob' = [delJob EXCEPT ![delItem[c].job] = IF @ = "pending" THEN "running" ELSE @]
  /\ delWork' = c
  /\ UNCHANGED <<delTask, delMark, delArt, delDisk, delMig, delPurge, delOff,
                 delFaults, delRetries>>

\* Worker.Run and runOnce: idle, it claims for each node that is enabled.
WorkerClaims(c) == delWork = NoCopy /\ c[2] \notin delOff /\ ClaimDeletionItem(c)

\* The request names the node_artifact_id that the row has now; a placeholder
\* names no file.
Named(c) == c \in delDisk /\ delLoc[c].real

MJobIgnoresOpen(j, I) ==
  LET mine == {c \in Copies : I[c].job = j}
      failed == {c \in mine : I[c].status = "failed"} IN
  IF failed = {} THEN "succeeded" ELSE IF failed = mine THEN "failed" ELSE "partial_failed"

MJobSaysPartial(j, I) ==
  LET mine == {c \in Copies : I[c].job = j}
      open == {c \in mine : I[c].status \notin DelSettled}
      failed == {c \in mine : I[c].status = "failed"} IN
  IF open # {} THEN "running"
  ELSE IF failed = {} THEN "succeeded"
  ELSE IF failed = mine THEN "failed" ELSE "partial"

\* The status CompleteDeletionItem and FailDeletionItem compute for a job
\* whose items are I.
JobStatus(j, I) ==
  LET mine == {c \in Copies : I[c].job = j}
      open == {c \in mine : I[c].status \notin DelSettled}
      failed == {c \in mine : I[c].status = "failed"} IN
  IF open # {} THEN "running"
  ELSE IF failed = {} THEN "succeeded"
  ELSE IF failed = mine THEN "failed" ELSE "partial_failed"

MMarkDeletedWithJob(t, I, L) ==
  IF JobStatus(delItem[delWork].job, I) = "running" THEN "pending" ELSE "deleted"

MMarkForgetsFailures(t, I, L) ==
  IF \A c \in Copies : c[1] = t => L[c].state \in DelGone \cup {"none"} THEN "deleted" ELSE "pending"

\* deletion_state as CompleteDeletionItem derives it from the task's rows L
\* and items I.
MarkAfterRemoval(t, I, L) ==
  IF \A c \in Copies : c[1] = t => L[c].state \in DelGone \cup {"none"} THEN "deleted"
  ELSE IF \E c \in Copies : c[1] = t /\ I[c].status = "failed" THEN "partial"
  ELSE "pending"

\* process, when the node says deleted or already_absent.
CompleteDeletionItem ==
  LET c == delWork
      t == c[1]
      I == [delItem EXCEPT ![c].status = IF Named(c) THEN "deleted" ELSE "already_absent"]
      L == [delLoc EXCEPT ![c].state = IF Named(c) THEN "deleted" ELSE "missing", ![c].primary = FALSE] IN
  /\ delWork # NoCopy
  /\ delDisk' = IF Named(c) THEN delDisk \ {c} ELSE delDisk
  /\ delItem' = I
  /\ delLoc' = L
  /\ delArt' = [delArt EXCEPT ![t] = IF \A n \in DelNodes : L[<<t, n>>].state \in DelGone \cup {"none"}
                                     THEN "deleted" ELSE @]
  /\ delJob' = [delJob EXCEPT ![delItem[c].job] = JobStatus(delItem[c].job, I)]
  /\ delMark' = [delMark EXCEPT ![t] = MarkAfterRemoval(t, I, L)]
  /\ delWork' = NoCopy
  /\ UNCHANGED <<delTask, delMig, delPurge, delOff, delFaults, delRetries>>

\* Worker.fail: a refusal (401, 403, no key) is terminal, another error is when
\* the attempts are used up.
DelTerminal(c, refused) == refused \/ delItem[c].att >= DelMaxAttempts

\* process, on an error.  The error may be a lost answer: the
\* node may have deleted the file.
FailDeletionItem(refused) ==
  LET c == delWork
      I == [delItem EXCEPT ![c].status = IF DelTerminal(c, refused) THEN "failed" ELSE "retry_wait"]
      status == JobStatus(delItem[c].job, I) IN
  /\ delWork # NoCopy
  /\ delDisk' \in {delDisk} \cup (IF Named(c) /\ ~refused THEN {delDisk \ {c}} ELSE {})
  /\ delItem' = I
  /\ delLoc' = [delLoc EXCEPT ![c].state = "delete_failed"]
  /\ delJob' = [delJob EXCEPT ![delItem[c].job] = status]
  /\ delMark' = [delMark EXCEPT ![c[1]] = IF status = "failed" THEN "failed"
                                          ELSE IF status = "partial_failed" THEN "partial" ELSE "pending"]
  /\ delWork' = NoCopy
  /\ UNCHANGED <<delTask, delArt, delMig, delPurge, delOff, delFaults, delRetries>>

\* The process stops (run returns without waiting for the worker) and starts
\* again, before or after the node has acted.
WorkerCrash ==
  /\ delFaults < DelMaxFaults
  /\ delWork # NoCopy
  /\ delDisk' \in {delDisk} \cup (IF Named(delWork) THEN {delDisk \ {delWork}} ELSE {})
  /\ delWork' = NoCopy
  /\ delMig' = NoMig
  /\ delPurge' = NoPurge
  /\ delFaults' = delFaults + 1
  /\ UNCHANGED <<delRows, delOff, delRetries>>

\* An administrator disables a node, or enables it again.
SwitchNode(n) ==
  /\ delFaults < DelMaxFaults
  /\ delOff' = IF n \in delOff THEN delOff \ {n} ELSE delOff \cup {n}
  /\ delFaults' = delFaults + 1
  /\ UNCHANGED <<delRows, delDisk, delMig, delWork, delPurge, delRetries>>

(***************************************************************************)
(* The administrator's physical deletion.                                  *)
(***************************************************************************)
\* EnsureTaskPurgeReady and ListTaskArtifactLocations.
PurgeBegin(t) ==
  /\ delPurge.pc = "idle"
  /\ delTask[t] = "ended" /\ delMark[t] = "no"
  /\ delPurge' = [pc |-> "deleting", t |-> t, left |-> Held(t),
                  seen |-> {<<c, delLoc[c].state, delLoc[c].real>> : c \in Held(t)}]
  /\ UNCHANGED <<delRows, delDisk, delMig, delWork, delOff, delFaults, delRetries>>

\* deleteRemoteTaskArtifacts, one row of its list: the node deletes the file
\* the row named when it was listed, or has no such file.  A disabled node is
\* asked too.
PurgeOne(c) ==
  /\ delPurge.pc = "deleting" /\ c \in delPurge.left
  /\ delDisk' = IF \E s \in delPurge.seen : s[1] = c /\ s[3] THEN delDisk \ {c} ELSE delDisk
  /\ delPurge' = [delPurge EXCEPT !.left = @ \ {c}]
  /\ UNCHANGED <<delRows, delMig, delWork, delOff, delFaults, delRetries>>

\* A node that cannot be reached or refuses: 503, with every row kept, also
\* the rows of files that are gone by now.
PurgeGiveUp ==
  /\ delPurge.pc = "deleting" /\ delPurge.left # {}
  /\ delPurge' = NoPurge
  /\ UNCHANGED <<delRows, delDisk, delMig, delWork, delOff, delFaults, delRetries>>

MNoRecheck(t) == TRUE

\* sameTaskArtifactLocations: the rows are still the ones that were deleted.
sameTaskArtifactLocations(t) ==
  delPurge.seen = {<<c, delLoc[c].state, delLoc[c].real>> : c \in Held(t)}

\* AdminDelete: with the rows unchanged and the task not deleted meanwhile,
\* everything about the task is removed; otherwise nothing is.
AdminDelete ==
  LET t == delPurge.t IN
  /\ delPurge.pc = "deleting" /\ delPurge.left = {}
  /\ IF delTask[t] = "ended" /\ delMark[t] = "no" /\ sameTaskArtifactLocations(t)
     THEN /\ delTask' = [delTask EXCEPT ![t] = "gone"]
          /\ delArt' = [delArt EXCEPT ![t] = "none"]
          /\ delLoc' = [c \in Copies |-> IF c[1] = t THEN NoLoc ELSE delLoc[c]]
     ELSE UNCHANGED <<delTask, delArt, delLoc>>
  /\ delPurge' = NoPurge
  /\ UNCHANGED <<delMark, delItem, delJob, delDisk, delMig, delWork, delOff,
                 delFaults, delRetries>>

DelNext ==
  \/ \E t \in DelTasks : \/ RegisterStageOutput(t) \/ DelTaskEnds(t)
                         \/ RequestOwnedTaskDeletion(t) \/ CleanupExpired(t)
                         \/ PurgeBegin(t)
                         \/ \E n \in DelNodes : MigrateBegin(t, n)
  \/ MigrateRow \/ MigrateImport \/ MigrateUpdate \/ MigrateActivate \/ MigrateGiveUp
  \/ ConfirmArtifactCleanup
  \/ \E j \in DelJobs, N \in {DelNodes} \cup {{n} : n \in DelNodes} : RetryArtifactCleanup(j, N)
  \/ \E c \in Copies : WorkerClaims(c) \/ PurgeOne(c)
  \/ CompleteDeletionItem \/ WorkerCrash \/ \E refused \in BOOLEAN : FailDeletionItem(refused)
  \/ \E n \in DelNodes : SwitchNode(n)
  \/ PurgeGiveUp \/ AdminDelete

\* The worker loops, and a call it made ends one way or the other.
DelFairness ==
  /\ WF_delVars(\E c \in Copies : WorkerClaims(c))
  /\ WF_delVars(CompleteDeletionItem \/ \E r \in BOOLEAN : FailDeletionItem(r))

(***************************************************************************)
(* Properties.                                                             *)
(***************************************************************************)
\* The domains of the rows and of the three callers.
DelTypeOK ==
  /\ delTask \in [DelTasks -> {"open", "ended", "gone"}]
  /\ delMark \in [DelTasks -> {"no", "pending", "deleted", "failed", "partial"}]
  /\ delArt \in [DelTasks -> {"none", "active", "delete_pending", "deleted"}]
  /\ delLoc \in [Copies -> [state : {"none", "importing", "active", "delete_pending", "deleting",
                                     "delete_failed", "deleted", "missing"},
                            primary : BOOLEAN, real : BOOLEAN]]
  /\ delDisk \subseteq Copies
  /\ delItem \in [Copies -> [status : DelSettled \cup {"none", "pending", "retry_wait", "deleting"},
                             att : 0..DelMaxAttempts, job : DelJobs \cup {DelNoTask}]]
  /\ delJob \in [DelJobs -> {"none", "pending", "running", "succeeded",
                             "partial_failed", "failed"}]

\* A task whose artifact is active has exactly one primary row, and it is an
\* active one: Migrate moves the primary in one transaction, whatever is
\* deleted, purged or given up around it.
OnePrimary ==
  \A t \in DelTasks :
    delArt[t] = "active" =>
      /\ Cardinality({c \in Copies : c[1] = t /\ delLoc[c].primary}) = 1
      /\ Cardinality(Primary(t)) = 1

\* A deletion job says it is over exactly when none of its items is open, and
\* says "succeeded" only when every item of it was removed: through lost
\* answers, crashes, expired leases and retries of the failed items.
JobTellsItems ==
  \A j \in DelJobs :
    /\ delJob[j] \in {"succeeded", "partial_failed", "failed"} =>
         \A c \in ItemsOf(j) : delItem[c].status \in DelSettled
    /\ delJob[j] = "succeeded" => \A c \in ItemsOf(j) : delItem[c].status \in Removed
    /\ delJob[j] \in {"pending", "running"} =>
         \E c \in ItemsOf(j) : delItem[c].status \notin DelSettled

\* The file a task's artifact was registered with is on its node for as long
\* as some row still says so: neither "deleted" in deletion_state nor the
\* removal of the task's rows comes before the node has deleted it.
RegisteredCopyIsTracked ==
  \A t \in DelTasks :
    <<t, DelHome[t]>> \in delDisk => delMark[t] # "deleted" /\ delTask[t] # "gone"

\* The row of an active copy is not removed while the node still has the file:
\* AdminDelete compares the rows with the list whose files were deleted, so a
\* copy that a migration activates in between is not forgotten.
NoLiveRowDropped ==
  [][\A c \in Copies : delLoc[c].state = "active" /\ c \in delDisk => delLoc'[c].state # "none"]_delVars

\* When the job of a task's own deletion is over, deletion_state agrees with
\* it, unless a migration has left an importing row that no item covers.
MarkTellsJob ==
  \A t \in DelTasks :
    (\A n \in DelNodes : delLoc[<<t, n>>].state # "importing") =>
      /\ delJob[t] = "succeeded" => delMark[t] = "deleted"
      /\ delJob[t] = "partial_failed" => delMark[t] = "partial"
      /\ delJob[t] = "failed" => delMark[t] = "failed"

\* A deletion item, once written, is removed or has failed for good, unless
\* its node is disabled: the worker's attempts are bounded and an item whose
\* holder died is claimed again when the lease has run out.
ItemSettles ==
  \A c \in Copies :
    (delItem[c].status \in {"pending", "retry_wait", "deleting"})
      ~> (delItem[c].status \in DelSettled \/ c[2] \in delOff)

\* What a deletion reports is what has happened, in states the schema knows: the job
\* about its items, and deletion_state about the job (CompleteDeletionItem, FailDeletionItem).
DeletionIsReported == DelTypeOK /\ JobTellsItems /\ MarkTellsJob

\* No file is lost sight of: the registered copy, the one primary, and a copy that
\* a migration adds while AdminDelete is at work (Migrate, AdminDelete).
FilesAreTracked == []RegisteredCopyIsTracked /\ []OnePrimary /\ NoLiveRowDropped
=============================================================================
