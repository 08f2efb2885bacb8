--------------------------- MODULE TaskAdmission ---------------------------
(***************************************************************************)
(* How a task enters, waits in and leaves the queue: createRouted of       *)
(* httpapi/v2/create.go, Store.Create with its idempotency keys, limits    *)
(* and protected prefix (store/sqlite/store.go), the directories the input *)
(* spooler writes before the row exists (inputspool/spooler.go), and the   *)
(* claims, cancellations and deletions that move the queue.                *)
(*                                                                         *)
(* A request is named by the task id it draws, so a request and the task   *)
(* it may create share a name.  A store method is one transaction; the     *)
(* spooler's files and the rows are not in one, and a crash may fall       *)
(* between any two steps of a request.                                     *)
(***************************************************************************)
EXTENDS Naturals, Sequences, FiniteSets

CONSTANTS
    TaRequests,      \* create requests
    TaLegacy,        \* rows of an older version that still await a route
    TaOwner,         \* api_key_id of each
    TaIdem,          \* Idempotency-Key of each request, or TaNoKey
    TaProtocol,      \* protocol_version of each
    TaNoKey,
    PerKeyLimit, GlobalLimit, ProtectedSlots,
    TaMaxCrashes, TaMaxRetries   \* bounds

TaTasks == TaRequests \cup TaLegacy
TaKeys  == {<<TaOwner[r], TaIdem[r]>> : r \in {q \in TaRequests : TaIdem[q] # TaNoKey}}
TaKeyOf(r) == <<TaOwner[r], TaIdem[r]>>
TaProtocols == {TaProtocol[t] : t \in TaTasks}

ASSUME TaAssumption ==
    /\ TaRequests \cap TaLegacy = {} /\ IsFiniteSet(TaTasks)
    /\ TaTasks \subseteq DOMAIN TaOwner /\ TaRequests \subseteq DOMAIN TaIdem
    /\ TaTasks \subseteq DOMAIN TaProtocol
    /\ PerKeyLimit \in Nat /\ GlobalLimit \in Nat /\ ProtectedSlots \in Nat
    /\ TaMaxCrashes \in Nat /\ TaMaxRetries \in Nat

VARIABLES
    taStatus,   \* video_tasks.status; "running" also stands for reconciling and
                \* cancelling, "over" for succeeded and cancelled; "deleted" has
                \* deleted_at, "purged" has no row any more
    taQueue,    \* the tasks by queue_seq
    taReady,    \* route_state = 'ready'
    taRecord,   \* idempotency_keys: the task each key names, or TaNoKey
    taLapsed,   \* keys whose record has expired at some time
    taFiles,    \* tasks with rows in task_input_spool_files
    taDir,      \* directories of the spool root
    taPc,       \* where in createRouted a request is
    taCrashes,
    taRetries

taRows == <<taStatus, taQueue, taReady, taRecord, taLapsed, taFiles>>
taVars == <<taRows, taDir, taPc, taCrashes, taRetries>>

TaQueued == {"queued_open", "queued_locked"}
TaUnfinished == TaQueued \cup {"dispatching", "running"}
TaTerminal == {"failed", "over"}
TaInFlight == {"checked", "prepared", "drop"}

(* The legacy rows come from a migration, in some order.                     *)
TaInit ==
    /\ taStatus = [t \in TaTasks |-> IF t \in TaLegacy THEN "queued_open" ELSE "none"]
    /\ taQueue \in {q \in [1..Cardinality(TaLegacy) -> TaLegacy] :
                        \A t \in TaLegacy : \E i \in DOMAIN q : q[i] = t}
    /\ taReady = {}
    /\ taRecord = [k \in TaKeys |-> TaNoKey]
    /\ taLapsed = {}
    /\ taFiles = {}
    /\ taDir = {}
    /\ taPc = [r \in TaRequests |-> "new"]
    /\ taCrashes = 0
    /\ taRetries = 0
-----------------------------------------------------------------------------
(* The queue. *)

(* rebalance: the first ProtectedSlots of the ready queued tasks are locked. *)
TaRanked(status, ready, queue) ==
    SelectSeq(queue, LAMBDA t : t \in ready /\ status[t] \in TaQueued)
TaFirst(status, ready, queue) ==
    LET ranked == TaRanked(status, ready, queue) IN
    {ranked[i] : i \in {n \in DOMAIN ranked : n <= ProtectedSlots}}
rebalance(status, ready, queue) ==
    [t \in TaTasks |->
        IF status[t] \notin TaQueued THEN status[t]
        ELSE IF t \in TaFirst(status, ready, queue) THEN "queued_locked" ELSE "queued_open"]

TaMoved(t, to) == rebalance([taStatus EXCEPT ![t] = to], taReady, taQueue)
TaSet(t, to) == taStatus' = [taStatus EXCEPT ![t] = to]

(* nextEligibleTask, for a node of protocol p.                               *)
nextEligibleTask(t, p) ==
    LET ranked == SelectSeq(TaRanked(taStatus, taReady, taQueue), LAMBDA u : TaProtocol[u] = p)
    IN  ranked # <<>> /\ t = Head(ranked)

TaClaim(t, p) ==
    /\ nextEligibleTask(t, p)
    /\ taStatus' = TaMoved(t, "dispatching")
    /\ UNCHANGED <<taQueue, taReady, taRecord, taLapsed, taFiles, taDir, taPc, taCrashes, taRetries>>

MRequeueUnbalanced(t) == [taStatus EXCEPT ![t] = "queued_open"]
(* Requeue, before anything was submitted, keeps queue_seq.                  *)
Requeued(t) == TaMoved(t, "queued_open")

TaRequeue(t) ==
    /\ taStatus[t] = "dispatching"
    /\ taStatus' = Requeued(t)
    /\ UNCHANGED <<taQueue, taReady, taRecord, taLapsed, taFiles, taDir, taPc, taCrashes, taRetries>>

TaAdvance(t) ==
    /\ \/ taStatus[t] = "dispatching" /\ TaSet(t, "running")
       \/ taStatus[t] \in {"dispatching", "running"} /\ \E s \in TaTerminal : TaSet(t, s)
    /\ UNCHANGED <<taQueue, taReady, taRecord, taLapsed, taFiles, taDir, taPc, taCrashes, taRetries>>

(* An administrator gives a waiting legacy row its protocol.                 *)
BindLegacyTaskRoute(t) ==
    /\ t \notin taReady /\ taStatus[t] \in TaQueued
    /\ taReady' = taReady \cup {t}
    /\ taStatus' = rebalance(taStatus, taReady', taQueue)
    /\ UNCHANGED <<taQueue, taRecord, taLapsed, taFiles, taDir, taPc, taCrashes, taRetries>>

(* CancelOrDelete by the owner: only an open task may be cancelled.          *)
CancelOpen(t) ==
    /\ taStatus[t] = "queued_open"
    /\ taStatus' = TaMoved(t, "over")
    /\ UNCHANGED <<taQueue, taReady, taRecord, taLapsed, taFiles, taDir, taPc, taCrashes, taRetries>>

(* RequestAdminCancel of a queued task, open or locked.                      *)
TaAdminCancel(t) ==
    /\ taStatus[t] \in TaQueued
    /\ taStatus' = TaMoved(t, "over")
    /\ UNCHANGED <<taQueue, taReady, taRecord, taLapsed, taFiles, taDir, taPc, taCrashes, taRetries>>

(* RetryResultUpload takes a failed task back among the unfinished ones.     *)
TaRetryUpload(t) ==
    /\ taStatus[t] = "failed" /\ taRetries < TaMaxRetries
    /\ taRetries' = taRetries + 1
    /\ TaSet(t, "running")
    /\ UNCHANGED <<taQueue, taReady, taRecord, taLapsed, taFiles, taDir, taPc, taCrashes>>

(* The owner's DELETE or the retention worker; the key row stays behind.     *)
TaDelete(t) ==
    /\ taStatus[t] \in TaTerminal
    /\ TaSet(t, "deleted")
    /\ UNCHANGED <<taQueue, taReady, taRecord, taLapsed, taFiles, taDir, taPc, taCrashes, taRetries>>

(* AdminDelete removes the rows, then the handler the directory; a crash or an
   error in between leaves the directory.                                    *)
TaPurge(t, cut) ==
    /\ taStatus[t] \in TaTerminal
    /\ TaSet(t, "purged")
    /\ taRecord' = [k \in TaKeys |-> IF taRecord[k] = t THEN TaNoKey ELSE taRecord[k]]
    /\ taFiles' = taFiles \ {t}
    /\ \/ ~cut /\ taDir' = taDir \ {t} /\ UNCHANGED taCrashes
       \/ cut /\ taCrashes < TaMaxCrashes /\ taCrashes' = taCrashes + 1 /\ UNCHANGED taDir
    /\ UNCHANGED <<taQueue, taReady, taLapsed, taPc, taRetries>>

(* The idempotency record passes its expires_at.                             *)
TaExpire(k) ==
    /\ taRecord[k] # TaNoKey
    /\ taRecord' = [taRecord EXCEPT ![k] = TaNoKey]
    /\ taLapsed' = taLapsed \cup {k}
    /\ UNCHANGED <<taStatus, taQueue, taReady, taFiles, taDir, taPc, taCrashes, taRetries>>
-----------------------------------------------------------------------------
(* createRouted. *)

TaGone(t) == taStatus[t] \in {"deleted", "purged"}
(* FindIdempotentRecord, and the same query inside Create.                   *)
TaHit(r) == TaIdem[r] # TaNoKey /\ taRecord[TaKeyOf(r)] # TaNoKey /\ ~TaGone(taRecord[TaKeyOf(r)])

TaGo(r, pc) == taPc' = [taPc EXCEPT ![r] = pc]

(* Before anything is written: the record answers the request, with its task
   or, when the request hash differs, with a conflict.                       *)
replayRouted(r) ==
    /\ taPc[r] = "new"
    /\ \/ TaHit(r) /\ TaGo(r, "done")
       \/ ~TaHit(r) /\ TaGo(r, "checked")
    /\ UNCHANGED <<taRows, taDir, taCrashes, taRetries>>

(* Routing, profile or callback refuses the request.                         *)
TaRefuse(r) ==
    /\ taPc[r] = "checked"
    /\ TaGo(r, "done")
    /\ UNCHANGED <<taRows, taDir, taCrashes, taRetries>>

\* PrepareRequest leaves a directory with every inline input, or nothing.
TaSpools(r) == {taDir, taDir \cup {r}}

(* Inputs go to the spool directory of the new id, or to object storage, or
   there are none; on an error PrepareRequest removes what it wrote.         *)
prepareRoutedInputs(r) ==
    /\ taPc[r] = "checked"
    /\ taDir' \in TaSpools(r)
    /\ TaGo(r, "prepared")
    /\ UNCHANGED <<taRows, taCrashes, taRetries>>

TaCount(tasks) == Cardinality({t \in tasks : taStatus[t] \in TaUnfinished})
MKeyLimitOffByOne(r) ==
    /\ TaCount({t \in TaTasks : TaOwner[t] = TaOwner[r]}) <= PerKeyLimit
    /\ TaCount(TaTasks) < GlobalLimit
TaRoom(r) ==
    /\ TaCount({t \in TaTasks : TaOwner[t] = TaOwner[r]}) < PerKeyLimit
    /\ TaCount(TaTasks) < GlobalLimit

MTrustReplay(r) == FALSE
(* Create looks the key up again, inside its transaction.                    *)
TaHitInside(r) == TaHit(r)

MKeepCandidate(r) == "done"
(* createRouted drops the directory of a request that created nothing.       *)
TaAfterRefusal(r) == "drop"

CreateReplays(r) ==
    /\ taPc[r] = "prepared" /\ TaHitInside(r)
    /\ TaGo(r, TaAfterRefusal(r))
    /\ UNCHANGED <<taRows, taDir, taCrashes, taRetries>>

(* No node is available, a limit is reached or the route has changed.        *)
CreateRefuses(r) ==
    /\ taPc[r] = "prepared" /\ ~TaHitInside(r)
    /\ TaGo(r, TaAfterRefusal(r))
    /\ UNCHANGED <<taRows, taDir, taCrashes, taRetries>>

CreateInserts(r) ==
    /\ taPc[r] = "prepared" /\ ~TaHitInside(r) /\ TaRoom(r)
    /\ taQueue' = Append(taQueue, r)
    /\ taReady' = taReady \cup {r}
    /\ taStatus' = rebalance([taStatus EXCEPT ![r] = "queued_open"], taReady', taQueue')
    /\ taFiles' = taFiles \cup (taDir \cap {r})
    /\ taRecord' = IF TaIdem[r] = TaNoKey THEN taRecord ELSE [taRecord EXCEPT ![TaKeyOf(r)] = r]
    /\ TaGo(r, "done")
    /\ UNCHANGED <<taLapsed, taDir, taCrashes, taRetries>>

(* PreparedRequest.Cleanup. *)
TaCleanup(r) ==
    /\ taPc[r] = "drop"
    /\ taDir' = taDir \ {r}
    /\ TaGo(r, "done")
    /\ UNCHANGED <<taRows, taCrashes, taRetries>>
-----------------------------------------------------------------------------
(* Restart. *)

MLiveTasksOnly == {t \in TaTasks : taStatus[t] # "none" /\ ~TaGone(t)}
ListInputSpoolTaskIDs == {t \in TaTasks : taStatus[t] # "none" /\ ~TaGone(t)} \cup taFiles

(* The process dies and starts again; of the directories, old are more than
   an hour old, and CleanupOrphans runs before the first request is served.  *)
TaCrash(old) ==
    /\ taCrashes < TaMaxCrashes
    /\ taCrashes' = taCrashes + 1
    /\ taPc' = [r \in TaRequests |-> IF taPc[r] \in TaInFlight THEN "lost" ELSE taPc[r]]
    /\ taDir' = taDir \ (old \ ListInputSpoolTaskIDs)
    /\ UNCHANGED <<taRows, taRetries>>

TaNext ==
    \/ \E r \in TaRequests :
        \/ replayRouted(r) \/ TaRefuse(r) \/ prepareRoutedInputs(r)
        \/ CreateReplays(r) \/ CreateRefuses(r) \/ CreateInserts(r) \/ TaCleanup(r)
    \/ \E t \in TaTasks :
        \/ TaRequeue(t) \/ TaAdvance(t) \/ BindLegacyTaskRoute(t) \/ CancelOpen(t)
        \/ TaAdminCancel(t) \/ TaRetryUpload(t) \/ TaDelete(t)
        \/ \E p \in TaProtocols : TaClaim(t, p)
        \/ \E cut \in BOOLEAN : TaPurge(t, cut)
    \/ \E k \in TaKeys : TaExpire(k)
    \/ \E old \in SUBSET taDir : TaCrash(old)
-----------------------------------------------------------------------------
(* The tasks an owner may no longer cancel are exactly the first
   ProtectedSlots ready ones of the queue, whatever was claimed, requeued,
   cancelled or bound in between: every path that moves the queue rebalances. *)
LockedIsPrefix ==
    \A t \in TaTasks :
        taStatus[t] = "queued_locked" <=> t \in TaFirst(taStatus, taReady, taQueue)

(* A create never takes a key, or the service, above its limit of unfinished
   tasks, however many requests were prepared at the same time.              *)
AdmissionWithinLimits ==
    [][\A r \in TaRequests : taStatus[r] = "none" /\ taStatus'[r] # "none"
            => /\ TaCount({t \in TaTasks : TaOwner[t] = TaOwner[r]})' <= PerKeyLimit
               /\ TaCount(TaTasks)' <= GlobalLimit]_taVars

(* Requests that repeat an Idempotency-Key create one task between them, also
   when they race past replayRouted together, as long as the record has not
   expired and the task is not deleted.                                      *)
OneTaskPerKey ==
    \A r, q \in TaRequests :
        /\ r # q /\ TaIdem[r] # TaNoKey /\ TaKeyOf(r) = TaKeyOf(q) /\ TaKeyOf(r) \notin taLapsed
        /\ taStatus[r] # "none" /\ taStatus[q] # "none"
        => TaGone(r) \/ TaGone(q)

(* The inputs a row refers to are on disk for as long as the row is there: no
   refusal, replay, deletion or start-up clean-up takes them away.           *)
SpooledInputsPresent == taFiles \subseteq taDir

(* A directory belongs to a row, to a request still in hand, or was left by a
   crash; nothing else leaks one.                                            *)
NoDirectoryLeak ==
    \A d \in taDir : d \in taFiles \/ taPc[d] \in TaInFlight \cup {"lost"} \/ taStatus[d] = "purged"

(* createRouted admits exactly what it may: one task for a repeated key, and
   none above a limit, however many requests are between two of its steps.   *)
AdmissionIsExact == []OneTaskPerKey /\ AdmissionWithinLimits

(* The spool's directories and the rows agree, although no transaction holds
   them together: nothing needed is removed, nothing else is left.           *)
SpoolMatchesRows == SpooledInputsPresent /\ NoDirectoryLeak
=============================================================================
