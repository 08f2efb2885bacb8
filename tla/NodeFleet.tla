----------------------------- MODULE NodeFleet -----------------------------
(***************************************************************************)
(* The model service nodes: the rows the manager API edits, the registry   *)
(* that reconciles running node runtimes with those rows, the monitor      *)
(* cache every runtime's probe writes, and the scheduler slot with which a *)
(* runtime claims tasks.                                                   *)
(*                                                                         *)
(* A node's row carries a version.  The registry reads all rows, stops the *)
(* runtimes whose version is out of date, waits for each of them, and only *)
(* then starts the new ones.  Until it has done so the old runtime goes on *)
(* claiming with the connection it was started with.                       *)
(*                                                                         *)
(* A connection is abstracted to its URL; whether a save also changes the  *)
(* API key is an argument of the save, because only the store's guard      *)
(* reads it.  One node has one slot; the capacity of official nodes is in  *)
(* OfficialProcessor, a node's cancellation barrier in StageOrchestrator.  *)
(* The handlers read the row, call the node over the network and then save *)
(* under the version they read; a save that meets another version changes  *)
(* nothing, so read and save are one step here.                            *)
(***************************************************************************)
EXTENDS Integers, FiniteSets

CONSTANTS
    NfNodes,        \* node ids
    NfUrls,         \* connections
    NfProtocols,    \* subset of {"h3", "official", "tk2sd"}
    NfMaxVersion,   \* bound: row versions
    NfMaxClaims,    \* bound: tasks dispatched
    NfMaxFaults     \* bound: failed starts and process restarts

ASSUME NfAssumption ==
    /\ NfProtocols \subseteq {"h3", "official", "tk2sd"}
    /\ NfMaxVersion \in Nat \ {0} /\ NfMaxClaims \in Nat /\ NfMaxFaults \in Nat

VARIABLES
    nfRow,      \* model_service_nodes: version 0 is "no such row"
    nfTask,     \* the task at the node and the URL it was sent to
    nfEntry,    \* Registry.entries: the version each entry runs, 0 for none
    nfRun,      \* the node's runtimes whose goroutines have not all returned
    nfCache,    \* monitor.Cache
    nfReg,      \* where Registry.reconcile is
    nfClaims, nfFaults

nfVars == <<nfRow, nfTask, nfEntry, nfRun, nfCache, nfReg, nfClaims, nfFaults>>

NfNoRow == [v |-> 0, on |-> FALSE, gone |-> FALSE, url |-> CHOOSE u \in NfUrls : TRUE,
            proto |-> CHOOSE p \in NfProtocols : TRUE]
NfIdle == [at |-> "idle", stops |-> {}, starts |-> {}]
NfNoTask == [is |-> "none", url |-> CHOOSE u \in NfUrls : TRUE, proto |-> CHOOSE p \in NfProtocols : TRUE]

NfInit ==
    /\ nfRow = [n \in NfNodes |-> NfNoRow]
    /\ nfTask = [n \in NfNodes |-> NfNoTask]
    /\ nfEntry = [n \in NfNodes |-> 0]
    /\ nfRun = [n \in NfNodes |-> {}]
    /\ nfCache = [n \in NfNodes |-> "none"]
    /\ nfReg = NfIdle
    /\ nfClaims = 0 /\ nfFaults = 0

NfListed(n) == nfRow[n].v > 0 /\ ~nfRow[n].gone

-----------------------------------------------------------------------------
(* The manager's saves.  Each wakes the registry; the registry's ticker    *)
(* reconciles at any time anyway, so the wake is not a separate event.     *)

\* What readNodeRequest and normalizeNodeRequest let through.
NfInputs == [url : NfUrls, proto : NfProtocols, on : BOOLEAN]

\* CreateModelNode: an id is never used twice.
CreateModelNode(n, input) ==
    /\ nfRow[n].v = 0
    /\ nfRow' = [nfRow EXCEPT ![n] = [v |-> 1, on |-> input.on, gone |-> FALSE,
                                     url |-> input.url, proto |-> input.proto]]

createNode(n) ==
    /\ \E input \in NfInputs : CreateModelNode(n, input)
    /\ UNCHANGED <<nfTask, nfEntry, nfRun, nfCache, nfReg, nfClaims, nfFaults>>

\* activeTaskCount: a stage that is only leased does not count.
activeTaskCount(n) == IF nfTask[n].is = "active" THEN 1 ELSE 0

MRetainedForgotten(n) == 0
\* retainedRemoteResults: succeeded, not expired, and only the node has the file.
retainedRemoteResults(n) == IF nfTask[n].is = "retained" THEN 1 ELSE 0

\* sameNodeConnection
sameNodeConnection(row, new, rekey) == row.url = new.url /\ row.proto = new.proto /\ ~rekey

\* What UpdateModelNode accepts while a task is at the node.
allowedWhileActive(row, new, rekey) ==
    \/ row.on /\ ~new.on /\ sameNodeConnection(row, new, rekey)
    \/ row.on = new.on /\ sameNodeConnection(row, new, rekey)
    \/ row.proto = "tk2sd" /\ new.proto = "tk2sd" /\ row.url = new.url /\ rekey

\* UpdateModelNode, over the row of the version the administrator saw.
NfUpdateModelNode(n, input, rekey) ==
    LET row == nfRow[n]
        new == [v |-> row.v + 1, on |-> input.on, gone |-> FALSE, url |-> input.url, proto |-> input.proto]
    IN /\ NfListed(n) /\ row.v < NfMaxVersion
       /\ row.proto = "tk2sd" /\ (new.proto # "tk2sd" \/ new.url # row.url)
            => retainedRemoteResults(n) = 0
       /\ activeTaskCount(n) = 0 \/ allowedWhileActive(row, new, rekey)
       /\ nfRow' = [nfRow EXCEPT ![n] = new]

\* updateNode: without a new api_key the stored one is kept.
updateNode(n) ==
    /\ \E input \in NfInputs, rekey \in BOOLEAN : NfUpdateModelNode(n, input, rekey)
    /\ UNCHANGED <<nfTask, nfEntry, nfRun, nfCache, nfReg, nfClaims, nfFaults>>

\* DeleteModelNode: the row stays, disabled, and its id with it.
DeleteModelNode(n) ==
    /\ NfListed(n) /\ ~nfRow[n].on
    /\ activeTaskCount(n) = 0 /\ retainedRemoteResults(n) = 0
    /\ nfRow' = [nfRow EXCEPT ![n] = [v |-> @.v + 1, on |-> FALSE, gone |-> TRUE,
                                     url |-> @.url, proto |-> @.proto]]

deleteNode(n) ==
    /\ DeleteModelNode(n)
    /\ UNCHANGED <<nfTask, nfEntry, nfRun, nfCache, nfReg, nfClaims, nfFaults>>

-----------------------------------------------------------------------------
(* Registry.reconcile *)

\* The entries the rows read no longer ask for.
MOnlyDeleted(n) == nfEntry[n] # 0 /\ ~NfListed(n)
NfOutdated(n) == nfEntry[n] # 0 /\ (~NfListed(n) \/ nfRow[n].v # nfEntry[n])

\* One pass reads the rows and, under the mutex, takes the outdated entries out.
ReconcileReads ==
    /\ nfReg.at = "idle"
    /\ LET stops == {n \in NfNodes : NfOutdated(n)}
           kept == {n \in NfNodes : nfEntry[n] # 0} \ stops
           starts == {n \in NfNodes \ kept : NfListed(n)}
       IN /\ stops \cup starts # {}
          /\ nfReg' = [at |-> "stop",
                       stops |-> {[n |-> n, deleted |-> ~NfListed(n)] : n \in stops},
                       starts |-> {[n |-> n, row |-> nfRow[n]] : n \in starts}]
          /\ nfEntry' = [n \in NfNodes |-> IF n \in stops THEN 0 ELSE nfEntry[n]]
    /\ UNCHANGED <<nfRow, nfTask, nfRun, nfCache, nfClaims, nfFaults>>

\* Runtime.Stop cancels the runtime's context ...
StopCancels(s) ==
    /\ nfReg.at = "stop" /\ s \in nfReg.stops
    /\ \A x \in nfReg.stops : \A r \in nfRun[x.n] : r.live
    /\ nfRun' = [nfRun EXCEPT ![s.n] = {[r EXCEPT !.live = FALSE] : r \in @}]
    /\ UNCHANGED <<nfRow, nfTask, nfEntry, nfCache, nfReg, nfClaims, nfFaults>>

\* ... and waits until the slot and the probe have returned.
NfStopped(runs) == {r \in runs : r.live \/ r.slot # "idle"}
MStopDoesNotWait(runs) == TRUE
NfWaited(runs) == NfStopped(runs) = {}

\* The pass goes on with the next runtime; a deleted node leaves the cache.
StopReturns(s) ==
    /\ nfReg.at = "stop" /\ s \in nfReg.stops
    /\ \A r \in nfRun[s.n] : ~r.live
    /\ NfWaited(nfRun[s.n])
    /\ nfRun' = [nfRun EXCEPT ![s.n] = NfStopped(@)]
    /\ nfCache' = IF s.deleted THEN [nfCache EXCEPT ![s.n] = "none"] ELSE nfCache
    /\ nfReg' = [nfReg EXCEPT !.stops = @ \ {s}]
    /\ UNCHANGED <<nfRow, nfTask, nfEntry, nfClaims, nfFaults>>

StopsDone ==
    /\ nfReg.at = "stop" /\ nfReg.stops = {}
    /\ nfReg' = IF nfReg.starts = {} THEN NfIdle ELSE [nfReg EXCEPT !.at = "start"]
    /\ UNCHANGED <<nfRow, nfTask, nfEntry, nfRun, nfCache, nfClaims, nfFaults>>

NfStarted(s) == LET rest == nfReg.starts \ {s}
                IN IF rest = {} THEN NfIdle ELSE [nfReg EXCEPT !.starts = rest]

\* initializeSnapshot: the node shows as applying until its first probe.
initializeSnapshot(n) == nfCache' = [nfCache EXCEPT ![n] = "applying"]

\* A runtime of the row the pass read, which may be an old one by now.
NfRuntime(s, slot) ==
    [v |-> s.row.v, on |-> s.row.on, url |-> s.row.url, proto |-> s.row.proto,
     live |-> TRUE, slot |-> slot]

\* startNodeAPI and startTK2SD: the slot, or the loop of Resume, will find the task.
startNodeAPI(s) == s.row.proto = "h3" /\ nfRun' = [nfRun EXCEPT ![s.n] = @ \cup {NfRuntime(s, "idle")}]
startTK2SD(s) == s.row.proto = "tk2sd" /\ nfRun' = [nfRun EXCEPT ![s.n] = @ \cup {NfRuntime(s, "idle")}]

\* startOfficialV2 lists the active tasks once and gives each a goroutine.
startOfficialV2(s) ==
    /\ s.row.proto = "official"
    /\ LET active == nfTask[s.n].is = "active" /\ nfTask[s.n].proto = "official"
       IN nfRun' = [nfRun EXCEPT ![s.n] = @ \cup {NfRuntime(s, IF active THEN "work" ELSE "idle")}]

\* NodeRuntimeFactory.Start, and the entry the pass makes of it.
StartRuns(s) ==
    /\ nfReg.at = "start" /\ s \in nfReg.starts
    /\ startNodeAPI(s) \/ startOfficialV2(s) \/ startTK2SD(s)
    /\ initializeSnapshot(s.n)
    /\ nfEntry' = [nfEntry EXCEPT ![s.n] = s.row.v]
    /\ nfReg' = NfStarted(s)
    /\ UNCHANGED <<nfRow, nfTask, nfClaims, nfFaults>>

\* A start that fails (key not decrypted, store not readable) is left to a later pass.
StartFails(s) ==
    /\ nfReg.at = "start" /\ s \in nfReg.starts
    /\ nfFaults < NfMaxFaults
    /\ nfReg' = NfStarted(s)
    /\ nfFaults' = nfFaults + 1
    /\ UNCHANGED <<nfRow, nfTask, nfEntry, nfRun, nfCache, nfClaims>>

\* The process restarts: stopAll's runtimes, the entries and the cache are memory.
NfRestart ==
    /\ nfFaults < NfMaxFaults
    /\ nfFaults' = nfFaults + 1
    /\ nfEntry' = [n \in NfNodes |-> 0]
    /\ nfRun' = [n \in NfNodes |-> {}]
    /\ nfCache' = [n \in NfNodes |-> "none"]
    /\ nfReg' = NfIdle
    /\ UNCHANGED <<nfRow, nfTask, nfClaims>>

-----------------------------------------------------------------------------
(* A runtime: its probe and its slot. *)

NfSlotTo(n, r, at) == nfRun' = [nfRun EXCEPT ![n] = (@ \ {r}) \cup {[r EXCEPT !.slot = at]}]

\* What a probe may find.  A node of the node API is busy with a task of this proxy
\* or with anything else in its own queue; a tk2sd node's load is not looked at here.
probeNodeAPI(n) == IF nfTask[n].is = "active" THEN {"busy", "unhealthy"} ELSE {"idle", "busy", "unhealthy"}
probeOfficial(n) == {IF nfTask[n].is = "active" THEN "busy" ELSE "idle", "unhealthy"}
probeTK2SD(n) == {"idle", "unhealthy"}

\* The probe's verdict.  Cache.Update makes the entry again if it is missing.
NfProbe(n) ==
    /\ \E r \in nfRun[n] :
         \E found \in CASE r.proto = "h3" -> probeNodeAPI(n)
                       [] r.proto = "official" -> probeOfficial(n)
                       [] r.proto = "tk2sd" -> probeTK2SD(n) :
           nfCache' = [nfCache EXCEPT ![n] = found]
    /\ UNCHANGED <<nfRow, nfTask, nfEntry, nfRun, nfReg, nfClaims, nfFaults>>

\* A verdict too old to count is the same as a slot that does not look.
cachedSchedulable(n) == nfCache[n] = "idle"
cachedOfficialSchedulable(n) == nfCache[n] \in {"idle", "busy"}

\* Whatever its health, a node's active task is gone on with: by runSlot, which asks
\* for it first, at a node of the node API, and by the loop of Resume at a tk2sd node.
SlotResumes(n, r) ==
    /\ r.live /\ r.slot = "idle" /\ r.proto # "official"
    /\ activeTaskCount(n) > 0 /\ nfTask[n].proto = r.proto
    /\ NfSlotTo(n, r, "work")
    /\ UNCHANGED <<nfRow, nfTask, nfEntry, nfCache, nfReg, nfClaims, nfFaults>>

\* runSlot: otherwise the runtime's enabled flag and the cached health decide.
SlotLooks(n, r) ==
    /\ r.live /\ r.slot = "idle" /\ r.on /\ nfClaims < NfMaxClaims
    /\ IF r.proto = "h3" THEN activeTaskCount(n) = 0 /\ cachedSchedulable(n)
                         ELSE cachedOfficialSchedulable(n)
    /\ NfSlotTo(n, r, "claim")
    /\ UNCHANGED <<nfRow, nfTask, nfEntry, nfCache, nfReg, nfClaims, nfFaults>>

\* ClaimNextOfficial, ClaimRemote (and the legacy ClaimNext): the row must be the
\* one the runtime was started with.
MAnyVersionClaims(n, r) == NfListed(n) /\ nfRow[n].on
NfCurrentRow(n, r) == NfListed(n) /\ nfRow[n].on /\ nfRow[n].v = r.v

\* taskEligibleForNode, all that ClaimStage and CreateStageAttempt ask of the row.
taskEligibleForNode(n, r) == NfListed(n) /\ nfRow[n].on /\ nfRow[n].proto = r.proto

NfDispatch(n, r) ==
    /\ nfTask' = [nfTask EXCEPT ![n] = [is |-> "active", url |-> r.url, proto |-> r.proto]]
    /\ nfClaims' = nfClaims + 1

SlotClaims(n, r) ==
    /\ r.slot = "claim" /\ nfTask[n].is = "none" /\ nfClaims < NfMaxClaims
    /\ \/ /\ r.proto # "h3" /\ NfCurrentRow(n, r)
          /\ NfDispatch(n, r) /\ NfSlotTo(n, r, "work")
       \/ /\ r.proto = "h3" /\ taskEligibleForNode(n, r)
          /\ NfSlotTo(n, r, "leased")
          /\ UNCHANGED <<nfTask, nfClaims>>
    /\ UNCHANGED <<nfRow, nfEntry, nfCache, nfReg, nfFaults>>

\* The claim finds nothing or is refused.
SlotEmpty(n, r) ==
    /\ r.slot \in {"claim", "leased"}
    /\ NfSlotTo(n, r, "idle")
    /\ UNCHANGED <<nfRow, nfTask, nfEntry, nfCache, nfReg, nfClaims, nfFaults>>

\* CreateStageAttempt: from here on the task counts as active, and the execution
\* is created with the runtime's own client.
SlotAttempts(n, r) ==
    /\ r.slot = "leased" /\ nfTask[n].is = "none" /\ nfClaims < NfMaxClaims
    /\ taskEligibleForNode(n, r)
    /\ NfDispatch(n, r) /\ NfSlotTo(n, r, "work")
    /\ UNCHANGED <<nfRow, nfEntry, nfCache, nfReg, nfFaults>>

\* The task ends.  A tk2sd result stays at the node until it is copied or expires.
SlotFinishes(n, r) ==
    /\ r.slot = "work"
    /\ \/ nfTask' = [nfTask EXCEPT ![n] = NfNoTask]
       \/ r.proto = "tk2sd" /\ nfTask[n].is = "active"
          /\ nfTask' = [nfTask EXCEPT ![n].is = "retained"]
    /\ NfSlotTo(n, r, "idle")
    /\ UNCHANGED <<nfRow, nfEntry, nfCache, nfReg, nfClaims, nfFaults>>

\* A cancelled context takes the slot out of its task, which stays active.
SlotAbandons(n, r) ==
    /\ ~r.live /\ r.slot # "idle"
    /\ NfSlotTo(n, r, "idle")
    /\ UNCHANGED <<nfRow, nfTask, nfEntry, nfCache, nfReg, nfClaims, nfFaults>>

\* The retained result is delivered, deleted or expires.
NfRelease(n) ==
    /\ nfTask[n].is = "retained"
    /\ nfTask' = [nfTask EXCEPT ![n] = NfNoTask]
    /\ UNCHANGED <<nfRow, nfEntry, nfRun, nfCache, nfReg, nfClaims, nfFaults>>

NfSlotStep(n) == \E r \in nfRun[n] :
    \/ SlotResumes(n, r) \/ SlotLooks(n, r) \/ SlotClaims(n, r) \/ SlotEmpty(n, r)
    \/ SlotAttempts(n, r) \/ SlotFinishes(n, r) \/ SlotAbandons(n, r)

NfReconcile ==
    \/ ReconcileReads \/ StopsDone
    \/ \E s \in nfReg.stops : StopCancels(s) \/ StopReturns(s)
    \/ \E s \in nfReg.starts : StartRuns(s) \/ StartFails(s)

NfNext ==
    \/ \E n \in NfNodes : createNode(n) \/ updateNode(n) \/ deleteNode(n)
                          \/ NfProbe(n) \/ NfSlotStep(n) \/ NfRelease(n)
    \/ NfReconcile \/ NfRestart

NfSpec == NfInit /\ [][NfNext]_nfVars

\* The registry's goroutine runs on its ticker, and a cancelled slot returns.
NfFairness ==
    /\ WF_nfVars(NfReconcile)
    /\ \A n \in NfNodes : WF_nfVars(\E r \in nfRun[n] : SlotAbandons(n, r))

-----------------------------------------------------------------------------
\* reconcile waits for Stop before it starts the next runtime: two runtimes of
\* one node never run at the same time, so no task has two slots at work on it.
OneRuntimePerNode == \A n \in NfNodes : Cardinality(nfRun[n]) <= 1

\* UpdateModelNode refuses to move a node with an active task, and the claims
\* that check the version refuse a slot whose connection was replaced: an active
\* official or tk2sd task was sent where the node's row points, so the next
\* runtime finds it there.
SentWhereRowPoints ==
    \A n \in NfNodes : nfTask[n].is = "active" /\ nfTask[n].proto # "h3"
        => NfListed(n) /\ nfRow[n].url = nfTask[n].url /\ nfRow[n].proto = nfTask[n].proto

\* A result that only a tk2sd node has stays reachable: until it is released its
\* node is neither deleted nor given another service URL.
RetainedResultReachable ==
    \A n \in NfNodes : nfTask[n].is = "retained"
        => NfListed(n) /\ nfRow[n].url = nfTask[n].url /\ nfRow[n].proto = "tk2sd"

\* Every saved version is applied by some pass unless a later save overtakes it,
\* whatever the passes that were under way and however the start failed before.
SavedVersionApplied ==
    \A n \in NfNodes : \A v \in 1..NfMaxVersion :
        (NfListed(n) /\ nfRow[n].v = v) ~> (nfEntry[n] = v \/ nfRow[n].v # v)

\* A deleted node whose runtime was registered leaves the monitor cache, though
\* the probe of the runtime being stopped may write the cache until it returns.
DeletedLeavesCache ==
    \A n \in NfNodes :
        (nfRow[n].gone /\ nfEntry[n] # 0) ~> (nfRow[n].gone /\ nfCache[n] = "none")

\* The design's rule for every slot: once a save has replaced the row, the old
\* slot dispatches nothing more with the connection it was started with.
OldSlotDispatchesNothing ==
    \A n \in NfNodes : nfTask[n].is = "active" => nfRow[n].url = nfTask[n].url

\* What the proxy still needs from a node it can reach through the node's row: the
\* task at work and the result that is kept there.
WorkStaysReachable == SentWhereRowPoints /\ RetainedResultReachable

\* The registry follows the rows in the end: saved versions are applied and deleted
\* nodes leave the monitor's cache.
SavesAreApplied == SavedVersionApplied /\ DeletedLeavesCache
=============================================================================
