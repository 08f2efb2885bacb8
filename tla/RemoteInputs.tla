----------------------------- MODULE RemoteInputs -----------------------------
(* How the media of one tk2sd task reach its node before the task is submitted *)
(* (internal/remote/inputs.go, internal/upstream/tk2sd/assets.go, the asset    *)
(* rows of internal/store/sqlite/remote_task_store.go).                        *)
(*                                                                             *)
(* A worker that holds the run's lease walks over the inputs.  An input whose  *)
(* asset is recorded is reused; otherwise its source is opened, streamed to    *)
(* the node and the asset recorded.  When all are there the request is frozen  *)
(* with their asset ids.  Leases expire under a working worker, sources change *)
(* between two reads, uploads lose their answers, processes die.               *)
EXTENDS Integers, Sequences, FiniteSets, SequencesExt

CONSTANTS
    RiWorkers,     \* goroutines that may process the task
    RiInputs,      \* sequence of [kind, spooled]: the media items of the request
    RiContents,    \* [name -> [kind, time, big]]: what a source may hold
    RiSource,      \* for every input, the contents its source may hold, the first one at creation
    RiTimeLimit,   \* the total duration of the timed inputs
    RiMaxFaults,
    RiNobody, RiNoAsset

ASSUME RiAssumption ==
    /\ RiMaxFaults \in Nat /\ RiTimeLimit \in Nat /\ RiNobody \notin RiWorkers
    /\ Len(RiSource) = Len(RiInputs)

VARIABLES
    riPhase,     \* phase of task_remote_runs; "none" before the task is claimed
    riValid,     \* the stored request passes Prepare's checks
    riCancel,    \* cancel_state = 'requested'
    riLease,     \* the worker whose token the run carries
    riRows,      \* task_node_assets: input -> asset
    riBody,      \* request_body_json: the assets the frozen request names
    riNow,       \* input -> what its source holds
    riAssets,    \* the assets of the node, as a sequence: [input, content]
    riPc, riAt, riSaw, riHand, riMade,   \* per worker: place, input, content of the
                 \* answer it reads, asset in hand, assets so far
    riFaults

riRun == <<riPhase, riValid, riCancel>>
riWorker == <<riPc, riAt, riSaw, riHand, riMade>>
riVars == <<riPhase, riValid, riCancel, riLease, riRows, riBody, riNow, riAssets,
            riPc, riAt, riSaw, riHand, riMade, riFaults>>

RiIndex == 1..Len(RiInputs)

\* The digest the spool recorded for an input the proxy keeps itself.
RiDigest(i) == RiSource[i][1]

RiInit ==
    /\ riPhase = "none" /\ riValid = TRUE /\ riCancel = FALSE /\ riLease = RiNobody
    /\ riRows = [i \in RiIndex |-> RiNoAsset] /\ riBody = <<>>
    /\ riNow = [i \in RiIndex |-> RiSource[i][1]] /\ riAssets = <<>>
    /\ riPc = [w \in RiWorkers |-> "idle"] /\ riAt = [w \in RiWorkers |-> 1]
    /\ riSaw = [w \in RiWorkers |-> RiNoAsset]
    /\ riHand = [w \in RiWorkers |-> RiNoAsset] /\ riMade = [w \in RiWorkers |-> <<>>]
    /\ riFaults = 0

RiFault == riFaults < RiMaxFaults /\ riFaults' = riFaults + 1

\* The store's writes of the preparation hold only for the lease's holder.
RiMayWrite(w) == riLease = w /\ riPhase = "preparing" /\ ~riCancel

-----------------------------------------------------------------------------
(* Data.                                                                       *)

\* The format is told from the first bytes, not from what was declared.
detectMedia(c) == RiContents[c].kind

\* A content longer than the limit of its kind.
inputLimitExceeded(c) == RiContents[c].big

\* What the asset service says of an asset is checked against the input.
validateAsset(i, a) == RiContents[riAssets[a].content].kind = RiInputs[i].kind

\* The seconds of the timed assets named so far.
RiTotal(assets) == FoldLeft(LAMBDA n, a : n + RiContents[riAssets[a].content].time, 0, assets)

-----------------------------------------------------------------------------
(* The worker.                                                                 *)

RiGoes(w, pc) ==
    /\ riPc' = [riPc EXCEPT ![w] = pc]
    /\ UNCHANGED <<riAt, riSaw, riHand, riMade>>

\* The worker is done with this pass; ReleaseRemoteLease gives back its own
\* lease and nobody else's.
RiLeaves(w) ==
    /\ riPc' = [riPc EXCEPT ![w] = "idle"] /\ riAt' = [riAt EXCEPT ![w] = 1]
    /\ riSaw' = [riSaw EXCEPT ![w] = RiNoAsset]
    /\ riHand' = [riHand EXCEPT ![w] = RiNoAsset] /\ riMade' = [riMade EXCEPT ![w] = <<>>]
    /\ riLease' = IF riLease = w THEN RiNobody ELSE riLease

RiClaim ==
    /\ riPhase = "none" /\ riPhase' = "preparing"
    /\ riValid' \in BOOLEAN
    /\ UNCHANGED <<riCancel, riLease, riRows, riBody, riNow, riAssets, riWorker, riFaults>>

\* AcquireRemoteLease, then advance: a cancelled run is completed, an invalid
\* request failed, before any input is touched.
Prepare(w) ==
    /\ riPc[w] = "idle" /\ riPhase = "preparing" /\ riLease = RiNobody
    /\ IF riCancel
       THEN riPhase' = "cancelled" /\ UNCHANGED <<riLease, riWorker>>
       ELSE /\ riLease' = w /\ riPhase' = riPhase
            /\ RiGoes(w, IF riValid THEN "look" ELSE "fail")
    /\ UNCHANGED <<riValid, riCancel, riRows, riBody, riNow, riAssets, riFaults>>

\* The row of the input, when there is one.
GetRemoteAsset(i) == riRows[i]

\* An asset the input can use joins the request, unless the inputs get too long.
RiTakes(w, a) ==
    LET made == Append(riMade[w], a) IN
    IF validateAsset(riAt[w], a) /\ RiTotal(made) <= RiTimeLimit
    THEN /\ riMade' = [riMade EXCEPT ![w] = made] /\ riAt' = [riAt EXCEPT ![w] = @ + 1]
         /\ riHand' = [riHand EXCEPT ![w] = RiNoAsset] /\ riSaw' = [riSaw EXCEPT ![w] = RiNoAsset]
         /\ riPc' = [riPc EXCEPT ![w] = "look"]
    ELSE RiGoes(w, "fail")

\* The loop of Prepare: the next input's recorded asset, or its source.
RiLooks(w) ==
    /\ riPc[w] = "look"
    /\ IF riAt[w] > Len(RiInputs) THEN RiGoes(w, "freeze")
       ELSE IF GetRemoteAsset(riAt[w]) # RiNoAsset THEN RiTakes(w, GetRemoteAsset(riAt[w]))
       ELSE RiGoes(w, "open")
    /\ UNCHANGED <<riRun, riLease, riRows, riBody, riNow, riAssets, riFaults>>

\* The source is opened: a spooled file must be the one that was recorded, a
\* download must be of the declared kind; its length may be announced or not.
open(w) ==
    /\ riPc[w] = "open"
    /\ LET i == riAt[w]
           c == riNow[i]
           good == /\ RiInputs[i].spooled => c = RiDigest(i)
                   /\ detectMedia(c) = RiInputs[i].kind
       IN  \/ /\ good
              /\ riSaw' = [riSaw EXCEPT ![w] = c] /\ riPc' = [riPc EXCEPT ![w] = "send"]
              /\ UNCHANGED <<riAt, riHand, riMade>>
           \/ /\ ~good \/ inputLimitExceeded(c)
              /\ RiGoes(w, "fail")
    /\ UNCHANGED <<riRun, riLease, riRows, riBody, riNow, riAssets, riFaults>>

\* The bytes the stream delivers: of the open answer, or of the file as it is now.
RiStreamed(w) == IF RiInputs[riAt[w]].spooled THEN riNow[riAt[w]] ELSE riSaw[w]

\* A plausible slip: the check made when the file was opened is relied on.
MNoSecondDigest(i, c) == TRUE

\* What was sent is hashed on the way and compared with the spool's record.
RiIntact(i, c) == RiInputs[i].spooled => c = RiDigest(i)

\* The node has a new asset and its answer arrives.  A stream that grows past
\* the limit ends the upload and leaves the task to be tried again.
upload(w) ==
    /\ riPc[w] = "send"
    /\ LET i == riAt[w]
           c == RiStreamed(w)
       IN  IF inputLimitExceeded(c)
           THEN RiLeaves(w) /\ UNCHANGED riAssets
           ELSE /\ riAssets' = Append(riAssets, [input |-> i, content |-> c])
                /\ riLease' = riLease
                /\ IF RiIntact(i, c)
                   THEN /\ riHand' = [riHand EXCEPT ![w] = Len(riAssets) + 1]
                        /\ riPc' = [riPc EXCEPT ![w] = "save"] /\ UNCHANGED <<riAt, riSaw, riMade>>
                   ELSE RiGoes(w, "fail")
    /\ UNCHANGED <<riRun, riRows, riBody, riNow, riFaults>>

\* The source or the node cannot be reached, or the node's answer is lost with
\* or without the asset made: the pass ends and the task is tried again.
RiUploadFails(w) ==
    /\ riPc[w] \in {"open", "send"} /\ RiFault
    /\ \/ UNCHANGED riAssets
       \/ /\ riPc[w] = "send" /\ ~inputLimitExceeded(RiStreamed(w))
          /\ riAssets' = Append(riAssets, [input |-> riAt[w], content |-> RiStreamed(w)])
    /\ RiLeaves(w)
    /\ UNCHANGED <<riRun, riRows, riBody, riNow>>

\* The node refuses the asset for good.
rejected(w) ==
    /\ riPc[w] = "send" /\ RiFault
    /\ RiGoes(w, "fail")
    /\ UNCHANGED <<riRun, riLease, riRows, riBody, riNow, riAssets>>

\* A plausible slip: the row is written without the lease and over another one.
MAnyoneSaves(w, i) == TRUE

\* The insert holds for the lease's holder, and an existing row is never given
\* another asset.
RiMaySave(w, i) == RiMayWrite(w) /\ riRows[i] \in {RiNoAsset, riHand[w]}

SaveRemoteAsset(w) ==
    /\ riPc[w] = "save"
    /\ IF RiMaySave(w, riAt[w])
       THEN /\ riRows' = [riRows EXCEPT ![riAt[w]] = riHand[w]]
            /\ RiTakes(w, riHand[w]) /\ UNCHANGED riLease
       ELSE RiLeaves(w) /\ UNCHANGED riRows
    /\ UNCHANGED <<riRun, riBody, riNow, riAssets, riFaults>>

\* The request is frozen with the asset ids.
PrepareRemoteRequest(w) ==
    /\ riPc[w] = "freeze"
    /\ IF RiMayWrite(w) THEN riPhase' = "prepared" /\ riBody' = riMade[w] ELSE UNCHANGED <<riPhase, riBody>>
    /\ RiLeaves(w)
    /\ UNCHANGED <<riValid, riCancel, riRows, riNow, riAssets, riFaults>>

\* A plausible slip: an input that can never be sent is tried again.
MNeverFails(w) == riPhase

\* An invalid input or a refusal ends the task, if the lease is still held.
RiVerdict(w) == IF riLease = w /\ riPhase = "preparing" THEN "failed" ELSE riPhase

RiFails(w) ==
    /\ riPc[w] = "fail"
    /\ riPhase' = RiVerdict(w)
    /\ RiLeaves(w)
    /\ UNCHANGED <<riValid, riCancel, riRows, riBody, riNow, riAssets, riFaults>>

-----------------------------------------------------------------------------
(* What happens around the worker.                                             *)

\* The lease runs out under a worker that does not renew it in time (a fault),
\* or after its worker is gone.
RiExpires ==
    /\ riLease # RiNobody /\ riLease' = RiNobody
    /\ IF riPc[riLease] = "idle" THEN UNCHANGED riFaults ELSE RiFault
    /\ UNCHANGED <<riRun, riRows, riBody, riNow, riAssets, riWorker>>

\* The process dies and comes back; the lease stays in the run.
RiCrash ==
    /\ \E w \in RiWorkers : riPc[w] # "idle"
    /\ RiFault
    /\ riPc' = [w \in RiWorkers |-> "idle"] /\ riAt' = [w \in RiWorkers |-> 1]
    /\ riSaw' = [w \in RiWorkers |-> RiNoAsset]
    /\ riHand' = [w \in RiWorkers |-> RiNoAsset] /\ riMade' = [w \in RiWorkers |-> <<>>]
    /\ UNCHANGED <<riRun, riLease, riRows, riBody, riNow, riAssets>>

\* A source changes: another file behind a URL, a damaged file on disk.
RiSourceChanges(i) ==
    /\ riPhase = "preparing" /\ RiFault
    /\ \E c \in Range(RiSource[i]) \ {riNow[i]} : riNow' = [riNow EXCEPT ![i] = c]
    /\ UNCHANGED <<riRun, riLease, riRows, riBody, riAssets, riWorker>>

RiCancelled ==
    /\ riPhase = "preparing" /\ ~riCancel /\ riCancel' = TRUE
    /\ UNCHANGED <<riPhase, riValid, riLease, riRows, riBody, riNow, riAssets, riWorker, riFaults>>

RiStep(w) ==
    RiLooks(w) \/ open(w) \/ upload(w) \/ SaveRemoteAsset(w) \/ PrepareRemoteRequest(w) \/ RiFails(w)

RiNext ==
    \/ RiClaim \/ RiExpires \/ RiCrash \/ RiCancelled
    \/ \E w \in RiWorkers : Prepare(w) \/ RiStep(w) \/ RiUploadFails(w) \/ rejected(w)
    \/ \E i \in RiIndex : RiSourceChanges(i)

\* Workers keep running, and the lease of one that is gone expires.
RiFairness ==
    /\ WF_riVars(\E w \in RiWorkers : Prepare(w))
    /\ \A w \in RiWorkers : WF_riVars(RiStep(w))
    /\ WF_riVars(RiExpires /\ riPc[riLease] = "idle")

-----------------------------------------------------------------------------
(* Properties.                                                                 *)

\* The frozen request names for every input the asset its row records, whoever
\* uploaded it and however many workers prepared the task; the inputs together
\* stay within the time limit (Prepare, SaveRemoteAsset, PrepareRemoteRequest).
BodyIsRecorded ==
    riPhase = "prepared" => riBody = riRows /\ RiTotal(riBody) <= RiTimeLimit

\* An asset recorded for a spooled input holds the bytes the client sent, even
\* when the file was damaged while it was read (open, upload).
SpooledInputsIntact ==
    \A i \in RiIndex : RiInputs[i].spooled /\ riRows[i] # RiNoAsset
        => riAssets[riRows[i]].content = RiDigest(i)

\* Preparation ends, the request frozen or the task ended, unless a download
\* goes past its limit without having announced its length: that is the one
\* fault of an input that is not held against the task (upload).
PreparationEnds ==
    riPhase = "preparing" ~>
        riPhase # "preparing" \/ \E i \in RiIndex : RiContents[riNow[i]].big

\* The request that is frozen is the client's: it names the recorded assets within
\* the time limit, and a spooled input's asset holds the bytes that were sent.
FrozenRequestIsTrue == BodyIsRecorded /\ SpooledInputsIntact
=============================================================================
