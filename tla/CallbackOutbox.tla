--------------------------- MODULE CallbackOutbox ---------------------------
(***************************************************************************)
(* The callback outbox: rows of callback_deliveries written with the       *)
(* status change they announce (internal/store/sqlite/callback_store.go)   *)
(* and the worker that posts them (internal/callback/worker.go).           *)
(*                                                                         *)
(* A process runs one worker; a second one is the process that replaces it *)
(* during a redeployment.  The marks at the end of ProcessOne are guarded  *)
(* by the row's status alone, not by a lease token, so a stalled worker    *)
(* can still write to a row that was claimed again.                        *)
(***************************************************************************)
EXTENDS Naturals, FiniteSets

CONSTANTS
    Delivery,       \* callback_deliveries rows, numbered as they are created
    CbWorker,       \* callback workers
    CbMaxAttempts,  \* maxAttempts(), 5 by default
    CbMaxFaults,    \* bound: crashes, and leases that run out under a live worker
    NoRow           \* an idle worker

ASSUME RowAssumption == Delivery \subseteq Nat /\ NoRow \notin Delivery
ASSUME CbAssumption == CbMaxAttempts \in Nat \ {0} /\ CbMaxFaults \in Nat

VARIABLES
    row,            \* status; "none" before the row exists, "purged" after
    stamp,          \* created_at
    clock,          \* the latest created_at
    cbCount,        \* attempt_count
    due,            \* next_attempt_at is NULL or has passed
    leased,         \* lease_expires_at > now
    readable,       \* the stored callback URL can be decrypted
    cbPc,           \* where in ProcessOne the worker is
    cbCur,          \* the row it claimed
    attempt,        \* AttemptCount + 1 of the row as it claimed it
    result,         \* what Deliver returned
    sends,          \* requests made for the row
    received,       \* the receiver accepted it at least once
    cbFaults        \* faults so far

rowVars == <<row, stamp, clock, cbCount, due, leased, readable>>
cbLocal == <<cbPc, cbCur, attempt, result>>
cbVars  == <<rowVars, cbLocal, sends, received, cbFaults>>

CbOpen  == {"pending", "retry_wait", "sending"}
Settled == {"succeeded", "failed"}

CbTypeOK ==
    /\ row \in [Delivery -> CbOpen \cup Settled \cup {"none", "purged"}]
    /\ stamp \in [Delivery -> Nat] /\ clock \in Nat
    /\ cbCount \in [Delivery -> 0..CbMaxAttempts]
    /\ due \in [Delivery -> BOOLEAN]
    /\ leased \in [Delivery -> BOOLEAN]
    /\ readable \in [Delivery -> BOOLEAN]
    /\ cbPc \in [CbWorker -> {"idle", "open", "deliver", "mark"}]
    /\ cbCur \in [CbWorker -> Delivery \cup {NoRow}]
    /\ attempt \in [CbWorker -> 0..CbMaxAttempts]
    /\ result \in [CbWorker -> {"none", "success", "retryable", "final"}]
    /\ sends \in [Delivery -> Nat]
    /\ received \in [Delivery -> BOOLEAN]
    /\ cbFaults \in 0..CbMaxFaults

CbInit ==
    /\ row = [d \in Delivery |-> "none"]
    /\ stamp = [d \in Delivery |-> 0] /\ clock = 0
    /\ cbCount = [d \in Delivery |-> 0]
    /\ due = [d \in Delivery |-> TRUE]
    /\ leased = [d \in Delivery |-> FALSE]
    /\ readable \in [Delivery -> BOOLEAN]
    /\ cbPc = [w \in CbWorker |-> "idle"]
    /\ cbCur = [w \in CbWorker |-> NoRow]
    /\ attempt = [w \in CbWorker |-> 0]
    /\ result = [w \in CbWorker |-> "none"]
    /\ sends = [d \in Delivery |-> 0]
    /\ received = [d \in Delivery |-> FALSE]
    /\ cbFaults = 0

-----------------------------------------------------------------------------
CbGoto(w, label) == cbPc' = [cbPc EXCEPT ![w] = label]

Finish(w) ==
    /\ CbGoto(w, "idle")
    /\ cbCur' = [cbCur EXCEPT ![w] = NoRow]
    /\ attempt' = [attempt EXCEPT ![w] = 0]
    /\ result' = [result EXCEPT ![w] = "none"]

(* createCallbackDeliveryWithConn, called with the version the status change *)
(* just gave the task: always a new row.  created_at has a coarse clock.     *)
CreateCallbackDelivery(d) ==
    /\ row[d] = "none" /\ \A e \in Delivery : e < d => row[e] # "none"
    /\ \E tick \in {0, 1} :
        /\ clock' = clock + tick
        /\ stamp' = [stamp EXCEPT ![d] = clock + tick]
    /\ row' = [row EXCEPT ![d] = "pending"]
    /\ UNCHANGED <<cbCount, due, leased, readable, cbLocal, sends, received, cbFaults>>

ClaimableUnlessSending(d) ==
    row[d] \in {"pending", "retry_wait"} /\ due[d] /\ ~leased[d]

ClaimableDespiteLease(d) == row[d] \in CbOpen /\ due[d]

(* The WHERE of ClaimCallbackDelivery.                                       *)
Claimable(d) == row[d] \in CbOpen /\ due[d] /\ ~leased[d]

(* ORDER BY created_at, id: rows of one tick are in no particular order.     *)
ClaimCallbackDelivery(w, d) ==
    /\ cbPc[w] = "idle"
    /\ Claimable(d) /\ \A e \in Delivery : Claimable(e) => stamp[d] <= stamp[e]
    /\ row' = [row EXCEPT ![d] = "sending"]
    /\ leased' = [leased EXCEPT ![d] = TRUE]
    /\ CbGoto(w, "open")
    /\ cbCur' = [cbCur EXCEPT ![w] = d]
    /\ attempt' = [attempt EXCEPT ![w] = cbCount[d] + 1]
    /\ UNCHANGED <<stamp, clock, cbCount, due, readable, result, sends, received, cbFaults>>

(* ClaimCallback decrypts the URL after the claim; when it cannot, the row   *)
(* is left as it is, to be claimed again when its lease has run out.         *)
OpenTarget(w) ==
    /\ cbPc[w] = "open"
    /\ IF readable[cbCur[w]] THEN CbGoto(w, "deliver") /\ UNCHANGED <<cbCur, attempt, result>>
       ELSE Finish(w)
    /\ UNCHANGED <<rowVars, sends, received, cbFaults>>

(* Whether the receiver accepted the body, given what Deliver returned: a    *)
(* network failure may hide either.                                          *)
ReceivedGiven(r) ==
    CASE r = "success" -> {TRUE} [] r = "retryable" -> BOOLEAN [] OTHER -> {FALSE}

Deliver(w) ==
    /\ cbPc[w] = "deliver"
    /\ \E r \in {"success", "retryable", "final"}, got \in BOOLEAN :
        /\ got \in ReceivedGiven(r)
        /\ result' = [result EXCEPT ![w] = r]
        /\ received' = [received EXCEPT ![cbCur[w]] = @ \/ got]
    /\ sends' = [sends EXCEPT ![cbCur[w]] = @ + 1]
    /\ CbGoto(w, "mark")
    /\ UNCHANGED <<rowVars, cbCur, attempt, cbFaults>>

MayMarkAlways(d) == row[d] # "purged"

(* WHERE id=? AND status='sending'.                                          *)
MayMark(d) == row[d] = "sending"

MarkCallbackSucceededLenient(w) ==
    /\ result[w] # "final"
    /\ row' = [row EXCEPT ![cbCur[w]] = "succeeded"]
    /\ cbCount' = [cbCount EXCEPT ![cbCur[w]] = @ + 1]
    /\ UNCHANGED due

MarkCallbackSucceeded(w) ==
    /\ result[w] = "success"
    /\ row' = [row EXCEPT ![cbCur[w]] = "succeeded"]
    /\ cbCount' = [cbCount EXCEPT ![cbCur[w]] = @ + 1]
    /\ UNCHANGED due

Retries(w) == result[w] = "retryable" /\ attempt[w] < CbMaxAttempts

ScheduleCallbackRetryUncounted(w) ==
    /\ Retries(w)
    /\ row' = [row EXCEPT ![cbCur[w]] = "retry_wait"]
    /\ due' = [due EXCEPT ![cbCur[w]] = FALSE]
    /\ UNCHANGED cbCount

ScheduleCallbackRetry(w) ==
    /\ Retries(w)
    /\ row' = [row EXCEPT ![cbCur[w]] = "retry_wait"]
    /\ cbCount' = [cbCount EXCEPT ![cbCur[w]] = attempt[w]]
    /\ due' = [due EXCEPT ![cbCur[w]] = FALSE]

MarkCallbackFailed(w) ==
    /\ result[w] # "success" /\ ~Retries(w)
    /\ row' = [row EXCEPT ![cbCur[w]] = "failed"]
    /\ cbCount' = [cbCount EXCEPT ![cbCur[w]] = attempt[w]]
    /\ UNCHANGED due

(* The end of ProcessOne; a row that is no longer "sending" is left alone.   *)
Mark(w) ==
    /\ cbPc[w] = "mark"
    /\ \/ /\ MayMark(cbCur[w])
          /\ MarkCallbackSucceeded(w) \/ ScheduleCallbackRetry(w) \/ MarkCallbackFailed(w)
          /\ leased' = [leased EXCEPT ![cbCur[w]] = FALSE]
       \/ ~MayMark(cbCur[w]) /\ UNCHANGED <<row, cbCount, due, leased>>
    /\ Finish(w)
    /\ UNCHANGED <<stamp, clock, readable, sends, received, cbFaults>>

-----------------------------------------------------------------------------
CbFault == cbFaults < CbMaxFaults /\ cbFaults' = cbFaults + 1

RetryComesDue(d) ==
    /\ row[d] = "retry_wait" /\ ~due[d]
    /\ due' = [due EXCEPT ![d] = TRUE]
    /\ UNCHANGED <<row, stamp, clock, cbCount, leased, readable, cbLocal, sends, received, cbFaults>>

(* The lease of a row nobody works on runs out.                              *)
CbExpireAbandoned(d) ==
    /\ leased[d] /\ \A w \in CbWorker : cbCur[w] # d
    /\ leased' = [leased EXCEPT ![d] = FALSE]
    /\ UNCHANGED <<row, stamp, clock, cbCount, due, readable, cbLocal, sends, received, cbFaults>>

(* The lease runs out under a worker that stalled for longer than it.        *)
CbExpireLive(d) ==
    /\ leased[d] /\ \E w \in CbWorker : cbCur[w] = d
    /\ CbFault
    /\ leased' = [leased EXCEPT ![d] = FALSE]
    /\ UNCHANGED <<row, stamp, clock, cbCount, due, readable, cbLocal, sends, received>>

(* The worker's process dies, perhaps with the request on its way, or the    *)
(* database refuses the mark.                                                *)
CbCrash(w) ==
    /\ cbPc[w] # "idle" /\ CbFault
    /\ \/ UNCHANGED <<sends, received>>
       \/ /\ cbPc[w] = "deliver"
          /\ sends' = [sends EXCEPT ![cbCur[w]] = @ + 1]
          /\ \E got \in BOOLEAN : received' = [received EXCEPT ![cbCur[w]] = @ \/ got]
    /\ Finish(w)
    /\ UNCHANGED rowVars

(* AdminDelete removes the rows of its task.                                 *)
Purge(d) ==
    /\ row[d] \notin {"none", "purged"}
    /\ row' = [row EXCEPT ![d] = "purged"]
    /\ leased' = [leased EXCEPT ![d] = FALSE]
    /\ UNCHANGED <<stamp, clock, cbCount, due, readable, cbLocal, sends, received, cbFaults>>

CbWorkerStep(w) == OpenTarget(w) \/ Deliver(w) \/ Mark(w)

CbNext ==
    \/ \E w \in CbWorker : CbWorkerStep(w) \/ CbCrash(w)
    \/ \E w \in CbWorker, d \in Delivery : ClaimCallbackDelivery(w, d)
    \/ \E d \in Delivery : CreateCallbackDelivery(d) \/ RetryComesDue(d)
                            \/ CbExpireAbandoned(d) \/ CbExpireLive(d) \/ Purge(d)

CbSpec == CbInit /\ [][CbNext]_cbVars

(* Run polls every second, a lease lasts thirty: a row that is claimable     *)
(* again and again while older ones are leased is claimed.                   *)
CbFairness ==
    /\ \A w \in CbWorker : WF_cbVars(CbWorkerStep(w))
    /\ \A d \in Delivery :
        /\ SF_cbVars(\E w \in CbWorker : ClaimCallbackDelivery(w, d))
        /\ WF_cbVars(RetryComesDue(d)) /\ WF_cbVars(CbExpireAbandoned(d))

-----------------------------------------------------------------------------
(* Properties. *)

(* A row marked succeeded was accepted by the receiver, whichever worker     *)
(* marked it (Deliver, MarkCallbackSucceeded).                               *)
SuccessIsReal == \A d \in Delivery : row[d] = "succeeded" => received[d]

(* A settled row stays settled: the late result of a stalled worker changes  *)
(* nothing (the status='sending' guards).                                    *)
SettledIsFinal ==
    [][\A d \in Delivery : row[d] \in Settled =>
          row'[d] \in {row[d], "purged"} /\ cbCount'[d] = cbCount[d]]_cbVars

(* How often the receiver can be bothered: max attempts, and as many again   *)
(* for each crash or stall (a stalled worker may write back an old           *)
(* attempt_count).                                                           *)
SendsBounded == \A d \in Delivery : sends[d] <= CbMaxAttempts * (1 + cbFaults)

(* Two workers have the same row only after a lease ran out under one of     *)
(* them.                                                                     *)
OneSenderPerLease ==
    \A d \in Delivery : Cardinality({w \in CbWorker : cbCur[w] = d}) <= 1 + cbFaults

(* Every callback whose URL can be decrypted is settled in the end, also     *)
(* behind an older one that cannot.                                          *)
CallbackSettles ==
    \A d \in Delivery : row[d] = "pending" /\ readable[d] ~> row[d] \in Settled \cup {"purged"}

\* Every send is accounted for: one sender per claim and lease, and no more sends
\* than attempts and faults, although late marks write old counts back.
SendsAccounted == SendsBounded /\ OneSenderPerLease

\* What the outbox tells stays true: a row says succeeded only if the receiver has
\* accepted, and no late mark changes a settled row.
OutboxIsHonest == []SuccessIsReal /\ SettledIsFinal
=============================================================================
