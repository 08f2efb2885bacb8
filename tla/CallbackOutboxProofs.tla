------------------------ MODULE CallbackOutboxProofs ------------------------
(***************************************************************************)
(* Proofs about CallbackOutbox for any rows, workers and bounds.  What the *)
(* type invariant lacks to be inductive: an open row has attempts left, a  *)
(* worker past its claim has a row, and a success it still has to record   *)
(* was received.                                                           *)
(***************************************************************************)
EXTENDS CallbackOutbox, TLAPS

AttemptsLeft ==
    \A d \in Delivery :
        row[d] \in CbOpen \cup {"none"} => cbCount[d] < CbMaxAttempts

CurOK ==
    \A w \in CbWorker :
        /\ cbPc[w] # "idle" => cbCur[w] \in Delivery
        /\ cbPc[w] = "mark" /\ result[w] = "success" => received[cbCur[w]]

IInv == CbTypeOK /\ AttemptsLeft /\ CurOK /\ SuccessIsReal

LEMMA Bump ==
    ASSUME NEW S, NEW f \in [S -> Nat], NEW x \in S
    PROVE  [f EXCEPT ![x] = @ + 1] \in [S -> Nat]
PROOF OBVIOUS

(* The three ways a mark can go, and the mark that comes too late.           *)
LEMMA MarkCases ==
    ASSUME NEW w \in CbWorker, Mark(w), CbTypeOK, CurOK
    PROVE  /\ cbCur[w] \in Delivery
           /\ \/ UNCHANGED <<row, cbCount, due, leased>>
              \/ /\ row[cbCur[w]] = "sending"
                 /\ leased' = [leased EXCEPT ![cbCur[w]] = FALSE]
                 /\ \/ MarkCallbackSucceeded(w)
                    \/ ScheduleCallbackRetry(w)
                    \/ MarkCallbackFailed(w)
PROOF BY DEF Mark, MayMark, CurOK

LEMMA MarkStep ==
    ASSUME NEW w \in CbWorker, Mark(w), IInv PROVE IInv'
PROOF
<1> USE RowAssumption, CbAssumption
<1> DEFINE d == cbCur[w]
<1>1. CbTypeOK /\ AttemptsLeft /\ CurOK /\ SuccessIsReal /\ d \in Delivery
    BY MarkCases DEF IInv
<1>2. /\ cbPc' = [cbPc EXCEPT ![w] = "idle"] /\ cbCur' = [cbCur EXCEPT ![w] = NoRow]
      /\ attempt' = [attempt EXCEPT ![w] = 0] /\ result' = [result EXCEPT ![w] = "none"]
      /\ UNCHANGED <<stamp, clock, readable, sends, received, cbFaults>>
    BY DEF Mark, Finish, CbGoto
<1>3. CurOK'
    BY <1>1, <1>2 DEF CurOK, CbTypeOK
<1>4. ASSUME /\ row' \in [Delivery -> CbOpen \cup Settled \cup {"none", "purged"}]
             /\ cbCount' \in [Delivery -> 0..CbMaxAttempts]
             /\ due' \in [Delivery -> BOOLEAN] /\ leased' \in [Delivery -> BOOLEAN]
      PROVE  CbTypeOK'
    BY <1>1, <1>2, <1>4 DEF CbTypeOK
<1>5. CASE UNCHANGED <<row, cbCount, due, leased>>
    BY <1>1, <1>2, <1>3, <1>4, <1>5 DEF IInv, CbTypeOK, AttemptsLeft, SuccessIsReal
<1>6. CASE row[d] = "sending" /\ leased' = [leased EXCEPT ![d] = FALSE]
           /\ MarkCallbackSucceeded(w)
    <2>1. cbCount[d] < CbMaxAttempts /\ received[d]
        BY Zenon, <1>1, <1>6 DEF AttemptsLeft, CbOpen, MarkCallbackSucceeded, CurOK, Mark
    <2>2. cbCount' \in [Delivery -> 0..CbMaxAttempts]
        <3>1. cbCount \in [Delivery -> 0..CbMaxAttempts] /\ cbCount' = [cbCount EXCEPT ![d] = @ + 1]
            BY <1>1, <1>6 DEF MarkCallbackSucceeded, CbTypeOK
        <3>2. cbCount[d] + 1 \in 0..CbMaxAttempts
            <4>1. cbCount[d] \in 0..CbMaxAttempts
                BY Zenon, <1>1, <3>1
            <4> HIDE DEF d
            <4> QED BY <2>1, <4>1
        <3> HIDE DEF d
        <3> QED BY <1>1, <3>1, <3>2
    <2>3. due' \in [Delivery -> BOOLEAN] /\ leased' \in [Delivery -> BOOLEAN]
        BY <1>1, <1>6 DEF MarkCallbackSucceeded, CbTypeOK
    <2>4. row' = [row EXCEPT ![d] = "succeeded"]
        BY <1>6 DEF MarkCallbackSucceeded
    <2>5. row' \in [Delivery -> CbOpen \cup Settled \cup {"none", "purged"}]
        BY <1>1, <2>4 DEF CbTypeOK, Settled
    <2>6. AttemptsLeft'
        BY <1>1, <1>6, <2>4 DEF AttemptsLeft, MarkCallbackSucceeded, CbTypeOK, CbOpen
    <2>7. SuccessIsReal'
        BY <1>1, <1>2, <2>1, <2>4 DEF SuccessIsReal, CbTypeOK
    <2> QED BY <1>3, <1>4, <2>2, <2>3, <2>5, <2>6, <2>7 DEF IInv
<1>7. CASE row[d] = "sending" /\ leased' = [leased EXCEPT ![d] = FALSE]
           /\ (ScheduleCallbackRetry(w) \/ MarkCallbackFailed(w))
    <2>1. cbCount' = [cbCount EXCEPT ![d] = attempt[w]] /\ attempt[w] \in 0..CbMaxAttempts
        BY <1>1, <1>7 DEF ScheduleCallbackRetry, MarkCallbackFailed, CbTypeOK
    <2>2. cbCount' \in [Delivery -> 0..CbMaxAttempts]
        BY <1>1, <2>1 DEF CbTypeOK
    <2>3. due' \in [Delivery -> BOOLEAN] /\ leased' \in [Delivery -> BOOLEAN]
        BY Zenon, <1>1, <1>7 DEF ScheduleCallbackRetry, MarkCallbackFailed, CbTypeOK
    <2>4. \/ row' = [row EXCEPT ![d] = "failed"]
          \/ row' = [row EXCEPT ![d] = "retry_wait"] /\ attempt[w] < CbMaxAttempts
        BY <1>7 DEF ScheduleCallbackRetry, MarkCallbackFailed, Retries
    <2>5. row' \in [Delivery -> CbOpen \cup Settled \cup {"none", "purged"}]
        BY <1>1, <2>4 DEF CbTypeOK, Settled, CbOpen
    <2>6. AttemptsLeft'
        BY <1>1, <2>1, <2>4 DEF AttemptsLeft, CbTypeOK, CbOpen
    <2>7. SuccessIsReal'
        BY <1>1, <1>2, <2>4 DEF SuccessIsReal, CbTypeOK
    <2> QED BY <1>3, <1>4, <2>2, <2>3, <2>5, <2>6, <2>7 DEF IInv
<1> QED BY <1>1, <1>5, <1>6, <1>7, MarkCases

(* Steps that leave status and count of every row alone.                     *)
LEMMA RowFrame ==
    ASSUME IInv, CbTypeOK', CurOK', UNCHANGED <<row, cbCount>>,
           \A d \in Delivery : received[d] => received'[d]
    PROVE  IInv'
PROOF BY DEF IInv, AttemptsLeft, SuccessIsReal

LEMMA InvStep ==
    ASSUME IInv, CbNext PROVE IInv'
PROOF
<1> USE RowAssumption, CbAssumption
<1>0. CbTypeOK /\ AttemptsLeft /\ CurOK /\ SuccessIsReal
    BY DEF IInv
<1>1. ASSUME NEW d \in Delivery, CreateCallbackDelivery(d) PROVE IInv'
    <2>1. stamp' \in [Delivery -> Nat] /\ clock' \in Nat
        BY <1>0, <1>1 DEF CreateCallbackDelivery, CbTypeOK
    <2>2. CbTypeOK' /\ CurOK'
        BY <1>0, <1>1, <2>1 DEF CreateCallbackDelivery, CbTypeOK, CurOK, CbOpen, cbLocal
    <2>3. AttemptsLeft' /\ SuccessIsReal'
        BY <1>0, <1>1 DEF CreateCallbackDelivery, CbTypeOK, AttemptsLeft, SuccessIsReal, CbOpen
    <2> QED BY <2>2, <2>3 DEF IInv
<1>2. ASSUME NEW w \in CbWorker, NEW d \in Delivery, ClaimCallbackDelivery(w, d) PROVE IInv'
    <2>1. cbCount[d] + 1 \in 0..CbMaxAttempts
        BY <1>0, <1>2 DEF ClaimCallbackDelivery, Claimable, AttemptsLeft, CbTypeOK
    <2>2. leased' \in [Delivery -> BOOLEAN]
        BY <1>0, <1>2 DEF ClaimCallbackDelivery, CbTypeOK
    <2>3. attempt' \in [CbWorker -> 0..CbMaxAttempts]
        BY <1>0, <1>2, <2>1 DEF ClaimCallbackDelivery, CbTypeOK
    <2>4. CbTypeOK' /\ CurOK'
        BY <1>0, <1>2, <2>2, <2>3 DEF ClaimCallbackDelivery, CbTypeOK, CurOK, CbGoto, CbOpen
    <2>5. AttemptsLeft' /\ SuccessIsReal'
        BY <1>0, <1>2 DEF ClaimCallbackDelivery, Claimable, CbTypeOK, AttemptsLeft,
                          SuccessIsReal, CbOpen
    <2> QED BY <2>4, <2>5 DEF IInv
<1>3. ASSUME NEW w \in CbWorker, OpenTarget(w) PROVE IInv'
    <2>1. CbTypeOK' /\ CurOK'
        BY <1>0, <1>3 DEF OpenTarget, Finish, CbGoto, CbTypeOK, CurOK, rowVars
    <2> QED BY <1>3, <2>1, RowFrame DEF OpenTarget, rowVars
<1>4. ASSUME NEW w \in CbWorker, Deliver(w) PROVE IInv'
    <2>0. PICK r \in {"success", "retryable", "final"}, got \in BOOLEAN :
            /\ got \in ReceivedGiven(r)
            /\ result' = [result EXCEPT ![w] = r]
            /\ received' = [received EXCEPT ![cbCur[w]] = @ \/ got]
        BY Zenon, <1>4 DEF Deliver
    <2>1. cbCur[w] \in Delivery /\ UNCHANGED <<rowVars, cbCur, attempt, cbFaults>>
        BY <1>0, <1>4 DEF Deliver, CurOK
    <2>2. sends' \in [Delivery -> Nat]
        BY Zenon, <1>0, <1>4, <2>1, Bump DEF Deliver, CbTypeOK
    <2>3. received' \in [Delivery -> BOOLEAN]
        BY Zenon, <1>0, <2>0 DEF CbTypeOK
    <2>4. \A e \in Delivery : received[e] => received'[e]
        BY <1>0, <2>0 DEF CbTypeOK
    <2>5. r = "success" => received'[cbCur[w]]
        BY Zenon, <1>0, <2>0, <2>1 DEF CbTypeOK, ReceivedGiven
    <2>6. CbTypeOK'
        BY <1>0, <1>4, <2>0, <2>1, <2>2, <2>3 DEF Deliver, CbGoto, CbTypeOK, rowVars
    <2>7. CurOK'
        BY Zenon, <1>0, <1>4, <2>0, <2>1, <2>4, <2>5 DEF Deliver, CbGoto, CurOK, CbTypeOK
    <2> QED BY <2>1, <2>4, <2>6, <2>7, RowFrame DEF rowVars
<1>5. ASSUME NEW w \in CbWorker, CbCrash(w) PROVE IInv'
    <2>1. cbCur[w] \in Delivery
        BY <1>0, <1>5 DEF CbCrash, CurOK
    <2>2. sends' \in [Delivery -> Nat]
        BY <1>0, <1>5, <2>1, Bump DEF CbCrash, CbTypeOK
    <2>3. received' \in [Delivery -> BOOLEAN] /\ \A e \in Delivery : received[e] => received'[e]
        BY <1>0, <1>5 DEF CbCrash, CbTypeOK
    <2>4. cbFaults' \in 0..CbMaxFaults
        BY <1>0, <1>5 DEF CbCrash, CbFault, CbTypeOK
    <2>5. /\ cbPc' = [cbPc EXCEPT ![w] = "idle"] /\ cbCur' = [cbCur EXCEPT ![w] = NoRow]
          /\ attempt' = [attempt EXCEPT ![w] = 0] /\ result' = [result EXCEPT ![w] = "none"]
          /\ UNCHANGED rowVars
        BY <1>5 DEF CbCrash, Finish, CbGoto
    <2>6. CbTypeOK'
        BY <1>0, <2>2, <2>3, <2>4, <2>5 DEF CbTypeOK, rowVars
    <2>7. CurOK'
        BY Zenon, <1>0, <2>3, <2>5 DEF CurOK, CbTypeOK
    <2> QED BY <2>3, <2>5, <2>6, <2>7, RowFrame DEF rowVars
<1>6. ASSUME NEW d \in Delivery, RetryComesDue(d) \/ CbExpireAbandoned(d) \/ CbExpireLive(d)
      PROVE  IInv'
    <2>1. due' \in [Delivery -> BOOLEAN] /\ leased' \in [Delivery -> BOOLEAN]
        BY Zenon, <1>0, <1>6 DEF RetryComesDue, CbExpireAbandoned, CbExpireLive, CbTypeOK
    <2>2. CbTypeOK' /\ CurOK'
        BY <1>0, <1>6, <2>1 DEF RetryComesDue, CbExpireAbandoned, CbExpireLive, CbFault, CbTypeOK,
                                CurOK, cbLocal
    <2> QED BY <1>6, <2>2, RowFrame DEF RetryComesDue, CbExpireAbandoned, CbExpireLive
<1>7. ASSUME NEW d \in Delivery, Purge(d) PROVE IInv'
    <2>1. leased' \in [Delivery -> BOOLEAN]
        BY <1>0, <1>7 DEF Purge, CbTypeOK
    <2>2. CbTypeOK' /\ CurOK'
        BY <1>0, <1>7, <2>1 DEF Purge, CbTypeOK, CurOK, cbLocal
    <2>3. AttemptsLeft' /\ SuccessIsReal'
        BY <1>0, <1>7 DEF Purge, CbTypeOK, AttemptsLeft, SuccessIsReal, CbOpen
    <2> QED BY <2>2, <2>3 DEF IInv
<1> QED BY <1>1, <1>2, <1>3, <1>4, <1>5, <1>6, <1>7, MarkStep DEF CbNext, CbWorkerStep

LEMMA InvInit == CbInit => IInv
PROOF
<1> SUFFICES ASSUME CbInit PROVE IInv
    OBVIOUS
<1> USE RowAssumption, CbAssumption
<1>1. /\ due \in [Delivery -> BOOLEAN] /\ leased \in [Delivery -> BOOLEAN]
      /\ readable \in [Delivery -> BOOLEAN] /\ received \in [Delivery -> BOOLEAN]
    BY DEF CbInit
<1>2. CbTypeOK
    BY <1>1 DEF CbInit, CbTypeOK
<1>3. AttemptsLeft /\ CurOK /\ SuccessIsReal
    BY DEF CbInit, AttemptsLeft, CurOK, SuccessIsReal
<1> QED BY <1>2, <1>3 DEF IInv

(* The invariant is inductive.                                               *)
THEOREM Invariance == CbSpec => []IInv
PROOF
<1>1. IInv /\ [CbNext]_cbVars => IInv'
    <2> SUFFICES ASSUME IInv, [CbNext]_cbVars PROVE IInv'
        OBVIOUS
    <2>1. CASE UNCHANGED cbVars
        BY <2>1 DEF IInv, CbTypeOK, AttemptsLeft, CurOK, SuccessIsReal, cbVars, rowVars, cbLocal
    <2> QED BY <2>1, InvStep
<1> QED BY <1>1, InvInit, PTL DEF CbSpec

(* Every variable keeps its type: attempt_count never exceeds max attempts,  *)
(* although stalled workers write old counts back.                           *)
THEOREM TypeCorrect == CbSpec => []CbTypeOK
PROOF
<1>1. IInv => CbTypeOK
    BY DEF IInv
<1> QED BY <1>1, Invariance, PTL

(* A callback recorded as delivered was accepted by its receiver.            *)
THEOREM HonestSuccess == CbSpec => []SuccessIsReal
PROOF
<1>1. IInv => SuccessIsReal
    BY DEF IInv
<1> QED BY <1>1, Invariance, PTL

(* No late result of a stalled worker changes a settled row.                 *)
THEOREM SettledForGood == CbSpec => SettledIsFinal
PROOF
<1>1. ASSUME IInv, [CbNext]_cbVars, NEW d \in Delivery, row[d] \in Settled
      PROVE  row'[d] \in {row[d], "purged"} /\ cbCount'[d] = cbCount[d]
    <2>0. CbTypeOK /\ CurOK
        BY <1>1 DEF IInv
    <2>1. ASSUME NEW w \in CbWorker, Mark(w) PROVE row'[d] = row[d] /\ cbCount'[d] = cbCount[d]
        <3>1. CASE cbCur[w] = d
            BY <1>1, <2>1, <3>1 DEF Mark, MayMark, Settled
        <3>2. CASE cbCur[w] # d
            BY <2>0, <2>1, <3>2 DEF Mark, MarkCallbackSucceeded, ScheduleCallbackRetry,
                                    MarkCallbackFailed, CbTypeOK
        <3> QED BY <3>1, <3>2
    <2>2. ASSUME NEW w \in CbWorker, NEW e \in Delivery, ClaimCallbackDelivery(w, e)
          PROVE  row'[d] = row[d] /\ cbCount'[d] = cbCount[d]
        BY <1>1, <2>0, <2>2 DEF ClaimCallbackDelivery, Claimable, CbTypeOK, CbOpen, Settled
    <2>3. ASSUME NEW e \in Delivery, CreateCallbackDelivery(e) \/ Purge(e)
          PROVE  row'[d] \in {row[d], "purged"} /\ cbCount'[d] = cbCount[d]
        BY <1>1, <2>0, <2>3 DEF CreateCallbackDelivery, Purge, CbTypeOK, Settled
    <2>4. ASSUME NEW w \in CbWorker, OpenTarget(w) \/ Deliver(w) \/ CbCrash(w)
          PROVE  UNCHANGED <<row, cbCount>>
        BY <2>4 DEF OpenTarget, Deliver, CbCrash, rowVars
    <2>5. ASSUME NEW e \in Delivery, RetryComesDue(e) \/ CbExpireAbandoned(e) \/ CbExpireLive(e)
          PROVE  UNCHANGED <<row, cbCount>>
        BY <2>5 DEF RetryComesDue, CbExpireAbandoned, CbExpireLive
    <2>6. ASSUME UNCHANGED cbVars PROVE UNCHANGED <<row, cbCount>>
        BY <2>6 DEF cbVars, rowVars
    <2> QED BY <1>1, <2>1, <2>2, <2>3, <2>4, <2>5, <2>6 DEF CbNext, CbWorkerStep
<1>2. IInv /\ [CbNext]_cbVars => [\A d \in Delivery : row[d] \in Settled =>
          row'[d] \in {row[d], "purged"} /\ cbCount'[d] = cbCount[d]]_cbVars
    BY <1>1
<1> QED BY <1>2, Invariance, PTL DEF CbSpec, SettledIsFinal

(* What the outbox records of a callback is true and stays true (Mark,       *)
(* guarded by the status sending).                                           *)
THEOREM HonestOutbox == CbSpec => OutboxIsHonest
PROOF
BY HonestSuccess, SettledForGood, PTL DEF OutboxIsHonest
=============================================================================
