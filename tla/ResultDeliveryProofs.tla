------------------------ MODULE ResultDeliveryProofs ------------------------
(***************************************************************************)
(* Proofs about ResultDelivery for any set of tasks and workers and any    *)
(* bounds.  The inductive invariant adds to the type invariant that a      *)
(* worker past its claim has a task, and one formula per task that ties    *)
(* the job, the task and the callbacks together.                           *)
(***************************************************************************)
EXTENDS ResultDelivery, TLAPS

CurOK == \A w \in Worker : pc[w] \notin {"idle", "claim"} => cur[w] \in Task

LinkAt(t) ==
    /\ status[t] = "generating" => job[t] = "none" /\ round[t] = 0 /\ calls[t] = 0
    /\ status[t] = "reconciling" => job[t] \in Waiting /\ calls[t] + 1 = round[t]
    /\ status[t] = "cancelling" => job[t] \in Waiting \cup {"failed"} /\ calls[t] + 1 = round[t]
    /\ status[t] \in Ended => job[t] = status[t] /\ calls[t] = round[t] /\ told[t] = status[t]

LinkOK == \A t \in Task : LinkAt(t)

IInv == TypeOK /\ CurOK /\ LinkOK

(* Adding to a counter.                                                      *)
LEMMA Bump ==
    ASSUME NEW S, NEW f \in [S -> Nat], NEW x \in S, NEW n \in Nat
    PROVE  [f EXCEPT ![x] = @ + n] \in [S -> Nat]
PROOF OBVIOUS

LEMMA TypeStep ==
    ASSUME TypeOK, CurOK, Next PROVE TypeOK' /\ CurOK'
PROOF
<1> USE TaskAssumption, WorkerAssumption, BoundAssumption
<1>1. ASSUME NEW w \in Worker, RecoverExhausted(w) PROVE TypeOK' /\ CurOK'
    <2>1. live' \in [Task -> BOOLEAN] /\ due' \in [Task -> BOOLEAN]
        BY <1>1 DEF RecoverExhausted
    <2>2. status' \in [Task -> {"generating", "reconciling", "cancelling"} \cup Ended]
          /\ told' \in [Task -> Ended \cup {"none"}] /\ calls' \in [Task -> Nat]
        BY <1>1 DEF RecoverExhausted, FailDeliveredTask, TypeOK, Ended
    <2> QED BY <1>1, <2>1, <2>2 DEF RecoverExhausted, TypeOK, CurOK, Goto, Ended, Waiting
<1>2. ASSUME NEW w \in Worker, NEW t \in Task, ClaimResultUploadJob(w, t) PROVE TypeOK' /\ CurOK'
    <2>1. live' \in [Task -> BOOLEAN] /\ due' \in [Task -> BOOLEAN]
        BY <1>2 DEF ClaimResultUploadJob, TypeOK
    <2>2. attempt' \in [Task -> 0..MaxAttempts]
        BY <1>2 DEF ClaimResultUploadJob, Claimable, NextAttempt, TypeOK
    <2> QED BY <1>2, <2>1, <2>2 DEF ClaimResultUploadJob, TypeOK, CurOK, Goto, Waiting, taskRow
<1>3. ASSUME NEW w \in Worker, ClaimFindsNothing(w) PROVE TypeOK' /\ CurOK'
    BY <1>3 DEF ClaimFindsNothing, Finish, Goto, TypeOK, CurOK, taskRow, jobRow
<1>4. ASSUME NEW w \in Worker, SourceFound(w) PROVE TypeOK' /\ CurOK'
    BY <1>4 DEF SourceFound, Goto, TypeOK, CurOK, taskRow, jobRow
<1>5. ASSUME NEW w \in Worker, SourceMissing(w) PROVE TypeOK' /\ CurOK'
    BY <1>5 DEF SourceMissing, Goto, TypeOK, CurOK, taskRow, jobRow
<1>6. ASSUME NEW w \in Worker, Deliver(w) PROVE TypeOK' /\ CurOK'
    <2>1. cur[w] \in Task
        BY <1>6 DEF Deliver, CurOK
    <2>2. uploads' \in [Task -> Nat]
        <3>1. uploads \in [Task -> Nat] /\ uploads' = [uploads EXCEPT ![cur[w]] = @ + 1] /\ 1 \in Nat
            BY <1>6 DEF Deliver, TypeOK
        <3> QED BY Zenon, <2>1, <3>1, Bump
    <2> QED BY <1>6, <2>2 DEF Deliver, Goto, TypeOK, CurOK, taskRow, jobRow
<1>7. ASSUME NEW w \in Worker, DeliverFails(w) PROVE TypeOK' /\ CurOK'
    <2>1. final' \in [Worker -> BOOLEAN]
        BY <1>7 DEF DeliverFails, TypeOK
    <2>2. uploads' \in [Task -> Nat]
        <3>1. PICK n \in {0, 1} : uploads' = [uploads EXCEPT ![cur[w]] = @ + n]
            BY Zenon, <1>7 DEF DeliverFails
        <3>2. cur[w] \in Task
            BY <1>7 DEF DeliverFails, CurOK
        <3>3. uploads \in [Task -> Nat] /\ n \in Nat
            BY DEF TypeOK
        <3> QED BY Zenon, <3>1, <3>2, <3>3, Bump
    <2> QED BY <1>7, <2>1, <2>2 DEF DeliverFails, Goto, TypeOK, CurOK, taskRow, jobRow
<1>8. ASSUME NEW w \in Worker, CompleteResultUpload(w) PROVE TypeOK' /\ CurOK'
    <2>1. live' \in [Task -> BOOLEAN] /\ final' \in [Worker -> BOOLEAN]
        <3>1. live' = live \/ live' = [live EXCEPT ![cur[w]] = FALSE]
            BY Zenon, <1>8 DEF CompleteResultUpload
        <3>2. final' = [final EXCEPT ![w] = FALSE]
            BY Zenon, <1>8 DEF CompleteResultUpload, Finish
        <3>3. live \in [Task -> BOOLEAN] /\ final \in [Worker -> BOOLEAN]
            BY Zenon DEF TypeOK
        <3> QED BY Zenon, <3>1, <3>2, <3>3
    <2>2. calls' \in [Task -> Nat]
        BY <1>8 DEF CompleteResultUpload, CurOK, TypeOK
    <2> QED BY <1>8, <2>1, <2>2
            DEF CompleteResultUpload, Finish, Goto, TypeOK, CurOK, Waiting, Ended
<1>9. ASSUME NEW w \in Worker, FailResultUploadAttempt(w) PROVE TypeOK' /\ CurOK'
    <2>1. live' \in [Task -> BOOLEAN] /\ final' \in [Worker -> BOOLEAN]
        <3>1. live' = live \/ live' = [live EXCEPT ![cur[w]] = FALSE]
            BY Zenon, <1>9 DEF FailResultUploadAttempt
        <3>2. final' = [final EXCEPT ![w] = FALSE]
            BY Zenon, <1>9 DEF FailResultUploadAttempt, Finish
        <3>3. live \in [Task -> BOOLEAN] /\ final \in [Worker -> BOOLEAN]
            BY Zenon DEF TypeOK
        <3> QED BY Zenon, <3>1, <3>2, <3>3
    <2>2. status' \in [Task -> {"generating", "reconciling", "cancelling"} \cup Ended]
          /\ told' \in [Task -> Ended \cup {"none"}] /\ calls' \in [Task -> Nat]
        BY <1>9 DEF FailResultUploadAttempt, FailDeliveredTask, TypeOK, Ended
    <2> QED BY <1>9, <2>1, <2>2
            DEF FailResultUploadAttempt, Finish, Goto, TypeOK, CurOK, Waiting, Ended
<1>10. ASSUME NEW w \in Worker, Crash(w) PROVE TypeOK' /\ CurOK'
    BY <1>10 DEF Crash, Fault, Finish, Goto, TypeOK, CurOK, taskRow
<1>11. ASSUME NEW t \in Task, Generated(t) PROVE TypeOK' /\ CurOK'
    BY <1>11 DEF Generated, TypeOK, CurOK, Waiting, local
<1>12. ASSUME NEW t \in Task, RetryComesDue(t) PROVE TypeOK' /\ CurOK'
    BY <1>12 DEF RetryComesDue, TypeOK, CurOK, taskRow, local
<1>13. ASSUME NEW t \in Task, ExpireAbandoned(t) PROVE TypeOK' /\ CurOK'
    BY <1>13 DEF ExpireAbandoned, TypeOK, CurOK, taskRow, local
<1>14. ASSUME NEW t \in Task, ExpireLive(t) PROVE TypeOK' /\ CurOK'
    BY <1>14 DEF ExpireLive, Fault, TypeOK, CurOK, taskRow, local
<1>15. ASSUME NEW t \in Task, RequestAdminCancel(t) PROVE TypeOK' /\ CurOK'
    BY <1>15 DEF RequestAdminCancel, TypeOK, CurOK, jobRow, local
<1>16. ASSUME NEW t \in Task, RetryResultUpload(t) PROVE TypeOK' /\ CurOK'
    <2>1. due' \in [Task -> BOOLEAN]
        BY <1>16 DEF RetryResultUpload, TypeOK
    <2>2. round' \in [Task -> 0..MaxRounds]
        BY <1>16 DEF RetryResultUpload, TypeOK
    <2> QED BY <1>16, <2>1, <2>2 DEF RetryResultUpload, TypeOK, CurOK, Waiting, local
<1>17. ASSUME NEW t \in Task, DecideDeletion(t) PROVE TypeOK' /\ CurOK'
    BY <1>17 DEF DecideDeletion, TypeOK, CurOK, taskRow, jobRow, local
<1>18. ASSUME NEW t \in Task, RequestTaskDeletion(t) PROVE TypeOK' /\ CurOK'
    BY <1>18 DEF RequestTaskDeletion, TypeOK, CurOK, jobRow, local
<1> QED BY <1>1, <1>2, <1>3, <1>4, <1>5, <1>6, <1>7, <1>8, <1>9, <1>10, <1>11, <1>12,
          <1>13, <1>14, <1>15, <1>16, <1>17, <1>18 DEF Next, WorkerStep

(* What a task row's relation to its job needs to survive a step.            *)
LEMMA LinkFrame ==
    ASSUME LinkOK, UNCHANGED <<status, job, round, calls, told>> PROVE LinkOK'
PROOF BY DEF LinkOK, LinkAt, Waiting, Ended

LEMMA LinkStep ==
    ASSUME TypeOK, CurOK, LinkOK, Next PROVE LinkOK'
PROOF
<1> USE TaskAssumption, WorkerAssumption, BoundAssumption
<1>1. ASSUME NEW w \in Worker, RecoverExhausted(w) PROVE LinkOK'
    <2> SUFFICES ASSUME NEW t \in Task PROVE LinkAt(t)'
        BY DEF LinkOK
    <2>1. LinkAt(t) /\ round' = round
        BY <1>1 DEF LinkOK, RecoverExhausted
    <2>2. CASE Exhausted(t) /\ status[t] = "reconciling"
        <3>1. job'[t] = "failed" /\ status'[t] = "failed" /\ told'[t] = "failed"
              /\ calls'[t] = calls[t] + 1
            BY <1>1, <2>2 DEF RecoverExhausted, FailDeliveredTask
        <3> QED BY <2>1, <2>2, <3>1 DEF LinkAt, Ended, Waiting
    <2>3. CASE Exhausted(t) /\ status[t] # "reconciling"
        <3>1. job'[t] = "failed" /\ status'[t] = status[t] /\ told'[t] = told[t]
              /\ calls'[t] = calls[t]
            BY <1>1, <2>3 DEF RecoverExhausted, FailDeliveredTask
        <3>2. job[t] \in Waiting
            BY <2>3 DEF Exhausted, Waiting
        <3> QED BY <2>1, <2>3, <3>1, <3>2 DEF LinkAt, Ended, Waiting
    <2>4. CASE ~Exhausted(t)
        <3>1. job'[t] = job[t] /\ status'[t] = status[t] /\ told'[t] = told[t]
              /\ calls'[t] = calls[t]
            BY <1>1, <2>4 DEF RecoverExhausted, FailDeliveredTask
        <3> QED BY <2>1, <3>1 DEF LinkAt, Ended, Waiting
    <2> QED BY <2>2, <2>3, <2>4
<1>2. ASSUME NEW w \in Worker, NEW t \in Task, ClaimResultUploadJob(w, t) PROVE LinkOK'
    BY <1>2 DEF ClaimResultUploadJob, Claimable, TypeOK, LinkOK, LinkAt, Waiting, Ended, taskRow
<1>3. ASSUME NEW w \in Worker, CompleteResultUpload(w) PROVE LinkOK'
    <2>1. CASE Holds(w, cur[w]) /\ MayComplete(cur[w])
        BY <1>3, <2>1 DEF CompleteResultUpload, Holds, MayComplete, CurOK, TypeOK,
                         LinkOK, LinkAt, Waiting, Ended
    <2>2. CASE ~(Holds(w, cur[w]) /\ MayComplete(cur[w]))
        BY <1>3, <2>2, LinkFrame DEF CompleteResultUpload
    <2> QED BY <2>1, <2>2
<1>4. ASSUME NEW w \in Worker, FailResultUploadAttempt(w) PROVE LinkOK'
    <2> DEFINE t == cur[w]
               again == ~final[w] /\ attempt[t] < MaxAttempts
    <2>0. t \in Task /\ round' = round
        BY <1>4 DEF FailResultUploadAttempt, CurOK
    <2>1. CASE Holds(w, t) /\ again
        <3>1. /\ job' = [job EXCEPT ![t] = "retry_wait"]
              /\ FailDeliveredTask({})
            BY <1>4, <2>1 DEF FailResultUploadAttempt
        <3>2. \A u \in Task : status'[u] = status[u] /\ told'[u] = told[u] /\ calls'[u] = calls[u]
            BY <3>1 DEF FailDeliveredTask
        <3> QED BY <2>0, <2>1, <3>1, <3>2 DEF Holds, TypeOK, LinkOK, LinkAt, Waiting, Ended
    <2>2. CASE Holds(w, t) /\ ~again
        <3>1. /\ job' = [job EXCEPT ![t] = "failed"]
              /\ FailDeliveredTask({t})
            BY <1>4, <2>2 DEF FailResultUploadAttempt
        <3>2. \A u \in Task : u # t \/ status[u] # "reconciling" =>
                status'[u] = status[u] /\ told'[u] = told[u] /\ calls'[u] = calls[u]
            BY <3>1 DEF FailDeliveredTask
        <3>3. status[t] = "reconciling" =>
                status'[t] = "failed" /\ told'[t] = "failed" /\ calls'[t] = calls[t] + 1
            BY <2>0, <3>1 DEF FailDeliveredTask
        <3> HIDE DEF t
        <3> QED BY <2>0, <2>2, <3>1, <3>2, <3>3 DEF Holds, TypeOK, LinkOK, LinkAt, Waiting, Ended
    <2>3. CASE ~Holds(w, t)
        BY <1>4, <2>3, LinkFrame DEF FailResultUploadAttempt
    <2> QED BY <2>1, <2>2, <2>3
<1>5. ASSUME NEW t \in Task, Generated(t) PROVE LinkOK'
    BY <1>5 DEF Generated, TypeOK, LinkOK, LinkAt, Waiting, Ended
<1>6. ASSUME NEW t \in Task, RequestAdminCancel(t) PROVE LinkOK'
    BY <1>6 DEF RequestAdminCancel, TypeOK, LinkOK, LinkAt, Waiting, Ended, jobRow
<1>7. ASSUME NEW t \in Task, RetryResultUpload(t) PROVE LinkOK'
    BY <1>7 DEF RetryResultUpload, MayRetry, TypeOK, LinkOK, LinkAt, Waiting, Ended
<1>8. ASSUME NEW w \in Worker,
             ClaimFindsNothing(w) \/ SourceFound(w) \/ SourceMissing(w) \/ Deliver(w)
               \/ DeliverFails(w) \/ Crash(w)
      PROVE  LinkOK'
    BY <1>8, LinkFrame
       DEF ClaimFindsNothing, SourceFound, SourceMissing, Deliver, DeliverFails, Crash,
           taskRow, jobRow
<1>9. ASSUME NEW t \in Task,
             RetryComesDue(t) \/ ExpireAbandoned(t) \/ ExpireLive(t) \/ DecideDeletion(t)
               \/ RequestTaskDeletion(t)
      PROVE  LinkOK'
    BY <1>9, LinkFrame
       DEF RetryComesDue, ExpireAbandoned, ExpireLive, DecideDeletion, RequestTaskDeletion,
           taskRow, jobRow
<1> QED BY <1>1, <1>2, <1>3, <1>4, <1>5, <1>6, <1>7, <1>8, <1>9 DEF Next, WorkerStep

LEMMA InvInit == Init => IInv
PROOF
<1> SUFFICES ASSUME Init PROVE IInv
    OBVIOUS
<1> USE TaskAssumption, WorkerAssumption, BoundAssumption
<1>1. deleted \in [Task -> BOOLEAN] /\ live \in [Task -> BOOLEAN] /\ due \in [Task -> BOOLEAN]
      /\ final \in [Worker -> BOOLEAN]
    BY DEF Init
<1>2. TypeOK
    BY <1>1 DEF Init, TypeOK, Ended, Waiting
<1>3. CurOK /\ LinkOK
    BY DEF Init, CurOK, LinkOK, LinkAt, Ended
<1> QED BY <1>2, <1>3 DEF IInv

(* The invariant is inductive: initially true and kept by every transaction, *)
(* worker step and fault of the delivery.                                    *)
THEOREM Invariance == Spec => []IInv
PROOF
<1>1. IInv /\ [Next]_vars => IInv'
    <2> SUFFICES ASSUME IInv, [Next]_vars PROVE IInv'
        OBVIOUS
    <2>1. CASE Next
        BY <2>1, TypeStep, LinkStep DEF IInv
    <2>2. CASE UNCHANGED vars
        BY <2>2 DEF IInv, TypeOK, CurOK, LinkOK, LinkAt, vars, taskRow, jobRow, local,
                    Ended, Waiting
    <2> QED BY <2>1, <2>2
<1> QED BY <1>1, InvInit, PTL DEF Spec

(* Every variable keeps its type; in particular attempt_no stays within the  *)
(* CHECK constraint of the schema, 0..max_attempts.                          *)
THEOREM TypeCorrect == Spec => []TypeOK
PROOF
<1>1. IInv => TypeOK
    BY DEF IInv
<1> QED BY <1>1, Invariance, PTL

(* The upload job and its task never part, whatever the workers, crashes,    *)
(* cancels and retries do.                                                   *)
THEOREM JobTaskAgreement == Spec => []JobMatchesTask
PROOF
<1>1. IInv => JobMatchesTask
    BY DEF IInv, LinkOK, LinkAt, JobMatchesTask
<1> QED BY <1>1, Invariance, PTL

(* A round of upload attempts produces one callback, and the latest callback *)
(* of an ended task tells its status.                                        *)
THEOREM CallbackPerRound == Spec => []OneCallbackPerRound
PROOF
<1>1. IInv => OneCallbackPerRound
    <2> SUFFICES ASSUME IInv, NEW t \in Task
                 PROVE  IF status[t] \in Ended THEN calls[t] = round[t] /\ told[t] = status[t]
                        ELSE calls[t] < round[t] \/ calls[t] = 0
        BY DEF OneCallbackPerRound
    <2>1. calls[t] \in Nat /\ round[t] \in Nat
        BY BoundAssumption DEF IInv, TypeOK
    <2>2. LinkAt(t) /\ status[t] \in {"generating", "reconciling", "cancelling"} \cup Ended
        BY DEF IInv, LinkOK, TypeOK
    <2> QED BY <2>1, <2>2 DEF LinkAt, Ended
<1> QED BY <1>1, Invariance, PTL

(* No step of any actor takes a delivered task back.                         *)
THEOREM DeliveredForGood == Spec => DeliveredIsFinal
PROOF
<1> DEFINE Final(t) == status[t] = "succeeded" =>
              status'[t] = "succeeded" /\ job'[t] = "succeeded" /\ calls'[t] = calls[t]
<1>1. ASSUME IInv, [Next]_vars, NEW t \in Task, status[t] = "succeeded"
      PROVE  status'[t] = "succeeded" /\ job'[t] = "succeeded" /\ calls'[t] = calls[t]
    <2>1. job[t] = "succeeded" /\ TypeOK /\ CurOK
        BY <1>1 DEF IInv, LinkOK, LinkAt, Ended
    <2>2. ASSUME NEW w \in Worker, RecoverExhausted(w)
          PROVE  status'[t] = status[t] /\ job'[t] = job[t] /\ calls'[t] = calls[t]
        BY <1>1, <2>1, <2>2 DEF RecoverExhausted, FailDeliveredTask, Exhausted
    <2>3. ASSUME NEW w \in Worker, NEW u \in Task, ClaimResultUploadJob(w, u)
          PROVE  status'[t] = status[t] /\ job'[t] = job[t] /\ calls'[t] = calls[t]
        BY <2>1, <2>3 DEF ClaimResultUploadJob, Claimable, TypeOK, taskRow
    <2>4. ASSUME NEW w \in Worker, CompleteResultUpload(w)
          PROVE  status'[t] = status[t] /\ job'[t] = job[t] /\ calls'[t] = calls[t]
        BY <2>1, <2>4 DEF CompleteResultUpload, Holds, TypeOK
    <2>5. ASSUME NEW w \in Worker, FailResultUploadAttempt(w)
          PROVE  status'[t] = status[t] /\ job'[t] = job[t] /\ calls'[t] = calls[t]
        BY <1>1, <2>1, <2>5 DEF FailResultUploadAttempt, FailDeliveredTask, Holds, TypeOK
    <2>6. ASSUME NEW u \in Task, Generated(u) \/ RequestAdminCancel(u) \/ RetryResultUpload(u)
          PROVE  status'[t] = status[t] /\ job'[t] = job[t] /\ calls'[t] = calls[t]
        BY <1>1, <2>1, <2>6 DEF Generated, RequestAdminCancel, RetryResultUpload, MayRetry,
                               TypeOK, jobRow
    <2>7. ASSUME NEW w \in Worker,
                 ClaimFindsNothing(w) \/ SourceFound(w) \/ SourceMissing(w) \/ Deliver(w)
                   \/ DeliverFails(w) \/ Crash(w)
          PROVE  UNCHANGED <<status, job, calls>>
        BY <2>7 DEF ClaimFindsNothing, SourceFound, SourceMissing, Deliver, DeliverFails, Crash,
                    taskRow, jobRow
    <2>8. ASSUME NEW u \in Task,
                 RetryComesDue(u) \/ ExpireAbandoned(u) \/ ExpireLive(u) \/ DecideDeletion(u)
                   \/ RequestTaskDeletion(u)
          PROVE  UNCHANGED <<status, job, calls>>
        BY <2>8 DEF RetryComesDue, ExpireAbandoned, ExpireLive, DecideDeletion,
                    RequestTaskDeletion, taskRow, jobRow
    <2>9. ASSUME UNCHANGED vars PROVE UNCHANGED <<status, job, calls>>
        BY <2>9 DEF vars, taskRow, jobRow
    <2> QED BY <1>1, <2>1, <2>2, <2>3, <2>4, <2>5, <2>6, <2>7, <2>8, <2>9 DEF Next, WorkerStep
<1>2. IInv /\ [Next]_vars => [\A t \in Task : Final(t)]_vars
    BY <1>1
<1> QED BY <1>2, Invariance, PTL DEF Spec, DeliveredIsFinal

(* Job, task and callbacks tell one story, and that of a delivered task is   *)
(* over (CompleteResultUpload, FailResultUploadAttempt, RetryResultUpload).  *)
THEOREM ConsistentDelivery == Spec => DeliveryIsConsistent
PROOF
BY JobTaskAgreement, CallbackPerRound, DeliveredForGood, PTL DEF DeliveryIsConsistent
=============================================================================
