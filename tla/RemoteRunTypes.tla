--------------------------- MODULE RemoteRunTypes ---------------------------
(***************************************************************************)
(* The inductive invariant of RemoteRun and the first part of its proof:   *)
(* every step keeps the types.  RemoteRunProofs has the rest.              *)
(***************************************************************************)
EXTENDS RemoteRun, TLAPS

Polling == {"query", "decide", "cancel", "requery", "observe"}

(* The job of t does not exist and no submission of it is on its way ...   *)
Unborn(t) == job[<<t, 0>>] = "none" /\ <<t, 0>> \notin late

(* ... and none is being made, except by w.                                *)
NoOtherSubmits(t, w) == \A v \in Worker \ {w} : ~(pc[v] = "submit" /\ cur[v] = t)

(* A worker is at work exactly when it has a task.                         *)
CurOK == \A w \in Worker : IF pc[w] = "idle" THEN cur[w] = NoTask ELSE cur[w] \in Task

(* What holds of a row: slot, phase and status agree; only the key <<t, 0>>  *)
(* is ever used; submit_attempts follows the phase, and before the first     *)
(* attempt the service knows nothing of the task; a submitted run knows its  *)
(* job; how a run can have ended.                                            *)
SlotAt(t) ==
    /\ slot[t] <=> phase[t] \notin {"none", "terminal"}
    /\ slot[t] => status[t] \in Claimed
    /\ phase[t] = "none" => status[t] \in Queued \cup {"cancelled"}

RunAt(t) ==
    /\ phase[t] \in {"none", "preparing", "prepared"} => ~tried[t]
    /\ phase[t] \in {"submit_intent", "submitted"} => tried[t]
    /\ ~tried[t] => Unborn(t)
    /\ phase[t] = "submitted" => upstreamID[t] = <<t, 0>> /\ job[<<t, 0>>] # "none"

EndedAt(t) ==
    phase[t] = "terminal" =>
        \/ /\ upstream[t] \in {"failed", "cancelled"} /\ Unborn(t)
           /\ \A v \in Worker : ~(pc[v] = "submit" /\ cur[v] = t)
        \/ upstream[t] \in Terminal /\ job[<<t, 0>>] = upstream[t]

KeyOK == \A t \in Task : job[<<t, 1>>] = "none" /\ <<t, 1>> \notin late

RowOK == \A t \in Task : SlotAt(t) /\ RunAt(t) /\ EndedAt(t)

(* What a worker knows at each point, whether or not its lease is lost.    *)
WorkerAt(w) ==
    /\ pc[w] = "submit" => tried[cur[w]]
    /\ pc[w] = "bind" => job[<<cur[w], 0>>] # "none"
    /\ pc[w] \in Polling => /\ upstreamID[cur[w]] = <<cur[w], 0>>
                            /\ job[<<cur[w], 0>>] # "none"
    /\ pc[w] = "decide" /\ seen[w] \in Terminal => job[<<cur[w], 0>>] = seen[w]
    /\ pc[w] = "complete" => seen[w] \in Terminal

WorkerOK == \A w \in Worker : WorkerAt(w)

(* What it knows while the run still carries its token.                    *)
HolderAt(w) ==
    pc[w] # "idle" /\ lease[cur[w]] = w =>
        /\ pc[w] = "prepare" => phase[cur[w]] = "preparing"
        /\ pc[w] = "begin" => /\ phase[cur[w]] \in {"prepared", "submit_intent"}
                              /\ ~replay[w] => ~tried[cur[w]]
        /\ pc[w] = "submit" => /\ phase[cur[w]] = "submit_intent"
                               /\ ~replay[w] => Unborn(cur[w]) /\ NoOtherSubmits(cur[w], w)
        /\ pc[w] = "bind" => phase[cur[w]] = "submit_intent"
        /\ pc[w] \in Polling => phase[cur[w]] = "submitted"
        /\ pc[w] = "complete" =>
             \/ phase[cur[w]] = "submitted" /\ job[<<cur[w], 0>>] = seen[w]
             \/ /\ phase[cur[w]] \in {"preparing", "prepared", "submit_intent"}
                /\ seen[w] \in {"failed", "cancelled"}
                /\ Unborn(cur[w]) /\ NoOtherSubmits(cur[w], w)

HolderOK == \A w \in Worker : HolderAt(w)

(* The inductive invariant.                                                *)
IInv == TypeOK /\ CurOK /\ KeyOK /\ RowOK /\ WorkerOK /\ HolderOK

-----------------------------------------------------------------------------
(* rebalance moves queued tasks between open and locked and touches no       *)
(* other.                                                                    *)
LEMMA RebalanceFacts ==
    ASSUME NEW s \in [Task -> Status]
    PROVE  /\ Rebalance(s) \in [Task -> Status]
           /\ \A t \in Task : /\ s[t] \notin Queued => Rebalance(s)[t] = s[t]
                             /\ s[t] \in Queued => Rebalance(s)[t] \in Queued
BY DEF Rebalance, Status, Queued

(* The keys of a task, and what an operation on the job table leaves.        *)
LEMMA KeyFacts ==
    /\ \A t \in Task : <<t, 0>> \in Key /\ <<t, 1>> \in Key
    /\ \A t, u \in Task : <<t, 0>> # <<u, 1>> /\ (<<t, 0>> = <<u, 0>> => t = u)
    /\ \A k \in Key : \E t \in Task : k \in {<<t, 0>>, <<t, 1>>}
BY DEF Key

(* Giving up a task leaves the worker well-typed and on its task.            *)
LEMMA GiveUpFacts ==
    ASSUME TypeOK, CurOK, NEW w \in Worker, pc[w] # "idle", NEW b \in BOOLEAN, GiveUp(w, b)
    PROVE  /\ pc' \in [Worker -> PC] /\ flag' \in [Worker -> BOOLEAN]
           /\ cur' = cur /\ replay' = replay /\ seen' = seen /\ intent' = intent
           /\ CurOK'
<1>1. flag' \in [Worker -> BOOLEAN]
  BY DEF TypeOK, GiveUp
<1> QED BY <1>1 DEF TypeOK, CurOK, GiveUp, Goto, PC

(* ... and if it changes nothing else, all types are kept.                   *)
LEMMA GiveUpTypes ==
    ASSUME TypeOK, CurOK, NEW w \in Worker, pc[w] # "idle", NEW b \in BOOLEAN, GiveUp(w, b),
           UNCHANGED <<taskRow, runRow, leaseRow, request, remote, faults>>
    PROVE  TypeOK' /\ CurOK'
BY GiveUpFacts DEF TypeOK, taskRow, runRow, leaseRow, request, remote

(* Every action keeps the types, and a worker at work has a task.            *)
LEMMA TypeStep == IInv /\ [Next]_vars => TypeOK' /\ CurOK'
<1> SUFFICES ASSUME TypeOK, CurOK, WorkerOK, [Next]_vars PROVE TypeOK' /\ CurOK'
    BY DEF IInv
<1> USE TaskAssumption, WorkerAssumption, BoundAssumption
<1> USE DEF TypeOK, CurOK, taskRow, runRow, leaseRow, rows, local, request, remote
<1>1. ASSUME NEW w \in Worker, WorkerStep(w) PROVE TypeOK' /\ CurOK'
  <2>a. pc[w] # "idle" => cur[w] \in Task /\ <<cur[w], 0>> \in Key
    BY Zenon, KeyFacts
  <2>b. pc[w] \in Polling => /\ upstreamID[cur[w]] \in Key
                             /\ job[upstreamID[cur[w]]] \in JobState
    <3> HIDE DEF TypeOK, CurOK
    <3>1. job \in [Key -> JobState]
      BY DEF TypeOK
    <3> QED BY <2>a, <3>1 DEF WorkerOK, WorkerAt, Polling
  <2>1. CASE PrepareDone(w)
    <3>1. CASE HoldsLease(w) /\ phase[cur[w]] = "preparing" /\ cancel[cur[w]] = "none"
      BY <2>1, <2>a, <3>1 DEF PrepareDone, Goto, PC, Phase
    <3>2. CASE ~(HoldsLease(w) /\ phase[cur[w]] = "preparing" /\ cancel[cur[w]] = "none")
      <4> HIDE DEF TypeOK, CurOK
      <4> QED BY Zenon, <2>1, <3>2, GiveUpTypes DEF PrepareDone
    <3> QED BY <3>1, <3>2
  <2>2. CASE PrepareInvalid(w)
    BY <2>2, <2>a DEF PrepareInvalid, Goto, PC, JobState, Terminal
  <2>3. CASE CallFails(w)
    <3>1. pc[w] # "idle" /\ GiveUp(w, FALSE) /\ UNCHANGED <<rows, request, remote>>
      BY Zenon, <2>3 DEF CallFails
    <3>2. faults' \in 0..MaxFaults
      BY <2>3 DEF CallFails, Fault
    <3> QED BY Zenon, <3>1, <3>2, GiveUpFacts
  <2>4. CASE BeginRemoteSubmission(w)
    <3>1. CASE HoldsLease(w) /\ MayBegin(cur[w])
      <4>1. tried' \in [Task -> BOOLEAN]
        BY Zenon, <2>4, <2>a, <3>1 DEF BeginRemoteSubmission
      <4> QED BY <2>4, <2>a, <3>1, <4>1 DEF BeginRemoteSubmission, Goto, PC, Phase
    <3>2. CASE ~(HoldsLease(w) /\ MayBegin(cur[w]))
      <4> HIDE DEF TypeOK, CurOK
      <4> QED BY Zenon, <2>4, <3>2, GiveUpTypes DEF BeginRemoteSubmission
    <3> QED BY <3>1, <3>2
  <2>5. CASE SubmitAccepted(w)
    BY <2>5, <2>a DEF SubmitAccepted, Goto, PC, Created, SubmissionKey, JobState
  <2>6. CASE SubmitUnknown(w)
    <3>1. pc[w] # "idle" /\ GiveUp(w, FALSE) /\ UNCHANGED <<rows, request, job>>
      BY Zenon, <2>6 DEF SubmitUnknown
    <3>2. faults' \in 0..MaxFaults /\ late' \subseteq Key
      BY <2>6, <2>a DEF SubmitUnknown, Fault, SubmissionKey
    <3> QED BY Zenon, <3>1, <3>2, GiveUpFacts
  <2>7. CASE SubmitRejected(w)
    <3>1. CASE RejectionIsFinal(w)
      BY <2>7, <2>a, GiveUpFacts, <3>1 DEF SubmitRejected, Goto, PC, JobState, Terminal
    <3>2. CASE ~RejectionIsFinal(w)
      <4> HIDE DEF TypeOK, CurOK
      <4> QED BY Zenon, <2>7, <3>2, GiveUpTypes DEF SubmitRejected
    <3> QED BY <3>1, <3>2
  <2>8. CASE SubmitConflict(w)
    <3> HIDE DEF TypeOK, CurOK
    <3> QED BY Zenon, <2>8, GiveUpTypes DEF SubmitConflict
  <2>9. CASE BindRemoteTask(w)
    <3>1. CASE HoldsLease(w) /\ phase[cur[w]] = "submit_intent" /\ TaskIsClaimed(cur[w])
      BY <2>9, <2>a, <3>1 DEF BindRemoteTask, Goto, PC, SubmissionKey, Phase, Status, Claimed, JobState
    <3>2. CASE ~(HoldsLease(w) /\ phase[cur[w]] = "submit_intent" /\ TaskIsClaimed(cur[w]))
      <4> HIDE DEF TypeOK, CurOK
      <4> QED BY Zenon, <2>9, <3>2, GiveUpTypes DEF BindRemoteTask
    <3> QED BY <3>1, <3>2
  <2>10. CASE Query(w)
    BY <2>10, <2>a, <2>b DEF Query, Goto, PC, Polling
  <2>11. CASE Decide(w)
    <3>1. CASE lease[cur[w]] # w
      <4> HIDE DEF TypeOK, CurOK
      <4> QED BY Zenon, <2>11, <3>1, GiveUpTypes DEF Decide
    <3>2. CASE lease[cur[w]] = w
      BY <2>11, <2>a, <3>2 DEF Decide, Goto, PC
    <3> QED BY <3>1, <3>2
  <2>12. CASE CancelConfirmed(w)
    BY <2>12, <2>a, <2>b DEF CancelConfirmed, Goto, PC, JobState, Terminal, Polling
  <2>13. CASE CancelConflict(w)
    BY <2>13, <2>a DEF CancelConflict, Goto, PC
  <2>14. CASE CancelUnknown(w)
    BY <2>14, <2>a, <2>b DEF CancelUnknown, Goto, PC, Fault, JobState, Terminal, Polling
  <2>15. CASE Requery(w)
    BY <2>15, <2>a, <2>b DEF Requery, Goto, PC, Polling
  <2>16. CASE RequeryFails(w)
    BY <2>16, <2>a DEF RequeryFails, Goto, PC, Fault
  <2>17. CASE ObserveRemoteTask(w)
    <3>1. pc[w] # "idle" /\ GiveUp(w, FALSE)
      BY Zenon, <2>17 DEF ObserveRemoteTask
    <3>2. /\ status' \in [Task -> Status] /\ upstream' \in [Task -> JobState]
          /\ cancel' \in [Task -> {"none", "requested", "confirmed", "rejected"}]
      BY <2>17, <2>a DEF ObserveRemoteTask, Status, Claimed
    <3> QED BY Zenon, <2>17, <3>1, <3>2, GiveUpFacts DEF ObserveRemoteTask
  <2>18. CASE CompleteRemoteRun(w)
    <3>1. pc[w] # "idle" /\ GiveUp(w, FALSE)
      BY Zenon, <2>18 DEF CompleteRemoteRun
    <3>2. slot' \in [Task -> BOOLEAN] /\ live' \in [Task -> BOOLEAN]
      <4> HIDE DEF TypeOK, CurOK
      <4>1. slot \in [Task -> BOOLEAN] /\ live \in [Task -> BOOLEAN]
        BY DEF TypeOK
      <4> QED BY Zenon, <2>18, <2>a, <4>1 DEF CompleteRemoteRun
    <3>3. seen[w] \in Terminal
      BY Zenon, <2>18 DEF CompleteRemoteRun, WorkerOK, WorkerAt
    <3>4. /\ status' \in [Task -> Status] /\ notified' \in [Task -> Terminal \cup {"none"}]
          /\ lease' \in [Task -> Worker \cup {NoLease, Gone}]
      BY <2>18, <2>a, <3>3 DEF CompleteRemoteRun, Settle, Status, Claimed
    <3>5. /\ phase' \in [Task -> Phase] /\ upstream' \in [Task -> JobState]
          /\ cancel' \in [Task -> {"none", "requested", "confirmed", "rejected"}]
      BY <2>18, <2>a, <3>3 DEF CompleteRemoteRun, CancelAfter, Phase, JobState
    <3>6. UNCHANGED <<delivery, upstreamID, recon, tried, request, remote, faults>>
      BY Zenon, <2>18 DEF CompleteRemoteRun
    <3> QED BY Zenon, <3>1, <3>2, <3>4, <3>5, <3>6, GiveUpFacts
  <2>19. CASE Release(w)
    <3>1. live' \in [Task -> BOOLEAN] /\ recon' \in [Task -> BOOLEAN]
      <4> HIDE DEF TypeOK, CurOK
      <4>1. /\ live \in [Task -> BOOLEAN] /\ recon \in [Task -> BOOLEAN]
            /\ flag \in [Worker -> BOOLEAN]
        BY DEF TypeOK
      <4> QED BY Zenon, <2>19, <2>a, <4>1 DEF Release
    <3>2. replay' \in [Worker -> BOOLEAN] /\ flag' \in [Worker -> BOOLEAN]
      BY <2>19 DEF Release
    <3>3. lease' \in [Task -> Worker \cup {NoLease, Gone}]
      BY <2>19, <2>a DEF Release
    <3> QED BY <2>19, <3>1, <3>2, <3>3 DEF Release, Goto, PC, JobState
  <2> HIDE DEF TypeOK, CurOK
  <2> QED BY Zenon, <1>1, <2>1, <2>2, <2>3, <2>4, <2>5, <2>6, <2>7, <2>8, <2>9, <2>10, <2>11, <2>12, <2>13, <2>14, <2>15, <2>16, <2>17, <2>18, <2>19 DEF WorkerStep
<1>2. ASSUME NEW w \in Worker, NEW t \in Task, ClaimNextRemote(w, t)
      PROVE  TypeOK' /\ CurOK'
  <2>1. [status EXCEPT ![t] = "dispatching"] \in [Task -> Status]
    BY DEF Status, Claimed
  <2>2. status' \in [Task -> Status]
    BY Zenon, <1>2, <2>1, RebalanceFacts DEF ClaimNextRemote
  <2>3. slot' \in [Task -> BOOLEAN] /\ delivery' \in [Task -> BOOLEAN]
    <3> HIDE DEF TypeOK, CurOK
    <3>1. slot \in [Task -> BOOLEAN] /\ delivery \in [Task -> BOOLEAN]
      BY DEF TypeOK
    <3> QED BY Zenon, <1>2, <3>1 DEF ClaimNextRemote
  <2>4. phase' \in [Task -> Phase]
    BY <1>2 DEF ClaimNextRemote, Phase
  <2> QED BY Zenon, <1>2, <2>2, <2>3, <2>4 DEF ClaimNextRemote
<1>3. ASSUME NEW w \in Worker, NEW t \in Task, Acquire(w, t)
      PROVE  TypeOK' /\ CurOK'
  BY <1>3 DEF Acquire, Goto, PC, JobState, Terminal
<1>4. ASSUME NEW t \in Task, ExpireLive(t) \/ ExpireGone(t)
      PROVE  TypeOK' /\ CurOK'
  <2>1. live' \in [Task -> BOOLEAN]
    BY Zenon, <1>4 DEF ExpireLive, ExpireGone
  <2> QED BY <1>4, <2>1 DEF ExpireLive, ExpireGone, Fault
<1>4a. ASSUME NEW t \in Task, ReadForCancel(t)
      PROVE  TypeOK' /\ CurOK'
  <2>1. client' \in Task /\ path' \in {"none", "remote", "admin", "user"}
    BY <1>4a DEF ReadForCancel
  <2> QED BY <1>4a, <2>1 DEF ReadForCancel
<1>5. CASE RequestRemoteCancel
  BY <1>5 DEF RequestRemoteCancel, Status, Claimed
<1>6. CASE CancelLocally
  <2>1. client \in Task
    BY <1>6 DEF CancelLocally
  <2>2. /\ [status EXCEPT ![client] = "cancelled"] \in [Task -> Status]
        /\ [status EXCEPT ![client] = "cancelling"] \in [Task -> Status]
    BY <2>1 DEF Status, Claimed, Terminal
  <2>3. Rebalance([status EXCEPT ![client] = "cancelled"]) \in [Task -> Status]
    BY Zenon, <2>2, RebalanceFacts
  <2>4. status' \in [Task -> Status]
    BY Zenon, <1>6, <2>2, <2>3 DEF CancelLocally, CancelQueued, CancelOwned
  <2>5. notified' \in [Task -> Terminal \cup {"none"}]
    BY <1>6, <2>1 DEF CancelLocally, CancelQueued, CancelOwned, Settle, Terminal
  <2> QED BY <1>6, <2>4, <2>5 DEF CancelLocally
<1>7. ASSUME NEW k \in Key, LateArrival(k) \/ LateLoss(k) \/ JobStarts(k) \/ JobEnds(k)
      PROVE  TypeOK' /\ CurOK'
  BY <1>7 DEF LateArrival, LateLoss, JobStarts, JobEnds, Created, JobState, Terminal
<1>8. CASE Crash
  <2>1. \A w \in Worker : pc[w] = "submit" => SubmissionKey(w) \in Key
    BY Zenon, KeyFacts DEF SubmissionKey
  <2>2. late' \subseteq Key
    BY <1>8, <2>1 DEF Crash
  <2> QED BY <1>8, <2>2 DEF Crash, Fault, PC, JobState
<1>9. CASE UNCHANGED vars
  BY <1>9 DEF vars
<1> QED BY Zenon, <1>1, <1>2, <1>3, <1>4, <1>4a, <1>5, <1>6, <1>7, <1>8, <1>9 DEF Next

=============================================================================
