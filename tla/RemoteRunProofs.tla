-------------------------- MODULE RemoteRunProofs --------------------------
(***************************************************************************)
(* Proofs about RemoteRun, for any tasks, goroutines, capacity and number  *)
(* of faults: no task is generated twice, a run that ended locally left no *)
(* job behind, and slot, phase and status agree.                           *)
(***************************************************************************)
EXTENDS RemoteRunTypes

(* A worker that only moves on, without touching a row or the service, need  *)
(* only justify the point it moves to.                                       *)
LEMMA LocalMove ==
    ASSUME IInv, TypeOK', CurOK', NEW w \in Worker, UNCHANGED <<rows, remote>>,
           \A v \in Worker \ {w} : /\ pc'[v] = pc[v] /\ cur'[v] = cur[v]
                                   /\ replay'[v] = replay[v] /\ seen'[v] = seen[v],
           pc'[w] # "submit", WorkerAt(w)', HolderAt(w)'
    PROVE  IInv'
<1> USE Zenon DEF taskRow, runRow, leaseRow, rows, remote
<1>1. KeyOK' /\ RowOK'
  BY SMTT(30) DEF IInv, KeyOK, RowOK, SlotAt, RunAt, EndedAt, Unborn
<1>2. ASSUME NEW v \in Worker \ {w} PROVE WorkerAt(v)' /\ HolderAt(v)'
  <2>1. WorkerAt(v) /\ HolderAt(v)
    BY DEF IInv, WorkerOK, HolderOK
  <2>2. WorkerAt(v)'
    BY <2>1 DEF WorkerAt
  <2>3. NoOtherSubmits(cur[v], v) => NoOtherSubmits(cur[v], v)'
    BY DEF NoOtherSubmits
  <2>4. HolderAt(v)'
    BY <2>1, <2>3 DEF HolderAt, Unborn
  <2> QED BY <2>2, <2>4
<1> QED BY <1>1, <1>2 DEF IInv, WorkerOK, HolderOK

(* In particular one that gives up.                                          *)
LEMMA GiveUpInv ==
    ASSUME IInv, TypeOK', CurOK', NEW w \in Worker, NEW b \in BOOLEAN,
           GiveUp(w, b), UNCHANGED <<rows, remote>>
    PROVE  IInv'
<1>1. pc' = [pc EXCEPT ![w] = "release"] /\ pc'[w] = "release"
  BY DEF GiveUp, Goto, IInv, TypeOK
<1>2. WorkerAt(w)' /\ HolderAt(w)'
  BY <1>1 DEF WorkerAt, HolderAt, Polling
<1> QED BY <1>1, <1>2, LocalMove DEF GiveUp, IInv, TypeOK

(* The holder of a lease that writes its row need only justify that row and  *)
(* the point it moves to, if others at work on the task lose nothing.        *)
LEMMA RowMove ==
    ASSUME IInv, TypeOK', CurOK', NEW w \in Worker, NEW t \in Task,
           cur[w] = t, lease[t] = w, UNCHANGED remote,
           \A u \in Task \ {t} :
              /\ slot'[u] = slot[u] /\ status'[u] = status[u] /\ phase'[u] = phase[u]
              /\ tried'[u] = tried[u] /\ upstreamID'[u] = upstreamID[u]
              /\ upstream'[u] = upstream[u] /\ lease'[u] = lease[u],
           \A v \in Worker \ {w} : /\ pc'[v] = pc[v] /\ cur'[v] = cur[v]
                                   /\ replay'[v] = replay[v] /\ seen'[v] = seen[v],
           tried[t] => tried'[t], upstreamID'[t] \in {upstreamID[t], <<t, 0>>},
           lease'[t] \in {w, NoLease}, pc'[w] = "submit" => cur'[w] = t,
           SlotAt(t)', RunAt(t)', EndedAt(t)', WorkerAt(w)', HolderAt(w)'
    PROVE  IInv'
<1> USE Zenon, WorkerAssumption DEF remote
<1>1. KeyOK'
  BY Zenon DEF IInv, KeyOK
<1>2. ASSUME NEW u \in Task \ {t} PROVE SlotAt(u)' /\ RunAt(u)' /\ EndedAt(u)'
  BY SMTT(30) DEF IInv, RowOK, SlotAt, RunAt, EndedAt, Unborn
<1>3. ASSUME NEW v \in Worker \ {w} PROVE WorkerAt(v)' /\ HolderAt(v)'
  <2>1. WorkerAt(v) /\ HolderAt(v) /\ (pc[v] # "idle" => cur[v] \in Task)
    BY DEF IInv, WorkerOK, HolderOK, CurOK
  <2>2. WorkerAt(v)'
    BY SMTT(30), <2>1 DEF WorkerAt, Polling
  <2>3. CASE cur[v] = t
    BY SMTT(30), <2>2, <2>3 DEF HolderAt
  <2>4. CASE cur[v] # t
    <3>1. NoOtherSubmits(cur[v], v) => NoOtherSubmits(cur[v], v)'
      BY SMTT(30), <2>4 DEF NoOtherSubmits
    <3> QED BY SMTT(30), <2>1, <2>2, <2>4, <3>1 DEF HolderAt, Unborn, Polling
  <2> QED BY <2>2, <2>3, <2>4
<1> QED BY <1>1, <1>2, <1>3 DEF IInv, RowOK, WorkerOK, HolderOK

(* A change at the service of the job of t, with or without a step of one    *)
(* worker: the job ends once, and it is born only by a worker that submits   *)
(* or by a submission under way.                                             *)
LEMMA JobMove ==
    ASSUME IInv, TypeOK', CurOK', NEW t \in Task, NEW w, UNCHANGED rows, KeyOK',
           \A u \in Task \ {t} : /\ job'[<<u, 0>>] = job[<<u, 0>>]
                                 /\ <<u, 0>> \in late' => <<u, 0>> \in late,
           job[<<t, 0>>] \in Terminal => job'[<<t, 0>>] = job[<<t, 0>>],
           job[<<t, 0>>] # "none" => job'[<<t, 0>>] # "none",
           Unborn(t) /\ ~Unborn(t)' => w \in Worker /\ pc[w] = "submit" /\ cur[w] = t,
           \A v \in Worker \ {w} : /\ pc'[v] = pc[v] /\ cur'[v] = cur[v]
                                   /\ replay'[v] = replay[v] /\ seen'[v] = seen[v],
           w \in Worker => pc'[w] # "submit" /\ WorkerAt(w)' /\ HolderAt(w)'
    PROVE  IInv'
<1> USE Zenon DEF taskRow, runRow, leaseRow, rows
<1>0. \A u \in Task : Unborn(u) => Unborn(u)' \/ (u = t /\ w \in Worker /\ pc[w] = "submit" /\ cur[w] = t)
  BY DEF Unborn
<1>1. ASSUME NEW u \in Task PROVE SlotAt(u)' /\ RunAt(u)' /\ EndedAt(u)'
  <2>1. SlotAt(u) /\ RunAt(u) /\ EndedAt(u) /\ (w \in Worker => WorkerAt(w))
    BY DEF IInv, RowOK, WorkerOK
  <2>2. SlotAt(u)'
    BY <2>1 DEF SlotAt
  <2>3. RunAt(u)'
    BY <1>0, <2>1 DEF RunAt, WorkerAt
  <2>4. EndedAt(u)'
    BY <1>0, <2>1 DEF EndedAt
  <2> QED BY <2>2, <2>3, <2>4
<1>2. ASSUME NEW v \in Worker \ {w} PROVE WorkerAt(v)' /\ HolderAt(v)'
  <2>1. WorkerAt(v) /\ HolderAt(v) /\ (pc[v] # "idle" => cur[v] \in Task)
    BY DEF IInv, WorkerOK, HolderOK, CurOK
  <2>2. WorkerAt(v)'
    <3>1. pc[v] # "idle" =>
             /\ job[<<cur[v], 0>>] \in Terminal => job'[<<cur[v], 0>>] = job[<<cur[v], 0>>]
             /\ job[<<cur[v], 0>>] # "none" => job'[<<cur[v], 0>>] # "none"
      BY <2>1
    <3> QED BY <2>1, <3>1 DEF WorkerAt, Polling
  <2>3. NoOtherSubmits(cur[v], v) => NoOtherSubmits(cur[v], v)'
    BY DEF NoOtherSubmits
  <2>4. pc[v] # "idle" /\ Unborn(cur[v]) /\ NoOtherSubmits(cur[v], v) => Unborn(cur[v])'
    BY <1>0, <2>1 DEF NoOtherSubmits
  <2>5. pc[v] = "complete" => seen[v] \in Terminal
    BY <2>1 DEF WorkerAt
  <2> QED BY SMTT(30), <2>1, <2>2, <2>3, <2>4, <2>5 DEF HolderAt, Polling
<1> QED BY <1>1, <1>2 DEF IInv, RowOK, WorkerOK, HolderOK

(* Every step of a worker keeps the invariant.                               *)
LEMMA WorkerStepInv ==
    ASSUME IInv, NEW w \in Worker, WorkerStep(w), TypeOK', CurOK'
    PROVE  IInv'
<1> DEFINE t == cur[w]
<1> USE Zenon, WorkerAssumption DEF taskRow, runRow, leaseRow, rows, local, request, remote
<1>t. /\ pc \in [Worker -> PC] /\ cur \in [Worker -> Task \cup {NoTask}]
      /\ seen \in [Worker -> JobState] /\ replay \in [Worker -> BOOLEAN]
      /\ phase \in [Task -> Phase] /\ lease \in [Task -> Worker \cup {NoLease, Gone}]
      /\ pc[w] # "idle" => cur[w] \in Task
      /\ upstream \in [Task -> JobState] /\ upstreamID \in [Task -> Key \cup {NoKey}]
      /\ tried \in [Task -> BOOLEAN] /\ slot \in [Task -> BOOLEAN] /\ status \in [Task -> Status]
  BY DEF IInv, TypeOK, CurOK
<1>w. WorkerAt(w) /\ HolderAt(w)
  BY DEF IInv, WorkerOK, HolderOK
<1>b. \A b \in BOOLEAN : GiveUp(w, b) /\ UNCHANGED <<rows, remote>> => IInv'
  BY GiveUpInv
<1>1. CASE PrepareInvalid(w)
  <2>1. pc'[w] = "complete" /\ seen'[w] = "failed"
    BY <1>1, <1>t DEF PrepareInvalid, Goto
  <2>2. t \in Task /\ (lease[t] = w => phase[t] = "preparing")
    BY <1>1, <1>t, <1>w DEF PrepareInvalid, HolderAt
  <2>3. lease[t] = w => Unborn(t) /\ NoOtherSubmits(t, w)
    BY <2>2, <1>t DEF IInv, RowOK, RunAt, WorkerOK, WorkerAt, NoOtherSubmits
  <2>4. WorkerAt(w)'
    BY <2>1 DEF WorkerAt, Polling, Terminal
  <2>5. NoOtherSubmits(t, w) => NoOtherSubmits(t, w)'
    BY <1>1, <1>t DEF NoOtherSubmits, PrepareInvalid, Goto
  <2>6. HolderAt(w)'
    BY <1>1, <2>1, <2>2, <2>3, <2>5 DEF HolderAt, Polling, Unborn, PrepareInvalid
  <2> QED BY <1>1, <1>t, <2>1, <2>4, <2>6, LocalMove DEF PrepareInvalid, Goto
<1>2. CASE CallFails(w)
  BY <1>2, <1>b DEF CallFails
<1>3. CASE SubmitRejected(w)
  <2>1. CASE ~RejectionIsFinal(w)
    BY <1>3, <2>1, <1>b DEF SubmitRejected
  <2>2. CASE RejectionIsFinal(w)
    <3>1. pc'[w] = "complete" /\ seen'[w] = "failed"
      BY <1>3, <2>2, <1>t DEF SubmitRejected, Goto
    <3>2. t \in Task /\ (lease[t] = w => /\ phase[t] = "submit_intent"
                                         /\ Unborn(t) /\ NoOtherSubmits(t, w))
      BY <1>3, <2>2, <1>t, <1>w DEF SubmitRejected, RejectionIsFinal, HolderAt
    <3>3. WorkerAt(w)'
      BY <3>1 DEF WorkerAt, Polling, Terminal
    <3>4. NoOtherSubmits(t, w) => NoOtherSubmits(t, w)'
      BY <1>3, <2>2, <1>t DEF NoOtherSubmits, SubmitRejected, Goto
    <3>5. HolderAt(w)'
      BY <1>3, <2>2, <3>1, <3>2, <3>4 DEF HolderAt, Polling, Unborn, SubmitRejected
    <3> QED BY <1>3, <2>2, <1>t, <3>1, <3>3, <3>5, LocalMove DEF SubmitRejected, Goto
  <2> QED BY <2>1, <2>2
<1>4. CASE SubmitConflict(w)
  BY <1>4, <1>b DEF SubmitConflict
<1>5. CASE Query(w)
  <2>1. pc'[w] = "decide" /\ seen'[w] = job[<<t, 0>>] /\ t' = t
    BY <1>5, <1>t, <1>w DEF Query, Goto, WorkerAt, Polling
  <2>2. WorkerAt(w)' /\ HolderAt(w)'
    BY <1>5, <1>w, <2>1 DEF Query, WorkerAt, HolderAt, Polling
  <2> QED BY <1>5, <1>t, <2>1, <2>2, LocalMove DEF Query, Goto
<1>6. CASE Decide(w)
  <2>1. CASE lease[t] # w
    BY <1>6, <2>1, <1>b DEF Decide
  <2>2. CASE lease[t] = w
    <3>1. /\ seen' = seen /\ replay' = replay
          /\ pc'[w] \in {"complete", "cancel", "observe"}
          /\ pc'[w] = "complete" => seen[w] \in Terminal
      BY <1>6, <2>2, <1>t DEF Decide, Goto
    <3>2. pc[w] = "decide" /\ UNCHANGED <<cur, tried, upstreamID, job, phase, lease>>
      BY <1>6, <2>2 DEF Decide
    <3>3. WorkerAt(w)'
      BY <1>w, <3>1, <3>2 DEF WorkerAt, Polling
    <3>4. HolderAt(w)'
      BY <1>w, <3>1, <3>2 DEF HolderAt, WorkerAt, Polling
    <3> QED BY <1>6, <2>2, <1>t, <3>1, <3>3, <3>4, LocalMove DEF Decide, Goto
  <2> QED BY <2>1, <2>2
<1>7. CASE CancelConflict(w)
  <2>1. pc'[w] = "requery"
    BY <1>7, <1>t DEF CancelConflict, Goto
  <2>2. WorkerAt(w)' /\ HolderAt(w)'
    BY <1>7, <1>w, <2>1 DEF CancelConflict, WorkerAt, HolderAt, Polling
  <2> QED BY <1>7, <1>t, <2>1, <2>2, LocalMove DEF CancelConflict, Goto
<1>8. CASE Requery(w)
  <2>1. /\ seen'[w] = job[<<t, 0>>]
        /\ pc'[w] \in {"complete", "observe"}
        /\ pc'[w] = "complete" => seen'[w] \in Terminal
    BY <1>8, <1>t, <1>w DEF Requery, Goto, WorkerAt, Polling
  <2>2. WorkerAt(w)' /\ HolderAt(w)'
    BY <1>8, <1>w, <2>1 DEF Requery, WorkerAt, HolderAt, Polling
  <2> QED BY <1>8, <1>t, <2>1, <2>2, LocalMove DEF Requery, Goto
<1>9. CASE RequeryFails(w)
  <2>1. pc'[w] = "observe"
    BY <1>9, <1>t DEF RequeryFails, Goto
  <2>2. WorkerAt(w)' /\ HolderAt(w)'
    BY <1>9, <1>w, <2>1 DEF RequeryFails, WorkerAt, HolderAt, Polling
  <2> QED BY <1>9, <1>t, <2>1, <2>2, LocalMove DEF RequeryFails, Goto
<1>r. t \in Task => SlotAt(t) /\ RunAt(t) /\ EndedAt(t)
  BY DEF IInv, RowOK
<1>10. CASE PrepareDone(w)
  <2> DEFINE go == HoldsLease(w) /\ phase[t] = "preparing" /\ cancel[t] = "none"
  <2>1. CASE ~go
    BY <1>10, <2>1, <1>b DEF PrepareDone
  <2>2. CASE go
    <3>1. t \in Task /\ lease[t] = w
      BY <1>10, <2>2, <1>t DEF PrepareDone, HoldsLease
    <3>2. /\ phase'[t] = "prepared" /\ pc'[w] = "begin"
          /\ UNCHANGED <<slot, status, tried, upstreamID, lease, cur, replay, remote>>
      BY <1>10, <2>2, <3>1, <1>t DEF PrepareDone, Goto
    <3>3. SlotAt(t)' /\ RunAt(t)' /\ EndedAt(t)'
      BY <1>r, <1>w, <2>2, <3>1, <3>2, <1>10 DEF PrepareDone, SlotAt, RunAt, EndedAt, Unborn
    <3>4. WorkerAt(w)' /\ HolderAt(w)'
      BY <1>r, <1>w, <2>2, <3>1, <3>2, <1>10 DEF PrepareDone, WorkerAt, HolderAt, RunAt, Polling
    <3>5. \A u \in Task \ {t} :
             /\ slot'[u] = slot[u] /\ status'[u] = status[u] /\ phase'[u] = phase[u]
             /\ tried'[u] = tried[u] /\ upstreamID'[u] = upstreamID[u]
             /\ upstream'[u] = upstream[u] /\ lease'[u] = lease[u]
      BY <1>10, <2>2, <3>1, <1>t DEF PrepareDone
    <3>6. \A v \in Worker \ {w} : /\ pc'[v] = pc[v] /\ cur'[v] = cur[v]
                                   /\ replay'[v] = replay[v] /\ seen'[v] = seen[v]
      BY <1>10, <2>2, <1>t DEF PrepareDone, Goto
    <3> QED BY <3>1, <3>2, <3>3, <3>4, <3>5, <3>6, RowMove
  <2> QED BY <2>1, <2>2
<1>11. CASE BeginRemoteSubmission(w)
  <2> DEFINE go == HoldsLease(w) /\ MayBegin(t)
  <2>1. CASE ~go
    BY <1>11, <2>1, <1>b DEF BeginRemoteSubmission
  <2>2. CASE go
    <3>1. t \in Task /\ lease[t] = w
      BY <1>11, <2>2, <1>t DEF BeginRemoteSubmission, HoldsLease
    <3>2. /\ phase'[t] = "submit_intent" /\ tried'[t] /\ pc'[w] = "submit"
          /\ phase[t] \in {"prepared", "submit_intent"}
          /\ UNCHANGED <<slot, status, upstreamID, lease, cur, replay, remote>>
      BY <1>11, <2>2, <3>1, <1>t DEF BeginRemoteSubmission, Goto, MayBegin
    <3>3. SlotAt(t)' /\ RunAt(t)' /\ EndedAt(t)'
      BY <1>r, <1>w, <2>2, <3>1, <3>2, <1>11 DEF BeginRemoteSubmission, SlotAt, RunAt, EndedAt, Unborn
    <3>4. ~replay[w] => Unborn(t) /\ NoOtherSubmits(t, w)
      <4>1. ~replay[w] => ~tried[t]
        BY <1>11, <1>w, <3>1 DEF BeginRemoteSubmission, HolderAt
      <4>2. ~tried[t] => Unborn(t)
        BY <1>r, <3>1 DEF RunAt
      <4>3. ~tried[t] => NoOtherSubmits(t, w)
        BY Zenon DEF IInv, WorkerOK, WorkerAt, NoOtherSubmits
      <4> QED BY <4>1, <4>2, <4>3
    <3>5. \A u \in Task \ {t} :
             /\ slot'[u] = slot[u] /\ status'[u] = status[u] /\ phase'[u] = phase[u]
             /\ tried'[u] = tried[u] /\ upstreamID'[u] = upstreamID[u]
             /\ upstream'[u] = upstream[u] /\ lease'[u] = lease[u]
      BY <1>11, <2>2, <3>1, <1>t DEF BeginRemoteSubmission
    <3>6. \A v \in Worker \ {w} : /\ pc'[v] = pc[v] /\ cur'[v] = cur[v]
                                   /\ replay'[v] = replay[v] /\ seen'[v] = seen[v]
      BY <1>11, <2>2, <1>t DEF BeginRemoteSubmission, Goto, MayBegin
    <3>7. NoOtherSubmits(t, w) => NoOtherSubmits(t, w)'
      BY <3>2, <3>6 DEF NoOtherSubmits
    <3>8. WorkerAt(w)' /\ HolderAt(w)'
      BY <3>1, <3>2, <3>4, <3>7 DEF WorkerAt, HolderAt, Polling, Unborn
    <3> QED BY <3>1, <3>2, <3>3, <3>5, <3>6, <3>8, RowMove
  <2> QED BY <2>1, <2>2
<1>12. CASE BindRemoteTask(w)
  <2> DEFINE go == HoldsLease(w) /\ phase[t] = "submit_intent" /\ TaskIsClaimed(t)
  <2>1. CASE ~go
    BY <1>12, <2>1, <1>b DEF BindRemoteTask
  <2>2. CASE go
    <3>1. t \in Task /\ lease[t] = w
      BY <1>12, <2>2, <1>t DEF BindRemoteTask, HoldsLease
    <3>2. /\ phase'[t] = "submitted" /\ upstreamID'[t] = <<t, 0>> /\ pc'[w] = "query"
          /\ status'[t] \in {status[t], "running"}
          /\ UNCHANGED <<slot, tried, lease, cur, replay, remote>>
      BY <1>12, <2>2, <3>1, <1>t DEF BindRemoteTask, Goto, SubmissionKey
    <3>3. SlotAt(t)' /\ RunAt(t)' /\ EndedAt(t)'
      BY <1>r, <1>w, <2>2, <3>1, <3>2, <1>12 DEF BindRemoteTask, SlotAt, RunAt, EndedAt, Unborn, WorkerAt, Claimed, Queued
    <3>4. WorkerAt(w)' /\ HolderAt(w)'
      BY <1>r, <1>w, <2>2, <3>1, <3>2, <1>12 DEF BindRemoteTask, WorkerAt, HolderAt, RunAt, Polling
    <3>5. \A u \in Task \ {t} :
             /\ slot'[u] = slot[u] /\ status'[u] = status[u] /\ phase'[u] = phase[u]
             /\ tried'[u] = tried[u] /\ upstreamID'[u] = upstreamID[u]
             /\ upstream'[u] = upstream[u] /\ lease'[u] = lease[u]
      BY <1>12, <2>2, <3>1, <1>t DEF BindRemoteTask
    <3>6. \A v \in Worker \ {w} : /\ pc'[v] = pc[v] /\ cur'[v] = cur[v]
                                   /\ replay'[v] = replay[v] /\ seen'[v] = seen[v]
      BY <1>12, <2>2, <1>t DEF BindRemoteTask, Goto, SubmissionKey
    <3> QED BY <3>1, <3>2, <3>3, <3>4, <3>5, <3>6, RowMove
  <2> QED BY <2>1, <2>2
<1>13. CASE ObserveRemoteTask(w)
  <2> DEFINE go == HoldsLease(w) /\ phase[t] = "submitted"
  <2>1. CASE ~go
    BY <1>13, <2>1, <1>b DEF ObserveRemoteTask
  <2>2. CASE go
    <3>1. t \in Task /\ lease[t] = w
      BY <1>13, <2>2, <1>t DEF ObserveRemoteTask, HoldsLease
    <3>2. /\ pc'[w] = "release" /\ status'[t] \in {status[t], "running"}
          /\ UNCHANGED <<slot, phase, tried, upstreamID, lease, cur, replay, remote>>
      BY <1>13, <2>2, <3>1, <1>t DEF ObserveRemoteTask, Goto, GiveUp
    <3>3. SlotAt(t)' /\ RunAt(t)' /\ EndedAt(t)'
      BY <1>r, <1>w, <2>2, <3>1, <3>2, <1>13 DEF ObserveRemoteTask, SlotAt, RunAt, EndedAt, Unborn, Claimed, Queued
    <3>4. WorkerAt(w)' /\ HolderAt(w)'
      BY <1>r, <1>w, <2>2, <3>1, <3>2, <1>13 DEF ObserveRemoteTask, WorkerAt, HolderAt, RunAt, Polling
    <3>5. \A u \in Task \ {t} :
             /\ slot'[u] = slot[u] /\ status'[u] = status[u] /\ phase'[u] = phase[u]
             /\ tried'[u] = tried[u] /\ upstreamID'[u] = upstreamID[u]
             /\ upstream'[u] = upstream[u] /\ lease'[u] = lease[u]
      BY <1>13, <2>2, <3>1, <1>t DEF ObserveRemoteTask
    <3>6. \A v \in Worker \ {w} : /\ pc'[v] = pc[v] /\ cur'[v] = cur[v]
                                   /\ replay'[v] = replay[v] /\ seen'[v] = seen[v]
      BY <1>13, <2>2, <1>t DEF ObserveRemoteTask, Goto, GiveUp
    <3> QED BY <3>1, <3>2, <3>3, <3>4, <3>5, <3>6, RowMove
  <2> QED BY <2>1, <2>2
<1>14. CASE CompleteRemoteRun(w)
  <2> DEFINE go == HoldsLease(w) /\ phase[t] # "terminal" /\ TaskIsClaimed(t)
  <2>1. CASE ~go
    BY <1>14, <2>1, <1>b DEF CompleteRemoteRun
  <2>2. CASE go
    <3>1. t \in Task /\ lease[t] = w
      BY <1>14, <2>2, <1>t DEF CompleteRemoteRun, HoldsLease
    <3>2. /\ phase'[t] = "terminal" /\ upstream'[t] = seen[w] /\ ~slot'[t]
          /\ lease'[t] = NoLease /\ pc'[w] = "release"
          /\ UNCHANGED <<tried, upstreamID, cur, replay, remote>>
      BY <1>14, <2>2, <3>1, <1>t DEF CompleteRemoteRun, Goto, GiveUp
    <3>6. \A v \in Worker \ {w} : /\ pc'[v] = pc[v] /\ cur'[v] = cur[v]
                                   /\ replay'[v] = replay[v] /\ seen'[v] = seen[v]
      BY <1>14, <2>2, <1>t DEF CompleteRemoteRun, Goto, GiveUp
    <3>3. SlotAt(t)' /\ RunAt(t)' /\ EndedAt(t)'
      <4>1. SlotAt(t)' /\ RunAt(t)'
        BY <1>r, <3>1, <3>2 DEF SlotAt, RunAt, Unborn
      <4>2. pc[w] = "complete" /\ seen[w] \in Terminal
        BY <1>14, <1>w DEF CompleteRemoteRun, WorkerAt
      <4>3. CASE job[<<t, 0>>] = seen[w]
        BY <4>1, <4>2, <4>3, <3>2 DEF EndedAt
      <4>4. CASE seen[w] \in {"failed", "cancelled"} /\ Unborn(t) /\ NoOtherSubmits(t, w)
        <5>1. \A v \in Worker : ~(pc'[v] = "submit" /\ cur'[v] = t)
          BY <4>4, <3>2, <3>6 DEF NoOtherSubmits
        <5> QED BY <4>1, <4>4, <5>1, <3>2 DEF EndedAt, Unborn
      <4> QED BY <1>w, <3>1, <4>2, <4>3, <4>4 DEF HolderAt
    <3>4. WorkerAt(w)' /\ HolderAt(w)'
      BY <1>r, <1>w, <2>2, <3>1, <3>2, <1>14 DEF CompleteRemoteRun, WorkerAt, HolderAt, RunAt, Polling
    <3>5. \A u \in Task \ {t} :
             /\ slot'[u] = slot[u] /\ status'[u] = status[u] /\ phase'[u] = phase[u]
             /\ tried'[u] = tried[u] /\ upstreamID'[u] = upstreamID[u]
             /\ upstream'[u] = upstream[u] /\ lease'[u] = lease[u]
      BY <1>14, <2>2, <3>1, <1>t DEF CompleteRemoteRun
    <3> QED BY <3>1, <3>2, <3>3, <3>4, <3>5, <3>6, RowMove
  <2> QED BY <2>1, <2>2
<1>15. CASE Release(w)
  <2>0. t \in Task /\ pc'[w] = "idle" /\ cur'[w] = NoTask
    BY <1>15, <1>t DEF Release, Goto
  <2>1. WorkerAt(w)' /\ HolderAt(w)'
    BY <2>0 DEF WorkerAt, HolderAt, Polling
  <2>2. \A v \in Worker \ {w} : /\ pc'[v] = pc[v] /\ cur'[v] = cur[v]
                                /\ replay'[v] = replay[v] /\ seen'[v] = seen[v]
    BY <1>15, <1>t DEF Release, Goto
  <2>3. CASE ~(HoldsLease(w) /\ phase[t] # "terminal")
    <3>1. UNCHANGED <<rows, remote>>
      BY <1>15, <2>3 DEF Release
    <3> QED BY <2>0, <2>1, <2>2, <3>1, LocalMove
  <2>4. CASE HoldsLease(w) /\ phase[t] # "terminal"
    <3>0. PICK u \in Task : u = t
      BY <2>0
    <3>1. /\ lease[u] = w /\ lease'[u] = NoLease
          /\ UNCHANGED <<slot, status, phase, tried, upstreamID, upstream, remote>>
      BY SMTT(30), <1>15, <3>0, <2>4, <1>t DEF Release, HoldsLease
    <3>2. SlotAt(u)' /\ RunAt(u)' /\ EndedAt(u)'
      BY <1>r, <3>0, <2>4, <3>1 DEF SlotAt, RunAt, EndedAt, Unborn
    <3>3. \A x \in Task \ {u} : lease'[x] = lease[x]
      BY <1>15, <3>0, <2>4, <1>t DEF Release
    <3> QED BY <2>0, <2>1, <2>2, <3>0, <3>1, <3>2, <3>3, RowMove
  <2> QED BY <2>3, <2>4
<1> USE Zenon DEF remote
<1>16. CASE SubmitAccepted(w)
  <2>0. /\ t \in Task /\ pc[w] = "submit" /\ pc'[w] = "bind"
        /\ UNCHANGED <<rows, cur, replay, seen, late>>
    BY <1>16, <1>t DEF SubmitAccepted, Goto
  <2>1. /\ job'[<<t, 0>>] = IF job[<<t, 0>>] = "none" THEN "queued" ELSE job[<<t, 0>>]
        /\ \A k \in Key \ {<<t, 0>>} : job'[k] = job[k]
    BY <1>16, <2>0, KeyFacts DEF SubmitAccepted, Created, SubmissionKey, IInv, TypeOK
  <2>2. \A u \in Task \ {t} : job'[<<u, 0>>] = job[<<u, 0>>]
    BY <2>0, <2>1, KeyFacts
  <2>3. KeyOK'
    BY <2>0, <2>1, KeyFacts DEF IInv, KeyOK
  <2>4. WorkerAt(w)' /\ HolderAt(w)'
    BY <1>w, <2>0, <2>1 DEF WorkerAt, HolderAt, Polling
  <2>5. \A v \in Worker \ {w} : pc'[v] = pc[v]
    BY <1>16, <1>t DEF SubmitAccepted, Goto
  <2>6. /\ job[<<t, 0>>] \in Terminal => job'[<<t, 0>>] = job[<<t, 0>>]
        /\ job[<<t, 0>>] # "none" => job'[<<t, 0>>] # "none"
    BY <2>1 DEF Terminal
  <2> QED BY <2>0, <2>2, <2>3, <2>4, <2>5, <2>6, JobMove
<1>17. CASE SubmitUnknown(w)
  <2>0. /\ t \in Task /\ pc[w] = "submit" /\ pc'[w] = "release"
        /\ UNCHANGED <<rows, cur, replay, seen, job>>
        /\ late' = late \cup {<<t, 0>>}
    BY <1>17, <1>t DEF SubmitUnknown, GiveUp, Goto, SubmissionKey
  <2>1. KeyOK' /\ \A u \in Task \ {t} : <<u, 0>> \in late' => <<u, 0>> \in late
    BY <2>0, KeyFacts DEF IInv, KeyOK
  <2>2. WorkerAt(w)' /\ HolderAt(w)'
    BY <2>0 DEF WorkerAt, HolderAt, Polling
  <2>3. \A v \in Worker \ {w} : pc'[v] = pc[v]
    BY <1>17, <1>t DEF SubmitUnknown, GiveUp, Goto
  <2> QED BY <2>0, <2>1, <2>2, <2>3, JobMove
<1>18. CASE CancelConfirmed(w) \/ CancelUnknown(w)
  <2>0. /\ t \in Task /\ pc[w] = "cancel" /\ UNCHANGED <<rows, cur, replay, late>>
        /\ upstreamID[t] = <<t, 0>> /\ job[<<t, 0>>] # "none"
    BY <1>18, <1>t, <1>w DEF CancelConfirmed, CancelUnknown, WorkerAt, Polling
  <2>1. /\ job'[<<t, 0>>] \in {job[<<t, 0>>], "cancelled"}
        /\ job'[<<t, 0>>] # job[<<t, 0>>] => job[<<t, 0>>] = "queued"
        /\ \A k \in Key \ {<<t, 0>>} : job'[k] = job[k]
    <3>1. job \in [Key -> JobState] /\ <<t, 0>> \in Key
      BY <2>0, KeyFacts DEF IInv, TypeOK
    <3>2. CASE CancelConfirmed(w)
      BY <2>0, <3>1, <3>2 DEF CancelConfirmed
    <3>3. CASE CancelUnknown(w)
      BY <2>0, <3>1, <3>3 DEF CancelUnknown
    <3> QED BY <1>18, <3>2, <3>3
  <2>2. \/ pc'[w] = "complete" /\ seen'[w] = "cancelled" /\ job'[<<t, 0>>] = "cancelled"
        \/ pc'[w] = "observe"
    <3>1. job \in [Key -> JobState] /\ <<t, 0>> \in Key
      BY <2>0, KeyFacts DEF IInv, TypeOK
    <3>2. CASE CancelConfirmed(w)
      BY <2>0, <3>1, <3>2, <1>t DEF CancelConfirmed, Goto
    <3>3. CASE CancelUnknown(w)
      BY <3>3, <1>t DEF CancelUnknown, Goto
    <3> QED BY <1>18, <3>2, <3>3
  <2>3. \A u \in Task \ {t} : job'[<<u, 0>>] = job[<<u, 0>>]
    BY <2>0, <2>1, KeyFacts
  <2>4. KeyOK'
    BY <2>0, <2>1, KeyFacts DEF IInv, KeyOK
  <2>5. WorkerAt(w)' /\ HolderAt(w)'
    BY <1>w, <2>0, <2>1, <2>2 DEF WorkerAt, HolderAt, Polling, Terminal
  <2>6. \A v \in Worker \ {w} : pc'[v] = pc[v] /\ seen'[v] = seen[v]
    BY <1>18, <1>t DEF CancelConfirmed, CancelUnknown, Goto
  <2>7. /\ job[<<t, 0>>] \in Terminal => job'[<<t, 0>>] = job[<<t, 0>>]
        /\ job'[<<t, 0>>] # "none" /\ ~Unborn(t)
    BY <2>0, <2>1 DEF Terminal, Unborn
  <2>8. pc'[w] # "submit"
    BY <2>2
  <2> QED BY <2>0, <2>3, <2>4, <2>5, <2>6, <2>7, <2>8, JobMove
<1> QED BY <1>1, <1>2, <1>3, <1>4, <1>5, <1>6, <1>7, <1>8, <1>9, <1>10, <1>11, <1>12,
           <1>13, <1>14, <1>15, <1>16, <1>17, <1>18 DEF WorkerStep

(* A step that changes only statuses, cancel states or lease expiry, and     *)
(* keeps status in line with the slot.                                       *)
LEMMA StatusMove ==
    ASSUME IInv, TypeOK', CurOK', \A t \in Task : SlotAt(t)',
           UNCHANGED <<phase, upstreamID, upstream, tried, lease, pc, cur, replay, seen, remote>>
    PROVE  IInv'
<1> USE Zenon DEF remote
<1>1. KeyOK' /\ RowOK'
  BY DEF IInv, KeyOK, RowOK, RunAt, EndedAt, Unborn
<1>2. WorkerOK'
  BY DEF IInv, WorkerOK, WorkerAt
<1>3. HolderOK'
  BY SMTT(30) DEF IInv, HolderOK, HolderAt, Unborn, NoOtherSubmits
<1> QED BY <1>1, <1>2, <1>3 DEF IInv

(* Every step keeps the invariant.                                           *)
LEMMA InvStep == IInv /\ [Next]_vars => IInv'
<1> SUFFICES ASSUME IInv, [Next]_vars PROVE IInv'
    OBVIOUS
<1> USE Zenon, WorkerAssumption DEF taskRow, runRow, leaseRow, rows, local, request, remote
<1>0. TypeOK /\ CurOK /\ TypeOK' /\ CurOK'
  BY TypeStep DEF IInv
<1>1. ASSUME NEW w \in Worker, WorkerStep(w) PROVE IInv'
  BY <1>0, <1>1, WorkerStepInv
<1>2. ASSUME NEW w \in Worker, NEW t \in Task, ClaimNextRemote(w, t) PROVE IInv'
  <2>1. /\ slot'[t] /\ phase'[t] = "preparing" /\ phase[t] = "none" /\ status[t] \in Queued
        /\ \A u \in Task \ {t} : slot'[u] = slot[u] /\ phase'[u] = phase[u]
        /\ UNCHANGED <<upstreamID, upstream, tried, lease, pc, cur, replay, seen, remote>>
    BY <1>0, <1>2 DEF ClaimNextRemote, Oldest, TypeOK
  <2>2. /\ status'[t] = "dispatching"
        /\ \A u \in Task \ {t} : /\ status[u] \notin Queued => status'[u] = status[u]
                                 /\ status[u] \in Queued => status'[u] \in Queued
    <3>1. status \in [Task -> Status] /\ status' = Rebalance([status EXCEPT ![t] = "dispatching"])
      BY <1>0, <1>2 DEF ClaimNextRemote, TypeOK
    <3> QED BY <3>1 DEF Rebalance, Queued
  <2>3. ASSUME NEW u \in Task PROVE SlotAt(u)' /\ RunAt(u)' /\ EndedAt(u)'
    BY SMTT(30), <2>1, <2>2 DEF IInv, RowOK, SlotAt, RunAt, EndedAt, Unborn, Claimed, Queued
  <2>4. KeyOK' /\ WorkerOK'
    BY <2>1 DEF IInv, KeyOK, WorkerOK, WorkerAt
  <2>5. ASSUME NEW v \in Worker PROVE HolderAt(v)'
    <3>1. HolderAt(v) /\ (pc[v] # "idle" => cur[v] \in Task)
      BY <1>0 DEF IInv, HolderOK, CurOK
    <3> QED BY <2>1, <3>1 DEF HolderAt, Unborn, NoOtherSubmits
  <2> QED BY <1>0, <2>3, <2>4, <2>5 DEF IInv, RowOK, HolderOK
<1>3. ASSUME NEW w \in Worker, NEW t \in Task, Acquire(w, t) PROVE IInv'
  <2>1. /\ UNCHANGED <<slot, status, phase, upstreamID, upstream, tried, remote>>
        /\ lease'[t] = w /\ pc[w] = "idle" /\ cur'[w] = t /\ replay'[w] = tried[t]
        /\ \A u \in Task \ {t} : lease'[u] = lease[u]
        /\ phase[t] \notin {"none", "terminal"}
    BY SMTT(30), <1>0, <1>3 DEF Acquire, MayAcquire, TypeOK
  <2>2. \A v \in Worker \ {w} : /\ pc'[v] = pc[v] /\ cur'[v] = cur[v]
                                /\ replay'[v] = replay[v] /\ seen'[v] = seen[v]
    BY SMTT(30), <1>0, <1>3 DEF Acquire, Goto, TypeOK
  <2>3. \/ pc'[w] = "complete" /\ seen'[w] = "cancelled" /\ phase[t] \in {"preparing", "prepared"}
        \/ pc'[w] = "prepare" /\ phase[t] = "preparing"
        \/ pc'[w] = "begin" /\ phase[t] \in {"prepared", "submit_intent"}
        \/ pc'[w] = "query" /\ phase[t] = "submitted"
    BY SMTT(30), <1>0, <1>3, <2>1 DEF Acquire, Goto, TypeOK, Phase
  <2>4. SlotAt(t) /\ RunAt(t)
    BY DEF IInv, RowOK
  <2>5. KeyOK' /\ RowOK'
    BY SMTT(30), <2>1, <2>2, <2>3 DEF IInv, KeyOK, RowOK, SlotAt, RunAt, EndedAt, Unborn
  <2>6. ASSUME NEW v \in Worker \ {w} PROVE WorkerAt(v)' /\ HolderAt(v)'
    <3>1. WorkerAt(v) /\ HolderAt(v) /\ (pc[v] # "idle" => cur[v] \in Task)
      BY <1>0 DEF IInv, WorkerOK, HolderOK, CurOK
    <3>2. WorkerAt(v)'
      BY <2>1, <2>2, <3>1 DEF WorkerAt
    <3>3. NoOtherSubmits(cur[v], v) => NoOtherSubmits(cur[v], v)'
      BY <2>2, <2>3 DEF NoOtherSubmits
    <3>4. HolderAt(v)'
      BY SMTT(30), <2>1, <2>2, <3>1, <3>3 DEF HolderAt, Unborn
    <3> QED BY <3>2, <3>4
  <2>7. ~tried[t] => Unborn(t) /\ NoOtherSubmits(t, w)'
    BY SMTT(30), <2>2, <2>4 DEF IInv, RunAt, WorkerOK, WorkerAt, NoOtherSubmits
  <2>8. WorkerAt(w)'
    BY <2>1, <2>3, <2>4 DEF WorkerAt, RunAt, Polling, Terminal
  <2>9. HolderAt(w)'
    BY <2>1, <2>3, <2>4, <2>7 DEF HolderAt, RunAt, Unborn, Polling
  <2> QED BY <1>0, <2>5, <2>6, <2>8, <2>9 DEF IInv, WorkerOK, HolderOK
<1>4. ASSUME NEW t \in Task, ExpireLive(t) \/ ExpireGone(t) \/ ReadForCancel(t) PROVE IInv'
  <2>1. UNCHANGED <<slot, status, phase, upstreamID, upstream, tried, lease, pc, cur, replay, seen, remote>>
    BY <1>4 DEF ExpireLive, ExpireGone, ReadForCancel
  <2> QED BY <1>0, <2>1, StatusMove DEF IInv, RowOK, SlotAt
<1>5. CASE RequestRemoteCancel
  <2>1. /\ client \in Task
        /\ \A u \in Task : status'[u] = status[u] \/ (status'[u] = "cancelling" /\ slot[u])
    BY SMTT(30), <1>0, <1>5 DEF RequestRemoteCancel, TaskIsClaimed, TypeOK
  <2>2. UNCHANGED <<slot, phase, upstreamID, upstream, tried, lease, pc, cur, replay, seen, remote>>
    BY <1>5 DEF RequestRemoteCancel
  <2>3. \A u \in Task : SlotAt(u)'
    BY <2>1, <2>2 DEF IInv, RowOK, SlotAt, Claimed
  <2> QED BY <1>0, <2>2, <2>3, StatusMove
<1>6. CASE CancelLocally
  <2>1. /\ client \in Task
        /\ UNCHANGED <<slot, phase, upstreamID, upstream, tried, lease, pc, cur, replay, seen, remote>>
    BY <1>0, <1>6 DEF CancelLocally, TypeOK
  <2>2. \A u \in Task : SlotAt(u)
    BY DEF IInv, RowOK
  <2>3. CASE CancelQueued
    <3>1. status \in [Task -> Status] /\ status' = Rebalance([status EXCEPT ![client] = "cancelled"])
      BY <1>0, <2>3 DEF CancelQueued, TypeOK
    <3>2. status[client] \in Queued
      BY <2>3 DEF CancelQueued, Queued
    <3>3. /\ status'[client] = "cancelled"
          /\ \A u \in Task \ {client} : /\ status[u] \notin Queued => status'[u] = status[u]
                                        /\ status[u] \in Queued => status'[u] \in Queued
      BY <2>1, <3>1 DEF Rebalance, Queued
    <3>4. \A u \in Task : SlotAt(u)'
      BY <2>1, <2>2, <3>2, <3>3 DEF SlotAt, Queued, Claimed
    <3> QED BY <1>0, <2>1, <3>4, StatusMove
  <2>4. CASE CancelOwned
    <3>1. /\ status[client] \in {"dispatching", "running", "reconciling"}
          /\ status'[client] = "cancelling" /\ \A u \in Task \ {client} : status'[u] = status[u]
      BY <1>0, <2>1, <2>4 DEF CancelOwned, TypeOK
    <3>2. \A u \in Task : SlotAt(u)'
      BY <2>1, <2>2, <3>1 DEF SlotAt, Queued, Claimed
    <3> QED BY <1>0, <2>1, <3>2, StatusMove
  <2>5. CASE UNCHANGED status
    BY <1>0, <2>1, <2>2, <2>5, StatusMove DEF SlotAt
  <2> QED BY <1>6, <2>3, <2>4, <2>5 DEF CancelLocally
<1>7. ASSUME NEW k \in Key, LateArrival(k) \/ LateLoss(k) \/ JobStarts(k) \/ JobEnds(k) PROVE IInv'
  <2>1. UNCHANGED <<rows, pc, cur, replay, seen>>
    BY <1>7 DEF LateArrival, LateLoss, JobStarts, JobEnds
  <2>2. /\ \A j \in Key \ {k} : job'[j] = job[j]
        /\ late' \subseteq late
        /\ job[k] \in Terminal => job'[k] = job[k]
        /\ job[k] # "none" => job'[k] # "none"
        /\ job[k] = "none" /\ k \notin late => job'[k] = "none"
    <3>1. job \in [Key -> JobState]
      BY <1>0 DEF TypeOK
    <3> QED BY <1>7, <3>1 DEF LateArrival, LateLoss, JobStarts, JobEnds, Created, Terminal
  <2>3. PICK t \in Task : k \in {<<t, 0>>, <<t, 1>>}
    BY KeyFacts
  <2>4. KeyOK'
    <3> SUFFICES ASSUME NEW u \in Task PROVE job'[<<u, 1>>] = "none" /\ <<u, 1>> \notin late'
      BY Zenon DEF KeyOK
    <3>1. job[<<u, 1>>] = "none" /\ <<u, 1>> \notin late /\ <<u, 1>> \in Key
      BY KeyFacts DEF IInv, KeyOK
    <3>2. CASE k = <<u, 1>>
      BY <2>2, <3>1, <3>2
    <3>3. CASE k # <<u, 1>>
      BY <2>2, <3>1, <3>3
    <3> QED BY <3>2, <3>3
  <2>5. /\ \A u \in Task \ {t} : job'[<<u, 0>>] = job[<<u, 0>>]
        /\ job[<<t, 0>>] \in Terminal => job'[<<t, 0>>] = job[<<t, 0>>]
        /\ job[<<t, 0>>] # "none" => job'[<<t, 0>>] # "none"
        /\ Unborn(t) => Unborn(t)'
    BY <2>2, <2>3, KeyFacts DEF Unborn
  <2> QED BY <1>0, <2>1, <2>2, <2>4, <2>5, JobMove
<1>8. CASE Crash
  <2>1. /\ \A w \in Worker : pc'[w] = "idle"
        /\ UNCHANGED <<slot, status, phase, upstreamID, upstream, tried, job>>
    BY <1>8 DEF Crash
  <2>2. WorkerOK' /\ HolderOK'
    BY <2>1 DEF WorkerOK, HolderOK, WorkerAt, HolderAt, Polling
  <2>3. \A u \in Task : <<u, 0>> \in late' => <<u, 0>> \in late \/ \E w \in Worker : pc[w] = "submit" /\ cur[w] = u
    BY <1>8 DEF Crash, SubmissionKey
  <2>4. \A u \in Task : <<u, 1>> \in late' => <<u, 1>> \in late
    BY SMTT(30), <1>8 DEF Crash, SubmissionKey
  <2>5. KeyOK'
    BY <2>1, <2>4 DEF IInv, KeyOK
  <2>6. ASSUME NEW u \in Task PROVE SlotAt(u)' /\ RunAt(u)' /\ EndedAt(u)'
    <3>1. SlotAt(u) /\ RunAt(u) /\ EndedAt(u) /\ \A w \in Worker : WorkerAt(w)
      BY DEF IInv, RowOK, WorkerOK
    <3>2. SlotAt(u)'
      BY <2>1, <3>1 DEF SlotAt
    <3>3. RunAt(u)'
      BY SMTT(30), <2>1, <2>3, <3>1 DEF RunAt, Unborn, WorkerAt
    <3>4. EndedAt(u)'
      BY <2>1, <2>3, <3>1 DEF EndedAt, Unborn
    <3> QED BY <3>2, <3>3, <3>4
  <2> QED BY <1>0, <2>2, <2>5, <2>6 DEF IInv, RowOK
<1>9. CASE UNCHANGED vars
  <2>1. UNCHANGED <<slot, status, phase, upstreamID, upstream, tried, lease, pc, cur, replay, seen, remote>>
    BY <1>9 DEF vars
  <2> QED BY <1>0, <2>1, StatusMove DEF IInv, RowOK, SlotAt
<1> QED BY <1>1, <1>2, <1>3, <1>4, <1>5, <1>6, <1>7, <1>8, <1>9 DEF Next

(* The initial states satisfy the invariant.                                 *)
LEMMA InvInit == Init => IInv
<1> SUFFICES ASSUME Init PROVE IInv
    OBVIOUS
<1> USE Zenon, TaskAssumption, WorkerAssumption, BoundAssumption DEF Init
<1>1. [t \in Task |-> "queued_open"] \in [Task -> Status]
  BY DEF Status, Queued
<1>2. status \in [Task -> Status] /\ \A t \in Task : status[t] \in Queued
  BY <1>1, RebalanceFacts DEF Queued
<1>3. TypeOK
  <2>1. /\ slot \in [Task -> BOOLEAN] /\ delivery \in [Task -> BOOLEAN]
        /\ recon \in [Task -> BOOLEAN] /\ tried \in [Task -> BOOLEAN] /\ live \in [Task -> BOOLEAN]
        /\ replay \in [Worker -> BOOLEAN] /\ flag \in [Worker -> BOOLEAN]
    OBVIOUS
  <2>2. /\ notified \in [Task -> Terminal \cup {"none"}] /\ phase \in [Task -> Phase]
        /\ upstream \in [Task -> JobState] /\ job \in [Key -> JobState]
        /\ upstreamID \in [Task -> Key \cup {NoKey}]
        /\ cancel \in [Task -> {"none", "requested", "confirmed", "rejected"}]
    BY DEF Phase, JobState
  <2>3. /\ lease \in [Task -> Worker \cup {NoLease, Gone}] /\ pc \in [Worker -> PC]
        /\ cur \in [Worker -> Task \cup {NoTask}] /\ seen \in [Worker -> JobState]
        /\ intent \in [Worker -> {"none", "requested", "confirmed", "rejected"}]
    BY DEF PC, JobState
  <2>4. /\ client \in Task \cup {NoTask} /\ path \in {"none", "remote", "admin", "user"}
        /\ late \subseteq Key /\ faults \in 0..MaxFaults
    BY SMTT(30)
  <2> QED BY <1>2, <2>1, <2>2, <2>3, <2>4 DEF TypeOK
<1>4. KeyOK /\ CurOK
  BY KeyFacts DEF KeyOK, CurOK
<1>5. RowOK
  BY <1>2, KeyFacts DEF RowOK, SlotAt, RunAt, EndedAt, Unborn
<1>6. WorkerOK /\ HolderOK
  BY DEF WorkerOK, HolderOK, WorkerAt, HolderAt, Polling
<1> QED BY <1>3, <1>4, <1>5, <1>6 DEF IInv

-----------------------------------------------------------------------------
(* The invariant holds in every reachable state.                             *)
THEOREM Invariance == Spec => []IInv
BY InvInit, InvStep, PTL DEF Spec

(* Every reachable state is well-typed.                                      *)
THEOREM TypeCorrect == Spec => []TypeOK
<1>1. IInv => TypeOK
  BY DEF IInv
<1> QED BY <1>1, Invariance, PTL

(* Slot, phase and status of a task agree in every reachable state.          *)
THEOREM SlotAgreement == Spec => []SlotMatchesRun
<1>1. IInv => SlotMatchesRun
  BY DEF IInv, RowOK, SlotAt, SlotMatchesRun
<1> QED BY <1>1, Invariance, PTL

(* However submissions are lost, repeated and taken over, the service holds  *)
(* at most one job of a task.                                                *)
THEOREM SingleJob == Spec => []OneJobPerTask
<1>1. IInv => OneJobPerTask
  BY DEF IInv, KeyOK, OneJobPerTask
<1> QED BY <1>1, Invariance, PTL

(* A run that ended has no job at the service, now or later, or one that     *)
(* ended the same way.                                                       *)
THEOREM HonestVerdict == Spec => []VerdictMatchesJob
<1>1. ASSUME IInv PROVE VerdictMatchesJob
  <2> SUFFICES ASSUME NEW t \in Task, phase[t] = "terminal"
               PROVE  /\ \A k \in {t} \X {0, 1} :
                            job[k] \in {"none", upstream[t]} /\ (k \in late => job[k] # "none")
                      /\ upstream[t] = "succeeded" =>
                            \E k \in {t} \X {0, 1} : job[k] = "succeeded"
    BY DEF VerdictMatchesJob
  <2>1. EndedAt(t) /\ job[<<t, 1>>] = "none" /\ <<t, 1>> \notin late
    BY <1>1 DEF IInv, RowOK, KeyOK
  <2>2. /\ job[<<t, 0>>] \in {"none", upstream[t]} /\ (<<t, 0>> \in late => job[<<t, 0>>] # "none")
        /\ upstream[t] = "succeeded" => job[<<t, 0>>] = "succeeded"
    BY <2>1 DEF EndedAt, Unborn, Terminal
  <2> QED BY <2>1, <2>2
<1> QED BY <1>1, Invariance, PTL

=============================================================================
