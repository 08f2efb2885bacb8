----------------------- MODULE StageOrchestratorProofs -----------------------
(* For any tasks, stages, nodes, attempts and faults: the rows of attempt,      *)
(* stage and task agree, and the orchestrator implements StagePipeline.         *)
EXTENDS StageOrchestrator, TLAPS

\* Steps with arithmetic, and a few large ones, name SMT instead.
USE Zenon

Held     == {"leased", "running"}
Underway == {"dispatching", "running"}
Handling == {"look", "prepare", "create", "submit", "bind", "poll", "complete", "fail"}
Making   == {"submit", "bind", "poll", "complete", "fail"}

\* A lease is dropped with the statement that ends or frees the stage.
LeaseInv == \A x \in Stage : lease[x] # NoNode => stage[x] \in Held

\* A stage is claimed only after the ones before it, and success is not undone.
OrderInv ==
    \A t \in Task : \A s, r \in 1..Stages :
        r < s /\ stage[<<t, s>>] \in Held \cup {"succeeded"} => stage[<<t, r>>] = "succeeded"

\* What the attempt in hand says of its stage and its task.
TryInv ==
    \A x \in Stage : \A k \in 1..MaxAttempts :
        try[<<x, k>>] \in Trying =>
            /\ k = count[x]
            /\ stage[x] \in Held
            /\ status[x[1]] \in Underway
            /\ active[x[1]] /\ upstream[x[1]] = tryNode[<<x, k>>]

\* A task that goes on is assigned to a node only while a stage of it is active.
TaskInv ==
    \A t \in Task :
        /\ status[t] # "cancelling"
        /\ status[t] \in Open /\ upstream[t] # NoNode => active[t]

\* What a worker may rely on, and for how long: as long as it holds the lease,
\* its copy of the stage is up to date, and no one else has ended the task.
Works(n) ==
    /\ pc[n] \in Handling => cur[n] \in Stage
    /\ pc[n] \in {"look", "prepare", "create"} /\ lease[cur[n]] = n => had[n] = count[cur[n]]
    /\ pc[n] \in {"prepare", "create"} /\ lease[cur[n]] = n =>
            \A k \in 1..MaxAttempts : try[<<cur[n], k>>] \notin Trying
    /\ pc[n] \in Making => no[n] \in 1..MaxAttempts /\ no[n] \in {had[n], had[n] + 1}
    /\ pc[n] \in Making /\ lease[cur[n]] = n =>
            no[n] = count[cur[n]] /\ status[cur[n][1]] \in Underway

WorkerInv == \A n \in Node : Works(n)

IInv == TypeOK /\ LeaseInv /\ OrderInv /\ TryInv /\ TaskInv /\ WorkerInv
-----------------------------------------------------------------------------
\* Rows are named by task, order and attempt number (task_stages, stage_attempts).
LEMMA Names ==
    /\ \A x \in Stage : x[1] \in Task /\ x[2] \in 1..Stages /\ x = <<x[1], x[2]>>
    /\ \A t \in Task : \A s \in 1..Stages :
          <<t, s>> \in Stage /\ <<t, s>>[1] = t /\ <<t, s>>[2] = s
    /\ \A x \in Stage : \A k \in 1..MaxAttempts :
          <<x, k>> \in Op /\ <<x, k>>[1] = x /\ <<x, k>>[2] = k
    /\ \A o \in Op : o[1] \in Stage /\ o[2] \in 1..MaxAttempts /\ o = <<o[1], o[2]>>
  BY SMT DEF Stage, Op

\* A task has one stage in hand: claimStageCandidateSelect takes a stage only after
\* the ones before it have succeeded.
LEMMA OneHeld ==
    ASSUME TypeOK, OrderInv, NEW x \in Stage, NEW y \in Stage, x[1] = y[1],
           stage[x] \in Held, stage[y] \in Held
    PROVE  x = y
  <1>1. x[1] \in Task /\ x[2] \in 1..Stages /\ y[2] \in 1..Stages
        /\ x = <<x[1], x[2]>> /\ y = <<x[1], y[2]>>
    BY Names
  <1>2. ~(x[2] < y[2]) /\ ~(y[2] < x[2])
    BY <1>1 DEF OrderInv, Held
  <1> QED BY SMT, <1>1, <1>2, BoundAssumption

\* A queued task has no row of stage_attempts yet (Create inserts its stages only).
LEMMA Start == Init => IInv
  <1> SUFFICES ASSUME Init PROVE IInv
    OBVIOUS
  <1>1. TypeOK
    BY SMT, BoundAssumption DEF Init, TypeOK, Open, Ended, TryStatus, Trying, PC, JobEnded
  <1>2. LeaseInv /\ OrderInv /\ TryInv /\ TaskInv
    BY Names DEF Init, LeaseInv, OrderInv, TryInv, TaskInv, Held, Trying
  <1>3. WorkerInv
    BY DEF Init, WorkerInv, Works, Handling, Making
  <1> QED BY <1>1, <1>2, <1>3 DEF IInv

\* A call that writes none of the rows of tasks, stages and attempts but lease
\* expiries keeps the invariants about them.
LEMMA RowsKept ==
    ASSUME IInv, UNCHANGED <<status, upstream, active, stage, count, lease, try, tryNode>>
    PROVE  LeaseInv' /\ OrderInv' /\ TryInv' /\ TaskInv'
  BY SMT DEF IInv, LeaseInv, OrderInv, TryInv, TaskInv

\* Where a worker goes with its own variables leaves the other workers alone.
LEMMA OthersWork ==
    ASSUME IInv, NEW n \in Node, UNCHANGED <<status, count, lease, try>>,
           \A m \in Node \ {n} : /\ pc'[m] = pc[m] /\ cur'[m] = cur[m]
                                 /\ had'[m] = had[m] /\ no'[m] = no[m],
           Works(n)'
    PROVE  WorkerInv'
  <1> SUFFICES ASSUME NEW m \in Node \ {n} PROVE Works(m)'
    BY DEF WorkerInv
  <1>1. Works(m)
    BY DEF IInv, WorkerInv
  <1> QED BY <1>1 DEF Works

\* ProcessOne returns: the worker relies on nothing any more.
LEMMA Returning ==
    ASSUME IInv, NEW n \in Node, Return(n)
    PROVE  /\ pc' \in [Node -> PC] /\ cur' \in [Node -> Stage \cup {NoStage}]
           /\ had' \in [Node -> 0..MaxAttempts] /\ no' \in [Node -> 0..MaxAttempts]
           /\ final' \in [Node -> BOOLEAN]
           /\ Works(n)'
           /\ \A m \in Node \ {n} : /\ pc'[m] = pc[m] /\ cur'[m] = cur[m]
                                    /\ had'[m] = had[m] /\ no'[m] = no[m]
  <1>1. pc \in [Node -> PC] /\ cur \in [Node -> Stage \cup {NoStage}]
        /\ had \in [Node -> 0..MaxAttempts] /\ no \in [Node -> 0..MaxAttempts]
        /\ final \in [Node -> BOOLEAN]
    BY DEF IInv, TypeOK
  <1>2. pc'[n] = "idle"
    BY <1>1 DEF Return, Goto
  <1>3. Works(n)'
    BY <1>2 DEF Works, Handling, Making
  <1>4. 0 \in 0..MaxAttempts
    BY SMT, BoundAssumption
  <1> QED BY <1>1, <1>3, <1>4 DEF Return, Goto, PC

\* Returning without a write to tasks, stages and attempts, after a cancel, a lost
\* lease, a fault or a crash.
LEMMA QuietReturn ==
    ASSUME IInv, NEW n \in Node, Return(n), UNCHANGED rows,
           job' \in [Op -> {"none", "live"} \cup JobEnded], late' \in SUBSET Op,
           faults' \in 0..MaxFaults
    PROVE  IInv'
  <1>1. LeaseInv' /\ OrderInv' /\ TryInv' /\ TaskInv'
    BY RowsKept DEF rows, taskRow, stageRow, attemptRow
  <1>2. WorkerInv'
    BY Returning, OthersWork DEF rows, taskRow, stageRow, attemptRow
  <1>3. TypeOK'
    BY Returning DEF IInv, TypeOK, rows, taskRow, stageRow, attemptRow, fence
  <1> QED BY <1>1, <1>2, <1>3 DEF IInv

\* Going on to another step of ProcessOne without a write to the rows.
LEMMA QuietMove ==
    ASSUME IInv, NEW n \in Node, NEW label \in PC, Goto(n, label),
           UNCHANGED <<rows, cur, had>>,
           no' \in [Node -> 0..MaxAttempts], final' \in [Node -> BOOLEAN],
           \A m \in Node \ {n} : no'[m] = no[m],
           job' \in [Op -> {"none", "live"} \cup JobEnded], late' \in SUBSET Op,
           faults' \in 0..MaxFaults,
           Works(n)'
    PROVE  IInv'
  <1>1. LeaseInv' /\ OrderInv' /\ TryInv' /\ TaskInv'
    BY RowsKept DEF rows, taskRow, stageRow, attemptRow
  <1>2. pc' \in [Node -> PC] /\ \A m \in Node \ {n} : pc'[m] = pc[m]
    BY DEF IInv, TypeOK, Goto
  <1>3. WorkerInv'
    BY <1>2, OthersWork DEF rows, taskRow, stageRow, attemptRow
  <1>4. TypeOK'
    BY <1>2 DEF IInv, TypeOK, rows, taskRow, stageRow, attemptRow, fence
  <1> QED BY <1>1, <1>3, <1>4 DEF IInv

\* Neither a lease nor an attempt of another worker stands behind these steps.
LEMMA QuietFacts ==
    ASSUME IInv, NEW n \in Node
    PROVE  /\ Works(n)
           /\ pc[n] \in Making => Mine(n) \in Op
           /\ Fault => faults' \in 0..MaxFaults
           /\ \A o : CreateExecution(o) => job' \in [Op -> {"none", "live"} \cup JobEnded]
  <1>1. Works(n)
    BY DEF IInv, WorkerInv
  <1>2. pc[n] \in Making => Mine(n) \in Op
    BY <1>1, Names DEF Works, Making, Handling, Mine
  <1>3. Fault => faults' \in 0..MaxFaults
    BY SMT, BoundAssumption DEF IInv, TypeOK, Fault
  <1>4. \A o : CreateExecution(o) => job' \in [Op -> {"none", "live"} \cup JobEnded]
    BY DEF IInv, TypeOK, CreateExecution
  <1> QED BY <1>1, <1>2, <1>3, <1>4

\* The steps of a worker that write none of the rows of tasks, stages and attempts:
\* resumeStageAttempt, the preparation, the calls to the node and the poll loop.
LEMMA QuietSteps ==
    ASSUME IInv, NEW n \in Node,
           \/ Look(n) \/ Prepared(n) \/ PrepareFails(n) \/ CreateRefused(n)
           \/ Submit(n) \/ SubmitUnanswered(n) \/ SubmitRejected(n)
           \/ PollCancelled(n) \/ PollLosesLease(n) \/ PollEnds(n) \/ PollRejected(n)
           \/ Crash(n)
    PROVE  IInv'
  <1> USE QuietFacts
  <1>t. /\ job \in [Op -> {"none", "live"} \cup JobEnded] /\ late \in SUBSET Op
        /\ faults \in 0..MaxFaults /\ pc \in [Node -> PC]
        /\ no \in [Node -> 0..MaxAttempts] /\ final \in [Node -> BOOLEAN]
    BY DEF IInv, TypeOK
  <1>r. ASSUME Return(n), UNCHANGED <<rows, remote, faults>> PROVE IInv'
    BY <1>t, <1>r, QuietReturn DEF remote
  <1>w. ASSUME NEW label \in Making, pc[n] \in Making, Goto(n, label),
               UNCHANGED <<rows, cur, had, no>>
        PROVE  Works(n)'
    <2>1. pc'[n] = label
      BY <1>t, <1>w DEF Goto
    <2> QED BY <1>w, <2>1 DEF Works, Making, Handling, rows, taskRow, stageRow, attemptRow
  <1>f. ASSUME NEW v \in BOOLEAN, Fail(n, v), pc[n] \in Making, UNCHANGED rows,
               job' \in [Op -> {"none", "live"} \cup JobEnded], late' \in SUBSET Op,
               faults' \in 0..MaxFaults
        PROVE  IInv'
    <2>1. final' \in [Node -> BOOLEAN]
      BY <1>t, <1>f DEF Fail
    <2>2. Works(n)'
      BY <1>f, <1>w DEF Fail, Making
    <2>3. "fail" \in PC
      BY DEF PC
    <2> QED BY <1>t, <1>f, <2>1, <2>2, <2>3, QuietMove DEF Fail
  <1>1. CASE Look(n)
    <2>1. CASE Return(n)
      BY <1>1, <1>r, <2>1 DEF Look
    <2>2. CASE ~Return(n)
      <3> DEFINE x == cur[n]
                 o == <<x, count[x]>>
                 label == IF ~Resumes(n) THEN "prepare" ELSE IF bound[o] THEN "bind" ELSE "submit"
      <3>1. /\ pc[n] = "look" /\ Goto(n, label) /\ UNCHANGED <<rows, cur, had, final, remote, faults>>
            /\ no' = [no EXCEPT ![n] = IF Resumes(n) THEN count[x] ELSE 0]
        BY <1>1, <2>2 DEF Look, ResumedNo
      <3>2. label \in PC /\ pc'[n] = label
        BY <1>t, <3>1 DEF PC, Goto
      <3>3. x \in Stage /\ count[x] \in 0..MaxAttempts /\ (lease[x] = n => had[n] = count[x])
        BY <3>1 DEF Works, Handling, IInv, TypeOK
      <3>4. CASE Resumes(n)
        <4>1. count[x] \in 1..MaxAttempts /\ lease[x] = n /\ status[x[1]] \in Underway
          BY SMT, <3>3, <3>4, BoundAssumption DEF Resumes, IInv, TryInv
        <4>2. no' \in [Node -> 0..MaxAttempts] /\ no'[n] = count[x] /\ \A m \in Node \ {n} : no'[m] = no[m]
          BY <1>t, <3>1, <3>3, <3>4
        <4>3. Works(n)'
          BY <3>1, <3>2, <3>3, <3>4, <4>1, <4>2
             DEF Works, Making, Handling, rows, taskRow, stageRow, attemptRow
        <4> QED BY <1>t, <3>1, <3>2, <4>2, <4>3, QuietMove DEF remote
      <3>5. CASE ~Resumes(n)
        <4>1. no' \in [Node -> 0..MaxAttempts] /\ \A m \in Node \ {n} : no'[m] = no[m]
          BY SMT, <1>t, <3>1, <3>5, BoundAssumption
        <4>2. lease[x] = n => \A k \in 1..MaxAttempts : try[<<x, k>>] \notin Trying
          BY SMT, <3>3, <3>5, BoundAssumption DEF Resumes, IInv, TryInv
        <4>3. pc'[n] = "prepare"
          BY <3>2, <3>5
        <4>4. Works(n)'
          BY <3>1, <3>3, <4>2, <4>3 DEF Works, Making, Handling, rows, taskRow, stageRow, attemptRow
        <4> QED BY <1>t, <3>1, <3>2, <4>1, <4>4, QuietMove DEF remote
      <3> QED BY <3>4, <3>5
    <2> QED BY <2>1, <2>2
  <1>p. ASSUME pc[n] = "prepare", Goto(n, "create"), UNCHANGED <<rows, cur, had, no>>
        PROVE  Works(n)' /\ "create" \in PC
    <2>1. pc'[n] = "create"
      BY <1>t, <1>p DEF Goto
    <2> QED BY <1>p, <2>1 DEF Works, Making, Handling, PC, rows, taskRow, stageRow, attemptRow
  <1>2. CASE Prepared(n)
    <2>1. CASE Return(n)
      BY <1>2, <1>r, <2>1 DEF Prepared
    <2>2. CASE ~Return(n)
      BY <1>2, <1>p, <1>t, <2>2, QuietMove DEF Prepared, local, remote
    <2> QED BY <2>1, <2>2
  <1>3. CASE PrepareFails(n)
    BY <1>3, <1>p, <1>t, QuietMove DEF PrepareFails, remote
  <1>4. CASE CreateRefused(n)
    BY <1>4, <1>t, QuietReturn DEF CreateRefused, remote
  <1>5. CASE Submit(n)
    <2>1. "bind" \in PC /\ "bind" \in Making /\ pc[n] \in Making
      BY <1>5 DEF PC, Making, Submit
    <2>2. Works(n)'
      BY <1>5, <1>w, <2>1 DEF Submit, local
    <2> QED BY <1>5, <1>t, <2>1, <2>2, QuietMove DEF Submit, local
  <1>6. CASE SubmitUnanswered(n)
    <2>1. pc[n] \in Making /\ late' \in SUBSET Op
      BY <1>6, <1>t DEF SubmitUnanswered, Making
    <2> QED BY <1>6, <1>t, <1>f, <2>1, QuietReturn DEF SubmitUnanswered
  <1>7. CASE SubmitRejected(n)
    <2>1. pc[n] \in Making
      BY <1>7 DEF SubmitRejected, Making
    <2> QED BY <1>7, <1>t, <1>f, <2>1, QuietReturn DEF SubmitRejected, remote
  <1>8. CASE PollCancelled(n)
    <2>1. Mine(n) \in Op
      BY <1>8 DEF PollCancelled, Making
    <2>2. job' \in [Op -> {"none", "live"} \cup JobEnded]
      BY <1>8, <1>t, <2>1 DEF PollCancelled, JobEnded
    <2> QED BY <1>8, <1>t, <2>2, QuietReturn DEF PollCancelled
  <1>9. CASE PollLosesLease(n)
    BY <1>9, <1>r DEF PollLosesLease
  <1>10. CASE PollEnds(n)
    <2>1. pc[n] \in Making /\ "complete" \in Making /\ "complete" \in PC
      BY <1>10 DEF PollEnds, Making, PC
    <2>2. CASE Goto(n, "complete") /\ UNCHANGED local
      <3>1. Works(n)'
        BY <1>10, <1>w, <2>1, <2>2 DEF PollEnds, local
      <3> QED BY <1>10, <1>t, <2>1, <2>2, <3>1, QuietMove DEF PollEnds, local, remote
    <2>3. CASE \E v \in BOOLEAN : Fail(n, v)
      BY <1>10, <1>t, <1>f, <2>1, <2>3 DEF PollEnds, remote
    <2> QED BY <1>10, <2>2, <2>3 DEF PollEnds
  <1>11. CASE PollRejected(n)
    <2>1. pc[n] \in Making
      BY <1>11 DEF PollRejected, Making
    <2>2. \E v \in BOOLEAN : Fail(n, v)
      BY <1>11 DEF PollRejected
    <2> QED BY <1>11, <1>t, <1>f, <2>1, <2>2 DEF PollRejected, remote
  <1>12. CASE Crash(n)
    <2>1. late' \in SUBSET Op
      BY <1>12, <1>t DEF Crash, Making
    <2> QED BY <1>12, <1>t, <2>1, QuietReturn DEF Crash
  <1> QED BY <1>1, <1>2, <1>3, <1>4, <1>5, <1>6, <1>7, <1>8, <1>9, <1>10, <1>11, <1>12

\* reconcileCancellationBarrier, the nodes and the passing of time: no row of a task
\* or an attempt is written, of a stage only the lease's expiry.
LEMMA OutsideSteps ==
    ASSUME IInv,
           \/ \E n \in Node : \/ BarrierRecovers(n) \/ BarrierRecoveryFails(n)
                              \/ BindBarrierExecution(n) \/ StopExecution(n)
                              \/ ConfirmStopped(n) \/ ResolveNodeDispatchBarrier(n)
                              \/ NodeForgets(n)
           \/ \E x \in Stage : ExpireAbandoned(x) \/ ExpireHeld(x)
           \/ \E o \in Op : ExecutionEnds(o) \/ LateArrives(o)
    PROVE  IInv'
  <1>t. TypeOK /\ WorkerInv
    BY DEF IInv
  <1>k. ASSUME UNCHANGED <<status, upstream, active, stage, count, lease, try, tryNode>>,
               TypeOK', WorkerInv'
        PROVE  IInv'
    BY <1>k, RowsKept DEF IInv
  <1>l. ASSUME UNCHANGED <<status, count, lease, try, pc, local>> PROVE WorkerInv'
    BY <1>t, <1>l DEF WorkerInv, Works, local
  <1>m. ASSUME NEW n \in Node, NEW label \in {"idle", "bindBarrier", "stop", "confirm", "resolve"},
               Goto(n, label), UNCHANGED <<status, count, lease, try, local>>
        PROVE  WorkerInv' /\ pc' \in [Node -> PC]
    <2>1. pc' \in [Node -> PC] /\ pc'[n] = label /\ \A m \in Node \ {n} : pc'[m] = pc[m]
      BY <1>t, <1>m DEF TypeOK, Goto, PC
    <2>2. Works(n)'
      BY <2>1, <1>m DEF Works, Handling, Making
    <2> QED BY <1>m, <2>1, <2>2, OthersWork DEF local
  <1>1. ASSUME NEW n \in Node, BarrierRecovers(n) PROVE IInv'
    <2>1. WorkerInv' /\ pc' \in [Node -> PC]
      BY <1>1, <1>m DEF BarrierRecovers, rows, taskRow, stageRow, attemptRow
    <2>2. TypeOK'
      BY <1>1, <1>t, <2>1, QuietFacts
         DEF BarrierRecovers, TypeOK, rows, taskRow, stageRow, attemptRow, fence, local
    <2> QED BY <1>1, <1>k, <2>1, <2>2 DEF BarrierRecovers, rows, taskRow, stageRow, attemptRow
  <1>2. ASSUME NEW n \in Node, BarrierRecoveryFails(n) PROVE IInv'
    <2>1. WorkerInv'
      BY <1>2, <1>l DEF BarrierRecoveryFails, rows, taskRow, stageRow, attemptRow
    <2>2. TypeOK'
      BY SMT, <1>2, <1>t, QuietFacts
         DEF BarrierRecoveryFails, TypeOK, rows, taskRow, stageRow, attemptRow, fence, local
    <2> QED BY <1>2, <1>k, <2>1, <2>2 DEF BarrierRecoveryFails, rows, taskRow, stageRow, attemptRow
  <1>3. ASSUME NEW n \in Node, BindBarrierExecution(n) PROVE IInv'
    <2>1. WorkerInv' /\ pc' \in [Node -> PC]
      BY <1>3, <1>m DEF BindBarrierExecution, taskRow, stageRow, attemptRow
    <2>2. TypeOK'
      BY <1>3, <1>t, <2>1
         DEF BindBarrierExecution, TypeOK, taskRow, stageRow, attemptRow, remote, local
    <2> QED BY <1>3, <1>k, <2>1, <2>2 DEF BindBarrierExecution, taskRow, stageRow, attemptRow
  <1>4. ASSUME NEW n \in Node, StopExecution(n) PROVE IInv'
    <2>1. WorkerInv' /\ pc' \in [Node -> PC]
      BY <1>4, <1>m DEF StopExecution, rows, taskRow, stageRow, attemptRow
    <2>2. job' \in [Op -> {"none", "live"} \cup JobEnded]
      <3>1. PICK j : /\ j \in {job[barrier[n]]} \cup {k \in {"cancelled"} : job[barrier[n]] = "live"}
                     /\ job' = [job EXCEPT ![barrier[n]] = j]
        BY <1>4 DEF StopExecution
      <3>2. CASE barrier[n] \in Op
        BY <1>t, <3>1, <3>2 DEF TypeOK, JobEnded
      <3>3. CASE barrier[n] \notin Op
        BY <1>t, <3>1, <3>3 DEF TypeOK
      <3> QED BY <3>2, <3>3
    <2>3. TypeOK'
      BY <1>4, <1>t, <2>1, <2>2
         DEF StopExecution, TypeOK, rows, taskRow, stageRow, attemptRow, fence, local
    <2> QED BY <1>4, <1>k, <2>1, <2>3 DEF StopExecution, rows, taskRow, stageRow, attemptRow
  <1>5. ASSUME NEW n \in Node, ConfirmStopped(n) PROVE IInv'
    <2>1. WorkerInv' /\ pc' \in [Node -> PC]
      BY <1>5, <1>m DEF ConfirmStopped, rows, taskRow, stageRow, attemptRow
    <2>2. TypeOK'
      BY <1>5, <1>t, <2>1
         DEF ConfirmStopped, TypeOK, rows, taskRow, stageRow, attemptRow, fence, remote, local
    <2> QED BY <1>5, <1>k, <2>1, <2>2 DEF ConfirmStopped, rows, taskRow, stageRow, attemptRow
  <1>6. ASSUME NEW n \in Node, ResolveNodeDispatchBarrier(n) PROVE IInv'
    <2>1. WorkerInv' /\ pc' \in [Node -> PC]
      BY <1>6, <1>m DEF ResolveNodeDispatchBarrier, taskRow, stageRow, attemptRow
    <2>2. TypeOK'
      BY <1>6, <1>t, <2>1
         DEF ResolveNodeDispatchBarrier, TypeOK, taskRow, stageRow, attemptRow, remote, local
    <2> QED BY <1>6, <1>k, <2>1, <2>2 DEF ResolveNodeDispatchBarrier, taskRow, stageRow, attemptRow
  <1>7. ASSUME NEW n \in Node, NodeForgets(n) PROVE IInv'
    <2>1. WorkerInv'
      BY <1>7, <1>l DEF NodeForgets, rows, taskRow, stageRow, attemptRow
    <2>2. TypeOK'
      BY <1>7, <1>t, QuietFacts
         DEF NodeForgets, TypeOK, rows, taskRow, stageRow, attemptRow, fence, local
    <2> QED BY <1>7, <1>k, <2>1, <2>2 DEF NodeForgets, rows, taskRow, stageRow, attemptRow
  <1>8. ASSUME NEW x \in Stage, ExpireAbandoned(x) \/ ExpireHeld(x) PROVE IInv'
    <2>1. /\ UNCHANGED <<taskRow, stage, count, node, lease, attemptRow, fence, remote, pc, local>>
          /\ live' = [live EXCEPT ![x] = FALSE] /\ faults' \in 0..MaxFaults
      BY SMT, <1>8, <1>t, BoundAssumption DEF ExpireAbandoned, ExpireHeld, Fault, TypeOK
    <2>2. WorkerInv'
      BY <2>1, <1>l DEF taskRow, attemptRow
    <2>3. TypeOK'
      BY <1>t, <2>1 DEF TypeOK, taskRow, attemptRow, fence, remote, local
    <2> QED BY <1>k, <2>1, <2>2, <2>3 DEF taskRow, attemptRow
  <1>9. ASSUME NEW o \in Op, ExecutionEnds(o) \/ LateArrives(o) PROVE IInv'
    <2>1. /\ UNCHANGED <<rows, pc, local, faults>>
          /\ job' \in [Op -> {"none", "live"} \cup JobEnded] /\ late' \in SUBSET Op
      BY SMT, <1>9, <1>t DEF ExecutionEnds, LateArrives, CreateExecution, TypeOK, JobEnded
    <2>2. WorkerInv'
      BY <2>1, <1>l DEF rows, taskRow, stageRow, attemptRow
    <2>3. TypeOK'
      BY <1>t, <2>1 DEF TypeOK, rows, taskRow, stageRow, attemptRow, fence, local
    <2> QED BY <1>k, <2>1, <2>2, <2>3 DEF rows, taskRow, stageRow, attemptRow
  <1> QED BY <1>1, <1>2, <1>3, <1>4, <1>5, <1>6, <1>7, <1>8, <1>9
-----------------------------------------------------------------------------
\* ClaimNextStage: the claimed stage comes after completed ones, and whoever held
\* its expired lease relies on it no longer.
LEMMA Claiming ==
    ASSUME IInv, NEW n \in Node, NEW x \in Stage, ClaimStage(n, x)
    PROVE  IInv'
  <1>t. TypeOK /\ LeaseInv /\ OrderInv /\ TryInv /\ TaskInv /\ WorkerInv
    BY DEF IInv
  <1>1. /\ stage' = [stage EXCEPT ![x] = "leased"] /\ lease' = [lease EXCEPT ![x] = n]
        /\ pc' = [pc EXCEPT ![n] = "look"] /\ cur' = [cur EXCEPT ![n] = x]
        /\ had' = [had EXCEPT ![n] = count[x]]
        /\ UNCHANGED <<status, upstream, active, count, try, tryNode, no>>
    BY DEF ClaimStage, Goto, taskRow, attemptRow
  <1>2. /\ stage[x] \in {"pending", "leased", "running"}
        /\ \A s \in 1..(x[2] - 1) : stage[<<x[1], s>>] = "succeeded"
    BY DEF ClaimStage, Candidate, Takeable
  <1>3. TypeOK'
    BY <1>t DEF ClaimStage, TypeOK, Goto, PC, taskRow, attemptRow, fence, remote
  <1>4. LeaseInv'
    BY <1>t, <1>1 DEF LeaseInv, TypeOK, Held
  <1>5. OrderInv'
    <2> SUFFICES ASSUME NEW t \in Task, NEW s \in 1..Stages, NEW r \in 1..Stages, r < s,
                        stage'[<<t, s>>] \in Held \cup {"succeeded"}
                 PROVE  stage'[<<t, r>>] = "succeeded"
      BY DEF OrderInv
    <2>1. <<t, s>> \in Stage /\ <<t, r>> \in Stage /\ <<t, s>>[1] = t /\ <<t, s>>[2] = s
      BY Names
    <2>2. stage[<<t, r>>] = "succeeded"
      <3>1. CASE <<t, s>> = x
        BY SMT, <1>2, <2>1, <3>1, BoundAssumption
      <3>2. CASE <<t, s>> # x
        BY <1>t, <1>1, <2>1, <3>2 DEF OrderInv, TypeOK
      <3> QED BY <3>1, <3>2
    <2> QED BY <1>t, <1>1, <1>2, <2>1, <2>2 DEF TypeOK
  <1>6. TryInv'
    BY SMT, <1>t, <1>1 DEF TryInv, TypeOK, Held
  <1>7. TaskInv'
    BY <1>t, <1>1 DEF TaskInv
  <1>8. WorkerInv'
    <2> SUFFICES ASSUME NEW m \in Node PROVE Works(m)'
      BY DEF WorkerInv
    <2>1. Works(m) /\ m # NoNode
      BY <1>t, NodeAssumption DEF WorkerInv
    <2>2. CASE m = n
      <3>1. pc'[n] = "look" /\ cur'[n] = x /\ had'[n] = count[x]
        BY <1>t, <1>1 DEF TypeOK
      <3> QED BY <1>1, <2>2, <3>1 DEF Works, Handling, Making
    <2>3. CASE m # n
      <3>1. pc'[m] = pc[m] /\ cur'[m] = cur[m] /\ had'[m] = had[m] /\ no'[m] = no[m]
        BY <1>t, <1>1, <2>3 DEF TypeOK
      <3>2. pc[m] \in Handling /\ lease'[cur[m]] = m => lease[cur[m]] = m
        BY <1>t, <1>1, <2>1, <2>3 DEF TypeOK, Works
      <3>3. Making \subseteq Handling /\ {"look", "prepare", "create"} \subseteq Handling
        BY DEF Making, Handling
      <3> QED BY <1>1, <2>1, <3>1, <3>2, <3>3 DEF Works
    <2> QED BY <2>2, <2>3
  <1> QED BY <1>3, <1>4, <1>5, <1>6, <1>7, <1>8 DEF IInv

\* CreateStageAttempt: the attempt becomes the one in hand.  That there is none yet
\* is known because the worker looked for one under the same lease.
LEMMA Creating ==
    ASSUME IInv, NEW n \in Node, CreateStageAttempt(n)
    PROVE  IInv'
  <1>t. TypeOK /\ LeaseInv /\ OrderInv /\ TryInv /\ TaskInv /\ WorkerInv
    BY DEF IInv
  <1>1. CASE ~MayCreate(n)
    BY <1>1, <1>t, QuietReturn DEF CreateStageAttempt, rows, fence, remote, TypeOK
  <1>2. CASE MayCreate(n)
    <2> DEFINE x == cur[n]
               o == <<x, count[x] + 1>>
               t == x[1]
    <2>w. Works(n) /\ pc[n] = "create"
      BY <1>t DEF WorkerInv, CreateStageAttempt
    <2>0. /\ x \in Stage /\ t \in Task /\ count[x] \in 0..MaxAttempts /\ count[x] < MaxAttempts
          /\ stage[x] = "leased" /\ lease[x] = n /\ status[t] \in Open /\ had[n] = count[x]
      BY <1>2, <1>t, <2>w, Names DEF MayCreate, Works, Handling, TypeOK
    <2>1. count[x] + 1 \in 1..MaxAttempts /\ o \in Op
      BY SMT, <2>0, Names, BoundAssumption
    <2>2. /\ try' = [try EXCEPT ![o] = "dispatching"] /\ tryNode' = [tryNode EXCEPT ![o] = n]
          /\ saved' = [saved EXCEPT ![o] = ~final[n]]
          /\ count' = [count EXCEPT ![x] = count[x] + 1]
          /\ status' = [status EXCEPT ![t] = "dispatching"]
          /\ upstream' = [upstream EXCEPT ![t] = n] /\ active' = [active EXCEPT ![t] = TRUE]
          /\ no' = [no EXCEPT ![n] = count[x] + 1]
          /\ pc' = [pc EXCEPT ![n] = IF final[n] THEN "fail" ELSE "submit"]
          /\ UNCHANGED <<calls, stage, node, lease, live, bound, cur, had, final>>
          /\ UNCHANGED <<fence, remote, faults>>
      BY <1>2, <1>t, <2>0 DEF CreateStageAttempt, Goto, TypeOK
    <2>3. TypeOK'
      BY SMT, <1>t, <2>0, <2>1, <2>2, BoundAssumption
         DEF TypeOK, PC, Open, TryStatus, Trying, fence, remote
    <2>4. LeaseInv' /\ OrderInv'
      BY <1>t, <2>2 DEF LeaseInv, OrderInv
    <2>5. TryInv'
      <3> SUFFICES ASSUME NEW y \in Stage, NEW k \in 1..MaxAttempts, try'[<<y, k>>] \in Trying
                   PROVE  /\ k = count'[y] /\ stage'[y] \in Held /\ status'[y[1]] \in Underway
                          /\ active'[y[1]] /\ upstream'[y[1]] = tryNode'[<<y, k>>]
        BY DEF TryInv
      <3>0. <<y, k>> \in Op /\ y[1] \in Task
        BY Names
      <3>1. CASE <<y, k>> = o
        <4>1. y = x /\ k = count[x] + 1
          BY <3>1
        <4> QED BY <1>t, <2>0, <2>1, <2>2, <3>0, <4>1 DEF TypeOK, Held, Underway
      <3>2. CASE <<y, k>> # o
        <4>1. try[<<y, k>>] \in Trying
          BY <1>t, <2>2, <3>0, <3>2 DEF TypeOK
        <4>2. stage[y] \in Held /\ k = count[y]
          BY <1>t, <4>1 DEF TryInv
        <4>3. y # x
          BY <2>w, <2>0, <4>1 DEF Works
        <4>4. y[1] # t
          BY <1>t, <2>0, <4>2, <4>3, OneHeld DEF Held
        <4> QED BY SMT, <1>t, <2>0, <2>2, <3>0, <3>2, <4>1, <4>3, <4>4 DEF TryInv, TypeOK
      <3> QED BY <3>1, <3>2
    <2>6. TaskInv'
      BY <1>t, <2>0, <2>2 DEF TaskInv, TypeOK
    <2>7. WorkerInv'
      <3> SUFFICES ASSUME NEW m \in Node PROVE Works(m)'
        BY DEF WorkerInv
      <3>1. CASE m = n
        <4>1. /\ pc'[n] \in {"fail", "submit"} /\ no'[n] = count[x] + 1 /\ cur'[n] = x /\ had'[n] = count[x]
              /\ count'[x] = count[x] + 1 /\ status'[t] = "dispatching"
          BY <1>t, <2>0, <2>2 DEF TypeOK
        <4> QED BY <2>0, <2>1, <3>1, <4>1 DEF Works, Handling, Making, Underway
      <3>2. CASE m # n
        <4>1. Works(m) /\ pc'[m] = pc[m] /\ cur'[m] = cur[m] /\ had'[m] = had[m] /\ no'[m] = no[m]
          BY <1>t, <2>2, <3>2 DEF TypeOK, WorkerInv
        <4>2. ASSUME cur[m] \in Stage, lease[cur[m]] = m
              PROVE  /\ count'[cur[m]] = count[cur[m]]
                     /\ \A k \in 1..MaxAttempts : try'[<<cur[m], k>>] = try[<<cur[m], k>>]
                     /\ status[cur[m][1]] \in Underway => status'[cur[m][1]] \in Underway
          <5>1. cur[m] # x
            BY <2>0, <3>2, <4>2
          <5>2. \A k \in 1..MaxAttempts : <<cur[m], k>> \in Op /\ <<cur[m], k>> # o
            BY <4>2, <5>1, Names
          <5>3. cur[m][1] \in Task
            BY <4>2, Names
          <5> QED BY <1>t, <2>0, <2>2, <4>2, <5>1, <5>2, <5>3 DEF TypeOK, Underway
        <4>3. Making \subseteq Handling /\ {"look", "prepare", "create"} \subseteq Handling
          BY DEF Making, Handling
        <4> QED BY <2>2, <4>1, <4>2, <4>3 DEF Works
      <3> QED BY <3>1, <3>2
    <2> QED BY <2>3, <2>4, <2>5, <2>6, <2>7 DEF IInv
  <1> QED BY <1>1, <1>2

\* BindStageExecution: even when a later check fails and the first statements are kept
\* all the same, the attempt in hand stays the one in hand.
LEMMA Binding ==
    ASSUME IInv, NEW n \in Node, BindStageExecution(n)
    PROVE  IInv'
  <1> DEFINE x == cur[n]
             o == Mine(n)
             t == TaskOf(n)
             first == try[o] \in Trying
             second == first /\ lease[x] = n /\ stage[x] = "leased"
             third == second /\ status[t] \in Open
  <1>t. TypeOK /\ LeaseInv /\ OrderInv /\ TryInv /\ TaskInv /\ WorkerInv
    BY DEF IInv
  <1>w. Works(n) /\ pc[n] = "bind"
    BY <1>t DEF WorkerInv, BindStageExecution
  <1>0. /\ x \in Stage /\ t \in Task /\ t = x[1] /\ no[n] \in 1..MaxAttempts
        /\ o = <<x, no[n]>> /\ o \in Op
    BY <1>w, Names DEF Works, Handling, Making, Mine, TaskOf
  <1>1. /\ try' = IF first THEN [try EXCEPT ![o] = "running"] ELSE try
        /\ bound' = IF first THEN [bound EXCEPT ![o] = TRUE] ELSE bound
        /\ stage' = IF second THEN [stage EXCEPT ![x] = "running"] ELSE stage
        /\ status' = IF third THEN [status EXCEPT ![t] = "running"] ELSE status
        /\ upstream' = IF third THEN [upstream EXCEPT ![t] = tryNode[o]] ELSE upstream
        /\ active' = IF third THEN [active EXCEPT ![t] = TRUE] ELSE active
        /\ UNCHANGED <<calls, count, node, lease, live, tryNode, saved, fence, remote, faults>>
    BY DEF BindStageExecution
  <1>2. IF third THEN pc' = [pc EXCEPT ![n] = "poll"] /\ UNCHANGED local ELSE Return(n)
    BY DEF BindStageExecution, Goto
  <1>3. \A y \in Stage : \A k \in 1..MaxAttempts :
            <<y, k>> \in Op /\ (try'[<<y, k>>] \in Trying <=> try[<<y, k>>] \in Trying)
    BY <1>t, <1>0, <1>1, Names DEF TypeOK, Trying
  <1>4. \A y \in Stage : /\ stage'[y] \in Held <=> stage[y] \in Held
                         /\ stage'[y] = "succeeded" <=> stage[y] = "succeeded"
    BY <1>t, <1>0, <1>1 DEF TypeOK, Held
  <1>5. /\ pc' \in [Node -> PC] /\ cur' \in [Node -> Stage \cup {NoStage}]
        /\ had' \in [Node -> 0..MaxAttempts] /\ no' \in [Node -> 0..MaxAttempts]
        /\ final' \in [Node -> BOOLEAN]
        /\ \A m \in Node \ {n} : /\ pc'[m] = pc[m] /\ cur'[m] = cur[m]
                                 /\ had'[m] = had[m] /\ no'[m] = no[m]
    <2>1. CASE third
      BY SMT, <1>t, <1>2, <2>1 DEF TypeOK, PC, local
    <2>2. CASE ~third
      BY <1>2, <2>2, Returning
    <2> QED BY <2>1, <2>2
  <1>6. TypeOK'
    BY <1>t, <1>0, <1>1, <1>5
       DEF TypeOK, Open, TryStatus, Trying, fence, remote
  <1>7. LeaseInv' /\ OrderInv'
    <2>1. LeaseInv'
      BY <1>t, <1>1, <1>4 DEF LeaseInv
    <2>2. OrderInv'
      BY SMT, <1>t, <1>4, Names DEF OrderInv
    <2> QED BY <2>1, <2>2
  <1>8. TryInv'
    <2> SUFFICES ASSUME NEW y \in Stage, NEW k \in 1..MaxAttempts, try'[<<y, k>>] \in Trying
                 PROVE  /\ k = count'[y] /\ stage'[y] \in Held /\ status'[y[1]] \in Underway
                        /\ active'[y[1]] /\ upstream'[y[1]] = tryNode'[<<y, k>>]
      BY DEF TryInv
    <2>1. /\ k = count[y] /\ stage[y] \in Held /\ status[y[1]] \in Underway
          /\ active[y[1]] /\ upstream[y[1]] = tryNode[<<y, k>>] /\ y[1] \in Task
      BY SMT, <1>t, <1>3, Names DEF TryInv
    <2>2. CASE ~third \/ y[1] # t
      BY <1>t, <1>0, <1>1, <1>4, <2>1, <2>2 DEF TypeOK
    <2>3. CASE third /\ y[1] = t
      <3>1. y = x
        BY <1>t, <1>0, <2>1, <2>3, OneHeld DEF Held
      <3>2. no[n] = count[x]
        BY <1>t, <1>0, <2>3 DEF TryInv
      <3> QED BY SMT, <1>t, <1>0, <1>1, <1>4, <2>1, <2>3, <3>1, <3>2 DEF TypeOK, Underway
    <2> QED BY <2>2, <2>3
  <1>9. TaskInv'
    BY <1>t, <1>0, <1>1 DEF TaskInv, TypeOK
  <1>10. WorkerInv'
    <2> SUFFICES ASSUME NEW m \in Node PROVE Works(m)'
      BY DEF WorkerInv
    <2>1. \A u \in Task : status[u] \in Underway => status'[u] \in Underway
      BY <1>t, <1>0, <1>1 DEF TypeOK, Underway
    <2>2. CASE m = n /\ third
      <3>1. pc'[n] = "poll" /\ cur'[n] = x /\ no'[n] = no[n] /\ had'[n] = had[n]
        BY <1>t, <1>2, <2>2 DEF TypeOK, local
      <3> QED BY <1>w, <1>0, <1>1, <2>1, <2>2, <3>1 DEF Works, Handling, Making
    <2>3. CASE m = n /\ ~third
      BY <1>2, <2>3, Returning
    <2>4. CASE m # n
      <3>1. Works(m) /\ pc'[m] = pc[m] /\ cur'[m] = cur[m] /\ had'[m] = had[m] /\ no'[m] = no[m]
        BY <1>t, <1>5, <2>4 DEF WorkerInv
      <3>2. Making \subseteq Handling /\ {"look", "prepare", "create"} \subseteq Handling
        BY DEF Making, Handling
      <3>3. cur[m] \in Stage => cur[m][1] \in Task
        BY Names
      <3> QED BY <1>1, <1>3, <2>1, <3>1, <3>2, <3>3 DEF Works
    <2> QED BY <2>2, <2>3, <2>4
  <1> QED BY <1>6, <1>7, <1>8, <1>9, <1>10 DEF IInv

\* CompleteStage and FailStage give up the stage together with its attempt.
LEMMA GivingUp ==
    ASSUME IInv, NEW n \in Node, pc[n] \in Making, lease[cur[n]] = n, Return(n),
           NEW a \in {"succeeded", "failed"}, NEW g \in {"succeeded", "failed", "pending"},
           NEW u \in {"running", "succeeded", "failed"}, NEW w \in Node \cup {NoNode},
           u = "running" => w = NoNode,
           try' = [try EXCEPT ![Mine(n)] = a],
           stage' = [stage EXCEPT ![cur[n]] = g],
           lease' = [lease EXCEPT ![cur[n]] = NoNode],
           live' = [live EXCEPT ![cur[n]] = FALSE],
           status' = [status EXCEPT ![TaskOf(n)] = u],
           upstream' = [upstream EXCEPT ![TaskOf(n)] = w],
           active' = [active EXCEPT ![TaskOf(n)] = FALSE],
           calls' \in [Task -> Nat],
           UNCHANGED <<count, node, tryNode, bound, saved, fence, remote, faults>>
    PROVE  IInv'
  <1> DEFINE x == cur[n]
             o == Mine(n)
             t == TaskOf(n)
  <1>t. TypeOK /\ LeaseInv /\ OrderInv /\ TryInv /\ TaskInv /\ WorkerInv
    BY DEF IInv
  <1>n. n # NoNode
    BY NodeAssumption
  <1>0. /\ x \in Stage /\ t \in Task /\ t = x[1] /\ no[n] = count[x]
        /\ o = <<x, count[x]>> /\ o \in Op /\ stage[x] \in Held
    <2>1. Works(n)
      BY <1>t DEF WorkerInv
    <2>2. x \in Stage /\ no[n] \in 1..MaxAttempts /\ no[n] = count[x]
      BY <2>1 DEF Works, Making, Handling
    <2> QED BY <1>t, <1>n, <2>2, Names DEF LeaseInv, Mine, TaskOf
  <1>1. TypeOK'
    BY <1>t, <1>0, Returning DEF TypeOK, Open, Ended, TryStatus, fence, remote
  <1>2. LeaseInv'
    BY <1>t, <1>0 DEF LeaseInv, TypeOK
  <1>3. OrderInv'
    <2> SUFFICES ASSUME NEW v \in Task, NEW s \in 1..Stages, NEW r \in 1..Stages, r < s,
                        stage'[<<v, s>>] \in Held \cup {"succeeded"}
                 PROVE  stage'[<<v, r>>] = "succeeded"
      BY DEF OrderInv
    <2>1. <<v, s>> \in Stage /\ <<v, r>> \in Stage
      BY Names
    <2>2. stage[<<v, s>>] \in Held \cup {"succeeded"}
      BY <1>t, <1>0, <2>1 DEF TypeOK
    <2>3. stage[<<v, r>>] = "succeeded"
      BY <1>t, <2>2 DEF OrderInv
    <2> QED BY <1>t, <1>0, <2>1, <2>3 DEF TypeOK, Held
  <1>4. ASSUME NEW y \in Stage, y # x, stage[y] \in Held
        PROVE  y[1] # t /\ y[1] \in Task
    BY SMT, <1>t, <1>0, <1>4, OneHeld, Names
  <1>5. TryInv'
    <2> SUFFICES ASSUME NEW y \in Stage, NEW k \in 1..MaxAttempts, try'[<<y, k>>] \in Trying
                 PROVE  /\ k = count'[y] /\ stage'[y] \in Held /\ status'[y[1]] \in Underway
                        /\ active'[y[1]] /\ upstream'[y[1]] = tryNode'[<<y, k>>]
      BY DEF TryInv
    <2>1. <<y, k>> \in Op /\ try[<<y, k>>] \in Trying /\ <<y, k>> # o
      BY SMT, <1>t, <1>0, Names DEF TypeOK, Trying
    <2>2. k = count[y] /\ stage[y] \in Held
      BY <1>t, <2>1 DEF TryInv
    <2>3. y # x
      BY <1>0, <2>1, <2>2
    <2> QED BY SMT, <1>t, <1>0, <1>4, <2>1, <2>2, <2>3 DEF TryInv, TypeOK
  <1>6. TaskInv'
    BY <1>t, <1>0 DEF TaskInv, TypeOK, Open
  <1>7. WorkerInv'
    <2> SUFFICES ASSUME NEW m \in Node \ {n} PROVE Works(m)'
      BY Returning DEF WorkerInv
    <2>1. /\ Works(m) /\ pc'[m] = pc[m] /\ cur'[m] = cur[m]
          /\ had'[m] = had[m] /\ no'[m] = no[m] /\ m # NoNode
      BY <1>t, Returning, NodeAssumption DEF WorkerInv
    <2>2. ASSUME cur[m] \in Stage, lease'[cur[m]] = m
          PROVE  /\ lease[cur[m]] = m
                 /\ \A k \in 1..MaxAttempts : try'[<<cur[m], k>>] = try[<<cur[m], k>>]
                 /\ status'[cur[m][1]] = status[cur[m][1]]
      <3>1. cur[m] # x /\ lease[cur[m]] = m
        BY <1>t, <1>0, <2>1, <2>2 DEF TypeOK
      <3>2. stage[cur[m]] \in Held
        BY <1>t, <2>1, <2>2, <3>1 DEF LeaseInv
      <3>3. \A k \in 1..MaxAttempts : <<cur[m], k>> \in Op /\ <<cur[m], k>> # o
        BY SMT, <1>0, <2>2, <3>1, Names
      <3> QED BY <1>t, <1>0, <1>4, <2>2, <3>1, <3>2, <3>3 DEF TypeOK
    <2>3. Making \subseteq Handling /\ {"look", "prepare", "create"} \subseteq Handling
      BY DEF Making, Handling
    <2> QED BY <2>1, <2>2, <2>3 DEF Works
  <1> QED BY <1>1, <1>2, <1>3, <1>5, <1>6, <1>7 DEF IInv

\* CompleteStageWithOutput, or its rollback.
LEMMA Completing ==
    ASSUME IInv, NEW n \in Node, CompleteStage(n)
    PROVE  IInv'
  <1>t. TypeOK /\ WorkerInv
    BY DEF IInv
  <1>1. CASE try[Mine(n)] = "running" /\ lease[cur[n]] = n /\ stage[cur[n]] = "running"
    <2> DEFINE t == TaskOf(n)
               last == \A s \in (1..Stages) \ {cur[n][2]} : stage[<<t, s>>] = "succeeded"
               u == IF last THEN "succeeded" ELSE "running"
               w == IF last THEN upstream[t] ELSE NoNode
    <2>1. pc[n] \in Making /\ Return(n)
      BY DEF CompleteStage, Making
    <2>2. t \in Task
      BY <1>t, <2>1, Names DEF WorkerInv, Works, Making, Handling, TaskOf
    <2>3. /\ u \in {"running", "succeeded", "failed"} /\ w \in Node \cup {NoNode}
          /\ u = "running" => w = NoNode
      BY <1>t, <2>2 DEF TypeOK
    <2>4. /\ status' = [status EXCEPT ![t] = u] /\ upstream' = [upstream EXCEPT ![t] = w]
          /\ calls' = [calls EXCEPT ![t] = IF last THEN calls[t] + 1 ELSE calls[t]]
      BY <1>1, <1>t, <2>2 DEF CompleteStage, TypeOK
    <2>5. calls' \in [Task -> Nat]
      BY SMT, <1>t, <2>2, <2>4 DEF TypeOK
    <2> HIDE DEF last, u, w
    <2> QED BY <1>1, <2>1, <2>3, <2>4, <2>5, GivingUp DEF CompleteStage
  <1>2. CASE ~(try[Mine(n)] = "running" /\ lease[cur[n]] = n /\ stage[cur[n]] = "running")
    BY <1>2, <1>t, QuietReturn
       DEF CompleteStage, TypeOK, rows, taskRow, stageRow, attemptRow, fence, remote
  <1> QED BY <1>1, <1>2

\* FailStage, or its rollback.
LEMMA Failing ==
    ASSUME IInv, NEW n \in Node, FailStage(n)
    PROVE  IInv'
  <1>t. TypeOK /\ WorkerInv
    BY DEF IInv
  <1>1. CASE MayFail(n)
    <2> DEFINE t == TaskOf(n)
               g == IF IsTerminal(n) THEN "failed" ELSE "pending"
               u == IF IsTerminal(n) THEN "failed" ELSE "running"
               w == NodeAfterFailure(n)
    <2>1. pc[n] \in Making /\ Return(n) /\ lease[cur[n]] = n
      BY <1>1 DEF FailStage, Making, MayFail
    <2>2. t \in Task
      BY <1>t, <2>1, Names DEF WorkerInv, Works, Making, Handling, TaskOf
    <2>3. /\ u \in {"running", "succeeded", "failed"} /\ w \in Node \cup {NoNode}
          /\ u = "running" => w = NoNode
      BY <1>t, <2>2 DEF TypeOK, NodeAfterFailure
    <2>4. /\ try' = [try EXCEPT ![Mine(n)] = "failed"]
          /\ stage' = [stage EXCEPT ![cur[n]] = g]
          /\ lease' = [lease EXCEPT ![cur[n]] = NoNode] /\ live' = [live EXCEPT ![cur[n]] = FALSE]
          /\ status' = [status EXCEPT ![t] = u] /\ upstream' = [upstream EXCEPT ![t] = w]
          /\ active' = [active EXCEPT ![t] = FALSE]
          /\ calls' = [calls EXCEPT ![t] = IF IsTerminal(n) THEN calls[t] + 1 ELSE calls[t]]
          /\ UNCHANGED <<count, node, tryNode, bound, saved, fence, remote, faults>>
      BY <1>1, <1>t, <2>2 DEF FailStage, TypeOK
    <2>5. calls' \in [Task -> Nat] /\ g \in {"succeeded", "failed", "pending"}
      BY SMT, <1>t, <2>2, <2>4 DEF TypeOK
    <2> HIDE DEF g, u, w
    <2> QED BY <2>1, <2>3, <2>4, <2>5, GivingUp
  <1>2. CASE ~MayFail(n)
    BY <1>2, <1>t, QuietReturn
       DEF FailStage, TypeOK, rows, taskRow, stageRow, attemptRow, fence, remote
  <1> QED BY <1>1, <1>2

\* A task never has two attempts in hand.
LEMMA OneTrying ==
    ASSUME IInv, NEW t \in Task, NEW o \in TryingIn(t)
    PROVE  TryingIn(t) = {o}
  <1> SUFFICES ASSUME NEW p \in TryingIn(t) PROVE p = o
    OBVIOUS
  <1>1. /\ o \in Op /\ p \in Op /\ o[1] \in Stage /\ p[1] \in Stage /\ o[1][1] = p[1][1]
        /\ o[2] \in 1..MaxAttempts /\ p[2] \in 1..MaxAttempts
        /\ o = <<o[1], o[2]>> /\ p = <<p[1], p[2]>>
        /\ try[<<o[1], o[2]>>] \in Trying /\ try[<<p[1], p[2]>>] \in Trying
    BY Names DEF TryingIn
  <1>2. o[2] = count[o[1]] /\ p[2] = count[p[1]] /\ stage[o[1]] \in Held /\ stage[p[1]] \in Held
    BY <1>1 DEF IInv, TryInv
  <1>3. o[1] = p[1]
    BY <1>1, <1>2, OneHeld DEF IInv
  <1> QED BY <1>1, <1>2, <1>3

\* The attempt that createNodeDispatchBarrierForTask selects exists.
LEMMA NewestExists ==
    ASSUME IInv, NEW t \in Task, TryingIn(t) # {}
    PROVE  Newest(TryingIn(t)) \in TryingIn(t)
  <1>1. PICK o \in TryingIn(t) : TRUE
    OBVIOUS
  <1>2. TryingIn(t) = {o}
    BY OneTrying
  <1> QED BY <1>2 DEF Newest

\* finishStageTaskCancellation takes the stages and attempts of the task from every
\* worker at once.
LEMMA Finishing ==
    ASSUME IInv, NEW t \in Task, FinishStageTaskCancellation(t), TypeOK',
           UNCHANGED <<count, tryNode, pc, local>>
    PROVE  IInv'
  <1> DEFINE ends(x) == x[1] = t /\ stage[x] \in {"pending", "leased", "running"}
  <1>t. TypeOK /\ LeaseInv /\ OrderInv /\ TryInv /\ TaskInv /\ WorkerInv
    BY DEF IInv
  <1>1. /\ \A o \in Op : try'[o] = IF o \in TryingIn(t) THEN "aborted" ELSE try[o]
        /\ \A x \in Stage : /\ stage'[x] = IF ends(x) THEN "cancelled" ELSE stage[x]
                            /\ lease'[x] = IF ends(x) THEN NoNode ELSE lease[x]
        /\ \A u \in Task \ {t} : /\ status'[u] = status[u] /\ upstream'[u] = upstream[u]
                                 /\ active'[u] = active[u]
        /\ status'[t] = "cancelled"
    BY <1>t DEF FinishStageTaskCancellation, TypeOK
  <1>2. LeaseInv'
    BY <1>t, <1>1 DEF LeaseInv
  <1>3. OrderInv'
    <2> SUFFICES ASSUME NEW v \in Task, NEW s \in 1..Stages, NEW r \in 1..Stages, r < s,
                        stage'[<<v, s>>] \in Held \cup {"succeeded"}
                 PROVE  stage'[<<v, r>>] = "succeeded"
      BY DEF OrderInv
    <2>1. <<v, s>> \in Stage /\ <<v, r>> \in Stage
      BY Names
    <2>2. stage[<<v, s>>] \in Held \cup {"succeeded"}
      BY <1>1, <2>1 DEF Held
    <2> QED BY <1>t, <1>1, <2>1, <2>2 DEF OrderInv
  <1>4. TryInv'
    <2> SUFFICES ASSUME NEW y \in Stage, NEW k \in 1..MaxAttempts, try'[<<y, k>>] \in Trying
                 PROVE  /\ k = count'[y] /\ stage'[y] \in Held /\ status'[y[1]] \in Underway
                        /\ active'[y[1]] /\ upstream'[y[1]] = tryNode'[<<y, k>>]
      BY DEF TryInv
    <2>1. <<y, k>> \in Op /\ <<y, k>>[1] = y /\ y[1] \in Task
      BY Names
    <2>2. try[<<y, k>>] \in Trying /\ <<y, k>> \notin TryingIn(t)
      BY <1>1, <2>1 DEF Trying
    <2>3. y[1] # t
      BY <2>1, <2>2 DEF TryingIn
    <2> QED BY SMT, <1>t, <1>1, <2>1, <2>2, <2>3 DEF TryInv
  <1>5. TaskInv'
    BY <1>t, <1>1 DEF TaskInv, Open
  <1>6. WorkerInv'
    <2> SUFFICES ASSUME NEW m \in Node PROVE Works(m)'
      BY DEF WorkerInv
    <2>1. Works(m) /\ m # NoNode
      BY <1>t, NodeAssumption DEF WorkerInv
    <2>2. ASSUME cur[m] \in Stage, lease'[cur[m]] = m
          PROVE  /\ lease[cur[m]] = m
                 /\ \A k \in 1..MaxAttempts :
                        try'[<<cur[m], k>>] \in Trying => try[<<cur[m], k>>] \in Trying
                 /\ status'[cur[m][1]] = status[cur[m][1]]
      <3>1. lease[cur[m]] = m /\ ~ends(cur[m])
        BY <1>1, <2>1, <2>2
      <3>2. stage[cur[m]] \in Held
        BY <1>t, <2>1, <2>2, <3>1 DEF LeaseInv
      <3>3. cur[m][1] # t /\ cur[m][1] \in Task
        BY <2>2, <3>1, <3>2, Names DEF Held
      <3>4. \A k \in 1..MaxAttempts :
                        try'[<<cur[m], k>>] \in Trying => try[<<cur[m], k>>] \in Trying
        BY <1>1, <2>2, Names DEF Trying
      <3> QED BY <1>1, <3>1, <3>3, <3>4
    <2>3. Making \subseteq Handling /\ {"look", "prepare", "create"} \subseteq Handling
      BY DEF Making, Handling
    <2> QED BY <2>1, <2>2, <2>3 DEF Works, local
  <1> QED BY <1>2, <1>3, <1>4, <1>5, <1>6 DEF IInv

\* RequestAdminCancel: a worker that holds a lease and has made its attempt is never
\* left behind with an ended task, and no task is left in cancelling.
LEMMA Cancelling ==
    ASSUME IInv, NEW t \in Task, RequestAdminCancel(t)
    PROVE  IInv'
  <1>t. TypeOK /\ LeaseInv /\ OrderInv /\ TryInv /\ TaskInv /\ WorkerInv
    BY DEF IInv
  <1>1. UNCHANGED <<count, node, tryNode, bound, saved, remote, pc, local, faults>>
    BY DEF RequestAdminCancel
  <1>2. barrier' \in [Node -> Op \cup {NoOp}] /\ barBound' \in [Node -> BOOLEAN]
    <2>1. CASE TryingIn(t) # {}
      <3> DEFINE o == Newest(TryingIn(t))
      <3>1. o \in Op
        BY <2>1, NewestExists DEF TryingIn
      <3>2. /\ barrier' = [barrier EXCEPT ![tryNode[o]] = o]
            /\ barBound' = [barBound EXCEPT ![tryNode[o]] = bound[o]]
        BY <2>1 DEF RequestAdminCancel
      <3> HIDE DEF o
      <3> QED BY <1>t, <3>1, <3>2 DEF TypeOK
    <2>2. CASE TryingIn(t) = {}
      BY <1>t, <2>2 DEF RequestAdminCancel, TypeOK, fence
    <2> QED BY <2>1, <2>2
  <1>3. CASE status[t] = "queued" /\ TryingIn(t) = {}
    <2>1. /\ status' = [status EXCEPT ![t] = "cancelled"]
          /\ calls' = [calls EXCEPT ![t] = calls[t] + 1]
          /\ UNCHANGED <<upstream, active, stage, lease, live, try>>
      BY <1>3, <1>t DEF RequestAdminCancel, TypeOK
    <2>2. TypeOK'
      BY SMT, <1>t, <1>1, <1>2, <2>1 DEF TypeOK, Ended, local, remote
    <2>3. LeaseInv' /\ OrderInv'
      BY <1>t, <2>1 DEF LeaseInv, OrderInv
    <2>4. \A u \in Task : status[u] \in Underway => status'[u] = status[u]
      BY <1>3, <1>t, <2>1 DEF TypeOK, Underway
    <2>5. TryInv'
      BY SMT, <1>t, <1>1, <2>1, <2>4, Names DEF TryInv
    <2>6. TaskInv'
      BY <1>t, <2>1 DEF TaskInv, TypeOK, Open
    <2>7. WorkerInv'
      <3> SUFFICES ASSUME NEW m \in Node PROVE Works(m)'
        BY DEF WorkerInv
      <3>1. Works(m)
        BY <1>t DEF WorkerInv
      <3>2. pc[m] \in Making => cur[m][1] \in Task
        BY <3>1, Names DEF Works, Making, Handling
      <3> QED BY <1>1, <2>1, <2>4, <3>1, <3>2 DEF Works, local
    <2> QED BY <2>2, <2>3, <2>5, <2>6, <2>7 DEF IInv
  <1>4. CASE ~(status[t] = "queued" /\ TryingIn(t) = {})
    <2>1. active[t] \/ upstream[t] = NoNode
      BY <1>t DEF RequestAdminCancel, TaskInv
    <2>2. FinishStageTaskCancellation(t)
      BY <1>4, <2>1 DEF RequestAdminCancel
    <2>3. TypeOK'
      BY SMT, <1>t, <1>1, <1>2, <2>2
         DEF FinishStageTaskCancellation, TypeOK, Ended, TryStatus, local, remote
    <2> QED BY <1>1, <2>2, <2>3, Finishing
  <1> QED BY <1>3, <1>4
-----------------------------------------------------------------------------
\* Every action of the orchestrator, its nodes and its callers keeps the invariant.
LEMMA Inductive == IInv /\ [Next]_vars => IInv'
  <1> SUFFICES ASSUME IInv, [Next]_vars PROVE IInv'
    OBVIOUS
  <1>1. ASSUME NEW n \in Node, WorkerStep(n) PROVE IInv'
    BY <1>1, Claiming, Creating, Binding, Completing, Failing, QuietSteps, OutsideSteps
       DEF WorkerStep
  <1>2. ASSUME NEW n \in Node, WorkerFault(n) PROVE IInv'
    BY <1>2, QuietSteps, OutsideSteps DEF WorkerFault
  <1>3. ASSUME NEW x \in Stage, ExpireAbandoned(x) \/ ExpireHeld(x) PROVE IInv'
    BY <1>3, OutsideSteps
  <1>4. ASSUME NEW t \in Task, RequestAdminCancel(t) PROVE IInv'
    BY <1>4, Cancelling
  <1>5. ASSUME NEW o \in Op, ExecutionEnds(o) \/ LateArrives(o) PROVE IInv'
    BY <1>5, OutsideSteps
  <1>6. CASE UNCHANGED vars
    <2>1. UNCHANGED <<rows, remote, pc, local, faults>>
      BY <1>6 DEF vars
    <2>2. LeaseInv' /\ OrderInv' /\ TryInv' /\ TaskInv'
      BY <2>1, RowsKept DEF rows, taskRow, stageRow, attemptRow
    <2>3. TypeOK'
      BY <2>1 DEF IInv, TypeOK, rows, taskRow, stageRow, attemptRow, fence, remote, local
    <2>4. WorkerInv'
      BY <2>1 DEF IInv, WorkerInv, Works, rows, taskRow, stageRow, attemptRow, local
    <2> QED BY <2>2, <2>3, <2>4 DEF IInv
  <1> QED BY <1>1, <1>2, <1>3, <1>4, <1>5, <1>6 DEF Next

\* The invariant holds of every state that the orchestrator reaches.
LEMMA Invariance == Spec => []IInv
  BY Start, Inductive, PTL DEF Spec

\* However workers, leases, crashes, late calls and cancellations interleave, the
\* attempt in hand, its stage and its task agree, and an h3 task is never left waiting
\* in cancelling (CreateStageAttempt, FailStage, CompleteStage, RequestAdminCancel).
THEOREM AgreeingRows == Spec => []StageRowsAgree
  <1>1. IInv => StageRowsAgree
    <2> SUFFICES ASSUME IInv PROVE StageRowsAgree
      OBVIOUS
    <2>1. OneAttemptInHand
      <3> SUFFICES ASSUME NEW x \in Stage, NEW k \in TryingOf(x)
                   PROVE  /\ k = count[x] /\ stage[x] \in {"leased", "running"}
                          /\ status[x[1]] \in {"dispatching", "running"}
                          /\ active[x[1]] /\ upstream[x[1]] = tryNode[<<x, k>>]
                          /\ \A s \in (1..Stages) \ {x[2]} : TryingOf(<<x[1], s>>) = {}
        BY DEF OneAttemptInHand
      <3>1. /\ k = count[x] /\ stage[x] \in Held /\ status[x[1]] \in Underway
            /\ active[x[1]] /\ upstream[x[1]] = tryNode[<<x, k>>]
        BY DEF TryingOf, IInv, TryInv
      <3>2. ASSUME NEW s \in (1..Stages) \ {x[2]} PROVE TryingOf(<<x[1], s>>) = {}
        <4>1. /\ <<x[1], s>> \in Stage /\ <<x[1], s>>[1] = x[1] /\ <<x[1], s>>[2] = s
          BY <3>2, Names
        <4>2. <<x[1], s>> # x
          BY <3>2, <4>1
        <4>3. stage[<<x[1], s>>] \notin Held
          BY <3>1, <4>1, <4>2, OneHeld DEF IInv
        <4> QED BY <4>1, <4>3 DEF TryingOf, IInv, TryInv
      <3> QED BY <3>1, <3>2 DEF Held, Underway
    <2>2. TypeOK /\ CancelNeverWaits
      BY DEF IInv, TaskInv, CancelNeverWaits
    <2> QED BY <2>1, <2>2 DEF StageRowsAgree
  <1> QED BY <1>1, Invariance, PTL

\* fail counts a fresh attempt once and a resumed one twice, never more: whoever holds
\* the lease makes or resumes the newest attempt, and its copy of attempt_count is at
\* most one behind (IsTerminal in fail, FailStage).
THEOREM UsedRetries == Spec => RetriesAreUsed
  <1> DEFINE Used == \A n \in Node :
            FailStage(n) /\ ~final[n] /\ stage'[cur[n]] = "failed" /\ lease[cur[n]] = n
                => \/ count[cur[n]] >= MaxAttempts
                   \/ no[n] = had[n] /\ count[cur[n]] + 1 >= MaxAttempts
  <1>1. IInv /\ [Next]_vars => [Used]_vars
    <2> SUFFICES ASSUME IInv, NEW n \in Node, FailStage(n), ~final[n],
                        stage'[cur[n]] = "failed", lease[cur[n]] = n
                 PROVE  \/ count[cur[n]] >= MaxAttempts
                        \/ no[n] = had[n] /\ count[cur[n]] + 1 >= MaxAttempts
      OBVIOUS
    <2>1. Works(n) /\ pc[n] = "fail" /\ had[n] \in 0..MaxAttempts
      BY DEF IInv, TypeOK, WorkerInv, FailStage
    <2>2. cur[n] \in Stage /\ no[n] \in {had[n], had[n] + 1} /\ no[n] = count[cur[n]]
      BY <2>1 DEF Works, Handling, Making
    <2>3. IsTerminal(n)
      BY <2>2 DEF FailStage, MayFail, IInv, TypeOK
    <2> QED BY <2>1, <2>2, <2>3, BoundAssumption DEF IsTerminal
  <1> QED BY <1>1, Invariance, PTL DEF Spec, RetriesAreUsed
-----------------------------------------------------------------------------
\* The state of StagePipeline, read off the rows.
Done    == [t \in Task |-> {s \in 1..Stages : stage[<<t, s>>] = "succeeded"}]
Verdict == [t \in Task |-> IF status[t] \in Ended THEN status[t] ELSE "open"]

\* Steps that complete no stage and end no task stutter.
LEMMA Stutters ==
    ASSUME UNCHANGED calls,
           \A x \in Stage : stage'[x] = "succeeded" <=> stage[x] = "succeeded",
           \A t \in Task : status'[t] = status[t] \/ (status[t] \in Open /\ status'[t] \in Open)
    PROVE  UNCHANGED <<Done, Verdict, calls>>
  <1>1. UNCHANGED Done
    BY SMT, Names DEF Done
  <1>2. UNCHANGED Verdict
    BY DEF Verdict, Open, Ended
  <1> QED BY <1>1, <1>2

\* CompleteStage advances the pipeline: the stages before the completed one, and no
\* other, are done, and the task succeeds with the last.
LEMMA Advances ==
    ASSUME IInv, NEW n \in Node, CompleteStage(n),
           try[Mine(n)] = "running", lease[cur[n]] = n, stage[cur[n]] = "running"
    PROVE  \E t \in Task : \E s \in 1..Stages :
               /\ Verdict[t] = "open" /\ Done[t] = 1..(s - 1)
               /\ Done' = [Done EXCEPT ![t] = 1..s]
               /\ IF s = Stages
                  THEN /\ Verdict' = [Verdict EXCEPT ![t] = "succeeded"]
                       /\ calls' = [calls EXCEPT ![t] = calls[t] + 1]
                  ELSE UNCHANGED <<Verdict, calls>>
  <1> DEFINE x == cur[n]
             t == x[1]
             s == x[2]
             last == \A r \in (1..Stages) \ {s} : stage[<<t, r>>] = "succeeded"
  <1>t. TypeOK /\ OrderInv
    BY DEF IInv
  <1>0. /\ x \in Stage /\ t \in Task /\ s \in 1..Stages /\ x = <<t, s>>
        /\ status[t] \in Underway
    <2>1. Works(n) /\ pc[n] = "complete"
      BY DEF IInv, WorkerInv, CompleteStage
    <2>2. x \in Stage /\ status[t] \in Underway
      BY <2>1 DEF Works, Handling, Making
    <2> QED BY <2>2, Names
  <1>1. /\ stage' = [stage EXCEPT ![x] = "succeeded"]
        /\ status' = [status EXCEPT ![t] = IF last THEN "succeeded" ELSE "running"]
        /\ calls' = [calls EXCEPT ![t] = IF last THEN calls[t] + 1 ELSE calls[t]]
    BY <1>t, <1>0 DEF CompleteStage, TaskOf, TypeOK
  <1>2. \A r \in 1..Stages : /\ <<t, r>> \in Stage /\ (r # s => <<t, r>> # x)
                             /\ stage[<<t, r>>] = "succeeded" <=> r < s
    <2> SUFFICES ASSUME NEW r \in 1..Stages
                 PROVE  /\ <<t, r>> \in Stage /\ (r # s => <<t, r>> # x)
                        /\ stage[<<t, r>>] = "succeeded" <=> r < s
      OBVIOUS
    <2>1. <<t, r>> \in Stage /\ <<t, r>>[2] = r
      BY <1>0, Names
    <2>2. r < s => stage[<<t, r>>] = "succeeded"
      BY <1>t, <1>0 DEF OrderInv, Held
    <2>3. s < r => stage[<<t, r>>] # "succeeded"
      BY <1>t, <1>0 DEF OrderInv, Held
    <2>4. r = s => stage[<<t, r>>] # "succeeded"
      BY <1>0
    <2> QED BY SMT, <1>0, <2>1, <2>2, <2>3, <2>4, BoundAssumption
  <1>3. last <=> s = Stages
    <2>1. CASE s = Stages
      BY SMT, <1>2, <2>1, BoundAssumption
    <2>2. CASE s # Stages
      <3>1. s + 1 \in (1..Stages) \ {s} /\ ~(s + 1 < s)
        BY SMT, <1>0, <2>2, BoundAssumption
      <3> QED BY <1>2, <2>2, <3>1
    <2> QED BY <2>1, <2>2
  <1>4. Verdict[t] = "open"
    BY <1>0 DEF Verdict, Underway, Ended
  <1>5. Done[t] = 1..(s - 1)
    <2>1. Done[t] = {r \in 1..Stages : r < s}
      BY <1>0, <1>2 DEF Done
    <2> QED BY SMT, <1>0, <2>1, BoundAssumption
  <1>6. Done' = [Done EXCEPT ![t] = 1..s]
    <2>1. \A r \in 1..Stages : stage'[<<t, r>>] = "succeeded" <=> r <= s
      <3> SUFFICES ASSUME NEW r \in 1..Stages
                   PROVE  stage'[<<t, r>>] = "succeeded" <=> r <= s
        OBVIOUS
      <3>1. CASE r = s
        <4>1. stage'[x] = "succeeded" /\ <<t, r>> = x
          BY <1>t, <1>0, <1>1, <3>1 DEF TypeOK
        <4> QED BY SMT, <1>0, <3>1, <4>1
      <3>2. CASE r # s
        <4>1. stage'[<<t, r>>] = stage[<<t, r>>]
          BY <1>t, <1>1, <1>2, <3>2 DEF TypeOK
        <4>2. r < s <=> r <= s
          BY SMT, <1>0, <3>2
        <4> QED BY <1>2, <4>1, <4>2
      <3> QED BY <3>1, <3>2
    <2>2. {r \in 1..Stages : stage'[<<t, r>>] = "succeeded"} = 1..s
      BY SMT, <1>0, <2>1, BoundAssumption
    <2>3. \A u \in Task \ {t} : \A r \in 1..Stages : stage'[<<u, r>>] = stage[<<u, r>>]
      <3> SUFFICES ASSUME NEW u \in Task \ {t}, NEW r \in 1..Stages
                   PROVE  stage'[<<u, r>>] = stage[<<u, r>>]
        OBVIOUS
      <3>1. <<u, r>> \in Stage /\ <<u, r>>[1] = u
        BY Names
      <3> QED BY <1>t, <1>1, <3>1 DEF TypeOK
    <2>4. \A u \in Task \ {t} : {r \in 1..Stages : stage'[<<u, r>>] = "succeeded"}
                                = {r \in 1..Stages : stage[<<u, r>>] = "succeeded"}
      BY <2>3
    <2> QED BY <1>0, <2>2, <2>4 DEF Done
  <1>7. CASE s = Stages
    <2>1. Verdict' = [Verdict EXCEPT ![t] = "succeeded"]
      BY <1>t, <1>0, <1>1, <1>3, <1>7 DEF Verdict, TypeOK, Ended
    <2>2. calls' = [calls EXCEPT ![t] = calls[t] + 1]
      BY <1>1, <1>3, <1>7
    <2> HIDE DEF t, s, last
    <2> QED BY <1>0, <1>4, <1>5, <1>6, <1>7, <2>1, <2>2
  <1>8. CASE s # Stages
    <2>1. UNCHANGED Verdict
      BY <1>t, <1>0, <1>1, <1>3, <1>8 DEF Verdict, TypeOK, Ended, Underway
    <2>2. UNCHANGED calls
      BY <1>t, <1>0, <1>1, <1>3, <1>8 DEF TypeOK
    <2> HIDE DEF t, s, last
    <2> QED BY <1>0, <1>4, <1>5, <1>6, <1>8, <2>1, <2>2
  <1> QED BY <1>7, <1>8

\* A terminal FailStage and every successful RequestAdminCancel end a task that was
\* open, and leave its completed stages completed.
LEMMA Ends ==
    ASSUME TypeOK, NEW t \in Task, NEW v \in {"failed", "cancelled"},
           status[t] \in Open, status' = [status EXCEPT ![t] = v],
           calls' = [calls EXCEPT ![t] = calls[t] + 1],
           \A x \in Stage : stage'[x] = "succeeded" <=> stage[x] = "succeeded"
    PROVE  /\ Verdict[t] = "open" /\ Verdict' = [Verdict EXCEPT ![t] = v]
           /\ calls' = [calls EXCEPT ![t] = calls[t] + 1] /\ UNCHANGED Done
  <1>1. UNCHANGED Done
    BY SMT, Names DEF Done
  <1>2. Verdict[t] = "open" /\ Verdict' = [Verdict EXCEPT ![t] = v]
    BY DEF Verdict, TypeOK, Open, Ended
  <1> QED BY <1>1, <1>2

\* Every step of the orchestrator is a step of the pipeline or leaves it alone.
LEMMA StepRefines ==
    ASSUME IInv, [Next]_vars
    PROVE  \/ UNCHANGED <<Done, Verdict, calls>>
           \/ \E t \in Task :
                \/ \E s \in 1..Stages :
                     /\ Verdict[t] = "open" /\ Done[t] = 1..(s - 1)
                     /\ Done' = [Done EXCEPT ![t] = 1..s]
                     /\ IF s = Stages
                        THEN /\ Verdict' = [Verdict EXCEPT ![t] = "succeeded"]
                             /\ calls' = [calls EXCEPT ![t] = calls[t] + 1]
                        ELSE UNCHANGED <<Verdict, calls>>
                \/ \E v \in {"failed", "cancelled"} :
                     /\ Verdict[t] = "open" /\ Verdict' = [Verdict EXCEPT ![t] = v]
                     /\ calls' = [calls EXCEPT ![t] = calls[t] + 1] /\ UNCHANGED Done
  <1>t. TypeOK /\ LeaseInv /\ WorkerInv /\ TaskInv
    BY DEF IInv
  <1>1. ASSUME UNCHANGED <<calls, status, stage>> PROVE UNCHANGED <<Done, Verdict, calls>>
    BY <1>1, Stutters
  <1>2. ASSUME NEW n \in Node, NEW x \in Stage, ClaimStage(n, x)
        PROVE  UNCHANGED <<Done, Verdict, calls>>
    <2>1. UNCHANGED <<status, calls>> /\ stage' = [stage EXCEPT ![x] = "leased"]
          /\ stage[x] \in {"pending", "leased", "running"}
      BY <1>2 DEF ClaimStage, Candidate, Takeable, taskRow
    <2>2. \A y \in Stage : stage'[y] = "succeeded" <=> stage[y] = "succeeded"
      BY <1>t, <2>1 DEF TypeOK
    <2> QED BY <2>1, <2>2, Stutters
  <1>3. ASSUME NEW n \in Node, CreateStageAttempt(n) PROVE UNCHANGED <<Done, Verdict, calls>>
    <2>1. CASE MayCreate(n)
      <3>1. /\ UNCHANGED <<calls, stage>> /\ status[cur[n][1]] \in Open
            /\ status' = [status EXCEPT ![cur[n][1]] = "dispatching"]
        BY <1>3, <2>1 DEF CreateStageAttempt, MayCreate
      <3>2. \A t \in Task : status'[t] = status[t] \/ (status[t] \in Open /\ status'[t] \in Open)
        BY <1>t, <3>1 DEF TypeOK, Open
      <3> QED BY <3>1, <3>2, Stutters
    <2>2. CASE ~MayCreate(n)
      BY <1>1, <1>3, <2>2 DEF CreateStageAttempt, taskRow, stageRow
    <2> QED BY <2>1, <2>2
  <1>4. ASSUME NEW n \in Node, BindStageExecution(n) PROVE UNCHANGED <<Done, Verdict, calls>>
    <2>1. /\ UNCHANGED calls
          /\ stage' = stage \/ (stage[cur[n]] = "leased" /\ stage' = [stage EXCEPT ![cur[n]] = "running"])
          /\ \/ status' = status
             \/ status[TaskOf(n)] \in Open /\ status' = [status EXCEPT ![TaskOf(n)] = "running"]
      BY <1>4 DEF BindStageExecution
    <2>2. \A y \in Stage : stage'[y] = "succeeded" <=> stage[y] = "succeeded"
      BY <1>t, <2>1 DEF TypeOK
    <2>3. \A t \in Task : status'[t] = status[t] \/ (status[t] \in Open /\ status'[t] \in Open)
      BY <1>t, <2>1 DEF TypeOK, Open
    <2> QED BY <2>1, <2>2, <2>3, Stutters
  <1>5. ASSUME NEW n \in Node, CompleteStage(n),
               ~(try[Mine(n)] = "running" /\ lease[cur[n]] = n /\ stage[cur[n]] = "running")
        PROVE  UNCHANGED <<Done, Verdict, calls>>
    BY <1>1, <1>5 DEF CompleteStage, taskRow
  <1>6. ASSUME NEW n \in Node, FailStage(n)
        PROVE  \/ UNCHANGED <<Done, Verdict, calls>>
               \/ \E t \in Task :
                     /\ Verdict[t] = "open" /\ Verdict' = [Verdict EXCEPT ![t] = "failed"]
                     /\ calls' = [calls EXCEPT ![t] = calls[t] + 1] /\ UNCHANGED Done
    <2> DEFINE x == cur[n]
               t == TaskOf(n)
    <2>1. CASE ~MayFail(n)
      BY <1>1, <1>6, <2>1 DEF FailStage, taskRow
    <2>2. CASE MayFail(n)
      <3>0. Works(n) /\ pc[n] = "fail" /\ lease[x] = n /\ n # NoNode
        BY <1>t, <1>6, <2>2, NodeAssumption DEF WorkerInv, FailStage, MayFail
      <3>1. x \in Stage /\ status[t] \in Underway /\ stage[x] \in Held
        BY <1>t, <3>0 DEF Works, Making, Handling, TaskOf, LeaseInv
      <3>2. t \in Task
        BY <3>1, Names DEF TaskOf
      <3>3. /\ stage' = [stage EXCEPT ![x] = IF IsTerminal(n) THEN "failed" ELSE "pending"]
            /\ status' = [status EXCEPT ![t] = IF IsTerminal(n) THEN "failed" ELSE "running"]
            /\ calls' = [calls EXCEPT ![t] = IF IsTerminal(n) THEN calls[t] + 1 ELSE calls[t]]
        BY <1>t, <1>6, <2>2, <3>2 DEF FailStage, TypeOK
      <3>4. \A y \in Stage : stage'[y] = "succeeded" <=> stage[y] = "succeeded"
        BY <1>t, <3>1, <3>3 DEF TypeOK, Held
      <3>5. status[t] \in Open
        BY <3>1 DEF Underway, Open
      <3>6. CASE IsTerminal(n)
        <4>1. /\ status' = [status EXCEPT ![t] = "failed"]
              /\ calls' = [calls EXCEPT ![t] = calls[t] + 1]
          BY <3>3, <3>6
        <4> HIDE DEF t
        <4> QED BY <1>t, <3>2, <3>4, <3>5, <4>1, Ends
      <3>7. CASE ~IsTerminal(n)
        <4>1. UNCHANGED calls
          BY <1>t, <3>2, <3>3, <3>7 DEF TypeOK
        <4>2. \A u \in Task : status'[u] = status[u] \/ (status[u] \in Open /\ status'[u] \in Open)
          BY <1>t, <3>2, <3>3, <3>5, <3>7 DEF TypeOK, Open
        <4> QED BY <3>4, <4>1, <4>2, Stutters
      <3> QED BY <3>6, <3>7
    <2> QED BY <2>1, <2>2
  <1>7. ASSUME NEW t \in Task, RequestAdminCancel(t)
        PROVE  /\ Verdict[t] = "open" /\ Verdict' = [Verdict EXCEPT ![t] = "cancelled"]
               /\ calls' = [calls EXCEPT ![t] = calls[t] + 1] /\ UNCHANGED Done
    <2>1. status[t] \in Open /\ (active[t] \/ upstream[t] = NoNode)
      BY <1>t, <1>7 DEF RequestAdminCancel, TaskInv
    <2>2. /\ status' = [status EXCEPT ![t] = "cancelled"]
          /\ calls' = [calls EXCEPT ![t] = calls[t] + 1]
          /\ stage' = stage \/ FinishStageTaskCancellation(t)
      BY <1>t, <1>7, <2>1 DEF RequestAdminCancel, FinishStageTaskCancellation, TypeOK
    <2>3. \A y \in Stage : stage'[y] = "succeeded" <=> stage[y] = "succeeded"
      BY SMT, <2>2 DEF FinishStageTaskCancellation
    <2> QED BY <1>t, <2>1, <2>2, <2>3, Ends
  <1>8. ASSUME NEW n \in Node, WorkerStep(n) \/ WorkerFault(n),
               ~CreateStageAttempt(n), ~BindStageExecution(n), ~CompleteStage(n), ~FailStage(n),
               \A x \in Stage : ~ClaimStage(n, x)
        PROVE  UNCHANGED <<calls, status, stage>>
    BY <1>8 DEF WorkerStep, WorkerFault, Look, Prepared, Submit, PollCancelled, PollLosesLease,
                PollEnds, BarrierRecovers, BindBarrierExecution, StopExecution, ConfirmStopped,
                ResolveNodeDispatchBarrier, PrepareFails, CreateRefused, SubmitUnanswered,
                SubmitRejected, PollRejected, BarrierRecoveryFails, Crash, NodeForgets,
                rows, taskRow, stageRow
  <1>9. ASSUME \/ \E x \in Stage : ExpireAbandoned(x) \/ ExpireHeld(x)
               \/ \E o \in Op : ExecutionEnds(o) \/ LateArrives(o)
               \/ UNCHANGED vars
        PROVE  UNCHANGED <<calls, status, stage>>
    BY <1>9 DEF ExpireAbandoned, ExpireHeld, ExecutionEnds, LateArrives, vars, rows, taskRow, stageRow
  <1>10. ASSUME NEW n \in Node, WorkerStep(n) \/ WorkerFault(n)
         PROVE  \/ UNCHANGED <<Done, Verdict, calls>>
                \/ CompleteStage(n) /\ try[Mine(n)] = "running" /\ lease[cur[n]] = n
                   /\ stage[cur[n]] = "running"
                \/ FailStage(n)
    BY <1>1, <1>2, <1>3, <1>4, <1>5, <1>8, <1>10
  <1>11. CASE \E n \in Node : WorkerStep(n) \/ WorkerFault(n)
    BY <1>6, <1>10, <1>11, Advances
  <1>12. CASE \E t \in Task : RequestAdminCancel(t)
    BY <1>7, <1>12
  <1>13. CASE \/ \E x \in Stage : ExpireAbandoned(x) \/ ExpireHeld(x)
              \/ \E o \in Op : ExecutionEnds(o) \/ LateArrives(o)
              \/ UNCHANGED vars
    BY <1>1, <1>9, <1>13
  <1> QED BY <1>11, <1>12, <1>13 DEF Next

\* The orchestrator implements StagePipeline for any number of tasks, stages, nodes,
\* attempts and faults: stages complete in order, a task succeeds with its last stage
\* and ends once, with one callback (CompleteStage, FailStage, RequestAdminCancel).
THEOREM Refinement == Spec => ImplementsPipeline
  <1>1. Init => Pipeline!PipeInit
    BY SMT, Names DEF Init, Pipeline!PipeInit, Ended
  <1>2. IInv /\ [Next]_vars => [Pipeline!PipeNext]_(Pipeline!pipeVars)
    <2> SUFFICES ASSUME IInv, [Next]_vars PROVE [Pipeline!PipeNext]_(Pipeline!pipeVars)
      OBVIOUS
    <2> QED BY StepRefines
            DEF Pipeline!PipeNext, Pipeline!pipeVars, Pipeline!Advance, Pipeline!End,
                Pipeline!Announce, Done, Verdict
  <1> QED BY <1>1, <1>2, Invariance, PTL DEF Spec, ImplementsPipeline, Pipeline!PipeSpec
=============================================================================
