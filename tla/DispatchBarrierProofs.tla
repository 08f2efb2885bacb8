------------------------ MODULE DispatchBarrierProofs ------------------------
(* For any tasks, stages, nodes, attempts and faults: a cancelled execution     *)
(* that runs, or may still be started, is fenced by a barrier on its node.      *)
EXTENDS StageOrchestratorProofs

\* Steps with arithmetic, and a few large ones, name SMT instead.
USE Zenon

Fencing == {"bindBarrier", "stop", "confirm", "resolve"}

\* Nothing under way can start the execution of an operation whose node has none.
Quiet(o) == job[o] = "none" => o \notin late

\* An attempt has a node, is numbered by attempt_count, and is bound to an execution
\* only after the node answered.
AttemptInv ==
    \A o \in Op :
        /\ try[o] # "none" => tryNode[o] \in Node
        /\ o[2] > count[o[1]] => try[o] = "none" /\ ~bound[o]
        /\ bound[o] => Quiet(o)

\* A barrier is for an attempt that its own node was given and that is over, and it
\* knows the execution when the attempt did.
BarrierInv ==
    \A n \in Node : barrier[n] # NoOp =>
        /\ tryNode[barrier[n]] = n
        /\ try[barrier[n]] \notin Trying \cup {"none"}
        /\ bound[barrier[n]] => barBound[n]
        /\ barBound[n] => Quiet(barrier[n])

\* The worker lifts the barrier it read, after the execution was seen to have stopped.
Fences(n) ==
    /\ pc[n] \in Fencing => barrier[n] # NoOp /\ Quiet(barrier[n])
    /\ pc[n] = "resolve" => job[barrier[n]] # "live"

\* A worker sends only attempts of its own node, and only ones without execution.
Sends(n) ==
    /\ pc[n] \in Making => tryNode[Mine(n)] = n /\ no[n] <= count[cur[n]]
    /\ pc[n] = "submit" => ~bound[Mine(n)] /\ ~(barrier[n] = Mine(n) /\ barBound[n])
    /\ pc[n] = "bind" => Quiet(Mine(n))

\* An operation that does not run and that nothing can start any more.
Over(o) ==
    /\ job[o] # "live" /\ Quiet(o)
    /\ \A n \in Node : ~(pc[n] = "submit" /\ Mine(n) = o)

AbortInv == \A o \in Op : try[o] = "aborted" => barrier[tryNode[o]] = o \/ Over(o)

FInv == AttemptInv /\ BarrierInv /\ (\A n \in Node : Fences(n) /\ Sends(n)) /\ AbortInv
-----------------------------------------------------------------------------
\* No barrier and no attempt at first.
LEMMA FStart == Init => FInv
  BY SMT, NodeAssumption, NameAssumption, BoundAssumption, Names
     DEF Init, FInv, AttemptInv, BarrierInv, Fences, Sends, AbortInv, Quiet, Trying, Making, Fencing

\* The barrier's attempt and the worker's are rows of stage_attempts.
LEMMA Rows ==
    ASSUME IInv, NEW n \in Node
    PROVE  /\ barrier[n] # NoOp => barrier[n] \in Op
           /\ pc[n] \in Making => Mine(n) \in Op /\ Mine(n) = <<cur[n], no[n]>> /\ cur[n] \in Stage
           /\ NoOp \notin Op
  <1>1. Works(n)
    BY DEF IInv, WorkerInv
  <1> QED BY SMT, <1>1, Names, NameAssumption DEF IInv, TypeOK, Works, Making, Handling, Mine

\* Steps that write no attempt and no barrier and start no execution: the workers in M
\* move, what they do next is right, and none of them is about to send a cancelled attempt.
LEMMA Safe ==
    ASSUME IInv, FInv, NEW M \in SUBSET Node,
           UNCHANGED <<try, tryNode, bound, count, fence>>,
           \A o \in Op : /\ Quiet(o) => Quiet(o)'
                         /\ job'[o] = "live" => job[o] = "live" \/ ~Quiet(o),
           \A m \in Node \ M : pc'[m] = pc[m] /\ cur'[m] = cur[m] /\ no'[m] = no[m],
           \A m \in M : /\ Fences(m)' /\ Sends(m)'
                        /\ pc'[m] = "submit" => try[<<cur'[m], no'[m]>>] # "aborted"
    PROVE  FInv'
  <1>0. AttemptInv /\ BarrierInv /\ AbortInv /\ \A m \in Node : Fences(m) /\ Sends(m)
    BY DEF FInv
  <1>1. AttemptInv'
    <2> SUFFICES ASSUME NEW o \in Op, bound[o] PROVE Quiet(o)'
      BY <1>0 DEF AttemptInv
    <2> QED BY <1>0 DEF AttemptInv
  <1>2. BarrierInv'
    <2> SUFFICES ASSUME NEW n \in Node, barrier[n] # NoOp, barBound[n] PROVE Quiet(barrier[n])'
      BY <1>0 DEF BarrierInv, fence
    <2>1. barrier[n] \in Op /\ Quiet(barrier[n])
      BY <1>0, Rows DEF BarrierInv
    <2> QED BY <2>1 DEF fence, Quiet
  <1>3. ASSUME NEW m \in Node \ M PROVE Fences(m)'
    <2>1. barrier[m] # NoOp => barrier[m] \in Op
      BY <1>3, Rows
    <2>2. Fences(m) /\ pc'[m] = pc[m] /\ barrier'[m] = barrier[m]
      BY <1>0, <1>3 DEF fence
    <2>3. pc[m] \in Fencing => barrier[m] # NoOp /\ Quiet(barrier[m])'
      BY <2>1, <2>2 DEF Fences, Quiet, fence
    <2>4. pc[m] = "resolve" => job'[barrier[m]] # "live"
      BY <2>1, <2>2 DEF Fences, Fencing
    <2> QED BY <2>2, <2>3, <2>4 DEF Fences, Quiet
  <1>4. ASSUME NEW m \in Node \ M PROVE Sends(m)'
    <2>1. pc[m] \in Making => Mine(m) \in Op
      BY <1>4, Rows
    <2>2. Sends(m) /\ pc'[m] = pc[m] /\ Mine(m)' = Mine(m) /\ cur'[m] = cur[m] /\ no'[m] = no[m]
      BY <1>0, <1>4 DEF Mine
    <2>3. pc[m] = "bind" => Quiet(Mine(m))'
      BY <2>1, <2>2 DEF Sends, Making, Quiet
    <2> QED BY <2>2, <2>3 DEF Sends, fence, Quiet
  <1>5. AbortInv'
    <2> SUFFICES ASSUME NEW o \in Op, try[o] = "aborted", barrier[tryNode[o]] # o PROVE Over(o)'
      BY DEF AbortInv, fence
    <2>1. Over(o)
      BY <1>0 DEF AbortInv
    <2>2. job'[o] # "live" /\ Quiet(o)'
      BY <2>1 DEF Over
    <2>3. ASSUME NEW m \in Node, pc'[m] = "submit", Mine(m)' = o PROVE FALSE
      BY <2>1, <2>3 DEF Over, Mine
    <2> QED BY <2>2, <2>3 DEF Over
  <1> QED BY <1>1, <1>2, <1>3, <1>4, <1>5 DEF FInv

\* The same for the step of one worker.
LEMMA SafeStep ==
    ASSUME IInv, FInv, NEW n \in Node,
           UNCHANGED <<try, tryNode, bound, count, fence>>,
           \A o \in Op : /\ Quiet(o) => Quiet(o)'
                         /\ job'[o] = "live" => job[o] = "live" \/ ~Quiet(o),
           \A m \in Node \ {n} : pc'[m] = pc[m] /\ cur'[m] = cur[m] /\ no'[m] = no[m],
           Fences(n)', Sends(n)',
           pc'[n] = "submit" => try[<<cur'[n], no'[n]>>] # "aborted"
    PROVE  FInv'
  <1>1. PICK M \in SUBSET Node : M = {n}
    OBVIOUS
  <1>2. \A m \in M : /\ Fences(m)' /\ Sends(m)'
                     /\ pc'[m] = "submit" => try[<<cur'[m], no'[m]>>] # "aborted"
    BY <1>1
  <1>3. \A m \in Node \ M : pc'[m] = pc[m] /\ cur'[m] = cur[m] /\ no'[m] = no[m]
    BY <1>1
  <1> HIDE <1>1
  <1> QED BY <1>2, <1>3, Safe

\* A call to the node under the operation o: the worker is the one that may send it.
LEMMA Sending ==
    ASSUME IInv, FInv, NEW n \in Node, NEW o \in Op,
           UNCHANGED <<try, tryNode, bound, count, fence>>,
           \A p \in Op \ {o} : (Quiet(p)' <=> Quiet(p)) /\ job'[p] = job[p],
           tryNode[o] = n, try[o] = "aborted" => barrier[n] = o,
           Quiet(o)' \/ (~bound[o] /\ ~(barrier[n] = o /\ barBound[n])),
           \A m \in Node \ {n} : pc'[m] = pc[m] /\ cur'[m] = cur[m] /\ no'[m] = no[m],
           Fences(n)', Sends(n)', pc'[n] # "submit"
    PROVE  FInv'
  <1>0. AttemptInv /\ BarrierInv /\ AbortInv /\ \A m \in Node : Fences(m) /\ Sends(m)
    BY DEF FInv
  <1>1. AttemptInv'
    <2> SUFFICES ASSUME NEW p \in Op, bound[p] PROVE Quiet(p)'
      BY <1>0 DEF AttemptInv
    <2> QED BY <1>0 DEF AttemptInv
  <1>2. BarrierInv'
    <2> SUFFICES ASSUME NEW m \in Node, barrier[m] # NoOp, barBound[m] PROVE Quiet(barrier[m])'
      BY <1>0 DEF BarrierInv, fence
    <2>1. barrier[m] \in Op /\ Quiet(barrier[m]) /\ tryNode[barrier[m]] = m
      BY <1>0, Rows DEF BarrierInv
    <2> QED BY SMT, <2>1 DEF fence, Quiet
  <1>3. ASSUME NEW m \in Node \ {n} PROVE Fences(m)'
    <2>1. barrier[m] # NoOp => barrier[m] \in Op \ {o}
      BY <1>0, <1>3, Rows DEF BarrierInv
    <2>2. Fences(m) /\ pc'[m] = pc[m] /\ barrier'[m] = barrier[m]
      BY <1>0, <1>3 DEF fence
    <2>3. pc[m] \in Fencing => barrier[m] # NoOp /\ Quiet(barrier[m])'
      BY <2>1, <2>2 DEF Fences, Quiet, fence
    <2>4. pc[m] = "resolve" => job'[barrier[m]] # "live"
      BY <2>1, <2>2 DEF Fences, Fencing
    <2> QED BY <2>2, <2>3, <2>4 DEF Fences, Quiet
  <1>4. ASSUME NEW m \in Node \ {n} PROVE Sends(m)'
    <2>2. Sends(m) /\ pc'[m] = pc[m] /\ Mine(m)' = Mine(m) /\ cur'[m] = cur[m] /\ no'[m] = no[m]
      BY <1>0, <1>4 DEF Mine
    <2>1. pc[m] \in Making => Mine(m) \in Op \ {o}
      BY <1>4, <2>2, Rows DEF Sends
    <2>3. pc[m] = "bind" => Quiet(Mine(m))'
      BY <2>1, <2>2 DEF Sends, Making, Quiet
    <2> QED BY <2>2, <2>3 DEF Sends, fence, Quiet
  <1>5. AbortInv'
    <2> SUFFICES ASSUME NEW p \in Op, try[p] = "aborted", barrier[tryNode[p]] # p PROVE Over(p)'
      BY DEF AbortInv, fence
    <2>1. Over(p) /\ p # o
      BY <1>0 DEF AbortInv
    <2>2. job'[p] # "live" /\ Quiet(p)'
      BY <2>1 DEF Over
    <2>3. ASSUME NEW m \in Node, pc'[m] = "submit", Mine(m)' = p PROVE FALSE
      BY <2>1, <2>3 DEF Over, Mine
    <2> QED BY <2>2, <2>3 DEF Over
  <1> QED BY <1>1, <1>2, <1>3, <1>4, <1>5 DEF FInv

\* ProcessOne returns, and the nodes see nothing of it.
LEMMA FReturn ==
    ASSUME IInv, FInv, NEW n \in Node, Return(n),
           UNCHANGED <<try, tryNode, bound, count, fence, remote>>
    PROVE  FInv'
  <1>1. pc'[n] = "idle" /\ \A m \in Node \ {n} : pc'[m] = pc[m] /\ cur'[m] = cur[m] /\ no'[m] = no[m]
    BY DEF Return, Goto, IInv, TypeOK
  <1>2. Fences(n)' /\ Sends(n)'
    BY <1>1 DEF Fences, Sends, Making, Fencing
  <1>3. \A o \in Op : (Quiet(o) => Quiet(o)') /\ job'[o] = job[o]
    BY DEF Quiet, remote
  <1> QED BY <1>1, <1>2, <1>3, SafeStep

\* The worker goes on with the same attempt, past the submission.
LEMMA FMove ==
    ASSUME IInv, FInv, NEW n \in Node, pc[n] \in Making,
           NEW label \in {"poll", "complete", "fail"}, Goto(n, label),
           UNCHANGED <<cur, no, try, tryNode, bound, count, fence, remote>>
    PROVE  FInv'
  <1>1. pc'[n] = label /\ \A m \in Node \ {n} : pc'[m] = pc[m]
    BY DEF Goto, IInv, TypeOK
  <1>2. Fences(n)' /\ Sends(n)'
    <2>1. Sends(n)
      BY DEF FInv
    <2> QED BY <1>1, <2>1 DEF Fences, Sends, Making, Fencing, Mine
  <1>3. \A o \in Op : (Quiet(o) => Quiet(o)') /\ job'[o] = job[o]
    BY DEF Quiet, remote
  <1> QED BY <1>1, <1>2, <1>3, SafeStep

\* resumeStageAttempt takes up only an attempt of its node that is in hand: no barrier
\* stands for it.
LEMMA FLook ==
    ASSUME IInv, FInv, NEW n \in Node, Look(n)
    PROVE  FInv'
  <1>x. PICK x : x = cur[n]
    OBVIOUS
  <1>o. PICK o : o = <<x, count[x]>>
    OBVIOUS
  <1>0. UNCHANGED <<try, tryNode, bound, count, fence, remote>>
    BY DEF Look, rows, stageRow, attemptRow
  <1>1. CASE Return(n)
    BY <1>0, <1>1, FReturn
  <1>2. CASE ~Return(n)
    <2>1. /\ pc' = [pc EXCEPT ![n] = IF ~Resumes(n) THEN "prepare" ELSE IF bound[o] THEN "bind" ELSE "submit"]
          /\ no' = [no EXCEPT ![n] = IF Resumes(n) THEN count[x] ELSE 0]
          /\ UNCHANGED cur /\ pc[n] = "look" /\ (Resumes(n) => tryNode[o] = n)
      BY <1>2, <1>x, <1>o DEF Look, Goto, ResumedNo
    <2>2. /\ pc'[n] = IF ~Resumes(n) THEN "prepare" ELSE IF bound[o] THEN "bind" ELSE "submit"
          /\ no'[n] = IF Resumes(n) THEN count[x] ELSE 0
          /\ \A m \in Node \ {n} : pc'[m] = pc[m] /\ cur'[m] = cur[m] /\ no'[m] = no[m]
      BY <2>1 DEF IInv, TypeOK
    <2>3. \A p \in Op : (Quiet(p) => Quiet(p)') /\ job'[p] = job[p]
      BY <1>0 DEF Quiet, remote
    <2>4. Works(n) /\ x \in Stage /\ count[x] \in 0..MaxAttempts
      BY <1>x, <2>1 DEF IInv, WorkerInv, Works, Handling, TypeOK
    <2>5. CASE Resumes(n)
      <3>1. count[x] \in 1..MaxAttempts /\ o \in Op /\ try[o] \in Trying /\ Mine(n)' = o
        BY SMT, <1>x, <1>o, <2>1, <2>2, <2>4, <2>5, Names, BoundAssumption DEF Resumes, Works, Mine
      <3>2. barrier[n] # o
        BY <3>1, NameAssumption DEF FInv, BarrierInv
      <3>3. bound[o] => Quiet(o)'
        BY <2>3, <3>1 DEF FInv, AttemptInv
      <3>4. Fences(n)'
        BY <2>2, <2>5 DEF Fences, Fencing
      <3>5. Sends(n)'
        <4>1. tryNode'[o] = n /\ no'[n] <= count'[cur'[n]]
          BY SMT, <1>0, <1>x, <2>1, <2>2, <2>4, <2>5, <3>1 DEF IInv, TypeOK
        <4>2. pc'[n] = "submit" => ~bound'[o] /\ barrier'[n] # o
          BY <1>0, <2>2, <2>5, <3>2 DEF fence
        <4>3. pc'[n] = "bind" => Quiet(o)'
          BY <2>2, <2>5, <3>3
        <4> QED BY <3>1, <4>1, <4>2, <4>3 DEF Sends, Quiet
      <3>6. try[<<cur'[n], no'[n]>>] # "aborted"
        BY <3>1 DEF Mine, Trying
      <3> QED BY <1>0, <2>2, <2>3, <3>4, <3>5, <3>6, SafeStep
    <2>6. CASE ~Resumes(n)
      <3>1. Fences(n)' /\ Sends(n)' /\ pc'[n] # "submit"
        BY <2>2, <2>6 DEF Fences, Sends, Fencing, Making
      <3> QED BY <1>0, <2>2, <2>3, <3>1, SafeStep
    <2> QED BY <2>5, <2>6
  <1> QED BY <1>1, <1>2

\* The steps before an attempt is made, and the poll loop.
LEMMA FQuiet ==
    ASSUME IInv, FInv, NEW n \in Node,
           \/ \E x \in Stage : ClaimStage(n, x)
           \/ Prepared(n) \/ PrepareFails(n) \/ CreateRefused(n) \/ SubmitRejected(n)
           \/ PollCancelled(n) \/ PollLosesLease(n) \/ PollEnds(n) \/ PollRejected(n)
    PROVE  FInv'
  <1>e. ASSUME NEW label \in {"look", "create"}, Goto(n, label),
               \A m \in Node \ {n} : cur'[m] = cur[m] /\ no'[m] = no[m],
               UNCHANGED <<try, tryNode, bound, count, fence, remote>>
        PROVE  FInv'
    <2>1. pc'[n] = label /\ \A m \in Node \ {n} : pc'[m] = pc[m]
      BY <1>e DEF Goto, IInv, TypeOK
    <2>2. Fences(n)' /\ Sends(n)' /\ pc'[n] # "submit"
      BY <1>e, <2>1 DEF Fences, Sends, Making, Fencing
    <2>3. \A o \in Op : (Quiet(o) => Quiet(o)') /\ job'[o] = job[o]
      BY <1>e DEF Quiet, remote
    <2> QED BY <1>e, <2>1, <2>2, <2>3, SafeStep
  <1>1. ASSUME NEW x \in Stage, ClaimStage(n, x) PROVE FInv'
    <2>1. \A m \in Node \ {n} : cur'[m] = cur[m] /\ no'[m] = no[m]
      BY <1>1 DEF ClaimStage, IInv, TypeOK
    <2> QED BY <1>1, <1>e, <2>1 DEF ClaimStage, attemptRow
  <1>2. CASE Prepared(n)
    <2>1. CASE Return(n)
      BY <1>2, <2>1, FReturn DEF Prepared, rows, stageRow, attemptRow
    <2>2. CASE ~Return(n)
      BY <1>2, <1>e, <2>2 DEF Prepared, rows, stageRow, attemptRow, local
    <2> QED BY <2>1, <2>2
  <1>3. CASE PrepareFails(n)
    BY <1>3, <1>e DEF PrepareFails, rows, stageRow, attemptRow
  <1>4. CASE CreateRefused(n)
    BY <1>4, FReturn DEF CreateRefused, rows, stageRow, attemptRow
  <1>5. CASE SubmitRejected(n)
    <2>1. pc[n] \in Making /\ (Return(n) \/ \E v \in BOOLEAN : Fail(n, v))
      BY <1>5 DEF SubmitRejected, Making
    <2> QED BY <1>5, <2>1, FReturn, FMove DEF SubmitRejected, Fail, rows, stageRow, attemptRow
  <1>6. CASE PollCancelled(n)
    <2>1. UNCHANGED <<try, tryNode, bound, count, fence, late>> /\ Return(n)
      BY <1>6 DEF PollCancelled, rows, stageRow, attemptRow
    <2>2. pc'[n] = "idle" /\ \A m \in Node \ {n} : pc'[m] = pc[m] /\ cur'[m] = cur[m] /\ no'[m] = no[m]
      BY <2>1 DEF Return, Goto, IInv, TypeOK
    <2>3. Fences(n)' /\ Sends(n)'
      BY <2>2 DEF Fences, Sends, Making, Fencing
    <2>4. PICK j : /\ j \in {job[Mine(n)]} \cup {k \in {"cancelled"} : job[Mine(n)] = "live"}
                   /\ job' = [job EXCEPT ![Mine(n)] = j]
      BY <1>6 DEF PollCancelled
    <2>5. \A o \in Op : job'[o] = job[o] \/ (job[o] = "live" /\ job'[o] = "cancelled")
      BY <2>4 DEF IInv, TypeOK
    <2>6. \A o \in Op : (Quiet(o) => Quiet(o)') /\ (job'[o] = "live" => job[o] = "live")
      BY <2>1, <2>5 DEF Quiet
    <2> QED BY <2>1, <2>2, <2>3, <2>6, SafeStep
  <1>7. CASE PollLosesLease(n)
    BY <1>7, FReturn DEF PollLosesLease, rows, stageRow, attemptRow
  <1>8. CASE PollEnds(n)
    <2>1. pc[n] \in Making /\ \E label \in {"poll", "complete", "fail"} :
              Goto(n, label) /\ UNCHANGED <<cur, no>>
      BY <1>8 DEF PollEnds, Making, Fail, local
    <2> QED BY <1>8, <2>1, FMove DEF PollEnds, rows, stageRow, attemptRow
  <1>9. CASE PollRejected(n)
    <2>1. pc[n] \in Making /\ Goto(n, "fail") /\ UNCHANGED <<cur, no>>
      BY <1>9 DEF PollRejected, Making, Fail
    <2> QED BY <1>9, <2>1, FMove DEF PollRejected, rows, stageRow, attemptRow
  <1> QED BY <1>1, <1>2, <1>3, <1>4, <1>5, <1>6, <1>7, <1>8, <1>9

\* What a worker at the submission knows of its attempt.
LEMMA AtSubmit ==
    ASSUME IInv, FInv, NEW n \in Node, pc[n] = "submit"
    PROVE  /\ Mine(n) \in Op /\ tryNode[Mine(n)] = n /\ no[n] <= count[cur[n]]
           /\ try[Mine(n)] = "aborted" => barrier[n] = Mine(n)
           /\ ~bound[Mine(n)] /\ ~(barrier[n] = Mine(n) /\ barBound[n])
  <1>1. Mine(n) \in Op
    BY Rows DEF Making
  <1>2. /\ tryNode[Mine(n)] = n /\ no[n] <= count[cur[n]]
        /\ ~bound[Mine(n)] /\ ~(barrier[n] = Mine(n) /\ barBound[n])
    BY DEF FInv, Sends, Making
  <1>3. ~Over(Mine(n))
    BY DEF Over
  <1> QED BY <1>1, <1>2, <1>3 DEF FInv, AbortInv

\* Submissions, answered or not, and a crash at one: the barrier that a cancel may have
\* put up meanwhile is not bound, so it is not lifted without another submission.
LEMMA FSubmit ==
    ASSUME IInv, FInv, NEW n \in Node, Submit(n) \/ SubmitUnanswered(n) \/ Crash(n)
    PROVE  FInv'
  <1>0. UNCHANGED <<try, tryNode, bound, count, fence>>
    BY DEF Submit, SubmitUnanswered, Crash, rows, stageRow, attemptRow
  <1>1. CASE Crash(n) /\ pc[n] # "submit"
    BY <1>0, <1>1, FReturn DEF Crash, remote
  <1>2. CASE pc[n] = "submit"
    <2>1. PICK o \in Op : o = Mine(n)
      BY <1>2, AtSubmit
    <2>2. /\ tryNode[o] = n /\ no[n] <= count[cur[n]] /\ (try[o] = "aborted" => barrier[n] = o)
          /\ ~bound[o] /\ ~(barrier[n] = o /\ barBound[n])
      BY <1>2, <2>1, AtSubmit
    <2>3. CASE Submit(n)
      <3>1. /\ pc'[n] = "bind" /\ UNCHANGED <<cur, no, late>>
            /\ \A m \in Node \ {n} : pc'[m] = pc[m]
            /\ job'[o] # "none" /\ \A p \in Op \ {o} : job'[p] = job[p]
        BY <2>1, <2>3 DEF Submit, Goto, CreateExecution, local, IInv, TypeOK
      <3>2. Quiet(o)' /\ \A p \in Op \ {o} : Quiet(p)' <=> Quiet(p)
        BY <3>1 DEF Quiet
      <3>3. Fences(n)'
        BY <3>1 DEF Fences, Fencing
      <3>4. Mine(n)' = o
        BY <2>1, <3>1 DEF Mine
      <3>5. Sends(n)'
        BY <1>0, <2>2, <3>1, <3>2, <3>4 DEF Sends, Quiet
      <3> QED BY <1>0, <2>2, <3>1, <3>2, <3>3, <3>5, Sending
    <2>4. CASE SubmitUnanswered(n) \/ Crash(n)
      <3>1. /\ UNCHANGED job /\ late' = late \cup {o}
            /\ Return(n) \/ (Goto(n, "fail") /\ UNCHANGED <<cur, no>>)
        BY <1>2, <2>1, <2>4 DEF SubmitUnanswered, Crash, Fail
      <3>2. /\ pc'[n] = "idle" \/ (pc'[n] = "fail" /\ UNCHANGED <<cur, no>>)
            /\ \A m \in Node \ {n} : pc'[m] = pc[m] /\ cur'[m] = cur[m] /\ no'[m] = no[m]
        BY SMT, <3>1 DEF Return, Goto, IInv, TypeOK
      <3>3. \A p \in Op \ {o} : (Quiet(p)' <=> Quiet(p)) /\ job'[p] = job[p]
        BY <3>1 DEF Quiet
      <3>4. Fences(n)' /\ pc'[n] # "submit"
        BY <3>2 DEF Fences, Fencing
      <3>5. Sends(n)'
        BY <1>0, <2>1, <2>2, <3>2 DEF Sends, Making, Mine
      <3> QED BY <1>0, <2>2, <3>2, <3>3, <3>4, <3>5, Sending
    <2> QED BY <1>2, <2>3, <2>4
  <1> QED BY <1>1, <1>2 DEF Submit, SubmitUnanswered

\* reconcileCancellationBarrier.
LEMMA FBarrier ==
    ASSUME IInv, FInv, NEW n \in Node,
           \/ BarrierRecovers(n) \/ BarrierRecoveryFails(n) \/ BindBarrierExecution(n)
           \/ StopExecution(n) \/ ConfirmStopped(n) \/ ResolveNodeDispatchBarrier(n)
    PROVE  FInv'
  <1>t. TypeOK /\ AttemptInv /\ BarrierInv /\ AbortInv /\ \A m \in Node : Fences(m) /\ Sends(m)
    BY DEF IInv, FInv
  <1>0. UNCHANGED <<try, tryNode, bound, count, cur, no>>
    BY DEF BarrierRecovers, BarrierRecoveryFails, BindBarrierExecution, StopExecution,
           ConfirmStopped, ResolveNodeDispatchBarrier, rows, stageRow, attemptRow, local
  <1>1. barrier[n] # NoOp
    BY <1>t DEF BarrierRecovers, BarrierRecoveryFails, BindBarrierExecution, StopExecution,
           ConfirmStopped, ResolveNodeDispatchBarrier, Fences, Fencing
  <1>2. PICK o \in Op : o = barrier[n]
    BY <1>1, Rows
  <1>3. /\ tryNode[o] = n /\ try[o] \notin Trying \cup {"none"}
        /\ (bound[o] => barBound[n]) /\ (barBound[n] => Quiet(o))
    BY <1>t, <1>1, <1>2 DEF BarrierInv
  <1>4. CASE BarrierRecovers(n) \/ BarrierRecoveryFails(n)
    <2>1. ~barBound[n] /\ ~bound[o] /\ UNCHANGED fence /\ pc[n] = "idle"
      BY <1>3, <1>4 DEF BarrierRecovers, BarrierRecoveryFails, rows
    <2>2. /\ \A m \in Node \ {n} : pc'[m] = pc[m]
          /\ \A p \in Op \ {o} : job'[p] = job[p] /\ (p \in late' <=> p \in late)
          /\ pc'[n] = "idle" \/ (pc'[n] = "bindBarrier" /\ job'[o] # "none")
      BY SMT, <1>t, <1>2, <1>4, <2>1
         DEF BarrierRecovers, BarrierRecoveryFails, Goto, CreateExecution, TypeOK
    <2>3. \A p \in Op \ {o} : (Quiet(p)' <=> Quiet(p)) /\ job'[p] = job[p]
      BY <2>2 DEF Quiet
    <2>4. Fences(n)' /\ Sends(n)' /\ pc'[n] # "submit"
      BY <1>1, <1>2, <2>1, <2>2 DEF Fences, Fencing, Sends, Making, Quiet, fence
    <2> QED BY <1>0, <1>2, <1>3, <2>1, <2>2, <2>3, <2>4, Sending
  <1>5. CASE StopExecution(n) \/ ConfirmStopped(n)
    <2>1. Quiet(o) /\ UNCHANGED fence /\ UNCHANGED late
      BY <1>t, <1>2, <1>3, <1>5 DEF StopExecution, ConfirmStopped, Fences, Fencing, rows, remote
    <2>2. /\ \A m \in Node \ {n} : pc'[m] = pc[m]
          /\ \/ pc'[n] \in {"confirm", "idle"}
             \/ pc'[n] = "resolve" /\ Stopped(n) /\ UNCHANGED job
          /\ \A p \in Op : job'[p] = job[p] \/ (job[p] = "live" /\ job'[p] = "cancelled")
      <3>1. CASE StopExecution(n)
        <4>1. PICK j : /\ j \in {job[o]} \cup {k \in {"cancelled"} : job[o] = "live"}
                       /\ job' = [job EXCEPT ![o] = j]
          BY <1>2, <3>1 DEF StopExecution
        <4> QED BY SMT, <1>t, <3>1, <4>1 DEF StopExecution, Goto, TypeOK
      <3>2. CASE ConfirmStopped(n)
        BY <1>t, <3>2 DEF ConfirmStopped, Goto, TypeOK, remote
      <3> QED BY <1>5, <3>1, <3>2
    <2>3. \A p \in Op : (Quiet(p) => Quiet(p)') /\ (job'[p] = "live" => job[p] = "live")
      BY <2>1, <2>2 DEF Quiet
    <2>4. pc'[n] = "resolve" => job'[o] # "live"
      BY <1>2, <2>2 DEF Stopped, JobEnded
    <2>5. Fences(n)' /\ Sends(n)' /\ pc'[n] # "submit"
      BY <1>1, <1>2, <2>1, <2>2, <2>3, <2>4 DEF Fences, Fencing, Sends, Making, Quiet, fence
    <2> QED BY <1>0, <2>1, <2>2, <2>3, <2>5, SafeStep
  <1>6. CASE BindBarrierExecution(n) \/ ResolveNodeDispatchBarrier(n)
    <2>1. /\ UNCHANGED <<job, late>> /\ Quiet(o) /\ pc[n] \in {"bindBarrier", "resolve"}
          /\ \A m \in Node \ {n} : pc'[m] = pc[m] /\ barrier'[m] = barrier[m] /\ barBound'[m] = barBound[m]
          /\ \/ pc[n] = "bindBarrier" /\ pc'[n] = "stop" /\ barrier'[n] = o /\ barBound'[n]
             \/ pc[n] = "resolve" /\ pc'[n] = "idle" /\ barrier'[n] = NoOp /\ job[o] # "live"
      BY SMT, <1>t, <1>2, <1>6
         DEF BindBarrierExecution, ResolveNodeDispatchBarrier, Goto, TypeOK, Fences, Fencing, remote
    <2>2. \A p : Quiet(p)' <=> Quiet(p)
      BY <2>1 DEF Quiet
    <2>3. AttemptInv'
      BY <1>t, <1>0, <2>2 DEF AttemptInv
    <2>4. BarrierInv'
      <3> SUFFICES ASSUME NEW m \in Node, barrier'[m] # NoOp
                   PROVE  /\ tryNode[barrier'[m]] = m
                          /\ try[barrier'[m]] \notin Trying \cup {"none"}
                          /\ bound[barrier'[m]] => barBound'[m]
                          /\ barBound'[m] => Quiet(barrier[m])'
        BY <1>0 DEF BarrierInv
      <3>1. CASE m = n
        BY <1>3, <2>1, <3>1 DEF Quiet
      <3>2. CASE m # n
        BY SMT, <1>t, <2>1, <3>2 DEF BarrierInv, Quiet
      <3> QED BY <3>1, <3>2
    <2>5. \A m \in Node : Fences(m)'
      <3> SUFFICES ASSUME NEW m \in Node PROVE Fences(m)'
        OBVIOUS
      <3>1. CASE m = n
        BY <1>1, <1>2, <2>1, <3>1 DEF Fences, Fencing, Quiet
      <3>2. CASE m # n
        BY <1>t, <2>1, <3>2 DEF Fences, Quiet
      <3> QED BY <3>1, <3>2
    <2>6. \A m \in Node : Sends(m)'
      <3> SUFFICES ASSUME NEW m \in Node PROVE Sends(m)'
        OBVIOUS
      <3>1. CASE m = n
        BY <2>1, <3>1 DEF Sends, Making
      <3>2. CASE m # n
        BY <1>t, <1>0, <2>1, <3>2 DEF Sends, Mine, Quiet
      <3> QED BY <3>1, <3>2
    <2>7. \A m \in Node : ~(pc[m] = "submit" /\ Mine(m) = o)
      BY SMT, <1>t, <1>3, <2>1 DEF Sends, Making
    <2>8. AbortInv'
      <3> SUFFICES ASSUME NEW p \in Op, try[p] = "aborted", barrier'[tryNode[p]] # p PROVE Over(p)'
        BY <1>0 DEF AbortInv
      <3>1. CASE p = o
        BY <1>0, <1>3, <2>1, <2>2, <2>7, <3>1 DEF Over, Mine
      <3>2. CASE p # o
        <4>1. tryNode[p] \in Node
          BY <1>t DEF AttemptInv
        <4>2. barrier[tryNode[p]] # p
          BY <1>2, <2>1, <3>2, <4>1
        <4> QED BY <1>t, <1>0, <2>1, <2>2, <3>2, <4>2 DEF AbortInv, Over, Mine
      <3> QED BY <3>1, <3>2
    <2> QED BY <2>3, <2>4, <2>5, <2>6, <2>8 DEF FInv
  <1> QED BY <1>4, <1>5, <1>6

\* The nodes and the clock: a node that forgets its executions loses the requests that
\* were under way to it as well.
LEMMA FOutside ==
    ASSUME IInv, FInv,
           \/ \E n \in Node : NodeForgets(n)
           \/ \E x \in Stage : ExpireAbandoned(x) \/ ExpireHeld(x)
           \/ \E o \in Op : ExecutionEnds(o) \/ LateArrives(o)
           \/ UNCHANGED vars
    PROVE  FInv'
  <1>1. UNCHANGED <<try, tryNode, bound, count, fence, pc, cur, no>>
    BY DEF NodeForgets, ExpireAbandoned, ExpireHeld, ExecutionEnds, LateArrives, vars, rows,
           stageRow, attemptRow, local
  <1>2. \A o \in Op : /\ Quiet(o) => Quiet(o)'
                      /\ job'[o] = "live" => job[o] = "live" \/ ~Quiet(o)
    <2>1. ASSUME NEW n \in Node, NodeForgets(n), NEW o \in Op
          PROVE  (Quiet(o) => Quiet(o)') /\ (job'[o] = "live" => job[o] = "live")
      BY <2>1 DEF NodeForgets, Quiet
    <2>2. ASSUME NEW x \in Stage, ExpireAbandoned(x) \/ ExpireHeld(x), NEW o \in Op
          PROVE  (Quiet(o) => Quiet(o)') /\ (job'[o] = "live" => job[o] = "live")
      BY <2>2 DEF ExpireAbandoned, ExpireHeld, Quiet, remote
    <2>3. ASSUME NEW p \in Op, ExecutionEnds(p), NEW o \in Op
          PROVE  (Quiet(o) => Quiet(o)') /\ (job'[o] = "live" => job[o] = "live")
      BY <2>3 DEF ExecutionEnds, Quiet, IInv, TypeOK
    <2>4. ASSUME NEW p \in Op, LateArrives(p), NEW o \in Op
          PROVE  (Quiet(o) => Quiet(o)') /\ (job'[o] = "live" => job[o] = "live" \/ ~Quiet(o))
      BY <2>4 DEF LateArrives, CreateExecution, Quiet, IInv, TypeOK
    <2>5. ASSUME UNCHANGED vars, NEW o \in Op
          PROVE  (Quiet(o) => Quiet(o)') /\ (job'[o] = "live" => job[o] = "live")
      BY <2>5 DEF vars, remote, Quiet
    <2> QED BY <2>1, <2>2, <2>3, <2>4, <2>5
  <1>3. PICK M \in SUBSET Node : M = {}
    OBVIOUS
  <1>4. /\ \A m \in Node \ M : pc'[m] = pc[m] /\ cur'[m] = cur[m] /\ no'[m] = no[m]
        /\ \A m \in M : /\ Fences(m)' /\ Sends(m)'
                        /\ pc'[m] = "submit" => try[<<cur'[m], no'[m]>>] # "aborted"
    BY <1>1, <1>3
  <1> HIDE <1>3
  <1> QED BY <1>1, <1>2, <1>4, Safe

\* CreateStageAttempt numbers an attempt that no barrier and no other worker knows.
LEMMA FCreate ==
    ASSUME IInv, FInv, NEW n \in Node, CreateStageAttempt(n)
    PROVE  FInv'
  <1>t. TypeOK /\ AttemptInv /\ BarrierInv /\ AbortInv /\ \A m \in Node : Fences(m) /\ Sends(m)
    BY DEF IInv, FInv
  <1>1. CASE ~MayCreate(n)
    BY <1>1, FReturn DEF CreateStageAttempt, stageRow, attemptRow
  <1>2. CASE MayCreate(n)
    <2>w. Works(n) /\ pc[n] = "create"
      BY DEF IInv, WorkerInv, CreateStageAttempt
    <2>x. PICK x \in Stage : x = cur[n]
      BY <2>w DEF Works, Handling
    <2>k. PICK k \in 1..MaxAttempts : k = count[x] + 1
      BY SMT, <1>t, <1>2, <2>x, BoundAssumption DEF MayCreate, TypeOK
    <2>o. PICK o \in Op : o = <<x, k>>
      BY Names
    <2>0. had[n] = count[x] /\ o[1] = x /\ o[2] = k /\ o[2] > count[o[1]] /\ count[x] \in 0..MaxAttempts
      BY SMT, <1>t, <1>2, <2>x, <2>k, <2>o, Names, BoundAssumption DEF MayCreate, TypeOK
    <2>1. try[o] = "none" /\ ~bound[o]
      BY <1>t, <2>0 DEF AttemptInv
    <2>2. /\ try' = [try EXCEPT ![o] = "dispatching"] /\ tryNode' = [tryNode EXCEPT ![o] = n]
          /\ count' = [count EXCEPT ![x] = k] /\ no' = [no EXCEPT ![n] = k]
          /\ pc' = [pc EXCEPT ![n] = IF final[n] THEN "fail" ELSE "submit"]
          /\ UNCHANGED <<bound, cur, fence, job, late>>
      BY <1>t, <1>2, <2>x, <2>k, <2>o, <2>0 DEF CreateStageAttempt, Goto, remote, TypeOK
    <2>3. /\ try'[o] = "dispatching" /\ tryNode'[o] = n
          /\ \A p \in Op \ {o} : try'[p] = try[p] /\ tryNode'[p] = tryNode[p]
          /\ \A y \in Stage : count'[y] >= count[y] /\ count'[x] = k
          /\ pc'[n] \in {"fail", "submit"} /\ no'[n] = k /\ cur'[n] = x
          /\ \A m \in Node \ {n} : pc'[m] = pc[m] /\ cur'[m] = cur[m] /\ no'[m] = no[m]
      BY SMT, <1>t, <2>x, <2>k, <2>2, BoundAssumption DEF TypeOK
    <2>4. \A p : Quiet(p)' <=> Quiet(p)
      BY <2>2 DEF Quiet
    <2>5. \A m \in Node : /\ barrier'[m] = barrier[m] /\ barBound'[m] = barBound[m]
                          /\ barrier[m] # NoOp => barrier[m] \in Op \ {o}
      BY <1>t, <2>1, <2>2, Rows DEF BarrierInv, fence
    <2>6. AttemptInv'
      <3> SUFFICES ASSUME NEW p \in Op
                   PROVE  /\ try'[p] # "none" => tryNode'[p] \in Node
                          /\ p[2] > count'[p[1]] => try'[p] = "none" /\ ~bound[p]
                          /\ bound[p] => Quiet(p)'
        BY <2>2 DEF AttemptInv
      <3>1. CASE p = o
        BY SMT, <2>k, <2>0, <2>1, <2>3, <3>1
      <3>2. CASE p # o
        <4>1. p[1] \in Stage /\ p[2] \in 1..MaxAttempts
          BY Names
        <4>2. p[2] > count'[p[1]] => p[2] > count[p[1]]
          BY SMT, <1>t, <2>3, <4>1, BoundAssumption, <2>2 DEF TypeOK
        <4> QED BY <1>t, <2>3, <2>4, <3>2, <4>2 DEF AttemptInv
      <3> QED BY <3>1, <3>2
    <2>7. BarrierInv'
      BY SMT, <1>t, <2>2, <2>3, <2>4, <2>5 DEF BarrierInv, Quiet
    <2>8. \A m \in Node : Fences(m)'
      <3> SUFFICES ASSUME NEW m \in Node PROVE Fences(m)'
        OBVIOUS
      <3>1. CASE m = n
        BY <2>3, <3>1 DEF Fences, Fencing
      <3>2. CASE m # n
        BY SMT, <1>t, <2>2, <2>3, <2>5, <3>2 DEF Fences, Quiet
      <3> QED BY <3>1, <3>2
    <2>9. ASSUME NEW m \in Node \ {n}, pc[m] \in Making
          PROVE  Mine(m) \in Op \ {o} /\ Mine(m)' = Mine(m) /\ cur[m] \in Stage
      <3>1. Mine(m) \in Op /\ Mine(m) = <<cur[m], no[m]>> /\ cur[m] \in Stage /\ no[m] <= count[cur[m]]
        BY <1>t, <2>9, Rows DEF Sends
      <3>2. no[m] \in 0..MaxAttempts /\ count[cur[m]] \in 0..MaxAttempts
        BY <1>t, <3>1 DEF TypeOK
      <3>3. Mine(m) # o
        BY SMT, <2>k, <2>o, <2>0, <3>1, <3>2, BoundAssumption
      <3> QED BY <2>3, <3>1, <3>3 DEF Mine
    <2>10. \A m \in Node : Sends(m)'
      <3> SUFFICES ASSUME NEW m \in Node PROVE Sends(m)'
        OBVIOUS
      <3>1. CASE m = n
        <4>1. Mine(n)' = o
          BY <2>o, <2>3 DEF Mine
        <4>2. barrier'[n] # o
          BY <2>5, NameAssumption
        <4> QED BY SMT, <2>1, <2>2, <2>3, <3>1, <4>1, <4>2, <2>k DEF Sends
      <3>2. CASE m # n
        <4>1. Sends(m) /\ pc'[m] = pc[m] /\ no'[m] = no[m] /\ cur'[m] = cur[m]
          BY <1>t, <2>3, <3>2
        <4>2. CASE pc[m] \in Making
          <5>1. Mine(m) \in Op \ {o} /\ Mine(m)' = Mine(m) /\ cur[m] \in Stage
            BY <2>9, <3>2, <4>2
          <5>2. no[m] <= count'[cur[m]]
            <6>1. /\ no[m] <= count[cur[m]] /\ count[cur[m]] <= count'[cur[m]] /\ no[m] \in Nat
                  /\ count[cur[m]] \in Nat /\ count'[cur[m]] \in Nat
              BY SMT, <1>t, <2>2, <2>3, <2>k, <4>1, <4>2, <5>1, BoundAssumption DEF Sends, TypeOK
            <6> QED BY SMT, <6>1
          <5> QED BY <2>2, <2>3, <2>4, <2>5, <3>2, <4>1, <5>1, <5>2 DEF Sends, Quiet
        <4>3. CASE pc[m] \notin Making
          BY <4>1, <4>3 DEF Sends, Making
        <4> QED BY <4>2, <4>3
      <3> QED BY <3>1, <3>2
    <2>11. AbortInv'
      <3> SUFFICES ASSUME NEW p \in Op, try'[p] = "aborted", barrier'[tryNode'[p]] # p PROVE Over(p)'
        BY DEF AbortInv
      <3>1. p # o /\ try[p] = "aborted" /\ tryNode'[p] = tryNode[p]
        BY <2>3
      <3>2. Over(p)
        BY <1>t, <2>2, <3>1 DEF AbortInv, fence
      <3>3. ASSUME NEW m \in Node, pc'[m] = "submit", Mine(m)' = p PROVE FALSE
        BY SMT, <2>o, <2>3, <3>1, <3>2, <3>3 DEF Over, Mine
      <3> QED BY <2>2, <2>4, <3>2, <3>3 DEF Over
    <2> QED BY <2>6, <2>7, <2>8, <2>10, <2>11 DEF FInv
  <1> QED BY <1>1, <1>2

\* The writes to the worker's own attempt: bound to its execution, completed or failed.
\* A barrier stands only for attempts that are over, so none is about the one in hand.
LEMMA FOwn ==
    ASSUME IInv, FInv, NEW n \in Node, pc[n] \in {"bind", "complete", "fail"},
           NEW o \in Op, o = Mine(n),
           \A p \in Op \ {o} : try'[p] = try[p] /\ bound'[p] = bound[p],
           \/ UNCHANGED <<try, bound>>
           \/ try'[o] \in {"succeeded", "failed"} /\ bound'[o] = bound[o]
           \/ pc[n] = "bind" /\ try[o] \in Trying /\ try'[o] = "running" /\ bound'[o] = TRUE,
           UNCHANGED <<tryNode, count, fence, remote>>,
           \/ Return(n)
           \/ Goto(n, "poll") /\ UNCHANGED <<cur, no>>
    PROVE  FInv'
  <1>t. TypeOK /\ AttemptInv /\ BarrierInv /\ AbortInv /\ \A m \in Node : Fences(m) /\ Sends(m)
    BY DEF IInv, FInv
  <1>0. /\ tryNode[o] = n /\ no[n] <= count[cur[n]] /\ o[1] = cur[n] /\ o[2] = no[n]
        /\ no[n] \in 0..MaxAttempts /\ cur[n] \in Stage /\ count[cur[n]] \in 0..MaxAttempts
        /\ (pc[n] = "bind" => Quiet(o))
    <2>1. pc[n] \in Making
      BY DEF Making
    <2>2. Mine(n) = <<cur[n], no[n]>> /\ cur[n] \in Stage
      BY <2>1, Rows
    <2> QED BY SMT, <1>t, <2>1, <2>2 DEF Sends, TypeOK
  <1>1. /\ pc'[n] = "idle" \/ (pc'[n] = "poll" /\ UNCHANGED <<cur, no>>)
        /\ \A m \in Node \ {n} : pc'[m] = pc[m] /\ cur'[m] = cur[m] /\ no'[m] = no[m]
    BY SMT, <1>t DEF Return, Goto, TypeOK
  <1>2. \A p : (Quiet(p)' <=> Quiet(p)) /\ job'[p] = job[p]
    BY DEF Quiet, remote
  <1>3. \A m \in Node : barrier'[m] = barrier[m] /\ barBound'[m] = barBound[m]
    BY DEF fence
  <1>4. AttemptInv'
    <2> SUFFICES ASSUME NEW p \in Op
                 PROVE  /\ try'[p] # "none" => tryNode[p] \in Node
                        /\ p[2] > count[p[1]] => try'[p] = "none" /\ ~bound'[p]
                        /\ bound'[p] => Quiet(p)
      BY <1>2 DEF AttemptInv
    <2>1. CASE p = o
      <3>1. ~(p[2] > count[p[1]])
        BY SMT, <1>0, <2>1, BoundAssumption
      <3> QED BY <1>t, <1>0, <2>1, <3>1 DEF AttemptInv
    <2>2. CASE p # o
      BY <1>t, <2>2 DEF AttemptInv
    <2> QED BY <2>1, <2>2
  <1>5. BarrierInv'
    <2> SUFFICES ASSUME NEW m \in Node, barrier[m] # NoOp
                 PROVE  /\ tryNode[barrier[m]] = m
                        /\ try'[barrier[m]] \notin Trying \cup {"none"}
                        /\ bound'[barrier[m]] => barBound[m]
                        /\ barBound[m] => Quiet(barrier[m])
      BY SMT, <1>2, <1>3 DEF BarrierInv, Quiet
    <2>1. PICK p \in Op : p = barrier[m]
      BY Rows
    <2>2. /\ tryNode[p] = m /\ try[p] \notin Trying \cup {"none"}
          /\ (bound[p] => barBound[m]) /\ (barBound[m] => Quiet(p))
      BY <1>t, <2>1 DEF BarrierInv
    <2>3. try'[p] \notin Trying \cup {"none"} /\ bound'[p] = bound[p]
      BY <2>2 DEF Trying
    <2> QED BY <2>1, <2>2, <2>3
  <1>6. \A m \in Node : Fences(m)'
    <2> SUFFICES ASSUME NEW m \in Node PROVE Fences(m)'
      OBVIOUS
    <2>1. CASE m = n
      BY <1>1, <2>1 DEF Fences, Fencing
    <2>2. CASE m # n
      BY <1>t, <1>1, <1>2, <1>3, <2>2 DEF Fences, Quiet, remote
    <2> QED BY <2>1, <2>2
  <1>7. \A m \in Node : Sends(m)'
    <2> SUFFICES ASSUME NEW m \in Node PROVE Sends(m)'
      OBVIOUS
    <2>1. CASE m = n
      <3>1. Sends(n)
        BY <1>t
      <3> QED BY <1>0, <1>1, <2>1, <3>1 DEF Sends, Making, Mine
    <2>2. CASE m # n
      <3>1. Sends(m) /\ Mine(m)' = Mine(m) /\ pc'[m] = pc[m]
        BY <1>t, <1>1, <2>2 DEF Mine
      <3>2. pc[m] \in Making => Mine(m) \in Op \ {o}
        BY <1>0, <2>2, <3>1, Rows DEF Sends
      <3> QED BY <1>1, <1>2, <1>3, <2>2, <3>1, <3>2 DEF Sends, Quiet, Making, remote
    <2> QED BY <2>1, <2>2
  <1>8. AbortInv'
    <2> SUFFICES ASSUME NEW p \in Op, try'[p] = "aborted", barrier[tryNode[p]] # p PROVE Over(p)'
      BY DEF AbortInv, fence
    <2>1. try[p] = "aborted"
      BY DEF Trying
    <2>2. Over(p)
      BY <1>t, <2>1 DEF AbortInv
    <2>3. ASSUME NEW m \in Node, pc'[m] = "submit", Mine(m)' = p PROVE FALSE
      BY <1>1, <2>2, <2>3 DEF Over, Mine
    <2> QED BY <1>2, <2>2, <2>3 DEF Over
  <1> QED BY <1>4, <1>5, <1>6, <1>7, <1>8 DEF FInv

\* BindStageExecution, CompleteStage and FailStage.
LEMMA FAttempt ==
    ASSUME IInv, FInv, NEW n \in Node, BindStageExecution(n) \/ CompleteStage(n) \/ FailStage(n)
    PROVE  FInv'
  <1>1. pc[n] \in {"bind", "complete", "fail"} /\ UNCHANGED <<tryNode, count, fence, remote>>
    BY DEF BindStageExecution, CompleteStage, FailStage
  <1>2. PICK o \in Op : o = Mine(n)
    BY <1>1, Rows DEF Making
  <1>3. Return(n) \/ (Goto(n, "poll") /\ UNCHANGED <<cur, no>>)
    BY DEF BindStageExecution, CompleteStage, FailStage, local
  <1>4. CASE BindStageExecution(n)
    <2>1. \/ UNCHANGED <<try, bound>>
          \/ /\ try[o] \in Trying /\ try' = [try EXCEPT ![o] = "running"]
             /\ bound' = [bound EXCEPT ![o] = TRUE]
      BY <1>2, <1>4 DEF BindStageExecution
    <2>2. /\ \A p \in Op \ {o} : try'[p] = try[p] /\ bound'[p] = bound[p]
          /\ \/ UNCHANGED <<try, bound>>
             \/ try[o] \in Trying /\ try'[o] = "running" /\ bound'[o] = TRUE
      BY <2>1 DEF IInv, TypeOK
    <2>3. pc[n] = "bind"
      BY <1>4 DEF BindStageExecution
    <2> QED BY <1>1, <1>2, <1>3, <2>2, <2>3, FOwn
  <1>5. CASE CompleteStage(n) \/ FailStage(n)
    <2>1. UNCHANGED bound /\ \E v \in {"succeeded", "failed"} :
                                try' = try \/ try' = [try EXCEPT ![o] = v]
      BY <1>2, <1>5 DEF CompleteStage, FailStage
    <2>2. /\ \A p \in Op \ {o} : try'[p] = try[p] /\ bound'[p] = bound[p]
          /\ \/ UNCHANGED <<try, bound>>
             \/ try'[o] \in {"succeeded", "failed"} /\ bound'[o] = bound[o]
      BY <2>1 DEF IInv, TypeOK
    <2> QED BY <1>1, <1>2, <1>3, <2>2, FOwn
  <1> QED BY <1>4, <1>5

\* RequestAdminCancel puts the barrier up together with the abort, on the node of the
\* one attempt in hand, or is refused when the node has a barrier already.
LEMMA FCancel ==
    ASSUME IInv, FInv, NEW t \in Task, RequestAdminCancel(t)
    PROVE  FInv'
  <1>t. TypeOK /\ TryInv /\ TaskInv /\ AttemptInv /\ BarrierInv /\ AbortInv
        /\ \A m \in Node : Fences(m) /\ Sends(m)
    BY DEF IInv, FInv
  <1>0. UNCHANGED <<count, tryNode, bound, job, late, pc, cur, no>>
    BY DEF RequestAdminCancel, remote, local
  <1>1. \A p : (Quiet(p)' <=> Quiet(p)) /\ job'[p] = job[p]
    BY <1>0 DEF Quiet
  <1>2. CASE TryingIn(t) = {}
    <2>1. UNCHANGED fence
      BY <1>2 DEF RequestAdminCancel
    <2>2. UNCHANGED try
      <3>1. try' = try \/ try' = [o \in Op |-> IF o \in TryingIn(t) THEN "aborted" ELSE try[o]]
        BY <1>2 DEF RequestAdminCancel, FinishStageTaskCancellation
      <3> QED BY <1>t, <1>2, <3>1 DEF TypeOK
    <2>3. PICK M \in SUBSET Node : M = {}
      OBVIOUS
    <2>4. /\ \A m \in Node \ M : pc'[m] = pc[m] /\ cur'[m] = cur[m] /\ no'[m] = no[m]
          /\ \A m \in M : /\ Fences(m)' /\ Sends(m)'
                          /\ pc'[m] = "submit" => try[<<cur'[m], no'[m]>>] # "aborted"
      BY <1>0, <2>3
    <2> HIDE <2>3
    <2> QED BY <1>0, <1>1, <2>1, <2>2, <2>4, Safe
  <1>3. CASE TryingIn(t) # {}
    <2>1. PICK o \in Op : o = Newest(TryingIn(t)) /\ o \in TryingIn(t)
      BY <1>3, NewestExists DEF TryingIn
    <2>2. TryingIn(t) = {o}
      BY <2>1, OneTrying
    <2>3. try[o] \in Trying /\ tryNode[o] \in Node
      BY <1>t, <2>1 DEF TryingIn, AttemptInv, Trying
    <2>4. PICK n \in Node : n = tryNode[o]
      BY <2>3
    <2>5. /\ barrier[n] = NoOp /\ barrier' = [barrier EXCEPT ![n] = o]
          /\ barBound' = [barBound EXCEPT ![n] = bound[o]]
      BY <1>3, <2>1, <2>4 DEF RequestAdminCancel
    <2>6. FinishStageTaskCancellation(t)
      BY <1>3 DEF RequestAdminCancel
    <2>7. /\ try'[o] = "aborted" /\ \A p \in Op \ {o} : try'[p] = try[p]
          /\ barrier'[n] = o /\ barBound'[n] = bound[o]
          /\ \A m \in Node \ {n} : barrier'[m] = barrier[m] /\ barBound'[m] = barBound[m]
      BY <1>t, <2>2, <2>5, <2>6 DEF FinishStageTaskCancellation, TypeOK
    <2>8. AttemptInv'
      <3> SUFFICES ASSUME NEW p \in Op
                   PROVE  /\ try'[p] # "none" => tryNode[p] \in Node
                          /\ p[2] > count[p[1]] => try'[p] = "none" /\ ~bound[p]
                          /\ bound[p] => Quiet(p)
        BY <1>0, <1>1 DEF AttemptInv
      <3>1. CASE p = o
        BY <1>t, <2>3, <3>1 DEF AttemptInv, Trying
      <3>2. CASE p # o
        BY <1>t, <2>7, <3>2 DEF AttemptInv
      <3> QED BY <3>1, <3>2
    <2>9. BarrierInv'
      <3> SUFFICES ASSUME NEW m \in Node, barrier'[m] # NoOp
                   PROVE  /\ tryNode[barrier'[m]] = m
                          /\ try'[barrier'[m]] \notin Trying \cup {"none"}
                          /\ bound[barrier'[m]] => barBound'[m]
                          /\ barBound'[m] => Quiet(barrier[m])'
        BY <1>0 DEF BarrierInv
      <3>1. CASE m = n
        <4>1. bound[o] => Quiet(o)
          BY <1>t DEF AttemptInv
        <4> QED BY <1>0, <2>4, <2>7, <3>1, <4>1 DEF Quiet, Trying
      <3>2. CASE m # n
        <4>1. PICK p \in Op : p = barrier[m]
          BY <2>7, <3>2, Rows
        <4>2. /\ tryNode[p] = m /\ try[p] \notin Trying \cup {"none"}
              /\ (bound[p] => barBound[m]) /\ (barBound[m] => Quiet(p)) /\ barrier'[m] = p
          BY <1>t, <2>7, <3>2, <4>1 DEF BarrierInv
        <4>3. p # o
          BY <2>3, <4>2
        <4> QED BY SMT, <1>0, <2>7, <3>2, <4>2, <4>3 DEF Quiet
      <3> QED BY <3>1, <3>2
    <2>10. \A m \in Node : Fences(m)'
      <3> SUFFICES ASSUME NEW m \in Node PROVE Fences(m)'
        OBVIOUS
      <3>1. CASE m = n
        <4>1. pc[n] \notin Fencing
          BY <1>t, <2>5 DEF Fences
        <4> QED BY <1>0, <3>1, <4>1 DEF Fences, Fencing
      <3>2. CASE m # n
        BY <1>t, <1>0, <2>7, <3>2 DEF Fences, Quiet
      <3> QED BY <3>1, <3>2
    <2>11. \A m \in Node : Sends(m)'
      <3> SUFFICES ASSUME NEW m \in Node PROVE Sends(m)'
        OBVIOUS
      <3>1. Sends(m) /\ Mine(m)' = Mine(m)
        BY <1>t, <1>0 DEF Mine
      <3>2. pc[m] = "submit" => ~(barrier'[m] = Mine(m) /\ barBound'[m])
        BY <2>7, <3>1 DEF Sends
      <3> QED BY <1>0, <3>1, <3>2 DEF Sends, Quiet
    <2>12. AbortInv'
      <3> SUFFICES ASSUME NEW p \in Op, try'[p] = "aborted", barrier'[tryNode[p]] # p PROVE Over(p)'
        BY <1>0 DEF AbortInv
      <3>1. p # o /\ try[p] = "aborted"
        BY <2>4, <2>7
      <3>2. tryNode[p] \in Node
        BY <1>t, <3>1 DEF AttemptInv
      <3>3. barrier[tryNode[p]] # p
        BY <2>5, <2>7, <3>2, NameAssumption
      <3>4. Over(p)
        BY <1>t, <3>1, <3>3 DEF AbortInv
      <3> QED BY <1>0, <1>1, <3>4 DEF Over, Mine
    <2> QED BY <2>8, <2>9, <2>10, <2>11, <2>12 DEF FInv
  <1> QED BY <1>2, <1>3

\* Every action of the orchestrator, its nodes and its callers keeps the fence.
LEMMA FInductive == IInv /\ FInv /\ [Next]_vars => FInv'
  <1> SUFFICES ASSUME IInv, FInv, [Next]_vars PROVE FInv'
    OBVIOUS
  <1>1. ASSUME NEW n \in Node, WorkerStep(n) PROVE FInv'
    BY <1>1, FLook, FQuiet, FCreate, FSubmit, FAttempt, FBarrier DEF WorkerStep
  <1>2. ASSUME NEW n \in Node, WorkerFault(n) PROVE FInv'
    BY <1>2, FQuiet, FSubmit, FBarrier, FOutside DEF WorkerFault
  <1>3. ASSUME NEW t \in Task, RequestAdminCancel(t) PROVE FInv'
    BY <1>3, FCancel
  <1>4. CASE \/ \E x \in Stage : ExpireAbandoned(x) \/ ExpireHeld(x)
             \/ \E o \in Op : ExecutionEnds(o) \/ LateArrives(o)
             \/ UNCHANGED vars
    BY <1>4, FOutside
  <1> QED BY <1>1, <1>2, <1>3, <1>4 DEF Next

\* However a cancel meets claims, submissions, lost answers, crashes and restarts of the
\* node: as long as the cancelled execution runs or may still be started, the barrier
\* stands on its node (RequestAdminCancel, reconcileCancellationBarrier).
THEOREM FencedCancel == Spec => []CancelledIsFenced
  <1>1. FInv => CancelledIsFenced
    BY DEF FInv, AbortInv, Over, Quiet, CancelledIsFenced
  <1> QED BY <1>1, FStart, FInductive, Invariance, PTL DEF Spec
=============================================================================
