--------------------------- MODULE NodeFleetProofs ---------------------------
(* For any nodes, connections, versions and faults: a node never has two        *)
(* runtimes, a task sent by an official or tk2sd slot stays where the node's    *)
(* row points, and a result that only a node holds stays reachable.             *)
EXTENDS NodeFleet, FiniteSetTheorems, TLAPS

Url   == NfUrls \cup {CHOOSE u \in NfUrls : TRUE}
Proto == NfProtocols \cup {CHOOSE p \in NfProtocols : TRUE}
Slot  == {"idle", "claim", "leased", "work"}

Row     == [v : Nat, on : BOOLEAN, gone : BOOLEAN, url : Url, proto : Proto]
Task    == [is : {"none", "active", "retained"}, url : Url, proto : Proto]
Runtime == [v : Nat, on : BOOLEAN, url : Url, proto : Proto, live : BOOLEAN, slot : Slot]
Reg     == [at : {"idle", "stop", "start"}, stops : SUBSET [n : NfNodes, deleted : BOOLEAN],
            starts : SUBSET [n : NfNodes, row : Row]]

NfTypeOK ==
    /\ nfRow \in [NfNodes -> Row]
    /\ nfTask \in [NfNodes -> Task]
    /\ nfEntry \in [NfNodes -> Nat]
    /\ nfRun \in [NfNodes -> SUBSET Runtime]
    /\ nfReg \in Reg

\* A pass takes an entry out before it stops the runtime, and starts one only
\* after every stop.
PassInv ==
    /\ nfReg.at = "idle" => nfReg.stops = {} /\ nfReg.starts = {}
    /\ nfReg.at = "start" => nfReg.stops = {}
    /\ \A s \in nfReg.stops : nfEntry[s.n] = 0
    /\ \A s \in nfReg.starts : nfEntry[s.n] = 0 /\ s.row.v > 0
    /\ \A s, u \in nfReg.stops : s.n = u.n => s = u
    /\ \A s, u \in nfReg.starts : s.n = u.n => s = u

\* A node without an entry has a runtime only while the pass is stopping it.
RunInv ==
    /\ \A n \in NfNodes : \A r, q \in nfRun[n] : r = q
    /\ \A n \in NfNodes : nfEntry[n] = 0 /\ (\A s \in nfReg.stops : s.n # n) => nfRun[n] = {}

\* What a runtime or a pass has read of the row; an equal version is an equal row.
Agrees(row, x) == x.v <= row.v /\ (x.v = row.v => x.url = row.url /\ x.proto = row.proto)

ReadInv ==
    /\ \A n \in NfNodes : \A r \in nfRun[n] : Agrees(nfRow[n], r)
    /\ \A s \in nfReg.starts : Agrees(nfRow[s.n], s.row)

\* A slot at work has the node's task, of its own protocol; only h3 slots lease.
Working(task, runs) ==
    \A r \in runs : /\ r.slot = "work" => task.is = "active" /\ task.proto = r.proto
                    /\ r.slot = "leased" => r.proto = "h3"

WorkInv == \A n \in NfNodes : Working(nfTask[n], nfRun[n])

NfInv ==
    NfTypeOK /\ PassInv /\ RunInv /\ ReadInv /\ WorkInv /\ SentWhereRowPoints /\ RetainedResultReachable

-----------------------------------------------------------------------------

\* The initial state: no node.
LEMMA InitInv == NfInit => NfInv
<1> SUFFICES ASSUME NfInit PROVE NfInv
  OBVIOUS
<1>1. NfNoRow \in Row /\ NfNoTask \in Task /\ NfIdle \in Reg /\ NfNoTask.is = "none"
  BY DEF NfNoRow, NfNoTask, NfIdle, Row, Task, Reg, Url, Proto
<1>2. NfTypeOK
  BY <1>1 DEF NfInit, NfTypeOK
<1>3. \A n \in NfNodes : nfTask[n].is = "none" /\ nfRun[n] = {}
  BY <1>1 DEF NfInit
<1>4. nfReg.stops = {} /\ nfReg.starts = {} /\ nfReg.at = "idle"
  BY DEF NfInit, NfIdle
<1> QED BY <1>2, <1>3, <1>4 DEF NfInv, PassInv, RunInv, ReadInv, WorkInv, Working,
           SentWhereRowPoints, RetainedResultReachable

\* A save gives the row a new version: what was read of it before is outdated.
LEMMA SaveInv ==
  ASSUME NfInv, NEW n \in NfNodes, NEW new \in Row, new.v = nfRow[n].v + 1,
         nfRow' = [nfRow EXCEPT ![n] = new], UNCHANGED <<nfTask, nfEntry, nfRun, nfReg>>,
         nfTask[n].is = "active" /\ nfTask[n].proto # "h3" =>
             ~new.gone /\ new.url = nfRow[n].url /\ new.proto = nfRow[n].proto,
         nfTask[n].is = "retained" => ~new.gone /\ new.url = nfRow[n].url /\ new.proto = nfRow[n].proto
  PROVE  NfInv'
<1>1. NfTypeOK'
  BY DEF NfInv, NfTypeOK
<1>2. PassInv' /\ RunInv' /\ WorkInv'
  BY DEF NfInv, PassInv, RunInv, WorkInv
<1>3. ASSUME NEW m \in NfNodes, NEW x, x.v \in Nat, Agrees(nfRow[m], x) PROVE Agrees(nfRow[m], x)'
  <2>1. nfRow[m].v \in Nat /\ nfRow'[m] = IF m = n THEN new ELSE nfRow[m]
    BY DEF NfInv, NfTypeOK, Row
  <2> QED BY <1>3, <2>1 DEF Agrees
<1>4. ReadInv'
  <2>1. ASSUME NEW m \in NfNodes, NEW r \in nfRun[m] PROVE Agrees(nfRow[m], r)'
    BY <1>3 DEF NfInv, NfTypeOK, Runtime, ReadInv
  <2>2. ASSUME NEW s \in nfReg.starts PROVE Agrees(nfRow[s.n], s.row)'
    <3>1. s.n \in NfNodes /\ s.row.v \in Nat /\ Agrees(nfRow[s.n], s.row)
      BY DEF NfInv, NfTypeOK, Reg, Row, ReadInv
    <3> QED BY <1>3, <3>1
  <2> QED BY <2>1, <2>2 DEF ReadInv
<1>5. \A m \in NfNodes : nfRow'[m] = IF m = n THEN new ELSE nfRow[m]
  BY DEF NfInv, NfTypeOK
<1>6. SentWhereRowPoints' /\ RetainedResultReachable'
  BY <1>5 DEF NfInv, NfTypeOK, Row, SentWhereRowPoints, RetainedResultReachable, NfListed
<1> QED BY <1>1, <1>2, <1>4, <1>6 DEF NfInv

\* A node is created (CreateModelNode).
LEMMA CreateInv == ASSUME NfInv, NEW n \in NfNodes, createNode(n) PROVE NfInv'
<1>1. PICK input \in NfInputs : CreateModelNode(n, input)
  BY DEF createNode
<1> DEFINE new == [v |-> 1, on |-> input.on, gone |-> FALSE, url |-> input.url, proto |-> input.proto]
<1>2. new \in Row /\ new.v = nfRow[n].v + 1
  BY <1>1 DEF CreateModelNode, NfInputs, Row, Url, Proto
<1>3. ~(nfTask[n].is = "active" /\ nfTask[n].proto # "h3") /\ nfTask[n].is # "retained"
  BY <1>1 DEF CreateModelNode, NfInv, SentWhereRowPoints, RetainedResultReachable, NfListed
<1> QED BY <1>1, <1>2, <1>3, SaveInv DEF CreateModelNode, createNode

\* A node is changed (UpdateModelNode).
LEMMA UpdateInv == ASSUME NfInv, NEW n \in NfNodes, updateNode(n) PROVE NfInv'
<1>1. PICK input \in NfInputs, rekey \in BOOLEAN : NfUpdateModelNode(n, input, rekey)
  BY DEF updateNode
<1> DEFINE row == nfRow[n]
           new == [v |-> row.v + 1, on |-> input.on, gone |-> FALSE, url |-> input.url, proto |-> input.proto]
<1>2. row \in Row
  BY DEF NfInv, NfTypeOK
<1>3. new \in Row /\ new.v = row.v + 1 /\ ~new.gone
  BY <1>2 DEF NfInputs, Row, Url, Proto
<1>4. nfTask[n].is = "active" => new.url = row.url /\ new.proto = row.proto
  BY <1>1 DEF NfUpdateModelNode, activeTaskCount, allowedWhileActive, sameNodeConnection
<1>5. nfTask[n].is = "retained" => new.url = row.url /\ new.proto = row.proto
  BY <1>1 DEF NfUpdateModelNode, retainedRemoteResults, NfInv, RetainedResultReachable
<1>6. nfRow' = [nfRow EXCEPT ![n] = new]
  BY <1>1 DEF NfUpdateModelNode
<1> HIDE DEF new
<1> QED BY <1>3, <1>4, <1>5, <1>6, SaveInv DEF updateNode

\* A node is deleted (DeleteModelNode).
LEMMA DeleteInv == ASSUME NfInv, NEW n \in NfNodes, deleteNode(n) PROVE NfInv'
<1> DEFINE new == [v |-> nfRow[n].v + 1, on |-> FALSE, gone |-> TRUE,
                   url |-> nfRow[n].url, proto |-> nfRow[n].proto]
<1>1. nfRow[n] \in Row
  BY DEF NfInv, NfTypeOK
<1>2. new \in Row /\ new.v = nfRow[n].v + 1
  BY <1>1 DEF Row
<1>3. nfTask[n].is # "active" /\ nfTask[n].is # "retained"
  BY DEF deleteNode, DeleteModelNode, activeTaskCount, retainedRemoteResults
<1>4. nfRow' = [nfRow EXCEPT ![n] = new]
  BY <1>1 DEF deleteNode, DeleteModelNode, Row, NfInv, NfTypeOK
<1> HIDE DEF new
<1> QED BY <1>2, <1>3, <1>4, SaveInv DEF deleteNode

-----------------------------------------------------------------------------

\* One pass reads the rows and takes the outdated entries out (reconcile).
LEMMA ReadsInv == ASSUME NfInv, ReconcileReads PROVE NfInv'
<1> DEFINE stops == {n \in NfNodes : NfOutdated(n)}
           kept == {n \in NfNodes : nfEntry[n] # 0} \ stops
           starts == {n \in NfNodes \ kept : NfListed(n)}
           S == {[n |-> n, deleted |-> ~NfListed(n)] : n \in stops}
           T == {[n |-> n, row |-> nfRow[n]] : n \in starts}
<1>1. /\ nfReg' = [at |-> "stop", stops |-> S, starts |-> T]
      /\ nfEntry' = [n \in NfNodes |-> IF n \in stops THEN 0 ELSE nfEntry[n]]
      /\ UNCHANGED <<nfRow, nfTask, nfRun>>
  BY DEF ReconcileReads
<1>2. nfReg.stops = {}
  BY DEF ReconcileReads, NfInv, PassInv
<1>3. S \in SUBSET [n : NfNodes, deleted : BOOLEAN]
  <2>1. \A n \in stops : [n |-> n, deleted |-> ~NfListed(n)] \in [n : NfNodes, deleted : BOOLEAN]
    BY Zenon DEF NfListed
  <2> QED BY <2>1, Zenon
<1>4. T \in SUBSET [n : NfNodes, row : Row]
  BY DEF NfInv, NfTypeOK
<1>5. \A s \in S : s.n \in stops
  OBVIOUS
<1>6. \A s \in T : s.n \in starts /\ s.row = nfRow[s.n]
  OBVIOUS
<1>7. \A s, u \in S : s.n = u.n => s = u
  OBVIOUS
<1>8. \A s, u \in T : s.n = u.n => s = u
  OBVIOUS
<1>9. \A n \in starts : nfEntry'[n] = 0 /\ nfRow[n].v > 0
  BY <1>1 DEF NfListed
<1>10. ASSUME NEW n \in stops PROVE nfEntry'[n] = 0 /\ \E s \in S : s.n = n
  <2> DEFINE s == [n |-> n, deleted |-> ~NfListed(n)]
  <2>1. s \in S /\ s.n = n
    BY Zenon
  <2>2. nfEntry'[n] = 0
    BY <1>1
  <2> QED BY <2>1, <2>2, Zenon
<1>11. nfReg'.at = "stop" /\ nfReg'.stops = S /\ nfReg'.starts = T
  BY <1>1
<1>12. NfTypeOK'
  BY <1>1, <1>3, <1>4 DEF NfInv, NfTypeOK, Reg
<1>13. PassInv'
  BY <1>5, <1>6, <1>7, <1>8, <1>9, <1>10, <1>11 DEF PassInv
<1>14. RunInv'
  <2>1. ASSUME NEW n \in NfNodes, nfEntry'[n] = 0, \A s \in S : s.n # n PROVE nfRun[n] = {}
    <3>1. nfEntry[n] = 0
      BY <1>1, <1>10, <2>1
    <3> QED BY <1>2, <3>1 DEF NfInv, RunInv
  <2> QED BY <1>1, <1>11, <2>1 DEF NfInv, RunInv
<1>15. ReadInv'
  <2>1. \A s \in T : s.n \in NfNodes /\ Agrees(nfRow[s.n], s.row)
    BY <1>6 DEF Agrees, NfInv, NfTypeOK, Row
  <2> QED BY <1>1, <1>11, <2>1 DEF NfInv, ReadInv, Agrees
<1>16. WorkInv' /\ SentWhereRowPoints' /\ RetainedResultReachable'
  BY <1>1 DEF NfInv, WorkInv, Working, SentWhereRowPoints, RetainedResultReachable, NfListed
<1> QED BY <1>12, <1>13, <1>14, <1>15, <1>16 DEF NfInv

\* A cancelled runtime is the same runtime but for its context.
LEMMA CancelledRuntime ==
  ASSUME NEW r \in Runtime
  PROVE  LET c == [r EXCEPT !.live = FALSE]
         IN c \in Runtime /\ c.v = r.v /\ c.url = r.url /\ c.proto = r.proto /\ c.slot = r.slot
  BY Zenon DEF Runtime

\* Runtime.Stop cancels the context.
LEMMA CancelsInv == ASSUME NfInv, NEW s \in nfReg.stops, StopCancels(s) PROVE NfInv'
<1> DEFINE c(r) == [r EXCEPT !.live = FALSE]
<1>1. s.n \in NfNodes
  BY DEF NfInv, NfTypeOK, Reg
<1>2. /\ nfRun' = [nfRun EXCEPT ![s.n] = {c(r) : r \in nfRun[s.n]}]
      /\ UNCHANGED <<nfRow, nfTask, nfEntry, nfReg>>
  BY DEF StopCancels
<1>3. \A r \in nfRun[s.n] : c(r) \in Runtime /\ c(r).v = r.v /\ c(r).url = r.url
                            /\ c(r).proto = r.proto /\ c(r).slot = r.slot
  BY <1>1, CancelledRuntime DEF NfInv, NfTypeOK
<1> HIDE DEF c
<1>4. \A m \in NfNodes : nfRun'[m] = IF m = s.n THEN {c(r) : r \in nfRun[m]} ELSE nfRun[m]
  BY <1>1, <1>2 DEF NfInv, NfTypeOK
<1>5. NfTypeOK'
  BY <1>1, <1>2, <1>3 DEF NfInv, NfTypeOK
<1>6. PassInv'
  BY <1>2 DEF NfInv, PassInv
<1>7. RunInv'
  BY <1>2, <1>4 DEF NfInv, RunInv
<1>8. ReadInv'
  BY <1>2, <1>3, <1>4 DEF NfInv, ReadInv, Agrees
<1>9. WorkInv'
  BY <1>2, <1>3, <1>4 DEF NfInv, WorkInv, Working
<1>10. SentWhereRowPoints' /\ RetainedResultReachable'
  BY <1>2 DEF NfInv, SentWhereRowPoints, RetainedResultReachable, NfListed
<1> QED BY <1>5, <1>6, <1>7, <1>8, <1>9, <1>10 DEF NfInv

\* Stop returns once the slot and the probe have: the node has no runtime.
LEMMA ReturnsInv == ASSUME NfInv, NEW s \in nfReg.stops, StopReturns(s) PROVE NfInv'
<1>1. s.n \in NfNodes /\ nfReg.at = "stop"
  BY DEF NfInv, NfTypeOK, Reg, StopReturns
<1>2. nfRun' = [nfRun EXCEPT ![s.n] = {}] /\ UNCHANGED <<nfRow, nfTask, nfEntry>>
  BY DEF StopReturns, NfWaited
<1>3. nfReg' \in Reg /\ nfReg'.at = "stop" /\ nfReg'.stops = nfReg.stops \ {s} /\ nfReg'.starts = nfReg.starts
  BY <1>1 DEF StopReturns, NfInv, NfTypeOK, Reg
<1>4. \A m \in NfNodes : nfRun'[m] = IF m = s.n THEN {} ELSE nfRun[m]
  BY <1>1, <1>2 DEF NfInv, NfTypeOK
<1>5. NfTypeOK'
  BY <1>2, <1>3 DEF NfInv, NfTypeOK
<1>6. PassInv'
  BY <1>2, <1>3 DEF NfInv, PassInv
<1>7. RunInv'
  <2>1. ASSUME NEW m \in NfNodes, nfEntry[m] = 0, \A u \in nfReg.stops \ {s} : u.n # m
        PROVE  nfRun'[m] = {}
    BY <1>4, <2>1 DEF NfInv, RunInv
  <2> QED BY <1>2, <1>3, <1>4, <2>1 DEF NfInv, RunInv
<1>8. ReadInv'
  BY <1>2, <1>3, <1>4 DEF NfInv, ReadInv, Agrees
<1>9. WorkInv'
  BY <1>2, <1>4 DEF NfInv, WorkInv, Working
<1>10. SentWhereRowPoints' /\ RetainedResultReachable'
  BY <1>2 DEF NfInv, SentWhereRowPoints, RetainedResultReachable, NfListed
<1> QED BY <1>5, <1>6, <1>7, <1>8, <1>9, <1>10 DEF NfInv

\* A step that only moves the pass on, dropping starts it is done with.
LEMMA PassMoves ==
  ASSUME NfInv, nfReg' \in Reg, nfReg'.stops = {}, nfReg.stops = {},
         nfReg'.starts \subseteq nfReg.starts,
         nfReg'.at = "idle" => nfReg'.starts = {},
         UNCHANGED <<nfRow, nfTask, nfEntry, nfRun>>
  PROVE  NfInv'
<1>1. NfTypeOK'
  BY DEF NfInv, NfTypeOK
<1>2. PassInv' /\ RunInv' /\ ReadInv'
  BY DEF NfInv, PassInv, RunInv, ReadInv, Agrees
<1>3. WorkInv' /\ SentWhereRowPoints' /\ RetainedResultReachable'
  BY DEF NfInv, WorkInv, Working, SentWhereRowPoints, RetainedResultReachable, NfListed
<1> QED BY <1>1, <1>2, <1>3 DEF NfInv

\* All runtimes have stopped.
LEMMA StopsDoneInv == ASSUME NfInv, StopsDone PROVE NfInv'
<1>1. nfReg.stops = {} /\ nfReg \in Reg
  BY DEF StopsDone, NfInv, NfTypeOK
<1>2. CASE nfReg.starts = {}
  <2>1. nfReg' = [at |-> "idle", stops |-> {}, starts |-> {}]
    BY <1>2 DEF StopsDone, NfIdle
  <2>2. nfReg' \in Reg /\ nfReg'.stops = {} /\ nfReg'.starts = {}
    BY <2>1 DEF Reg
  <2> QED BY <1>1, <2>2, PassMoves DEF StopsDone
<1>3. CASE nfReg.starts # {}
  <2>1. nfReg' = [nfReg EXCEPT !.at = "start"]
    BY <1>3 DEF StopsDone
  <2>2. nfReg' \in Reg /\ nfReg'.stops = {} /\ nfReg'.starts = nfReg.starts /\ nfReg'.at = "start"
    BY <1>1, <2>1 DEF Reg
  <2> QED BY <1>1, <2>2, PassMoves DEF StopsDone
<1> QED BY <1>2, <1>3

\* The pass after one start.
LEMMA Started ==
  ASSUME NfInv, NEW s \in nfReg.starts, nfReg.at = "start", nfReg' = NfStarted(s)
  PROVE  /\ nfReg' \in Reg /\ nfReg'.stops = {} /\ nfReg.stops = {}
         /\ nfReg'.starts = nfReg.starts \ {s} /\ (nfReg'.at = "idle" => nfReg'.starts = {})
<1>1. nfReg \in Reg /\ nfReg.stops = {}
  BY DEF NfInv, NfTypeOK, PassInv
<1>2. CASE nfReg.starts \ {s} = {}
  <2>1. nfReg' = [at |-> "idle", stops |-> {}, starts |-> {}]
    BY <1>2 DEF NfStarted, NfIdle
  <2> QED BY <1>1, <1>2, <2>1 DEF Reg
<1>3. CASE nfReg.starts \ {s} # {}
  <2>1. nfReg' = [nfReg EXCEPT !.starts = nfReg.starts \ {s}]
    BY <1>3 DEF NfStarted
  <2> QED BY <1>1, <2>1 DEF Reg
<1> QED BY <1>2, <1>3

\* A start that fails leaves the node without entry and runtime.
LEMMA FailsInv == ASSUME NfInv, NEW s \in nfReg.starts, StartFails(s) PROVE NfInv'
  BY Started, PassMoves DEF StartFails

\* A runtime starts where there is none.
LEMMA RunsInv == ASSUME NfInv, NEW s \in nfReg.starts, StartRuns(s) PROVE NfInv'
<1>1. s.n \in NfNodes /\ s.row \in Row /\ nfReg.at = "start" /\ nfReg' = NfStarted(s)
  BY DEF NfInv, NfTypeOK, Reg, StartRuns
<1>2. /\ nfReg' \in Reg /\ nfReg'.stops = {} /\ nfReg.stops = {}
      /\ nfReg'.starts = nfReg.starts \ {s} /\ (nfReg'.at = "idle" => nfReg'.starts = {})
  BY <1>1, Started
<1>3. nfEntry[s.n] = 0 /\ s.row.v > 0 /\ nfRun[s.n] = {} /\ Agrees(nfRow[s.n], s.row)
  BY <1>1, <1>2 DEF NfInv, PassInv, RunInv, ReadInv
<1>4. PICK slot \in {"idle", "work"} :
                           /\ nfRun' = [nfRun EXCEPT ![s.n] = nfRun[s.n] \cup {NfRuntime(s, slot)}]
                           /\ slot = "work" => /\ nfTask[s.n].is = "active"
                                               /\ nfTask[s.n].proto = s.row.proto
  BY DEF StartRuns, startNodeAPI, startOfficialV2, startTK2SD
<1> DEFINE r == NfRuntime(s, slot)
<1>5. r \in Runtime /\ r.v = s.row.v /\ r.url = s.row.url /\ r.proto = s.row.proto /\ r.slot = slot
  BY <1>1 DEF NfRuntime, Runtime, Row, Slot
<1> HIDE DEF r
<1>6. \A m \in NfNodes : nfRun'[m] = IF m = s.n THEN {r} ELSE nfRun[m]
  BY <1>1, <1>3, <1>4 DEF NfInv, NfTypeOK, r
<1>7. nfEntry' = [nfEntry EXCEPT ![s.n] = s.row.v] /\ UNCHANGED <<nfRow, nfTask>>
  BY DEF StartRuns
<1>8. NfTypeOK'
  BY <1>1, <1>2, <1>4, <1>5, <1>7 DEF NfInv, NfTypeOK, r, Row
<1>9. PassInv'
  <2>1. ASSUME NEW u \in nfReg'.starts PROVE nfEntry'[u.n] = 0 /\ u.row.v > 0
    BY <1>1, <1>2, <1>7 DEF NfInv, NfTypeOK, PassInv, Reg
  <2> QED BY <1>2, <2>1 DEF NfInv, PassInv
<1>10. RunInv'
  <2>1. ASSUME NEW m \in NfNodes, nfEntry'[m] = 0 PROVE nfRun'[m] = {}
    BY <1>1, <1>2, <1>3, <1>6, <1>7, <2>1 DEF NfInv, NfTypeOK, RunInv, Row
  <2> QED BY <1>6, <2>1 DEF NfInv, RunInv
<1>11. ReadInv'
  BY <1>1, <1>2, <1>3, <1>5, <1>6, <1>7 DEF NfInv, ReadInv, Agrees
<1>12. WorkInv'
  BY <1>4, <1>5, <1>6, <1>7 DEF NfInv, WorkInv, Working
<1>13. SentWhereRowPoints' /\ RetainedResultReachable'
  BY <1>7 DEF NfInv, SentWhereRowPoints, RetainedResultReachable, NfListed
<1> QED BY <1>8, <1>9, <1>10, <1>11, <1>12, <1>13 DEF NfInv

\* A restart forgets entries, runtimes and the pass.
LEMMA RestartInv == ASSUME NfInv, NfRestart PROVE NfInv'
<1>1. /\ \A n \in NfNodes : nfRun'[n] = {}
      /\ nfReg' = [at |-> "idle", stops |-> {}, starts |-> {}] /\ UNCHANGED <<nfRow, nfTask>>
  BY DEF NfRestart, NfIdle
<1>2. NfTypeOK'
  BY <1>1 DEF NfRestart, NfInv, NfTypeOK, Reg
<1>3. PassInv' /\ RunInv' /\ ReadInv' /\ WorkInv'
  BY <1>1 DEF PassInv, RunInv, ReadInv, WorkInv, Working
<1>4. SentWhereRowPoints' /\ RetainedResultReachable'
  BY <1>1 DEF NfInv, SentWhereRowPoints, RetainedResultReachable, NfListed
<1> QED BY <1>2, <1>3, <1>4 DEF NfInv

-----------------------------------------------------------------------------

\* A slot moves: the node's only runtime is the same but for its slot.
LEMMA SlotMoves ==
  ASSUME NfInv, NEW n \in NfNodes, NEW r \in nfRun[n], NEW at \in Slot, NfSlotTo(n, r, at)
  PROVE  /\ nfRun' \in [NfNodes -> SUBSET Runtime]
         /\ \A m \in NfNodes \ {n} : nfRun'[m] = nfRun[m]
         /\ \A q \in nfRun'[n] : /\ q.v = r.v /\ q.url = r.url /\ q.proto = r.proto /\ q.slot = at
                                 /\ q = [r EXCEPT !.slot = at]
<1>1. r \in Runtime /\ nfRun[n] = {r}
  BY DEF NfInv, NfTypeOK, RunInv
<1> DEFINE q == [r EXCEPT !.slot = at]
<1>2. q \in Runtime /\ q.v = r.v /\ q.url = r.url /\ q.proto = r.proto /\ q.slot = at
  BY <1>1 DEF Runtime
<1> HIDE DEF q
<1>3. nfRun' = [nfRun EXCEPT ![n] = {q}]
  BY <1>1 DEF NfSlotTo, q
<1>4. \A m \in NfNodes : nfRun'[m] = IF m = n THEN {q} ELSE nfRun[m]
  BY <1>3 DEF NfInv, NfTypeOK
<1>5. nfRun' \in [NfNodes -> SUBSET Runtime]
  BY <1>2, <1>3 DEF NfInv, NfTypeOK
<1> QED BY <1>2, <1>4, <1>5 DEF q

\* What a slot's step must say of the task at its node.
LEMMA SlotInv ==
  ASSUME NfInv, NEW n \in NfNodes, NEW r \in nfRun[n], NEW at \in Slot, NfSlotTo(n, r, at),
         NEW task \in Task, nfTask' = [nfTask EXCEPT ![n] = task],
         UNCHANGED <<nfRow, nfEntry, nfReg>>,
         at = "work" => task.is = "active" /\ task.proto = r.proto,
         at = "leased" => r.proto = "h3",
         task.is = "active" /\ task.proto # "h3" =>
             NfListed(n) /\ nfRow[n].url = task.url /\ nfRow[n].proto = task.proto,
         task.is = "retained" => NfListed(n) /\ nfRow[n].url = task.url /\ nfRow[n].proto = "tk2sd"
  PROVE  NfInv'
<1>1. /\ nfRun' \in [NfNodes -> SUBSET Runtime]
      /\ \A m \in NfNodes \ {n} : nfRun'[m] = nfRun[m]
      /\ \A q \in nfRun'[n] : /\ q.v = r.v /\ q.url = r.url /\ q.proto = r.proto /\ q.slot = at
                              /\ q = [r EXCEPT !.slot = at]
  BY SlotMoves
<1>2. \A m \in NfNodes : nfTask'[m] = IF m = n THEN task ELSE nfTask[m]
  BY DEF NfInv, NfTypeOK
<1>3. NfTypeOK'
  BY <1>1 DEF NfInv, NfTypeOK
<1>4. PassInv'
  BY DEF NfInv, PassInv
<1>5. RunInv'
  <2>1. \A m \in NfNodes : \A p, q \in nfRun'[m] : p = q
    BY <1>1 DEF NfInv, RunInv
  <2>2. ASSUME NEW m \in NfNodes, nfEntry[m] = 0, \A s \in nfReg.stops : s.n # m PROVE nfRun'[m] = {}
    <3>1. nfRun[m] = {}
      BY <2>2 DEF NfInv, RunInv
    <3> QED BY <1>1, <3>1
  <2> QED BY <2>1, <2>2 DEF RunInv
<1>6. ReadInv'
  <2>1. ASSUME NEW m \in NfNodes, NEW q \in nfRun'[m] PROVE Agrees(nfRow[m], q)
    BY <1>1 DEF NfInv, ReadInv, Agrees
  <2> QED BY <2>1 DEF NfInv, ReadInv, Agrees
<1>7. WorkInv'
  <2>1. ASSUME NEW m \in NfNodes, NEW q \in nfRun'[m]
        PROVE  /\ q.slot = "work" => nfTask'[m].is = "active" /\ nfTask'[m].proto = q.proto
               /\ q.slot = "leased" => q.proto = "h3"
    <3>1. CASE m = n
      BY <1>1, <1>2, <3>1
    <3>2. CASE m # n
      BY <1>1, <1>2, <3>2 DEF NfInv, WorkInv, Working
    <3> QED BY <3>1, <3>2
  <2> QED BY <2>1 DEF WorkInv, Working
<1>8. SentWhereRowPoints' /\ RetainedResultReachable'
  BY <1>2 DEF NfInv, SentWhereRowPoints, RetainedResultReachable, NfListed
<1> QED BY <1>3, <1>4, <1>5, <1>6, <1>7, <1>8 DEF NfInv

\* The task at a node satisfies what SlotInv asks of it.
LEMMA TaskAgrees ==
  ASSUME NfInv, NEW n \in NfNodes
  PROVE  /\ nfTask[n] \in Task /\ nfTask = [nfTask EXCEPT ![n] = nfTask[n]]
         /\ nfTask[n].is = "active" /\ nfTask[n].proto # "h3" =>
              NfListed(n) /\ nfRow[n].url = nfTask[n].url /\ nfRow[n].proto = nfTask[n].proto
         /\ nfTask[n].is = "retained" =>
              NfListed(n) /\ nfRow[n].url = nfTask[n].url /\ nfRow[n].proto = "tk2sd"
  BY DEF NfInv, NfTypeOK, SentWhereRowPoints, RetainedResultReachable

\* A step that leaves the task as it is.
LEMMA StaysInv ==
  ASSUME NfInv, NEW n \in NfNodes, NEW r \in nfRun[n], NEW at \in Slot, NfSlotTo(n, r, at),
         UNCHANGED <<nfRow, nfTask, nfEntry, nfReg>>,
         at = "work" => nfTask[n].is = "active" /\ nfTask[n].proto = r.proto,
         at = "leased" => r.proto = "h3"
  PROVE  NfInv'
<1>1. PICK task \in Task : task = nfTask[n]
  BY TaskAgrees
<1>2. /\ nfTask' = [nfTask EXCEPT ![n] = task]
      /\ at = "work" => task.is = "active" /\ task.proto = r.proto
      /\ task.is = "active" /\ task.proto # "h3" =>
            NfListed(n) /\ nfRow[n].url = task.url /\ nfRow[n].proto = task.proto
      /\ task.is = "retained" => NfListed(n) /\ nfRow[n].url = task.url /\ nfRow[n].proto = "tk2sd"
  BY <1>1, TaskAgrees
<1> QED BY <1>2, SlotInv

\* A slot that resumes, looks, finds nothing or is abandoned leaves the task.
LEMMA IdleStepsInv ==
  ASSUME NfInv, NEW n \in NfNodes, NEW r \in nfRun[n],
         SlotResumes(n, r) \/ SlotLooks(n, r) \/ SlotEmpty(n, r) \/ SlotAbandons(n, r)
  PROVE  NfInv'
<1>1. UNCHANGED <<nfRow, nfTask, nfEntry, nfReg>>
  BY DEF SlotResumes, SlotLooks, SlotEmpty, SlotAbandons
<1>2. PICK at \in Slot : /\ NfSlotTo(n, r, at)
                         /\ at = "work" => nfTask[n].is = "active" /\ nfTask[n].proto = r.proto
                         /\ at # "leased"
  BY DEF SlotResumes, SlotLooks, SlotEmpty, SlotAbandons, activeTaskCount, Slot
<1> QED BY <1>1, <1>2, StaysInv

\* A task is dispatched by a slot whose version is the row's, or by an h3 slot.
LEMMA DispatchInv ==
  ASSUME NfInv, NEW n \in NfNodes, NEW r \in nfRun[n],
         NfDispatch(n, r), NfSlotTo(n, r, "work"), UNCHANGED <<nfRow, nfEntry, nfReg>>,
         r.proto = "h3" \/ NfCurrentRow(n, r)
  PROVE  NfInv'
<1> DEFINE task == [is |-> "active", url |-> r.url, proto |-> r.proto]
<1>1. r \in Runtime /\ Agrees(nfRow[n], r)
  BY DEF NfInv, NfTypeOK, ReadInv
<1>2. task \in Task /\ task.is = "active" /\ task.proto = r.proto /\ task.url = r.url
  BY <1>1 DEF Runtime, Task
<1>3. task.proto # "h3" => NfListed(n) /\ nfRow[n].url = task.url /\ nfRow[n].proto = task.proto
  BY <1>1, <1>2 DEF NfCurrentRow, Agrees
<1>4. nfTask' = [nfTask EXCEPT ![n] = task]
  BY DEF NfDispatch
<1> HIDE DEF task
<1>5. "work" \in Slot
  BY DEF Slot
<1> QED BY <1>2, <1>3, <1>4, <1>5, SlotInv

\* ClaimNextOfficial and ClaimRemote dispatch; ClaimStage leases.
LEMMA ClaimsInv == ASSUME NfInv, NEW n \in NfNodes, NEW r \in nfRun[n], SlotClaims(n, r) PROVE NfInv'
<1>1. CASE r.proto # "h3" /\ NfCurrentRow(n, r) /\ NfDispatch(n, r) /\ NfSlotTo(n, r, "work")
  BY <1>1, DispatchInv DEF SlotClaims
<1>2. CASE r.proto = "h3" /\ NfSlotTo(n, r, "leased") /\ UNCHANGED nfTask
  <2>1. UNCHANGED <<nfRow, nfTask, nfEntry, nfReg>> /\ "leased" \in Slot /\ "leased" # "work"
    BY <1>2 DEF SlotClaims, Slot
  <2> QED BY <1>2, <2>1, StaysInv
<1> QED BY <1>1, <1>2 DEF SlotClaims

\* CreateStageAttempt dispatches without a look at the version; its slot is h3.
LEMMA AttemptsInv == ASSUME NfInv, NEW n \in NfNodes, NEW r \in nfRun[n], SlotAttempts(n, r) PROVE NfInv'
<1>1. r.proto = "h3"
  BY DEF SlotAttempts, NfInv, WorkInv, Working
<1> QED BY <1>1, DispatchInv DEF SlotAttempts

\* The task ends; a tk2sd result stays where the row points.
LEMMA FinishesInv == ASSUME NfInv, NEW n \in NfNodes, NEW r \in nfRun[n], SlotFinishes(n, r) PROVE NfInv'
<1>1. nfTask[n] \in Task /\ nfTask[n].is = "active" /\ nfTask[n].proto = r.proto
  BY TaskAgrees DEF SlotFinishes, NfInv, WorkInv, Working
<1>2. "idle" \in Slot /\ "idle" # "work" /\ "idle" # "leased" /\ NfSlotTo(n, r, "idle")
      /\ UNCHANGED <<nfRow, nfEntry, nfReg>>
  BY DEF SlotFinishes, Slot
<1>3. CASE nfTask' = [nfTask EXCEPT ![n] = NfNoTask]
  <2>1. NfNoTask \in Task /\ NfNoTask.is # "active" /\ NfNoTask.is # "retained"
    BY DEF NfNoTask, Task, Url, Proto
  <2> QED BY <1>2, <1>3, <2>1, SlotInv
<1>4. CASE r.proto = "tk2sd" /\ nfTask' = [nfTask EXCEPT ![n].is = "retained"]
  <2> DEFINE task == [nfTask[n] EXCEPT !.is = "retained"]
  <2>1. task \in Task /\ task.is = "retained" /\ task.url = nfTask[n].url /\ task.is # "active"
    BY <1>1 DEF Task
  <2>2. nfTask' = [nfTask EXCEPT ![n] = task]
    BY <1>4
  <2>3. NfListed(n) /\ nfRow[n].url = task.url /\ nfRow[n].proto = "tk2sd"
    BY <1>1, <1>4, <2>1, TaskAgrees
  <2> HIDE DEF task
  <2> QED BY <1>2, <2>1, <2>2, <2>3, SlotInv
<1> QED BY <1>3, <1>4 DEF SlotFinishes

\* A retained result is released.
LEMMA ReleaseInv == ASSUME NfInv, NEW n \in NfNodes, NfRelease(n) PROVE NfInv'
<1>1. nfTask' = [nfTask EXCEPT ![n] = NfNoTask] /\ nfTask[n].is = "retained"
      /\ UNCHANGED <<nfRow, nfEntry, nfRun, nfReg>>
  BY DEF NfRelease
<1>2. NfNoTask \in Task /\ NfNoTask.is = "none"
  BY DEF NfNoTask, Task, Url, Proto
<1>3. \A m \in NfNodes : nfTask'[m] = IF m = n THEN NfNoTask ELSE nfTask[m]
  BY <1>1 DEF NfInv, NfTypeOK
<1>4. NfTypeOK'
  BY <1>1, <1>2 DEF NfInv, NfTypeOK
<1>5. PassInv' /\ RunInv' /\ ReadInv'
  BY <1>1 DEF NfInv, PassInv, RunInv, ReadInv, Agrees
<1>6. WorkInv' /\ SentWhereRowPoints' /\ RetainedResultReachable'
  BY <1>1, <1>2, <1>3 DEF NfInv, WorkInv, Working, SentWhereRowPoints, RetainedResultReachable, NfListed
<1> QED BY <1>4, <1>5, <1>6 DEF NfInv

\* A step that touches none of the variables of the invariant.
LEMMA SameInv == ASSUME NfInv, UNCHANGED <<nfRow, nfTask, nfEntry, nfRun, nfReg>> PROVE NfInv'
  BY DEF NfInv, NfTypeOK, PassInv, RunInv, ReadInv, Agrees, WorkInv, Working, SentWhereRowPoints,
     RetainedResultReachable, NfListed

-----------------------------------------------------------------------------

\* Every step preserves the invariant.
LEMMA StepInv == NfInv /\ [NfNext]_nfVars => NfInv'
<1> SUFFICES ASSUME NfInv, [NfNext]_nfVars PROVE NfInv'
  OBVIOUS
<1>1. CASE UNCHANGED nfVars
  BY <1>1, SameInv DEF nfVars
<1>2. ASSUME NEW n \in NfNodes, createNode(n) \/ updateNode(n) \/ deleteNode(n) \/ NfRelease(n) PROVE NfInv'
  BY <1>2, CreateInv, UpdateInv, DeleteInv, ReleaseInv
<1>3. ASSUME NEW n \in NfNodes, NfProbe(n) PROVE NfInv'
  BY <1>3, SameInv DEF NfProbe
<1>4. ASSUME NEW n \in NfNodes, NfSlotStep(n) PROVE NfInv'
  <2>1. PICK r \in nfRun[n] :
          \/ SlotResumes(n, r) \/ SlotLooks(n, r) \/ SlotClaims(n, r) \/ SlotEmpty(n, r)
          \/ SlotAttempts(n, r) \/ SlotFinishes(n, r) \/ SlotAbandons(n, r)
    BY <1>4 DEF NfSlotStep
  <2> QED BY <2>1, IdleStepsInv, ClaimsInv, AttemptsInv, FinishesInv
<1>5. CASE NfReconcile
  BY <1>5, ReadsInv, StopsDoneInv, CancelsInv, ReturnsInv, RunsInv, FailsInv DEF NfReconcile
<1>6. CASE NfRestart
  BY <1>6, RestartInv
<1> QED BY <1>1, <1>2, <1>3, <1>4, <1>5, <1>6 DEF NfNext

\* The inductive invariant of registry, runtimes, slots and rows.
THEOREM FleetInvariant == NfSpec => []NfInv
  BY InitInv, StepInv, PTL DEF NfSpec

\* A node never has two runtimes, because reconcile waits for Stop and keeps no
\* entry of what it has not stopped (Registry.reconcile, Runtime.Stop).
THEOREM SingleRuntime == NfSpec => []OneRuntimePerNode
<1>1. NfInv => OneRuntimePerNode
  <2> SUFFICES ASSUME NfInv, NEW n \in NfNodes PROVE Cardinality(nfRun[n]) <= 1
    BY DEF OneRuntimePerNode
  <2>1. CASE nfRun[n] = {}
    BY <2>1, FS_EmptySet
  <2>2. CASE nfRun[n] # {}
    <3>1. PICK r : r \in nfRun[n]
      BY <2>2
    <3>2. nfRun[n] = {r}
      BY <3>1 DEF NfInv, RunInv
    <3> QED BY <3>2, FS_Singleton
  <2> QED BY <2>1, <2>2
<1> QED BY <1>1, FleetInvariant, PTL

\* An active official or tk2sd task is where the node's row points, and a result
\* that only its node has is never cut off by an edit or a deletion
\* (UpdateModelNode, ClaimNextOfficial, ClaimRemote, retainedRemoteResults).
THEOREM ReachableWork == NfSpec => []WorkStaysReachable
<1>1. NfInv => WorkStaysReachable
  BY DEF NfInv, WorkStaysReachable
<1> QED BY <1>1, FleetInvariant, PTL

=============================================================================
