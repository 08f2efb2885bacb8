---------------------------- MODULE ModelRouting ----------------------------
(***************************************************************************)
(* Which protocol a model's tasks take: the model catalog of every node,   *)
(* the route of every model, the routing revision that every change of     *)
(* either moves on, the discovery that refreshes catalogs in the           *)
(* background, and the two-step routing of a new task (decide, then insert *)
(* under the revision decided on).                                         *)
(*                                                                         *)
(* A catalog is discovered over the network (tk2sd) or entered by hand.  A *)
(* discovered one is valid for a while after its last success.  Successes  *)
(* are numbered by mrClock; those up to mrHorizon have run out.  What a    *)
(* model can do (ModelCapability) is left out, and so are the health of    *)
(* the nodes and their deletion, which NodeFleet has.                      *)
(***************************************************************************)
EXTENDS Integers, FiniteSets

CONSTANTS
    MrNodes,        \* node ids, created and still disabled
    MrDiscovered,   \* the nodes whose protocol discovers its models
    MrProto,        \* the protocol of each node
    MrModels,       \* model ids
    MrConns,        \* connections (URL and key) of the discovered nodes
    MrCallers,      \* callers of Inventory.Refresh: the ticker, an administrator
    MrTicker,       \* the one that is the ticker
    MrMaxSaves,     \* bound: saves of one node
    MrMaxRev,       \* bound: the routing revision
    MrMaxClock,     \* bound: successful discoveries
    MrMaxTasks      \* bound: tasks created

MrNoKey == [n |-> 0, v |-> 0, rev |-> 0]
MrNoProto == ""

ASSUME MrAssumption ==
    /\ MrDiscovered \subseteq MrNodes
    /\ \A n \in MrNodes : MrProto[n] # MrNoProto
    /\ {MrMaxSaves, MrMaxRev, MrMaxClock, MrMaxTasks} \subseteq Nat

VARIABLES
    mrNode,     \* row: enabled, version, connection
    mrCat,      \* node_model_catalogs and node_models
    mrRoute,    \* model_routes
    mrRev,      \* routing_state.revision
    mrSave,     \* the update handler between its reads and its save
    mrCall,     \* the callers of Refresh
    mrReq,      \* a create request
    mrMade,     \* tasks created
    mrClock, mrHorizon

mrVars == <<mrNode, mrCat, mrRoute, mrRev, mrSave, mrCall, mrReq, mrMade, mrClock, mrHorizon>>

MrItem == [on |-> FALSE, here |-> FALSE]
MrNoRoute == [proto |-> MrNoProto, mode |-> "none", v |-> 0]
MrConn0 == CHOOSE c \in MrConns : TRUE
MrNoReq == [at |-> "idle", model |-> CHOOSE m \in MrModels : TRUE, proto |-> MrNoProto, rev |-> 0]
MrNoCall == [at |-> "idle", key |-> MrNoKey, conn |-> MrConn0]
MrNoSave == [n |-> 0]

MrInit ==
    /\ mrNode = [n \in MrNodes |-> [on |-> FALSE, v |-> 1, conn |-> MrConn0]]
    /\ mrCat = [n \in MrNodes |-> [rev |-> 1, conn |-> MrConn0, from |-> MrConn0, success |-> 0,
                                   items |-> [m \in MrModels |-> MrItem]]]
    /\ mrRoute = [m \in MrModels |-> MrNoRoute]
    /\ mrRev = 1
    /\ mrSave = MrNoSave
    /\ mrCall = [c \in MrCallers |-> MrNoCall]
    /\ mrReq = MrNoReq
    /\ mrMade = 0 /\ mrClock = 0 /\ mrHorizon = 0

-----------------------------------------------------------------------------
\* A discovered catalog that never succeeded, or too long ago, offers nothing.
MrValid(n, cat) == n \in MrDiscovered => cat.success > mrHorizon

\* catalogHasEnabled
catalogHasEnabled(n, cat) ==
    MrValid(n, cat) /\ \E m \in MrModels : cat.items[m].on /\ cat.items[m].here

\* The nodes routeWith lists for a model, valid catalog or not.
MrCandidates(m, node, cat) == {n \in MrNodes : node[n].on /\ cat[n].items[m].on /\ cat[n].items[m].here}

MrFirstRoute(m, node, cat) ==
    LET protos == {MrProto[n] : n \in MrCandidates(m, node, cat)}
    IN IF protos = {} THEN MrNoRoute
       ELSE IF Cardinality(protos) = 1
            THEN [proto |-> CHOOSE p \in protos : TRUE, mode |-> "auto", v |-> 1]
            ELSE [proto |-> MrNoProto, mode |-> "unresolved", v |-> 1]

MAlwaysResync(m, node, cat) == MrFirstRoute(m, node, cat)

\* syncModelRoutes: the first time a model is open anywhere it gets its route.
MrSynced(m, node, cat) ==
    IF mrRoute[m] # MrNoRoute THEN mrRoute[m] ELSE MrFirstRoute(m, node, cat)

syncModelRoutes(node, cat) == [m \in MrModels |-> MrSynced(m, node, cat)]

-----------------------------------------------------------------------------
(* updateNode: prepareNodeCatalog (with its discovery) and UpdateModelNode. *)

\* What prepareNodeCatalog builds from the catalog it read, the models offered
\* by a discovery and the administrator's selection ({} and none are different).
\* Models that are not offered keep their flag in their row, except that a selection
\* made on the old catalog closes them.
MrChosen(items, offered, picked, sel, old) ==
    [m \in MrModels |->
        IF m \in offered THEN [on |-> IF picked THEN m \in sel ELSE items[m].on, here |-> TRUE]
        ELSE [on |-> items[m].on /\ ~(picked /\ old), here |-> FALSE]]

MrOpen(items) == {m \in MrModels : items[m].here}

\* Preview asks the node: it may offer any models, none included.
MrDiscovers == SUBSET MrModels

prepareNodeCatalog(n) ==
    /\ mrSave = MrNoSave /\ mrNode[n].v <= MrMaxSaves /\ mrRev < MrMaxRev
    /\ \E on \in BOOLEAN, conn \in IF n \in MrDiscovered THEN MrConns ELSE {MrConn0},
          picked \in BOOLEAN, sel \in SUBSET MrModels :
         LET old == mrCat[n]
             needsDiscovery == n \in MrDiscovered /\
                 (conn # mrNode[n].conn \/ (~mrNode[n].on /\ on /\ ~MrValid(n, old)))
         IN \E offered \in IF needsDiscovery THEN MrDiscovers
                           ELSE IF n \notin MrDiscovered /\ picked THEN {sel}
                           ELSE {MrOpen(old.items)} :
              LET new == [rev |-> old.rev, conn |-> conn,
                          from |-> IF needsDiscovery THEN conn ELSE old.from,
                          success |-> IF needsDiscovery THEN mrClock + 1 ELSE old.success,
                          items |-> MrChosen(old.items, offered, picked, sel,
                                             n \in MrDiscovered /\ ~needsDiscovery)]
              IN /\ (picked => sel \subseteq offered) /\ (~picked => sel = {})
                 /\ on => catalogHasEnabled(n, new)
                 /\ needsDiscovery => mrClock < MrMaxClock
                 /\ mrSave' = [n |-> n, v |-> mrNode[n].v, on |-> on, cat |-> new]
                 /\ mrClock' = IF needsDiscovery THEN mrClock + 1 ELSE mrClock
    /\ UNCHANGED <<mrNode, mrCat, mrRoute, mrRev, mrCall, mrReq, mrMade, mrHorizon>>

\* writeNodeCatalog keeps the newer of the two successes of one connection.
MPlainWrite(n, new) == new.success
MrFresher(n, new) ==
    IF n \in MrDiscovered /\ mrCat[n].conn = new.conn /\ mrCat[n].success > new.success
    THEN mrCat[n].success ELSE new.success

\* UpdateModelNode, writeNodeCatalog: under the version and the revision read.
UpdateModelNode ==
    /\ mrSave # MrNoSave
    /\ LET n == mrSave.n
           new == [mrSave.cat EXCEPT !.success = MrFresher(n, mrSave.cat), !.rev = @ + 1]
           node == [mrNode EXCEPT ![n] = [on |-> mrSave.on, v |-> mrSave.v + 1, conn |-> new.conn]]
           cat == [mrCat EXCEPT ![n] = new]
       IN \/ /\ mrNode[n].v = mrSave.v /\ mrCat[n].rev = mrSave.cat.rev
             /\ mrSave.on => catalogHasEnabled(n, new)
             /\ mrRev < MrMaxRev
             /\ mrNode' = node /\ mrCat' = cat
             /\ mrRoute' = syncModelRoutes(node, cat)
             /\ mrRev' = mrRev + 1
          \/ /\ \/ mrNode[n].v # mrSave.v \/ mrCat[n].rev # mrSave.cat.rev
                \/ (mrSave.on /\ ~catalogHasEnabled(n, new)) \/ mrRev = MrMaxRev
             /\ UNCHANGED <<mrNode, mrCat, mrRoute, mrRev>>
    /\ mrSave' = MrNoSave
    /\ UNCHANGED <<mrCall, mrReq, mrMade, mrClock, mrHorizon>>

-----------------------------------------------------------------------------
(* Inventory.Refresh: one discovery per node, version and revision at a    *)
(* time; a caller that finds one under way waits for its result.           *)

\* The ticker goes over the enabled nodes; an administrator may ask for any.
MrDue(c) == IF c = MrTicker THEN {n \in MrDiscovered : mrNode[n].on} ELSE MrDiscovered

RefreshBegins(c) ==
    /\ mrCall[c].at = "idle" /\ mrClock < MrMaxClock
    /\ \E n \in MrDue(c) :
         LET key == [n |-> n, v |-> mrNode[n].v, rev |-> mrCat[n].rev]
             flying == \E d \in MrCallers : mrCall[d].at = "lead" /\ mrCall[d].key = key
         IN mrCall' = [mrCall EXCEPT ![c] =
                [at |-> IF flying THEN "follow" ELSE "lead", key |-> key, conn |-> mrNode[n].conn]]
    /\ UNCHANGED <<mrNode, mrCat, mrRoute, mrRev, mrSave, mrReq, mrMade, mrClock, mrHorizon>>

\* The leader's end, whatever it is, is also its followers'.
MrLanded(c) == [d \in MrCallers |->
    IF d = c \/ (mrCall[d].at = "follow" /\ mrCall[d].key = mrCall[c].key) THEN MrNoCall ELSE mrCall[d]]

\* RefreshModelCatalog saves only over the row and the catalog the leader read.
MOverAnyRow(key) == TRUE
MrSameRow(key) ==
    /\ mrNode[key.n].v = key.v /\ mrCat[key.n].rev = key.rev
    /\ mrCat[key.n].conn = mrNode[key.n].conn

\* A model keeps the administrator's choice; one never seen before stays closed.
MOpensNew(items, m, offered) == [on |-> items[m].on \/ m \in offered, here |-> m \in offered]
MrRefreshed(items, m, offered) == [on |-> items[m].on, here |-> m \in offered]

RefreshModelCatalog(c) ==
    /\ mrCall[c].at = "lead"
    /\ LET key == mrCall[c].key
           n == key.n
           old == mrCat[n]
       IN \E offered \in MrDiscovers :
            LET items == [m \in MrModels |-> MrRefreshed(old.items, m, offered)]
                changed == items # old.items
                cat == [mrCat EXCEPT ![n] = [rev |-> IF changed THEN old.rev + 1 ELSE old.rev,
                            conn |-> old.conn, from |-> mrCall[c].conn,
                            success |-> mrClock + 1, items |-> items]]
            IN /\ MrSameRow(key) /\ mrClock < MrMaxClock
               /\ changed => mrRev < MrMaxRev
               /\ mrCat' = cat
               /\ mrClock' = mrClock + 1
               /\ mrRoute' = IF changed THEN syncModelRoutes(mrNode, cat) ELSE mrRoute
               /\ mrRev' = IF changed THEN mrRev + 1 ELSE mrRev
    /\ mrCall' = MrLanded(c)
    /\ UNCHANGED <<mrNode, mrSave, mrReq, mrMade, mrHorizon>>

\* The discovery fails, is cancelled, or the row has moved on: nothing is saved
\* but the attempt.
RefreshFails(c) ==
    /\ mrCall[c].at = "lead"
    /\ mrCall' = MrLanded(c)
    /\ UNCHANGED <<mrNode, mrCat, mrRoute, mrRev, mrSave, mrReq, mrMade, mrClock, mrHorizon>>

MrExpire ==
    /\ mrHorizon < mrClock
    /\ mrHorizon' \in (mrHorizon + 1)..mrClock
    /\ UNCHANGED <<mrNode, mrCat, mrRoute, mrRev, mrSave, mrCall, mrReq, mrMade, mrClock>>

\* BindModelRoute: the administrator's choice among the protocols on offer, under
\* the route version and routing revision of the page it was made on.
BindModelRoute(m) ==
    /\ mrRoute[m] # MrNoRoute /\ mrRev < MrMaxRev
    /\ \E n \in MrCandidates(m, mrNode, mrCat) :
         mrRoute' = [mrRoute EXCEPT ![m] = [proto |-> MrProto[n], mode |-> "manual", v |-> @.v + 1]]
    /\ mrRev' = mrRev + 1
    /\ UNCHANGED <<mrNode, mrCat, mrSave, mrCall, mrReq, mrMade, mrClock, mrHorizon>>

-----------------------------------------------------------------------------
(* A create request: Service.Resolve, then prepareTaskRouting inside Create. *)

\* A route in use: not unresolved, and with no second protocol unless by choice.
MrUnambiguous(m) ==
    /\ mrRoute[m].proto # MrNoProto
    /\ mrRoute[m].mode = "manual" \/
       \A n \in MrCandidates(m, mrNode, mrCat) : MrProto[n] = mrRoute[m].proto

MrServes(m, proto) == \E n \in MrCandidates(m, mrNode, mrCat) :
    MrProto[n] = proto /\ MrValid(n, mrCat[n])

\* GetModelRoute reads the route and the revision in one transaction.
ResolveReads(m) ==
    /\ mrReq.at = "idle" /\ mrMade < MrMaxTasks
    /\ MrUnambiguous(m)
    /\ mrReq' = [at |-> "nodes", model |-> m, proto |-> mrRoute[m].proto, rev |-> mrRev]
    /\ UNCHANGED <<mrNode, mrCat, mrRoute, mrRev, mrSave, mrCall, mrMade, mrClock, mrHorizon>>

\* Then it reads the nodes and their catalogs; the inputs are prepared after that.
ResolvePicks ==
    /\ mrReq.at = "nodes"
    /\ mrReq' = IF MrServes(mrReq.model, mrReq.proto) THEN [mrReq EXCEPT !.at = "create"] ELSE MrNoReq
    /\ UNCHANGED <<mrNode, mrCat, mrRoute, mrRev, mrSave, mrCall, mrMade, mrClock, mrHorizon>>

MAnyRevision(rev) == TRUE
MrSameRevision(rev) == mrRev = rev

prepareTaskRouting ==
    /\ mrReq.at = "create"
    /\ \/ /\ MrSameRevision(mrReq.rev) /\ MrServes(mrReq.model, mrReq.proto)
          /\ mrMade' = mrMade + 1
       \/ /\ ~(MrSameRevision(mrReq.rev) /\ MrServes(mrReq.model, mrReq.proto))
          /\ mrMade' = mrMade
    /\ mrReq' = MrNoReq
    /\ UNCHANGED <<mrNode, mrCat, mrRoute, mrRev, mrSave, mrCall, mrClock, mrHorizon>>

MrNext ==
    \/ \E n \in MrNodes : prepareNodeCatalog(n)
    \/ UpdateModelNode
    \/ \E c \in MrCallers : RefreshBegins(c) \/ RefreshModelCatalog(c) \/ RefreshFails(c)
    \/ MrExpire
    \/ \E m \in MrModels : BindModelRoute(m) \/ ResolveReads(m)
    \/ ResolvePicks \/ prepareTaskRouting

-----------------------------------------------------------------------------
\* A task is inserted only along the route its model has at that moment, while
\* the route is unambiguous and an enabled node of that protocol serves the model
\* from a valid catalog, whatever changed since the request was routed.
TaskTakesCurrentRoute ==
    [][mrMade' > mrMade => /\ MrUnambiguous(mrReq.model)
                           /\ mrRoute[mrReq.model].proto = mrReq.proto
                           /\ MrServes(mrReq.model, mrReq.proto)]_mrVars

\* A save never takes back the success a refresh recorded while the save was being
\* prepared, so that it cannot make a catalog run out that is still good.
SuccessNeverForgotten ==
    [][\A n \in MrNodes : mrCat'[n].conn = mrCat[n].conn
                            => mrCat'[n].success >= mrCat[n].success]_mrVars

\* A node's catalog belongs to its connection: it carries the row's connection,
\* and its models were discovered there, even if the connection was saved anew
\* while a discovery was under way at the old one.
CatalogOfThisConnection ==
    \A n \in MrDiscovered : mrCat[n].conn = mrNode[n].conn /\ mrCat[n].from = mrCat[n].conn

\* No model opens by itself: it takes a save of the node to open one, whatever the
\* refreshes find, lose and find again.
OnlySavesOpenModels ==
    [][\A n \in MrNodes, m \in MrModels :
          ~mrCat[n].items[m].on /\ mrCat'[n].items[m].on => mrNode'[n].v > mrNode[n].v]_mrVars

\* A route once given moves only by BindModelRoute: a second protocol makes an
\* automatic route ambiguous and never redirects it.
RouteMovesByChoice ==
    [][\A m \in MrModels : mrRoute[m] # MrNoRoute /\ mrRoute'[m] # mrRoute[m]
          => mrRoute'[m].mode = "manual" /\ mrRoute'[m].v = mrRoute[m].v + 1]_mrVars

\* A catalog is kept as it was found: of the node's own connection, with its last
\* success, and open only as far as an administrator has opened it
\* (RefreshModelCatalog, prepareNodeCatalog, UpdateModelNode).
CatalogIsKept == []CatalogOfThisConnection /\ SuccessNeverForgotten /\ OnlySavesOpenModels

\* Tasks take the route of the moment, and a route moves only by an administrator's
\* choice (prepareTaskRouting, BindModelRoute).
RouteIsFollowed == TaskTakesCurrentRoute /\ RouteMovesByChoice
=============================================================================
