--------------------------- MODULE SchemaMigration ---------------------------
(* How Open brings a database file of any age to the current schema            *)
(* (internal/store/sqlite/store.go, migration_v23.go, migrations/).            *)
(*                                                                             *)
(* A start runs three transactions one after the other on the pool's only      *)
(* connection: adopt the database of the routing feature branch, apply the     *)
(* numbered scripts, rebuild the tasks and give each of them a route.  Foreign *)
(* keys are off while a transaction runs and are checked before it commits.    *)
(* Any statement may fail and the process may die at any point.                *)
(*                                                                             *)
(* A database is the set of schema changes it really contains ("features"),    *)
(* the versions its ledger lists, its user_version, the limits its task table  *)
(* puts on a task, whether some foreign key dangles, and one task of an older  *)
(* release with what the migration decides about it.                           *)
EXTENDS Integers, FiniteSets, FiniteSetsExt

CONSTANTS
    SmLatest,      \* latestSchemaVersion: the version of the routing schema
    SmNodes,       \* the rows of model_service_nodes
    SmProto,       \* [SmNodes -> protocol_version]
    SmOld,         \* an upstream_id that names no row
    SmMaxFaults    \* failed statements and crashes

ASSUME SmAssumption ==
    /\ SmLatest \in Nat /\ SmLatest > 2 /\ SmOld \notin SmNodes
    /\ SmMaxFaults \in Nat /\ IsFiniteSet(SmNodes)

VARIABLES
    smFile,    \* the committed database
    smWork,    \* the database as the open transaction sees it
    smPc,      \* "new", "down", the transaction Open is at, "serving" or "refused"
    smIn,      \* a transaction is open on the connection
    smAt,      \* the position in the plan of applyMigrations
    smBad,     \* the transaction's body returned an error
    smFk,      \* PRAGMA foreign_keys of the pooled connection
    smOrig,    \* originalFK: what it was before the open transaction
    smOn,      \* the enabled nodes
    smFaults

smVars == <<smFile, smWork, smPc, smIn, smAt, smBad, smFk, smOrig, smOn, smFaults>>

\* The scripts of the plan; the routing schema is not among them.
SmPlan == 1..(SmLatest - 1)

SmKnown == {"h3-node-v1", "legacy-gradio-v1", "minimax-v2"}

\* Tries of the task's stages and barriers left by a cancellation: the node and
\* whether work may still be there.
SmTries == [node : SmNodes, open : BOOLEAN]

\* A task of an older release.  mark: a job, an event, a baseline, a slot or a
\* started attempt is recorded; config: the H3 profile was frozen into it;
\* parts: the roles its request's content has, next to one text.  The last three
\* matter to a task of which nothing was sent, and vary only there.
SmLegacyTasks ==
    {t \in [status : {"queued", "running", "ended"}, node : SmNodes \cup {SmOld, "none"},
            mark : BOOLEAN, tries : {{}} \cup {{x} : x \in SmTries},
            config : BOOLEAN, scenario : {"t2va", "i2va"}, parts : SUBSET {"first", "reference"}] :
        /\ t.status = "running" => t.node # "none" \/ t.tries # {}
        /\ t.status # "queued" \/ t.node # "none" \/ t.mark \/ t.tries # {}
           => t.config /\ t.parts = {} /\ t.scenario = "t2va"}

SmNoTask == [status |-> "none"]

\* The limits the older task table puts on resolution and duration.
SmDatabase(ledger, features, user, limits, broken, t) ==
    [ledger |-> ledger, features |-> features, user |-> user, limits |-> limits,
     broken |-> broken, task |-> t, route |-> "none", protocol |-> "", model |-> "none"]

\* What a file can be when the program is started on it: empty, of an earlier
\* or the current release, of the release before the ledger recorded its first
\* version, of the feature branch (its version SmLatest - 1 is the routing
\* schema), or of a newer release.
SmFiles(t, broken) ==
    {SmDatabase({}, {}, 0, "h3", FALSE, SmNoTask)}
    \cup {SmDatabase(1..v, 1..v, v, IF v = SmLatest THEN "open" ELSE "h3", broken, t) : v \in 1..SmLatest}
    \cup {SmDatabase({}, {1}, 0, "h3", broken, t)}
    \cup {SmDatabase(1..(SmLatest - 1), (1..(SmLatest - 2)) \cup {SmLatest}, SmLatest - 1, "open", broken, t)}
    \cup {SmDatabase(1..(SmLatest + 1), 1..(SmLatest + 1), SmLatest + 1, "open", broken, t)}

\* Before the release is installed over a database.
SmInit ==
    /\ smFile = SmDatabase({}, {}, 0, "h3", FALSE, SmNoTask) /\ smOn = {}
    /\ smWork = smFile /\ smPc = "new" /\ smIn = FALSE /\ smAt = 1 /\ smBad = FALSE
    /\ smFk = TRUE /\ smOrig = TRUE /\ smFaults = 0

SmMaxOf(S) == Max(S \cup {0})

-----------------------------------------------------------------------------
(* What becomes of a task.                                                     *)

\* The content parts decide the scenario; mixing frames and references is not
\* a request.
migrationV23ValidateRequest(t) ==
    /\ t.parts # {"first", "reference"}
    /\ t.scenario = IF t.parts = {"first"} THEN "i2va" ELSE IF t.parts = {} THEN "t2va" ELSE "r2va"

\* Model, duration and resolution are those of the older releases; only an H3
\* node asks for a frozen profile.
migrationV23Supports(n, t) ==
    /\ SmProto[n] \in SmKnown
    /\ SmProto[n] = "h3-node-v1" => t.config

\* Something says the task may have been handed to a node.
SmEvidence(t) == t.node # "none" \/ t.mark \/ t.tries # {}

\* The places that may still hold its work.
SmHolders(t) == ({t.node} \ {"none"}) \cup {x.node : x \in {y \in t.tries : y.open}}

SmUnknown(t) == \E n \in SmHolders(t) : n \notin SmNodes \/ SmProto[n] \notin SmKnown

SmProtocols(t) == {SmProto[n] : n \in {m \in SmHolders(t) \cap SmNodes : SmProto[m] \in SmKnown}}

SmEligible(t, on) ==
    {SmProto[n] : n \in {m \in on : migrationV23Supports(m, t) /\ migrationV23ValidateRequest(t)}}

\* A plausible slip: holders the table does not know are passed over.
MIgnoresUnknown(t, on) ==
    LET ps == SmProtocols(t) IN
    IF Cardinality(ps) = 1
    THEN [route |-> "ready", protocol |-> CHOOSE p \in ps : TRUE]
    ELSE IF ps = {} /\ t.status = "queued" /\ Cardinality(SmEligible(t, on)) = 1
    THEN [route |-> "ready", protocol |-> CHOOSE p \in SmEligible(t, on) : TRUE]
    ELSE [route |-> "migration_blocked", protocol |-> ""]

\* A queued task of which nothing was ever sent takes the one protocol that can
\* serve it; a sent one takes the protocol of its holders, or is blocked.
backfillV23Task(t, on) ==
    LET ps == SmProtocols(t)
        fresh == ~SmEvidence(t) /\ t.status = "queued"
    IN  IF fresh /\ Cardinality(SmEligible(t, on)) = 1
        THEN [route |-> "ready", protocol |-> CHOOSE p \in SmEligible(t, on) : TRUE]
        ELSE IF Cardinality(ps) = 1 /\ ~SmUnknown(t)
        THEN [route |-> "ready", protocol |-> CHOOSE p \in ps : TRUE]
        ELSE [route |-> IF t.status = "ended" THEN "legacy_unknown"
                        ELSE IF fresh THEN "awaiting_route" ELSE "migration_blocked",
              protocol |-> ""]

backfillV23Tasks(w) ==
    IF w.task = SmNoTask THEN w
    ELSE LET d == backfillV23Task(w.task, smOn) IN [w EXCEPT !.route = d.route, !.protocol = d.protocol]

\* The task table is written anew, its rows and columns kept, the limits on
\* resolution and duration opened.
rebuildV23Tasks(w) == [w EXCEPT !.limits = "open"]

\* Every node of a known protocol gets a catalog with the one old model; the
\* model's route is set when the enabled ones agree on a protocol.
backfillV23Catalogs(w) ==
    LET ps == {SmProto[n] : n \in {m \in smOn : SmProto[m] \in SmKnown}} IN
    [w EXCEPT !.model = IF Cardinality(ps) = 1 THEN CHOOSE p \in ps : TRUE ELSE "unresolved"]

-----------------------------------------------------------------------------
(* The transactions.                                                           *)

\* A file of a newer release is not touched.
checkMigrationVersion(w) == SmMaxOf(w.ledger \cup {w.user}) <= SmLatest

\* Ends a start: Open closes the pool, and with it the connection.
SmStop(pc) ==
    /\ smPc' = pc /\ smIn' = FALSE /\ smBad' = FALSE /\ smAt' = 1 /\ smFk' = TRUE
    /\ smWork' = smFile /\ smOrig' = TRUE

\* The release is installed over one of them.
SmInstall ==
    /\ smPc = "new" /\ smPc' = "down"
    /\ \E t \in SmLegacyTasks, b \in BOOLEAN : smFile' \in SmFiles(t, b)
    /\ smOn' \in SUBSET SmNodes /\ smWork' = smFile'
    /\ UNCHANGED <<smIn, smAt, smBad, smFk, smOrig, smFaults>>

\* Open connects; the DSN turns foreign keys on.
Open ==
    /\ smPc = "down"
    /\ smPc' = "adopt" /\ smFk' = TRUE
    /\ UNCHANGED <<smFile, smWork, smIn, smAt, smBad, smOrig, smOn, smFaults>>

\* migrationConnection: foreign keys off, BEGIN IMMEDIATE, the version check.
migrationConnection ==
    /\ smPc \in {"adopt", "apply", "v23"} /\ ~smIn
    /\ smIn' = TRUE /\ smOrig' = smFk /\ smFk' = FALSE /\ smWork' = smFile /\ smAt' = 1
    /\ smBad' = ~checkMigrationVersion(smFile)
    /\ UNCHANGED <<smFile, smPc, smOn, smFaults>>

\* A plausible slip: the version is recorded, the missing script is not run.
MAdoptRecordsOnly(w) == [w EXCEPT !.ledger = @ \cup {SmLatest}, !.user = SmLatest]

\* The feature branch's database has the routing tables and no version SmLatest:
\* it lacks only the script this line of releases calls SmLatest - 1.
adopted(w) == [w EXCEPT !.features = @ \cup {SmLatest - 1}, !.ledger = @ \cup {SmLatest}, !.user = SmLatest]

\* smAt tells a body that is done: the plan is at its end.
SmBody == smIn /\ ~smBad /\ smAt <= SmLatest

SmBodyDone == smAt' = SmLatest + 1 /\ UNCHANGED <<smFile, smPc, smIn, smFk, smOrig, smOn, smFaults>>

adoptDevelopmentRoutingV22 ==
    /\ smPc = "adopt" /\ SmBody
    /\ LET branch == SmLatest \in smWork.features /\ SmLatest \notin smWork.ledger
           agrees == smWork.user = SmLatest - 1 /\ SmMaxOf(smWork.ledger) = SmLatest - 1
       IN  /\ smBad' = (branch /\ ~agrees)
           /\ smWork' = IF branch /\ agrees THEN adopted(smWork) ELSE smWork
    /\ SmBodyDone

\* Version 1 is known by its table, the others by their row.
SmApplied(v) == IF v = 1 THEN 1 \in smWork.features ELSE v \in smWork.ledger

\* One script of the plan; one that finds its change already made fails.
applyMigrations ==
    /\ smPc = "apply" /\ SmBody /\ smAt \in SmPlan
    /\ smBad' = (~SmApplied(smAt) /\ smAt \in smWork.features)
    /\ smWork' = IF smBad' \/ (SmApplied(smAt) /\ smAt # 1) THEN smWork
                 ELSE [smWork EXCEPT !.ledger = @ \cup {smAt}, !.features = @ \cup {smAt}]
    /\ smAt' = smAt + 1
    /\ UNCHANGED <<smFile, smPc, smIn, smFk, smOrig, smOn, smFaults>>

SmUserVersion ==
    /\ smPc = "apply" /\ SmBody /\ smAt = SmLatest
    /\ smWork' = [smWork EXCEPT !.user = SmMaxOf({@, SmLatest - 1})]
    /\ smBad' = FALSE
    /\ SmBodyDone

\* The routing schema and the decisions about nodes and tasks are one change.
migrateV23 ==
    /\ smPc = "v23" /\ SmBody
    /\ LET due == SmLatest \notin smWork.ledger
           can == SmLatest \notin smWork.features
           made == backfillV23Tasks(backfillV23Catalogs(rebuildV23Tasks(smWork)))
       IN  /\ smBad' = (due /\ ~can)
           /\ smWork' = IF due /\ can
                        THEN [made EXCEPT !.features = @ \cup {SmLatest}, !.ledger = @ \cup {SmLatest},
                                          !.user = SmLatest]
                        ELSE smWork
    /\ SmBodyDone

-----------------------------------------------------------------------------
(* The end of a transaction.                                                   *)

migrationForeignKeyCheck(w) == ~w.broken

\* A plausible slip: the setting is left as the transaction needed it.
MNotRestored == FALSE

\* What finish sets the connection back to before the pool gets it.
SmRestored == smOrig

SmAfter == [adopt |-> "apply", apply |-> "v23", v23 |-> "serving"]

\* finish: commit when the body succeeded and no key dangles, else roll back;
\* an error from the body or the key check comes back on every later start.
finish ==
    /\ smIn /\ (smBad \/ smAt > SmLatest)
    /\ IF smBad \/ ~migrationForeignKeyCheck(smWork)
       THEN SmStop("refused") /\ UNCHANGED smFile
       ELSE /\ smFile' = smWork /\ smWork' = smWork
            /\ smIn' = FALSE /\ smAt' = 1 /\ smBad' = FALSE
            /\ smFk' = SmRestored /\ smOrig' = smOrig /\ smPc' = SmAfter[smPc]
    /\ UNCHANGED <<smOn, smFaults>>

\* A statement, BEGIN, COMMIT or the rollback fails, or the context is
\* cancelled: nothing is committed and Open returns the error.
SmStatementFails ==
    /\ smPc \in {"adopt", "apply", "v23"} /\ smFaults < SmMaxFaults
    /\ smFaults' = smFaults + 1
    /\ SmStop("down") /\ UNCHANGED <<smFile, smOn>>

\* The commit is done and the setting cannot be restored or read back: the
\* connection is discarded and Open returns an error over a committed change.
SmRestoreFails ==
    /\ smIn /\ ~smBad /\ smAt > SmLatest /\ migrationForeignKeyCheck(smWork)
    /\ smFaults < SmMaxFaults /\ smFaults' = smFaults + 1
    /\ smFile' = smWork /\ smWork' = smWork /\ smPc' = "down" /\ smIn' = FALSE /\ smBad' = FALSE
    /\ smAt' = 1 /\ smFk' = TRUE /\ smOrig' = TRUE
    /\ UNCHANGED smOn

\* The process dies, migrating or serving.
SmCrash ==
    /\ smPc \notin {"new", "down", "refused"} /\ smFaults < SmMaxFaults
    /\ smFaults' = smFaults + 1
    /\ SmStop("down") /\ UNCHANGED <<smFile, smOn>>

SmNext ==
    \/ SmInstall \/ Open \/ migrationConnection \/ adoptDevelopmentRoutingV22 \/ applyMigrations
    \/ SmUserVersion \/ migrateV23 \/ finish
    \/ SmStatementFails \/ SmRestoreFails \/ SmCrash

SmSpec == SmInit /\ [][SmNext]_smVars

-----------------------------------------------------------------------------
(* Properties.                                                                 *)

\* However often a start was cut short, the program serves a database only with
\* every schema change in it exactly as its ledger and user_version say, the
\* task table open to every model's limits (migrate, adoptDevelopmentRoutingV22).
ServedSchemaIsLatest ==
    smPc = "serving" =>
        /\ smFile.features = 1..SmLatest /\ smFile.ledger = 1..SmLatest
        /\ smFile.user = SmLatest /\ smFile.limits = "open"

\* The pool never serves from a connection on which migrationConnection left
\* foreign keys off, nor a file in which one dangles.
ServingEnforcesKeys == smPc = "serving" => smFk /\ ~smFile.broken

\* backfillV23Task makes a task claimable only where it belongs: one that may
\* have been sent keeps the single known protocol of every place that may hold
\* it, and one never sent takes a protocol an enabled node serves and does not
\* contradict the route of its model.
RoutedWhereItBelongs ==
    smFile.route = "ready" /\ smFile.task.status # "ended" =>
        IF SmEvidence(smFile.task)
        THEN \A n \in SmHolders(smFile.task) : n \in SmNodes /\ SmProto[n] = smFile.protocol
        ELSE /\ \E n \in smOn : SmProto[n] = smFile.protocol /\ migrationV23Supports(n, smFile.task)
             /\ smFile.model \in {smFile.protocol, "unresolved"}

\* What Open lets the program serve is complete and enforced: all schema changes,
\* as ledger and user_version say, with foreign keys on and none dangling.
ServesCompleteSchema == ServedSchemaIsLatest /\ ServingEnforcesKeys
=============================================================================
