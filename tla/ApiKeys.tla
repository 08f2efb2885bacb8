------------------------------- MODULE ApiKeys -------------------------------
(***************************************************************************)
(* The keys that callers of the V2 API present:                            *)
(*   - store/sqlite/external_api_key.go: the rows, with a version that each *)
(*     update compares and increments, and the one-time import of the keys *)
(*     of the configuration file;                                          *)
(*   - authkey/service.go: a write followed by a reload, and the reload    *)
(*     that a ticker makes every second;                                   *)
(*   - authkey/authenticator.go: the snapshot of enabled keys that every   *)
(*     request is checked against, replaced in one atomic store but read   *)
(*     from the database some time before that;                            *)
(*   - cmd/server run: import and first load at start;                     *)
(*   - httpapi/manager api_keys.go and httpapi/v2 authenticate: callers.   *)
(* A key is its id and its digest at once.                                 *)
(***************************************************************************)
EXTENDS Naturals

CONSTANTS
  ApiKey,       \* ids of keys
  LegacyKey,    \* the keys of the configuration file
  Admin,        \* requests of administrators that may run at the same time
  Ticker,       \* the goroutine of Service.Run
  KeyNames,     \* names, up to case
  MaxVersion,   \* bound on the updates of a key
  MaxRestarts   \* bound on restarts of the process

ASSUME ApiKeysAssumption ==
  LegacyKey \subseteq ApiKey /\ Ticker \notin Admin /\ MaxVersion \in Nat /\ MaxRestarts \in Nat

VARIABLES
  keyRow,      \* external_api_keys, NoKeyRow where there is no row
  keyBoot,     \* the row of api_key_config_bootstrap is there
  keyOwners,   \* keys that own a task or an idempotency row
  keySnap,     \* Authenticator.current: the keys it accepts
  keyCall,     \* what each administrator's request and the ticker are doing
  keyPage,     \* the version of each key that an open page shows
  keyRequest,  \* the key of a V2 request that has passed authenticate
  keyRestarts

apiKeyVars == <<keyRow, keyBoot, keyOwners, keySnap, keyCall, keyPage,
                keyRequest, keyRestarts>>

NoKeyRow == [name |-> "none", on |-> FALSE, version |-> 0]
NoRequest == "no request"
IdleCall == [pc |-> "idle", list |-> {}]
Exists(k) == keyRow[k] # NoKeyRow
Enabled == {k \in ApiKey : keyRow[k].on}

\* validAPIKeyName has let the name through; ensureExternalAPIKeyUnique.
NameFree(name, k) == \A j \in ApiKey \ {k} : keyRow[j].name # name

\* Where a key of the configuration gets the name it is imported under.
LegacyName(k) == k

\* Before the first start of the process on an empty database.
KeyInit ==
  /\ keyRow = [k \in ApiKey |-> NoKeyRow]
  /\ keyBoot = FALSE
  /\ keyOwners = {}
  /\ keySnap = {}
  /\ keyCall = [a \in Admin \cup {Ticker} |-> IdleCall]
  /\ keyPage = [k \in ApiKey |-> 0]
  /\ keyRequest = NoRequest
  /\ keyRestarts = 0

(***************************************************************************)
(* The administrator's page shows a key with its version; a request to     *)
(* update or delete brings that version back.                              *)
(***************************************************************************)
\* apiKeyAPI.list: some open page shows the key as it is now.
AdminReads(k) ==
  /\ keyBoot /\ Exists(k)
  /\ keyPage' = [keyPage EXCEPT ![k] = keyRow[k].version]
  /\ UNCHANGED <<keyRow, keyBoot, keyOwners, keySnap, keyCall, keyRequest, keyRestarts>>

\* CreateExternalAPIKey: a digest and a name that no other row has.
CreateExternalAPIKey(k, name) ==
  /\ ~Exists(k) /\ k \notin LegacyKey /\ NameFree(name, k)
  /\ keyRow' = [keyRow EXCEPT ![k] = [name |-> name, on |-> TRUE, version |-> 1]]

MAnyVersion(k) == Exists(k)

\* The version that the request brings from the page is the row's version.
\* Otherwise it is answered 404 or 409 and writes nothing.
SameVersion(k) == Exists(k) /\ keyRow[k].version = keyPage[k]

UpdateExternalAPIKey(k, name, on) ==
  /\ SameVersion(k) /\ NameFree(name, k)
  /\ keyRow' = [keyRow EXCEPT ![k] = [name |-> name, on |-> on, version |-> @.version + 1]]

\* DeleteExternalAPIKey: refused for a key that owns rows.
DeleteExternalAPIKey(k) ==
  /\ SameVersion(k) /\ k \notin keyOwners
  /\ keyRow' = [keyRow EXCEPT ![k] = NoKeyRow]

\* Service.Create, Update and Delete: once the write is committed a reload follows.
ReloadFollows(a) ==
  /\ keyCall[a].pc = "idle"
  /\ keyCall' = [keyCall EXCEPT ![a] = [IdleCall EXCEPT !.pc = "list"]]
  /\ UNCHANGED <<keyBoot, keyOwners, keySnap, keyPage, keyRequest, keyRestarts>>

\* apiKeyAPI's handlers.
CreateKey(a, k, name) == keyBoot /\ CreateExternalAPIKey(k, name) /\ ReloadFollows(a)
UpdateKey(a, k, name, on) ==
  keyRow[k].version < MaxVersion /\ UpdateExternalAPIKey(k, name, on) /\ ReloadFollows(a)
DeleteKey(a, k) == DeleteExternalAPIKey(k) /\ ReloadFollows(a)

(***************************************************************************)
(* Authenticator.Reload: read the enabled keys, then store the snapshot.   *)
(***************************************************************************)
Tick ==
  /\ keyBoot /\ keyCall[Ticker].pc = "idle"
  /\ keyCall' = [keyCall EXCEPT ![Ticker].pc = "list"]
  /\ UNCHANGED <<keyPage, keyRow, keyBoot, keyOwners, keySnap, keyRequest, keyRestarts>>

\* ListExternalAPIKeyCredentials.
ReloadLists(a) ==
  /\ keyCall[a].pc = "list"
  /\ keyCall' = [keyCall EXCEPT ![a].pc = "store", ![a].list = Enabled]
  /\ UNCHANGED <<keyPage, keyRow, keyBoot, keyOwners, keySnap, keyRequest, keyRestarts>>

\* The read fails: 503 cache_refresh_failed, and the old snapshot stays.
ReloadFails(a) ==
  /\ keyCall[a].pc = "list"
  /\ keyCall' = [keyCall EXCEPT ![a] = IdleCall]
  /\ UNCHANGED <<keyPage, keyRow, keyBoot, keyOwners, keySnap, keyRequest, keyRestarts>>

MSnapshotMerges(list) == keySnap \cup list

\* The snapshot that replaces the current one.
NextSnapshot(list) == list

\* current.Store; an administrator gets the answer of success.
ReloadStores(a) ==
  /\ keyCall[a].pc = "store"
  /\ keySnap' = NextSnapshot(keyCall[a].list)
  /\ keyCall' = [keyCall EXCEPT ![a] = IdleCall]
  /\ UNCHANGED <<keyPage, keyRow, keyBoot, keyOwners, keyRequest, keyRestarts>>

(***************************************************************************)
(* A V2 request, and a restart.                                            *)
(***************************************************************************)
\* handler.authenticate.
Authenticate(k) ==
  /\ keyRequest = NoRequest
  /\ k \in keySnap
  /\ keyRequest' = k
  /\ UNCHANGED <<keyPage, keyRow, keyBoot, keyOwners, keySnap, keyCall, keyRestarts>>

\* The request is served: it may have inserted a task of this owner, with no
\* look at external_api_keys and no foreign key.
RequestServed(writes) ==
  /\ keyRequest # NoRequest
  /\ keyOwners' = IF writes THEN keyOwners \cup {keyRequest} ELSE keyOwners
  /\ keyRequest' = NoRequest
  /\ UNCHANGED <<keyPage, keyRow, keyBoot, keySnap, keyCall, keyRestarts>>

MImportWhenEmpty ==
  IF \A k \in ApiKey : ~Exists(k)
  THEN [k \in ApiKey |-> IF k \in LegacyKey THEN [name |-> LegacyName(k), on |-> TRUE, version |-> 1] ELSE NoKeyRow]
  ELSE keyRow

\* The rows after ImportLegacyAPIKeys: the keys of the configuration when the
\* import was never done and the table is empty.
ImportedRows ==
  IF ~keyBoot /\ \A k \in ApiKey : ~Exists(k)
  THEN [k \in ApiKey |-> IF k \in LegacyKey THEN [name |-> LegacyName(k), on |-> TRUE, version |-> 1] ELSE NoKeyRow]
  ELSE keyRow

\* The process stops at any point and starts again: import, then the first
\* Reload, before it listens.
KeyRestart ==
  /\ keyRestarts < MaxRestarts
  /\ keyRow' = ImportedRows
  /\ keyBoot' = TRUE
  /\ keySnap' = {k \in ApiKey : ImportedRows[k].on}
  /\ keyCall' = [a \in Admin \cup {Ticker} |-> IdleCall]
  /\ keyRequest' = NoRequest
  /\ keyRestarts' = keyRestarts + 1
  /\ UNCHANGED <<keyOwners, keyPage>>

KeyNext ==
  \/ \E k \in ApiKey : AdminReads(k) \/ Authenticate(k)
  \/ \E a \in Admin, k \in ApiKey :
       \/ \E name \in KeyNames : CreateKey(a, k, name) \/ \E on \in BOOLEAN : UpdateKey(a, k, name, on)
       \/ DeleteKey(a, k)
  \/ \E a \in Admin \cup {Ticker} : ReloadLists(a) \/ ReloadFails(a) \/ ReloadStores(a)
  \/ Tick
  \/ \E writes \in BOOLEAN : RequestServed(writes)
  \/ KeyRestart

\* The ticker ticks, the database does not refuse the list for ever, and a list
\* that was read is stored.
KeyFairness ==
  /\ WF_apiKeyVars(Tick)
  /\ \A a \in Admin \cup {Ticker} : /\ SF_apiKeyVars(ReloadLists(a))
                                    /\ WF_apiKeyVars(ReloadStores(a))

(***************************************************************************)
(* Properties.                                                             *)
(***************************************************************************)
\* A write to a key is made by a request that was shown the row it replaces:
\* from a page opened before another write, no update or deletion goes through.
NoLostKeyUpdate ==
  [][\A k \in ApiKey : Exists(k) /\ keyRow'[k] # keyRow[k] => keyPage[k] = keyRow[k].version]_apiKeyVars

\* A key of the configuration that an administrator has deleted does not come
\* back when the process starts again, not even when no key is left.
DeletedKeyStaysDeleted ==
  [][\A k \in LegacyKey : keyBoot /\ ~Exists(k) => keyRow'[k] = NoKeyRow]_apiKeyVars

\* A key that is disabled or deleted is refused in the end, unless it is
\* enabled again: a snapshot stored late, or not at all because the reload
\* after the write failed, is replaced by the ticker.
DisabledKeyIsRefused ==
  \A k \in ApiKey : (k \notin Enabled) ~> (k \notin keySnap \/ k \in Enabled)

\* Rows of keys change only by a choice made of the row as it was: not from an
\* outdated page, and not by the import of a later start.
KeysChangeByChoice == NoLostKeyUpdate /\ DeletedKeyStaysDeleted
=============================================================================
