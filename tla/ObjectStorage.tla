---------------------------- MODULE ObjectStorage ----------------------------
(* The object storage configuration: one versioned row that administrators     *)
(* save and test and that the input preparer uploads with                      *)
(* (internal/httpapi/manager/object_storage.go,                                *)
(* internal/store/sqlite/result_delivery_store.go, internal/inputobject).      *)
(*                                                                             *)
(* A save and a test both read the row, work on what they read - a probe takes *)
(* up to the request timeout - and write later.  The version a client was      *)
(* shown guards both ends.                                                     *)
EXTENDS Integers, FiniteSets

CONSTANTS
    OsAdmins,       \* console sessions that act at the same time
    OsPlaces,       \* bucket and hosts
    OsKeys,         \* key pairs
    OsMaxVersion

ASSUME OsAssumption == OsMaxVersion \in Nat /\ OsPlaces # {} /\ OsKeys # {}

VARIABLES
    osRow,      \* the row: version (0: none), place, key, direct (upload_base64_inputs), status
    osCall,     \* per administrator: the request in flight
    osPrep,     \* the input preparer: the configuration it read, or OsIdle
    osTried     \* history: the configurations a probe succeeded with

osVars == <<osRow, osCall, osPrep, osTried>>

OsIdle == [pc |-> "idle"]

OsNone == [version |-> 0, place |-> "none", key |-> "none", direct |-> FALSE, status |-> "untested"]

\* What a probe or an upload depends on.
OsTarget(c) == [place |-> c.place, key |-> c.key]

OsInit ==
    /\ osRow = OsNone /\ osCall = [a \in OsAdmins |-> OsIdle] /\ osPrep = OsIdle
    /\ osTried = {}

-----------------------------------------------------------------------------
(* Administrators.                                                             *)

\* The console shows the row and its version.
getObjectStorage(a) ==
    /\ osCall[a].pc = "idle"
    /\ osCall' = [osCall EXCEPT ![a] = [pc |-> "shown", version |-> osRow.version]]
    /\ UNCHANGED <<osRow, osPrep, osTried>>

\* A save is resolved: new keys come with the request; the stored ones can be
\* kept only from the version the client was shown.
resolveObjectStorageRequest(a) ==
    /\ osCall[a].pc = "shown"
    /\ \E place \in OsPlaces, direct \in BOOLEAN, keep \in BOOLEAN, key \in OsKeys :
        LET seen == osCall[a].version
            c == [place |-> place, key |-> IF keep THEN osRow.key ELSE key, direct |-> direct]
        IN  IF keep /\ (seen < 1 \/ osRow.version # seen)
            THEN osCall' = [osCall EXCEPT ![a] = OsIdle]
            ELSE osCall' = [osCall EXCEPT ![a] = [pc |-> "put", version |-> seen, keep |-> keep, config |-> c]]
    /\ UNCHANGED <<osRow, osPrep, osTried>>

\* A plausible slip: the version was compared when the request was resolved.
MPutUnguarded(v) == (v = 0) = (osRow.version = 0)

\* The row is inserted once, and updated only in the version that was read.
OsPutMatches(v) == osRow.version = v

\* Every save makes the row untested.
PutObjectStorageConfig(a) ==
    /\ osCall[a].pc = "put" /\ osRow.version < OsMaxVersion
    /\ LET c == osCall[a].config IN
       osRow' = IF OsPutMatches(osCall[a].version)
                THEN [version |-> osRow.version + 1, place |-> c.place, key |-> c.key,
                      direct |-> c.direct, status |-> "untested"]
                ELSE osRow
    /\ osCall' = [osCall EXCEPT ![a] = OsIdle]
    /\ UNCHANGED <<osPrep, osTried>>

\* The stored configuration is tested in the version the client was shown.
testObjectStorage(a) ==
    /\ osCall[a].pc = "shown"
    /\ IF osCall[a].version > 0 /\ osRow.version = osCall[a].version
       THEN osCall' = [osCall EXCEPT ![a] = [pc |-> "probe", version |-> osRow.version, config |-> OsTarget(osRow)]]
       ELSE osCall' = [osCall EXCEPT ![a] = OsIdle]
    /\ UNCHANGED <<osRow, osPrep, osTried>>

\* The probe ends; it may go either way.
probeObjectStorage(a) ==
    /\ osCall[a].pc = "probe"
    /\ \E passed \in BOOLEAN :
        /\ osCall' = [osCall EXCEPT ![a] = [pc |-> "mark", version |-> @.version, passed |-> passed]]
        /\ osTried' = IF passed THEN osTried \cup {osCall[a].config} ELSE osTried
    /\ UNCHANGED <<osRow, osPrep>>

\* A plausible slip: the result is written to whatever row is there.
MMarkUnguarded(v) == TRUE

OsMarkMatches(v) == osRow.version = v

MarkObjectStorageTest(a) ==
    /\ osCall[a].pc = "mark"
    /\ osRow' = IF OsMarkMatches(osCall[a].version)
                THEN [osRow EXCEPT !.status = IF osCall[a].passed THEN "passed" ELSE "failed"]
                ELSE osRow
    /\ osCall' = [osCall EXCEPT ![a] = OsIdle]
    /\ UNCHANGED <<osPrep, osTried>>

-----------------------------------------------------------------------------
(* The input preparer.                                                         *)

\* A plausible slip: the flag decides, the test's result is not looked at.
MUntestedWillDo == osRow.version > 0 /\ osRow.direct

\* Inline inputs go to the store when the row asks for it and passed its test;
\* otherwise the request is refused or keeps its inline inputs.
OsReady == osRow.version > 0 /\ osRow.direct /\ osRow.status = "passed"

OsPrepareReads ==
    /\ osPrep.pc = "idle" /\ OsReady
    /\ osPrep' = [pc |-> "upload", config |-> OsTarget(osRow)]
    /\ UNCHANGED <<osRow, osCall, osTried>>

\* The inline inputs are uploaded, one after the other, with what was read; the
\* request ends when they are, or when one upload fails.
OsPrepareEnds ==
    /\ osPrep.pc = "upload" /\ osPrep' = OsIdle
    /\ UNCHANGED <<osRow, osCall, osTried>>

OsNext ==
    \/ \E a \in OsAdmins : \/ getObjectStorage(a) \/ resolveObjectStorageRequest(a) \/ PutObjectStorageConfig(a)
                           \/ testObjectStorage(a) \/ probeObjectStorage(a) \/ MarkObjectStorageTest(a)
    \/ OsPrepareReads \/ OsPrepareEnds

OsSpec == OsInit /\ [][OsNext]_osVars

-----------------------------------------------------------------------------
(* Properties.                                                                 *)

\* "passed" is said only of the configuration that was probed: a result that
\* arrives after a save is dropped (testObjectStorage, MarkObjectStorageTest).
PassedWasTried == osRow.status = "passed" => OsTarget(osRow) \in osTried

\* A save that keeps the stored key never brings back a key another save has
\* replaced meanwhile (resolveObjectStorageRequest, PutObjectStorageConfig).
KeptKeyIsCurrent ==
    [][\A a \in OsAdmins : osCall[a].pc = "put" /\ osCall'[a].pc = "idle" /\ osRow' # osRow
        => (osCall[a].keep => osRow'.key = osRow.key)]_osVars

\* Inputs are uploaded only with a configuration that passed a probe, although
\* the row may be replaced between two uploads of one request (Prepare).
InputsGoToTriedStore == osPrep.pc = "upload" => osPrep.config \in osTried

\* The row and what reads it never mix two configurations: "passed" and uploads are
\* of one that was tried, a kept key is that of the row a save replaces.
StorageIsTrusted == []PassedWasTried /\ []InputsGoToTriedStore /\ KeptKeyIsCurrent
=============================================================================
