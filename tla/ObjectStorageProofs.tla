------------------------- MODULE ObjectStorageProofs -------------------------
(* For any number of administrators, places, keys and saves: a configuration   *)
(* is said to have passed, and inputs are uploaded with it, only after a probe *)
(* of that very configuration, and a kept key is the current one.              *)
EXTENDS ObjectStorage, TLAPS

Places == OsPlaces \cup {"none"}
Keys   == OsKeys \cup {"none"}
Target == [place : Places, key : Keys]

Row == [version : Nat, place : Places, key : Keys, direct : BOOLEAN,
        status : {"untested", "passed", "failed"}]

Shown == [pc : {"shown"}, version : Nat]
Put   == [pc : {"put"}, version : Nat, keep : BOOLEAN,
          config : [place : Places, key : Keys, direct : BOOLEAN]]
Probe == [pc : {"probe"}, version : Nat, config : Target]
Mark  == [pc : {"mark"}, version : Nat, passed : BOOLEAN]
Call  == {OsIdle} \cup Shown \cup Put \cup Probe \cup Mark

OsTypeOK ==
    /\ osRow \in Row
    /\ osCall \in [OsAdmins -> Call]
    /\ osPrep \in {OsIdle} \cup [pc : {"upload"}, config : Target]

\* What a request in flight read is still true, as long as the row has the
\* version it read; no request knows a version that is yet to come.
InFlight(c) ==
    /\ c.pc # "idle" => c.version <= osRow.version
    /\ c.pc = "put" /\ c.keep /\ c.version = osRow.version => c.config.key = osRow.key
    /\ c.pc = "probe" /\ c.version = osRow.version => c.config = OsTarget(osRow)
    /\ c.pc = "mark" /\ c.passed /\ c.version = osRow.version => OsTarget(osRow) \in osTried

OsInv ==
    /\ OsTypeOK
    /\ \A a \in OsAdmins : InFlight(osCall[a])
    /\ PassedWasTried
    /\ InputsGoToTriedStore

-----------------------------------------------------------------------------

\* The initial state: no row, no request.
LEMMA InitInv == OsInit => OsInv
  BY OsAssumption DEF OsInit, OsInv, OsTypeOK, InFlight, PassedWasTried, InputsGoToTriedStore,
     OsNone, OsIdle, Row, Places, Keys, Call

\* A step of the preparer reads the row or forgets what it read.
LEMMA PrepInv == OsInv /\ (OsPrepareReads \/ OsPrepareEnds) => OsInv'
<1> SUFFICES ASSUME OsInv, OsPrepareReads \/ OsPrepareEnds PROVE OsInv'
  OBVIOUS
<1>1. \A a \in OsAdmins : InFlight(osCall[a])'
  BY DEF OsInv, InFlight, OsTarget, OsPrepareReads, OsPrepareEnds
<1>2. CASE OsPrepareReads
  BY <1>1, <1>2 DEF OsPrepareReads, OsReady, OsInv, OsTypeOK, PassedWasTried, InputsGoToTriedStore,
     OsTarget, Target, Row, OsIdle
<1>3. CASE OsPrepareEnds
  BY <1>1, <1>3 DEF OsPrepareEnds, OsInv, OsTypeOK, PassedWasTried, InputsGoToTriedStore, OsTarget, OsIdle
<1> QED BY <1>2, <1>3

\* A step that only moves the request of one administrator to a state that
\* agrees with the row.
LEMMA MoveInv ==
  ASSUME OsInv, NEW a \in OsAdmins, NEW c \in Call, InFlight(c),
         osCall' = [osCall EXCEPT ![a] = c], UNCHANGED <<osRow, osPrep, osTried>>
  PROVE  OsInv'
<1>1. ASSUME NEW b \in OsAdmins PROVE InFlight(osCall[b])'
  <2>1. osCall'[b] = c \/ osCall'[b] = osCall[b]
    BY DEF OsInv, OsTypeOK
  <2>2. InFlight(osCall'[b])
    BY <2>1 DEF OsInv
  <2> QED BY <2>2 DEF InFlight, OsTarget
<1> QED BY <1>1 DEF OsInv, OsTypeOK, PassedWasTried, InputsGoToTriedStore, OsTarget

\* An administrator without a request promises nothing.
LEMMA IdleInFlight == OsIdle \in Call /\ InFlight(OsIdle)
  BY DEF OsIdle, Call, InFlight

\* The console is shown the current version (getObjectStorage).
LEMMA GetInv == ASSUME OsInv, NEW a \in OsAdmins, getObjectStorage(a) PROVE OsInv'
<1> DEFINE c == [pc |-> "shown", version |-> osRow.version]
<1>1. c \in Call /\ InFlight(c)
  BY DEF OsInv, OsTypeOK, Row, Call, Shown, InFlight
<1> QED BY <1>1, MoveInv DEF getObjectStorage

\* A key is kept only from the version the row still has (resolveObjectStorageRequest).
LEMMA ResolveInv == ASSUME OsInv, NEW a \in OsAdmins, resolveObjectStorageRequest(a) PROVE OsInv'
<1>1. PICK place \in OsPlaces, direct \in BOOLEAN, keep \in BOOLEAN, key \in OsKeys :
        LET seen == osCall[a].version
            c == [place |-> place, key |-> IF keep THEN osRow.key ELSE key, direct |-> direct]
        IN  IF keep /\ (seen < 1 \/ osRow.version # seen)
            THEN osCall' = [osCall EXCEPT ![a] = OsIdle]
            ELSE osCall' = [osCall EXCEPT ![a] = [pc |-> "put", version |-> seen, keep |-> keep, config |-> c]]
  BY DEF resolveObjectStorageRequest
<1> DEFINE k == IF keep THEN osRow.key ELSE key
           d == [place |-> place, key |-> k, direct |-> direct]
           c == [pc |-> "put", version |-> osCall[a].version, keep |-> keep, config |-> d]
<1>2. osCall[a] \in Shown
  BY DEF resolveObjectStorageRequest, OsInv, OsTypeOK, Call, Put, Probe, Mark, OsIdle
<1>3. osCall[a].version \in Nat /\ osCall[a].version <= osRow.version
  BY <1>2 DEF Shown, OsInv, InFlight
<1>4. k \in Keys
  BY DEF OsInv, OsTypeOK, Row, Keys
<1>5. c \in Call
  BY <1>3, <1>4 DEF Call, Put, Places
<1>6. InFlight(c)
  BY <1>3 DEF InFlight
<1> QED BY <1>1, <1>5, <1>6, IdleInFlight, MoveInv DEF resolveObjectStorageRequest

\* A test starts with the row as it is (testObjectStorage).
LEMMA TestInv == ASSUME OsInv, NEW a \in OsAdmins, testObjectStorage(a) PROVE OsInv'
<1> DEFINE c == [pc |-> "probe", version |-> osRow.version, config |-> OsTarget(osRow)]
<1>1. c \in Call
  BY DEF OsInv, OsTypeOK, Row, Call, Probe, Target, OsTarget
<1>2. InFlight(c)
  BY DEF InFlight, OsInv, OsTypeOK, Row
<1> QED BY <1>1, <1>2, IdleInFlight, MoveInv DEF testObjectStorage

\* A save that applies makes every other request in flight a stale one.
LEMMA PutInv == ASSUME OsInv, NEW a \in OsAdmins, PutObjectStorageConfig(a) PROVE OsInv'
<1>1. CASE ~OsPutMatches(osCall[a].version)
  BY <1>1, IdleInFlight, MoveInv DEF PutObjectStorageConfig
<1>2. CASE OsPutMatches(osCall[a].version)
  <2>1. osCall[a] \in Put
    BY DEF PutObjectStorageConfig, OsInv, OsTypeOK, Call, Shown, Probe, Mark, OsIdle
  <2>2. osRow' \in Row /\ osRow'.version = osRow.version + 1 /\ osRow'.status = "untested"
    BY <1>2, <2>1 DEF PutObjectStorageConfig, Put, Row, OsInv, OsTypeOK
  <2>3. osCall' \in [OsAdmins -> Call] /\ osCall'[a] = OsIdle
    BY IdleInFlight DEF PutObjectStorageConfig, OsInv, OsTypeOK
  <2>4. ASSUME NEW b \in OsAdmins PROVE InFlight(osCall[b])'
    <3>1. CASE osCall'[b] = OsIdle
      BY <3>1 DEF InFlight, OsIdle
    <3>2. CASE osCall'[b] = osCall[b] /\ osCall[b].pc # "idle"
      <4>1. osCall[b].version \in Nat /\ osRow.version \in Nat
        BY <3>2 DEF OsInv, OsTypeOK, Call, Shown, Put, Probe, Mark, OsIdle, Row
      <4>2. osCall[b].version <= osRow.version
        BY <3>2 DEF OsInv, InFlight
      <4> QED BY <2>2, <3>2, <4>1, <4>2 DEF InFlight
    <3>3. osCall'[b] = OsIdle \/ (osCall'[b] = osCall[b] /\ osCall[b].pc # "idle")
      BY DEF PutObjectStorageConfig, OsInv, OsTypeOK, Call, Shown, Put, Probe, Mark, OsIdle
    <3> QED BY <3>1, <3>2, <3>3
  <2> QED BY <2>2, <2>3, <2>4 DEF PutObjectStorageConfig, OsInv, OsTypeOK, PassedWasTried, InputsGoToTriedStore
<1> QED BY <1>1, <1>2

\* A probe that succeeds adds what it was started with to osTried.
LEMMA ProbeInv == ASSUME OsInv, NEW a \in OsAdmins, probeObjectStorage(a) PROVE OsInv'
<1>1. osCall[a] \in Probe
  BY DEF probeObjectStorage, OsInv, OsTypeOK, Call, Shown, Put, Mark, OsIdle
<1>2. PICK passed \in BOOLEAN :
        /\ osCall' = [osCall EXCEPT ![a] = [pc |-> "mark", version |-> osCall[a].version, passed |-> passed]]
        /\ osTried' = IF passed THEN osTried \cup {osCall[a].config} ELSE osTried
  BY DEF probeObjectStorage
<1> DEFINE c == [pc |-> "mark", version |-> osCall[a].version, passed |-> passed]
<1>3. c \in Call /\ osRow' = osRow /\ osPrep' = osPrep
  BY <1>1 DEF Call, Mark, Probe, probeObjectStorage
<1>4. osCall' \in [OsAdmins -> Call]
  BY <1>2, <1>3 DEF OsInv, OsTypeOK
<1>5. \A x : x \in osTried => x \in osTried'
  BY <1>2
<1>6. ASSUME NEW b \in OsAdmins PROVE InFlight(osCall[b])'
  <2>1. CASE b = a
    <3>1. osCall'[b] = c
      BY <1>2, <2>1 DEF OsInv, OsTypeOK
    <3>2. osCall[a].version <= osRow.version
      BY <1>1 DEF OsInv, InFlight, Probe
    <3>3. passed /\ osCall[a].version = osRow.version => OsTarget(osRow) \in osTried'
      BY <1>1, <1>2 DEF OsInv, InFlight, Probe
    <3> QED BY <1>3, <3>1, <3>2, <3>3 DEF InFlight, OsTarget
  <2>2. CASE b # a
    <3>1. osCall'[b] = osCall[b]
      BY <1>2, <2>2 DEF OsInv, OsTypeOK
    <3> QED BY <1>3, <1>5, <3>1 DEF OsInv, InFlight, OsTarget
  <2> QED BY <2>1, <2>2
<1> QED BY <1>3, <1>4, <1>5, <1>6 DEF OsInv, OsTypeOK, PassedWasTried, InputsGoToTriedStore, OsTarget

\* A result is written only to the version that was probed.
LEMMA MarkInv == ASSUME OsInv, NEW a \in OsAdmins, MarkObjectStorageTest(a) PROVE OsInv'
<1>1. osCall[a] \in Mark
  BY DEF MarkObjectStorageTest, OsInv, OsTypeOK, Call, Shown, Put, Probe, OsIdle
<1>2. osRow' \in Row /\ osRow'.version = osRow.version /\ osRow'.key = osRow.key /\ osRow'.place = osRow.place
  BY DEF MarkObjectStorageTest, OsInv, OsTypeOK, Row
<1>3. osCall' \in [OsAdmins -> Call] /\ osTried' = osTried /\ osPrep' = osPrep
  BY IdleInFlight DEF MarkObjectStorageTest, OsInv, OsTypeOK
<1>4. ASSUME NEW b \in OsAdmins PROVE InFlight(osCall[b])'
  <2>1. CASE osCall'[b] = OsIdle
    BY <2>1 DEF InFlight, OsIdle
  <2>2. CASE osCall'[b] = osCall[b]
    BY <1>2, <1>3, <2>2 DEF OsInv, InFlight, OsTarget
  <2>3. osCall'[b] = OsIdle \/ osCall'[b] = osCall[b]
    BY DEF MarkObjectStorageTest, OsInv, OsTypeOK
  <2> QED BY <2>1, <2>2, <2>3
<1>5. PassedWasTried'
  <2>1. CASE osRow' = osRow
    BY <1>3, <2>1 DEF OsInv, PassedWasTried, OsTarget
  <2>2. CASE osRow' # osRow
    <3>1. osCall[a].version = osRow.version
      BY <2>2 DEF MarkObjectStorageTest, OsMarkMatches
    <3>2. osCall[a].passed => OsTarget(osRow) \in osTried
      BY <1>1, <3>1 DEF OsInv, InFlight, Mark
    <3>3. osRow'.status = "passed" => osCall[a].passed
      BY <2>2 DEF MarkObjectStorageTest, OsInv, OsTypeOK, Row
    <3> QED BY <1>2, <1>3, <3>2, <3>3 DEF PassedWasTried, OsTarget
  <2> QED BY <2>1, <2>2
<1> QED BY <1>2, <1>3, <1>4, <1>5 DEF OsInv, OsTypeOK, InputsGoToTriedStore

\* Every step preserves the invariant.
LEMMA StepInv == OsInv /\ [OsNext]_osVars => OsInv'
<1> SUFFICES ASSUME OsInv, [OsNext]_osVars PROVE OsInv'
  OBVIOUS
<1>1. CASE UNCHANGED osVars
  BY <1>1 DEF osVars, OsInv, OsTypeOK, InFlight, PassedWasTried, InputsGoToTriedStore, OsTarget
<1>2. CASE OsPrepareReads \/ OsPrepareEnds
  BY <1>2, PrepInv
<1>3. ASSUME NEW a \in OsAdmins,
             \/ getObjectStorage(a) \/ resolveObjectStorageRequest(a) \/ PutObjectStorageConfig(a)
             \/ testObjectStorage(a) \/ probeObjectStorage(a) \/ MarkObjectStorageTest(a)
      PROVE  OsInv'
  BY <1>3, GetInv, ResolveInv, PutInv, TestInv, ProbeInv, MarkInv
<1> QED BY <1>1, <1>2, <1>3 DEF OsNext

\* The inductive invariant: what a request read holds while its version is the
\* row's, which is what the two version guards rely on.
THEOREM OsInvariant == OsSpec => []OsInv
  BY InitInv, StepInv, PTL DEF OsSpec

-----------------------------------------------------------------------------

\* "passed" is only ever said of a configuration that was probed
\* (MarkObjectStorageTest), whatever saves and tests overlap.
THEOREM PassedHonestly == OsSpec => []PassedWasTried
<1>1. OsInv => PassedWasTried
  BY DEF OsInv
<1> QED BY <1>1, OsInvariant, PTL

\* The preparer uploads only with a configuration that passed a probe (Prepare).
THEOREM UploadsToTriedStore == OsSpec => []InputsGoToTriedStore
<1>1. OsInv => InputsGoToTriedStore
  BY DEF OsInv
<1> QED BY <1>1, OsInvariant, PTL

\* A save that keeps the key never restores one that was replaced meanwhile
\* (resolveObjectStorageRequest, PutObjectStorageConfig).
THEOREM KeptKeys == OsSpec => KeptKeyIsCurrent
<1>1. ASSUME OsInv, [OsNext]_osVars, NEW a \in OsAdmins, osCall[a].pc = "put",
             osCall'[a].pc = "idle", osRow' # osRow, osCall[a].keep
      PROVE  osRow'.key = osRow.key
  <2>1. PICK b \in OsAdmins : PutObjectStorageConfig(b) \/ MarkObjectStorageTest(b)
    BY <1>1 DEF OsNext, osVars, OsPrepareReads, OsPrepareEnds, getObjectStorage,
       resolveObjectStorageRequest, testObjectStorage, probeObjectStorage
  <2>2. b = a
    BY <1>1, <2>1 DEF PutObjectStorageConfig, MarkObjectStorageTest, OsInv, OsTypeOK
  <2>3. PutObjectStorageConfig(a) /\ osCall[a].version = osRow.version
    BY <1>1, <2>1, <2>2 DEF MarkObjectStorageTest, PutObjectStorageConfig, OsPutMatches
  <2>4. osCall[a].config.key = osRow.key
    BY <1>1, <2>3 DEF OsInv, InFlight
  <2> QED BY <2>3, <2>4 DEF PutObjectStorageConfig, OsPutMatches
<1>2. OsInv /\ [OsNext]_osVars =>
        [\A a \in OsAdmins : osCall[a].pc = "put" /\ osCall'[a].pc = "idle" /\ osRow' # osRow
           => (osCall[a].keep => osRow'.key = osRow.key)]_osVars
  BY <1>1
<1> QED BY <1>2, OsInvariant, PTL DEF OsSpec, KeptKeyIsCurrent

\* No reader or writer of the row mixes two configurations
\* (MarkObjectStorageTest, Prepare, PutObjectStorageConfig).
THEOREM TrustedStorage == OsSpec => StorageIsTrusted
  BY PassedHonestly, UploadsToTriedStore, KeptKeys, PTL DEF StorageIsTrusted
=============================================================================
