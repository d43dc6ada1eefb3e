------------------------- MODULE Ath9kDeviceProofs -------------------------
(***************************************************************************)
(* A probe that fails undoes what it did, and what the driver remembers of *)
(* its interfaces is what they are, for any finite set of interfaces, any  *)
(* networks and any interface types.                                       *)
(***************************************************************************)
EXTENDS Ath9kDevice, FiniteSetTheorems, TLAPS

-----------------------------------------------------------------------------
(* The device *)

\* What the probe holds is what the steps it has done have acquired.
Holding ==
  /\ held \in [Resource -> {0, 1}]
  /\ held["dfs"] = 1 => stage # "out"
  /\ held["eeprom"] = 1 => stage \notin {"out", "softc"}
  /\ held["gpio"] = 1 <=> stage \notin {"out", "softc", "platform"}
  /\ held["hw"] = 1 <=> stage \notin {"out", "softc", "platform", "gpio"}
  /\ held["queues"] = 1 <=> stage \notin {"out", "softc", "platform", "gpio", "hw"}
  /\ held["btcoex"] = 1 <=>
       stage \notin {"out", "softc", "platform", "gpio", "hw", "queues"}
  /\ held["p2p_timer"] = 1 =>
       stage \notin {"out", "softc", "platform", "gpio", "hw", "queues", "btcoex"}
  /\ held["rx"] = 1 <=> stage \in {"rx", "registered", "debug", "up", "unregistering"}
  /\ held["registered"] = 1 <=> stage \in {"registered", "debug", "up", "unregistering"}
  /\ held["debug"] = 1 <=> stage \in {"debug", "up"}
  /\ held["rfkill"] = 1 <=> stage = "up"

LifeInv ==
  /\ driver \in {"unloaded", "ahb", "loaded", "exiting"}
  /\ stage \in Stages /\ ah \in {"null", "live", "freed"}
  /\ Holding
  /\ leaked \subseteq Forgotten
  /\ stage # "out" <=> ah = "live"

LEMMA LifeInvSuffices ==
  ASSUME LifeInv PROVE LifeTypeOK /\ DeviceUnwound
<1>1. Forgotten \subseteq Stages \X Resource
  BY DEF Forgotten, Stages, Resource
<1> QED
  BY <1>1 DEF LifeInv, Holding, LifeTypeOK, DeviceUnwound

\* Acquiring what is not held.
LEMMA AcquiredHeld ==
  ASSUME held \in [Resource -> {0, 1}], NEW R, \A r \in R \cap Resource : held[r] = 0,
         held' = Acquired(R)
  PROVE  /\ held' \in [Resource -> {0, 1}]
         /\ \A r \in Resource : held'[r] = IF r \in R THEN 1 ELSE held[r]
BY DEF Acquired

\* Releasing what is held, or may be and is looked at.
LEMMA ReleasedHeld ==
  ASSUME held \in [Resource -> {0, 1}], NEW R,
         \A r \in (R \cap Resource) \ Optional : held[r] = 1
  PROVE  /\ Released(R) \in [Resource -> {0, 1}]
         /\ \A r \in Resource : Released(R)[r] = IF r \in R THEN 0 ELSE held[r]
BY DEF Released

\* The end of a probe whose label releases R.
LEMMA OverUnwinds ==
  ASSUME LifeInv, NEW at, NEW R, Over(at, R),
         \A r \in (R \cap Resource) \ Optional : held[r] = 1,
         \A r \in Resource \ R : held[r] = 1 => <<at, r>> \in Forgotten
  PROVE  LifeInv'
<1>1. \A r \in Resource : Released(R)[r] # 0 => r \notin R /\ held[r] = 1
  BY ReleasedHeld DEF LifeInv, Holding
<1>2. leaked' \subseteq Forgotten
  BY <1>1 DEF Over
<1>3. held' \in [Resource -> {0, 1}] /\ \A r \in Resource : held'[r] = 0
  BY DEF Over, Nothing
<1>4. Holding'
  BY <1>3 DEF Holding, Over, Resource
<1> QED
  BY <1>2, <1>4 DEF LifeInv, Over, Stages

\* A step of the probe, which acquires R.
LEMMA StepAcquires ==
  ASSUME LifeInv, NEW from, NEW to \in Stages, NEW R, Step(from, to, R),
         from # "out", to # "out", \A r \in R \cap Resource : held[r] = 0
  PROVE  /\ held' \in [Resource -> {0, 1}]
         /\ \A r \in Resource : held'[r] = IF r \in R THEN 1 ELSE held[r]
         /\ stage = from /\ stage' = to
         /\ Holding' => LifeInv'
<1>1. UNCHANGED <<driver, leaked, ah>> /\ stage = from /\ stage' = to
      /\ held' = Acquired(R)
  BY DEF Step
<1>2. LifeInv => held \in [Resource -> {0, 1}]
  BY DEF LifeInv, Holding
<1> QED
  BY <1>1, <1>2, AcquiredHeld DEF LifeInv

\* init.c:486-640
LEMMA SoftcUnwinds ==
  ASSUME LifeInv,
         AllocSoftc \/ AllocFails \/ InitSocPlatform \/ RequestGpio \/ HwInit
           \/ InitQueues \/ InitBtcoex \/ InitChannels
  PROVE  LifeInv'
<1>1. CASE AllocSoftc
  <2>1. PICK R \in SUBSET {"dfs"} : held' = Acquired(R)
    BY <1>1 DEF AllocSoftc
  <2>2. /\ held' \in [Resource -> {0, 1}]
        /\ \A r \in Resource : held'[r] = IF r \in R THEN 1 ELSE held[r]
    BY <1>1, <2>1, AcquiredHeld DEF AllocSoftc, LifeInv, Holding
  <2>3. Holding'
    BY <1>1, <2>2 DEF AllocSoftc, LifeInv, Holding, Resource
  <2> QED
    BY <1>1, <2>3 DEF AllocSoftc, LifeInv, Stages
<1>2. CASE AllocFails
  BY <1>2 DEF AllocFails, LifeInv, Holding
<1>3. CASE InitSocPlatform
  <2>1. ASSUME NEW R \in SUBSET {"eeprom"}, Step("softc", "platform", R)
        PROVE  LifeInv'
    BY <2>1, StepAcquires DEF Step, LifeInv, Holding, Resource, Stages
  <2>2. ASSUME Fail("softc", "platform", {})
        PROVE  LifeInv'
    BY <2>2, OverUnwinds DEF Fail, LifeInv, Holding, Resource, Forgotten
  <2> QED
    BY <1>3, <2>1, <2>2 DEF InitSocPlatform
<1>4. CASE RequestGpio
  <2>1. ASSUME Step("platform", "gpio", {"gpio"})
        PROVE  LifeInv'
    BY <2>1, StepAcquires DEF Step, LifeInv, Holding, Resource, Stages
  <2>2. ASSUME Fail("platform", "gpio", {})
        PROVE  LifeInv'
    BY <2>2, OverUnwinds DEF Fail, LifeInv, Holding, Resource, Forgotten
  <2> QED
    BY <1>4, <2>1, <2>2 DEF RequestGpio
<1>5. CASE HwInit
  <2>1. ASSUME Step("gpio", "hw", {"hw"})
        PROVE  LifeInv'
    BY <2>1, StepAcquires DEF Step, LifeInv, Holding, Resource, Stages
  <2>2. ASSUME Fail("gpio", "hw", ErrHw)
        PROVE  LifeInv'
    BY <2>2, OverUnwinds
       DEF Fail, LifeInv, Holding, Resource, Optional, Forgotten, ErrHw
  <2> QED
    BY <1>5, <2>1, <2>2 DEF HwInit
<1>6. CASE InitQueues
  BY <1>6, StepAcquires DEF InitQueues, Step, LifeInv, Holding, Resource, Stages
<1>7. CASE InitBtcoex
  <2>1. ASSUME Step("queues", "btcoex", {"btcoex"})
        PROVE  LifeInv'
    BY <2>1, StepAcquires DEF Step, LifeInv, Holding, Resource, Stages
  <2>2. ASSUME Fail("queues", "btcoex", ErrBtcoex)
        PROVE  LifeInv'
    BY <2>2, OverUnwinds
       DEF Fail, LifeInv, Holding, Resource, Optional, Forgotten, ErrHw, ErrQueues,
           ErrBtcoex
  <2> QED
    BY <1>7, <2>1, <2>2 DEF InitBtcoex
<1>8. CASE InitChannels
  <2>1. ASSUME NEW R \in SUBSET {"p2p_timer"}, Step("btcoex", "channels", R)
        PROVE  LifeInv'
    BY <2>1, StepAcquires DEF Step, LifeInv, Holding, Resource, Stages
  <2>2. ASSUME Fail("btcoex", "channels", ErrBtcoex)
        PROVE  LifeInv'
    BY <2>2, OverUnwinds
       DEF Fail, LifeInv, Holding, Resource, Optional, Forgotten, ErrHw, ErrQueues,
           ErrBtcoex
  <2> QED
    BY <1>8, <2>1, <2>2 DEF InitChannels
<1> QED
  BY <1>1, <1>2, <1>3, <1>4, <1>5, <1>6, <1>7, <1>8

\* init.c:812-892
LEMMA ProbeUnwinds ==
  ASSUME LifeInv,
         InitRegd \/ InitTx \/ InitRx \/ RegisterHw \/ InitDebug \/ RegulatoryHint
  PROVE  LifeInv'
<1>1. ASSUME NEW at \in Stages, NEW R \in {DeinitSoftc, RxCleanup}, Over(at, R),
             stage \in {"channels", "regd", "tx", "rx"},
             R = RxCleanup <=> stage = "rx"
      PROVE  LifeInv'
  <2>1. \A r \in (R \cap Resource) \ Optional : held[r] = 1
    BY <1>1 DEF LifeInv, Holding, Resource, Optional, DeinitSoftc, RxCleanup
  <2>2. \A r \in Resource \ R : held[r] # 1
    BY <1>1 DEF LifeInv, Holding, Resource, DeinitSoftc, RxCleanup
  <2> QED
    BY <1>1, <2>1, <2>2, OverUnwinds
<1>2. ASSUME \/ Step("channels", "regd", {}) \/ Step("regd", "tx", {})
             \/ Step("tx", "rx", {"rx"}) \/ Step("rx", "registered", {"registered"})
             \/ Step("registered", "debug", {"debug"}) \/ Step("debug", "up", {"rfkill"})
      PROVE  LifeInv'
  <2>1. ASSUME Step("channels", "regd", {}) PROVE LifeInv'
    BY <2>1, StepAcquires DEF Step, LifeInv, Holding, Resource, Stages
  <2>2. ASSUME Step("regd", "tx", {}) PROVE LifeInv'
    BY <2>2, StepAcquires DEF Step, LifeInv, Holding, Resource, Stages
  <2>3. ASSUME Step("tx", "rx", {"rx"}) PROVE LifeInv'
    BY <2>3, StepAcquires DEF Step, LifeInv, Holding, Resource, Stages
  <2>4. ASSUME Step("rx", "registered", {"registered"}) PROVE LifeInv'
    BY <2>4, StepAcquires DEF Step, LifeInv, Holding, Resource, Stages
  <2>5. ASSUME Step("registered", "debug", {"debug"}) PROVE LifeInv'
    BY <2>5, StepAcquires DEF Step, LifeInv, Holding, Resource, Stages
  <2>6. ASSUME Step("debug", "up", {"rfkill"}) PROVE LifeInv'
    BY <2>6, StepAcquires DEF Step, LifeInv, Holding, Resource, Stages
  <2> QED
    BY <1>2, <2>1, <2>2, <2>3, <2>4, <2>5, <2>6
<1>3. DeinitSoftc # RxCleanup
  BY DEF DeinitSoftc, RxCleanup
<1>4. ASSUME Fail("channels", "regd", DeinitSoftc) \/ Fail("regd", "tx", DeinitSoftc)
               \/ Fail("tx", "rx", DeinitSoftc)
      PROVE  LifeInv'
  BY <1>1, <1>3, <1>4 DEF Fail, Stages
<1>5. ASSUME Fail("rx", "registered", RxCleanup)
      PROVE  LifeInv'
  BY <1>1, <1>5 DEF Fail, Stages
<1>6. ASSUME NEW from, NEW R, Unregister(from, R),
             \/ from = "registered" /\ R = {}
             \/ from = "debug" /\ R = {"debug"}
      PROVE  LifeInv'
  <2>1. \A r \in (R \cap Resource) \ Optional : held[r] = 1
    BY <1>6 DEF Unregister, LifeInv, Holding, Resource, Optional
  <2>2. /\ held' \in [Resource -> {0, 1}]
        /\ \A r \in Resource : held'[r] = IF r \in R THEN 0 ELSE held[r]
    BY <1>6, <2>1, ReleasedHeld DEF Unregister, LifeInv, Holding
  <2>3. Holding'
    BY <1>6, <2>2 DEF Unregister, LifeInv, Holding, Resource
  <2> QED
    BY <1>6, <2>3 DEF Unregister, LifeInv, Stages
<1> QED
  BY <1>2, <1>4, <1>5, <1>6
     DEF InitRegd, InitTx, InitRx, RegisterHw, InitDebug, RegulatoryHint, Stages

\* init.c:922-937
LEMMA RemovalUnwinds ==
  ASSUME LifeInv, DeinitDevice \/ FinishUnregister
  PROVE  LifeInv'
<1>1. CASE DeinitDevice
  <2>1. \A r \in ({"rfkill", "debug"} \cap Resource) \ Optional : held[r] = 1
    BY <1>1 DEF DeinitDevice, Unregister, LifeInv, Holding
  <2>2. /\ held' \in [Resource -> {0, 1}]
        /\ \A r \in Resource :
             held'[r] = IF r \in {"rfkill", "debug"} THEN 0 ELSE held[r]
    BY <1>1, <2>1, ReleasedHeld DEF DeinitDevice, Unregister, LifeInv, Holding
  <2>3. Holding'
    BY <1>1, <2>2 DEF DeinitDevice, Unregister, LifeInv, Holding, Resource
  <2> QED
    BY <1>1, <2>3 DEF DeinitDevice, Unregister, LifeInv, Stages
<1>2. CASE FinishUnregister
  <2> DEFINE R == {"registered"} \cup RxCleanup
  <2>1. \A r \in (R \cap Resource) \ Optional : held[r] = 1
    BY <1>2 DEF FinishUnregister, LifeInv, Holding, Resource, Optional, DeinitSoftc,
                RxCleanup
  <2>2. \A r \in Resource \ R : held[r] # 1
    BY <1>2 DEF FinishUnregister, LifeInv, Holding, Resource, DeinitSoftc, RxCleanup
  <2> QED
    BY <1>2, <2>1, <2>2, OverUnwinds DEF FinishUnregister
<1> QED
  BY <1>1, <1>2

\* init.c:943-977
LEMMA ModuleStepKeeps ==
  ASSUME LifeInv, ModuleStep
  PROVE  LifeInv'
BY DEF ModuleStep, AhbInit, PciInit, ModuleExit, Unloaded, LifeInv, Holding

LEMMA LifeStep ==
  ASSUME LifeInv, [DeviceNext]_deviceVars
  PROVE  LifeInv'
<1>1. CASE NewSoftc
  BY <1>1, SoftcUnwinds DEF NewSoftc
<1>2. CASE ProbeOrRemove
  BY <1>2, SoftcUnwinds, ProbeUnwinds, RemovalUnwinds, ModuleStepKeeps
     DEF ProbeOrRemove, Removed
<1>3. CASE UNCHANGED lifeVars
  BY <1>3 DEF lifeVars, LifeInv, Holding
<1> QED
  BY <1>1, <1>2, <1>3 DEF DeviceNext, deviceVars, lifeVars

\* A probe that fails at any step, a removal, and mac80211 that removes its
\* interfaces in the middle of either: nothing is released twice, nothing is
\* left but what init.c forgets, and ath9k_ah points to the memory of a device
\* that is there (init.c:489-640, 812-937).
THEOREM DeviceUnwoundHolds == DeviceSpec => []DeviceUnwound
<1>1. DeviceInit => LifeInv
  BY DEF DeviceInit, LifeInit, Nothing, LifeInv, Holding, Stages, Resource
<1>2. LifeInv /\ [DeviceNext]_deviceVars => LifeInv'
  BY LifeStep
<1>3. LifeInv => DeviceUnwound
  BY LifeInvSuffices
<1> QED
  BY <1>1, <1>2, <1>3, PTL DEF DeviceSpec

-----------------------------------------------------------------------------
(* The interfaces *)

\* What mac80211 grants: only stations associate, and one interface is P2P.
Granted ==
  /\ \A v \in Vif : assoc[v] # None => type[v] = "STATION"
  /\ \A u, v \in Vif : p2p[u] /\ p2p[v] => u = v

IfaceTypes ==
  /\ type \in [Vif -> Types \cup {None}] /\ p2p \in [Vif -> BOOLEAN]
  /\ prim \in BOOLEAN /\ tsfoor \in BOOLEAN
  /\ assoc \in [Vif -> Bss \cup {None}] /\ primary \subseteq Vif
  /\ curbssid \in Bss \cup {None} /\ sync \in BOOLEAN /\ missed \in BOOLEAN
  /\ p2pVif \in Vif \cup {None} /\ noa \in [Vif -> {"none", "absent", "present"}]
  /\ genTimer \in BOOLEAN

\* OnePrimary, without counting.
SolePrimary ==
  /\ prim <=> primary # {}
  /\ \A u, v \in primary : u = v
  /\ primary \subseteq Associated
  /\ Associated # {} => prim

Summarised == missed \/ BssidFollowsPrimary

IfaceInv ==
  /\ IfaceTypes /\ Granted
  /\ ModeOfInterfaces
  /\ SolePrimary
  /\ Summarised
  /\ SleepersWatched

LEMMA PresentFinite == IsFiniteSet(Present) /\ IsFiniteSet(Vif)
BY FS_Subset, InterfacesAssumption DEF Present

LEMMA IfaceInvSuffices ==
  ASSUME IfaceInv, LifeInv PROVE DeviceTypeOK /\ InterfacesAgree
<1>1. Cardinality(primary) <= 1
  <2>1. CASE primary = {}
    BY <2>1, FS_EmptySet
  <2>2. CASE primary # {}
    <3>1. PICK u \in primary : primary = {u}
      BY <2>2 DEF IfaceInv, SolePrimary
    <3> QED
      BY <3>1, FS_Singleton
  <2> QED
    BY <2>1, <2>2
<1>2. nvifs \in 0..Cardinality(Vif)
  <2>1. Present \subseteq Vif
    BY DEF Present
  <2> QED
    BY <2>1, PresentFinite, FS_Subset, FS_CardinalityType, InterfacesAssumption
       DEF IfaceInv, ModeOfInterfaces
<1>3. opmode \in {"STATION", "AP", "ADHOC", "MESH_POINT"} /\ tsfoor \in BOOLEAN
  BY DEF IfaceInv, IfaceTypes, ModeOfInterfaces, OpmodeOf
<1>4. slots \subseteq Vif /\ masked \subseteq Vif /\ macaddr \in Vif \cup {None}
  BY DEF IfaceInv, ModeOfInterfaces, Present
<1>5. asleep \subseteq Vif
  BY DEF IfaceInv, SleepersWatched, Associated
<1>6. InterfacesAgree
  BY <1>1 DEF InterfacesAgree, IfaceInv, OnePrimary, SolePrimary, Summarised
<1> QED
  BY <1>2, <1>3, <1>4, <1>5, <1>6, LifeInvSuffices
     DEF DeviceTypeOK, IfaceInv, IfaceTypes

\* CalculateIterData leaves the summary of the types there will be.
LEMMA IterDataAgrees ==
  ASSUME IfaceInv, NEW v \in Vif \cup {None}, type' \in [Vif -> Types \cup {None}],
         v # None => type'[v] # None, CalculateIterData(v, type')
  PROVE  /\ tsfoor' \in BOOLEAN
         /\ masked' = Present'
         /\ IF Present' = {} THEN macaddr' = None ELSE macaddr' \in Present'
         /\ opmode' = OpmodeOf({type'[u] : u \in Present'})
         /\ tsfoor' <=> \E u \in Present' : type'[u] \notin {"AP", "WDS"}
<1> DEFINE counted == {u \in Vif : type'[u] # None}
           inUse   == {type'[u] : u \in counted}
<1>1. /\ masked' = counted
      /\ IF v # None THEN macaddr' = v
         ELSE IF counted = {} THEN macaddr' = None
         ELSE \E u \in counted : macaddr' = u
      /\ opmode' = OpmodeOf(inUse)
      /\ tsfoor' = (inUse \cap {"STATION", "ADHOC", "MESH_POINT"} # {})
  BY DEF CalculateIterData
<1>2. counted = Present'
  BY DEF Present
<1>3. \A u \in counted : type'[u] \in IfTypes
  BY InterfacesAssumption
<1>4. tsfoor' <=> \E u \in counted : type'[u] \notin {"AP", "WDS"}
  BY <1>1, <1>3 DEF IfTypes
<1>5. IF counted = {} THEN macaddr' = None ELSE macaddr' \in counted
  BY <1>1
<1> QED
  BY <1>1, <1>2, <1>4, <1>5

\* Every change of the interfaces leaves the chip with the BSSID of the primary
\* station, or has missed to.
LEMMA SyncAgrees ==
  ASSUME IfaceInv, SyncPrimary(type'), UNCHANGED <<assoc, primVars>>,
         \A u \in Associated : type'[u] = type[u]
  PROVE  /\ SolePrimary' /\ Summarised'
         /\ curbssid' \in Bss \cup {None} /\ sync' \in BOOLEAN /\ missed' \in BOOLEAN
<1>1. SolePrimary'
  BY DEF IfaceInv, SolePrimary, Associated, primVars
<1> DEFINE stations == {u \in primary : type'[u] = "STATION"}
           turned   == opmode' = "STATION" /\ prim
<1>2. CASE turned /\ opmode = "AP" /\ stations # {}
  <2>1. PICK u \in stations : SetBssid("STATION", assoc[u])
    BY <1>2 DEF SyncPrimary
  <2>2. curbssid' = assoc[u] /\ sync' = TRUE /\ missed' = FALSE
    BY <2>1 DEF SetBssid, WritesBssid
  <2> QED
    BY <1>1, <2>2
       DEF IfaceInv, IfaceTypes, SolePrimary, Summarised, BssidFollowsPrimary, primVars
<1>3. CASE ~(turned /\ opmode = "AP" /\ stations # {})
  <2>1. /\ missed' = (missed \/ (turned /\ opmode # "STATION"))
        /\ UNCHANGED <<curbssid, sync>>
    BY <1>3 DEF SyncPrimary
  <2>2. CASE missed'
    BY <1>1, <2>1, <2>2 DEF IfaceInv, IfaceTypes, Summarised
  <2>3. CASE ~missed'
    <3>1. ~missed /\ BssidFollowsPrimary
      BY <2>1, <2>3 DEF IfaceInv, Summarised
    <3>2. opmode' = "STATION" => opmode = "STATION" \/ primary = {}
      BY <2>1, <2>3 DEF IfaceInv, SolePrimary
    <3> QED
      BY <1>1, <2>1, <3>1, <3>2
         DEF IfaceInv, IfaceTypes, Summarised, BssidFollowsPrimary, primVars
  <2> QED
    BY <2>2, <2>3
<1> QED
  BY <1>2, <1>3

\* What the interfaces keep when one of them is added, changed or removed.
LEMMA InterfacesChanged ==
  ASSUME IfaceInv, NEW v \in Vif, NEW w \in {v, None},
         assoc[v] = None,
         \E t \in Types \cup {None} : type' = [type EXCEPT ![v] = t],
         \E p \in BOOLEAN : p2p' = [p2p EXCEPT ![v] = p],
         \A x, y \in Vif : p2p'[x] /\ p2p'[y] => x = y,
         w # None => type'[w] # None,
         nvifs' = Cardinality(Present'),
         slots' = {u \in Present' : UsesBeacons(type'[u])},
         CalculateSummaryState(w, type'),
         noa' \in [Vif -> {"none", "absent", "present"}],
         p2pVif' \in {p2pVif, None},
         p2pVif' # None => type'[p2pVif'] # None,
         p2pVif = v \/ p2pVif' = p2pVif,
         UNCHANGED <<assoc, primVars, genTimer, asleep>>
  PROVE  IfaceInv'
<1>1. /\ type' \in [Vif -> Types \cup {None}] /\ p2p' \in [Vif -> BOOLEAN]
      /\ \A u \in Vif \ {v} : type'[u] = type[u] /\ p2p'[u] = p2p[u]
  BY DEF IfaceInv, IfaceTypes
<1>2. \A u \in Associated : u # v /\ type'[u] = type[u]
  BY <1>1 DEF Associated
<1>3. /\ tsfoor' \in BOOLEAN
      /\ masked' = Present'
      /\ IF Present' = {} THEN macaddr' = None ELSE macaddr' \in Present'
      /\ opmode' = OpmodeOf({type'[u] : u \in Present'})
      /\ tsfoor' <=> \E u \in Present' : type'[u] \notin {"AP", "WDS"}
  BY <1>1, IterDataAgrees DEF CalculateSummaryState
<1>4. /\ SolePrimary' /\ Summarised'
      /\ curbssid' \in Bss \cup {None} /\ sync' \in BOOLEAN /\ missed' \in BOOLEAN
  BY <1>2, SyncAgrees DEF CalculateSummaryState
<1>5. IfaceTypes'
  BY <1>1, <1>3, <1>4 DEF IfaceInv, IfaceTypes, primVars
<1>6. Granted'
  BY <1>1, <1>2 DEF IfaceInv, Granted, Associated
<1>7. ModeOfInterfaces'
  BY <1>3 DEF ModeOfInterfaces
<1>8. SleepersWatched'
  <2>1. asleep' \subseteq Associated' /\ asleep' = asleep
    BY DEF IfaceInv, SleepersWatched, Associated
  <2>2. ASSUME NEW u \in asleep, p2p'[u]
        PROVE  u = p2pVif' /\ genTimer'
    BY <1>1, <1>2, <2>2 DEF IfaceInv, SleepersWatched, Associated
  <2> QED
    BY <2>1, <2>2 DEF SleepersWatched
<1> QED
  BY <1>4, <1>5, <1>6, <1>7, <1>8 DEF IfaceInv

\* if_limits leave at most one P2P interface.
LEMMA AllowedOne ==
  ASSUME NEW t, NEW p, Allowed(t, p), NEW x \in Vif, NEW y \in Vif, p[x], p[y]
  PROVE  x = y
<1> DEFINE P == {u \in Vif : p[u]}
<1>1. IsFiniteSet(P) /\ Cardinality(P) <= 1
  BY PresentFinite, FS_Subset DEF Allowed
<1>2. SUFFICES ASSUME x # y PROVE FALSE
  OBVIOUS
<1>3. {x} \cup {y} \subseteq P /\ IsFiniteSet({x}) /\ Cardinality({x}) = 1
  BY FS_Singleton
<1>4. Cardinality({x} \cup {y}) = 2
  BY <1>2, <1>3, FS_AddElement
<1>5. Cardinality({x} \cup {y}) <= Cardinality(P)
  BY <1>1, <1>3, FS_Subset
<1> QED
  BY <1>1, <1>4, <1>5, FS_CardinalityType

\* main.c:1127-1192
LEMMA AddAgrees ==
  ASSUME IfaceInv, NEW v \in Vif, NEW t \in Types, NEW p \in BOOLEAN,
         AddInterface(v, t, p)
  PROVE  IfaceInv'
<1> DEFINE types == [type EXCEPT ![v] = t]
           p2ps  == [p2p EXCEPT ![v] = p]
<1>1. /\ type[v] = None /\ Allowed(types, p2ps)
      /\ type' = types /\ p2p' = p2ps
      /\ nvifs' = nvifs + 1
      /\ CalculateSummaryState(v, type')
      /\ slots' = IF UsesBeacons(t) THEN slots \cup {v} ELSE slots
      /\ noa' = [noa EXCEPT ![v] = "none"]
      /\ UNCHANGED <<assoc, primVars, p2pVif, genTimer, asleep>>
  BY DEF AddInterface
<1>2. t # None /\ v \notin Present /\ Present' = Present \cup {v}
  BY <1>1, InterfacesAssumption DEF Present, IfaceInv, IfaceTypes
<1>3. nvifs' = Cardinality(Present')
  BY <1>1, <1>2, PresentFinite, FS_AddElement DEF IfaceInv, ModeOfInterfaces
<1>4. slots' = {u \in Present' : UsesBeacons(type'[u])}
  BY <1>1, <1>2 DEF IfaceInv, IfaceTypes, ModeOfInterfaces, Present
<1>5. \A x, y \in Vif : p2p'[x] /\ p2p'[y] => x = y
  BY <1>1, AllowedOne
<1>6. assoc[v] = None /\ type'[v] # None /\ noa' \in [Vif -> {"none", "absent", "present"}]
  BY <1>1, <1>2, InterfacesAssumption DEF IfaceInv, IfaceTypes, Granted, IfTypes
<1>7. p2pVif' # None => type'[p2pVif'] # None
  BY <1>1, <1>2 DEF IfaceInv, IfaceTypes, SleepersWatched
<1> QED
  BY <1>1, <1>3, <1>4, <1>5, <1>6, <1>7, InterfacesChanged

\* main.c:1194-1233
LEMMA ChangeAgrees ==
  ASSUME IfaceInv, NEW v \in Vif, NEW t \in Types, NEW p \in BOOLEAN,
         ChangeInterface(v, t, p)
  PROVE  IfaceInv'
<1> DEFINE types == [type EXCEPT ![v] = t]
           p2ps  == [p2p EXCEPT ![v] = p]
           kept  == IF UsesBeacons(type[v]) THEN slots \ {v} ELSE slots
<1>1. /\ type[v] # None /\ assoc[v] = None /\ Allowed(types, p2ps)
      /\ type' = types /\ p2p' = p2ps
      /\ CalculateSummaryState(v, type')
      /\ slots' = IF UsesBeacons(t) THEN kept \cup {v} ELSE kept
      /\ UNCHANGED <<nvifs, assoc, primVars, p2pVars>>
  BY DEF ChangeInterface
<1>2. t # None /\ v \in Present /\ Present' = Present
  BY <1>1, InterfacesAssumption DEF Present, IfaceInv, IfaceTypes
<1>3. nvifs' = Cardinality(Present')
  BY <1>1, <1>2 DEF IfaceInv, ModeOfInterfaces
<1>4. slots' = {u \in Present' : UsesBeacons(type'[u])}
  BY <1>1, <1>2 DEF IfaceInv, IfaceTypes, ModeOfInterfaces, Present
<1>5. \A x, y \in Vif : p2p'[x] /\ p2p'[y] => x = y
  BY <1>1, AllowedOne
<1>6. type'[v] # None /\ noa' \in [Vif -> {"none", "absent", "present"}]
      /\ UNCHANGED <<p2pVif, genTimer, asleep>>
  BY <1>1, <1>2 DEF IfaceInv, IfaceTypes, p2pVars
<1>7. p2pVif' # None => type'[p2pVif'] # None
  BY <1>1, <1>2, <1>6 DEF IfaceInv, IfaceTypes, SleepersWatched
<1> QED
  BY <1>1, <1>3, <1>4, <1>5, <1>6, <1>7, InterfacesChanged

\* main.c:1235-1262
LEMMA RemoveAgrees ==
  ASSUME IfaceInv, NEW v \in Vif, RemoveInterface(v)
  PROVE  IfaceInv'
<1>1. /\ type[v] # None /\ assoc[v] = None
      /\ p2pVif' = IF p2pVif = v THEN None ELSE p2pVif
      /\ type' = [type EXCEPT ![v] = None] /\ p2p' = [p2p EXCEPT ![v] = FALSE]
      /\ nvifs' = nvifs - 1
      /\ slots' = IF UsesBeacons(type[v]) THEN slots \ {v} ELSE slots
      /\ CalculateSummaryState(None, type')
      /\ UNCHANGED <<assoc, primVars, noa, genTimer, asleep>>
  BY DEF RemoveInterface
<1>2. v \in Present /\ Present' = Present \ {v}
  BY <1>1 DEF Present, IfaceInv, IfaceTypes
<1>3. nvifs' = Cardinality(Present')
  BY <1>1, <1>2, PresentFinite, FS_RemoveElement DEF IfaceInv, ModeOfInterfaces
<1>4. slots' = {u \in Present' : UsesBeacons(type'[u])}
  BY <1>1, <1>2 DEF IfaceInv, IfaceTypes, ModeOfInterfaces, Present
<1>5. \A x, y \in Vif : p2p'[x] /\ p2p'[y] => x = y
  BY <1>1 DEF IfaceInv, IfaceTypes, Granted
<1>6. p2pVif' # None => type'[p2pVif'] # None
  BY <1>1 DEF IfaceInv, IfaceTypes, SleepersWatched
<1>7. noa' \in [Vif -> {"none", "absent", "present"}]
  BY <1>1 DEF IfaceInv, IfaceTypes
<1> QED
  BY <1>1, <1>3, <1>4, <1>5, <1>6, <1>7, InterfacesChanged

\* ath9k_bss_assoc_iter leaves one primary station, and the chip with its BSSID.
LEMMA AssocAgrees ==
  ASSUME IfaceInv, NEW v \in Vif, NEW b \in Bss \cup {None}, BssChangedAssoc(v, b),
         assoc[v] = None <=> b # None, UNCHANGED modeVars
  PROVE  /\ SolePrimary' /\ Summarised'
         /\ assoc' = [assoc EXCEPT ![v] = b]
         /\ assoc' \in [Vif -> Bss \cup {None}] /\ primary' \subseteq Vif
         /\ prim' \in BOOLEAN
         /\ curbssid' \in Bss \cup {None} /\ sync' \in BOOLEAN /\ missed' \in BOOLEAN
<1> DEFINE as         == [assoc EXCEPT ![v] = b]
           dropped    == v \in primary /\ b = None
           rest       == IF dropped THEN primary \ {v} ELSE primary
           still      == prim /\ ~dropped
           candidates == {u \in Vif : as[u] # None}
<1>1. assoc' = as /\ BssAssocIter(as, rest, still)
  BY DEF BssChangedAssoc
<1>2. as \in [Vif -> Bss \cup {None}] /\ candidates = Associated'
  BY <1>1 DEF IfaceInv, IfaceTypes, Associated
<1>3. \A u \in primary : u \in rest => as[u] = assoc[u] /\ as[u] # None
  BY DEF IfaceInv, IfaceTypes, SolePrimary, Associated
<1>4. ~still => rest = {}
  BY DEF IfaceInv, SolePrimary
<1>5. still => rest = primary
  OBVIOUS
<1>6. still \in BOOLEAN /\ opmode' = opmode
  BY DEF modeVars
<1>7. CASE still
  <2>1. primary' = primary /\ prim' = TRUE /\ UNCHANGED bssVars
    BY <1>1, <1>5, <1>6, <1>7 DEF BssAssocIter, IfaceInv, IfaceTypes
  <2>2. SolePrimary'
    BY <1>1, <1>2, <1>3, <1>5, <1>7, <2>1
       DEF IfaceInv, IfaceTypes, SolePrimary, Associated
  <2>3. Summarised'
    BY <1>1, <1>3, <1>5, <1>6, <1>7, <2>1
       DEF IfaceInv, Summarised, BssidFollowsPrimary, bssVars
  <2> QED
    BY <1>1, <1>2, <2>1, <2>2, <2>3 DEF IfaceInv, IfaceTypes, bssVars
<1>8. CASE ~still /\ candidates = {}
  <2>1. primary' = {} /\ prim' = FALSE
        /\ curbssid' \in {curbssid, None} /\ UNCHANGED <<sync, missed>>
    BY <1>1, <1>4, <1>8 DEF BssAssocIter, bssVars
  <2>2. SolePrimary' /\ Summarised'
    BY <1>2, <1>8, <2>1 DEF SolePrimary, Summarised, BssidFollowsPrimary
  <2> QED
    BY <1>1, <1>2, <2>1, <2>2 DEF IfaceInv, IfaceTypes
<1>9. CASE ~still /\ candidates # {}
  <2>1. PICK u \in candidates : /\ primary' = rest \cup {u} /\ prim' = TRUE
                                /\ SetBssid(opmode, as[u])
    BY <1>1, <1>9 DEF BssAssocIter
  <2>2. primary' = {u}
    BY <1>4, <1>9, <2>1
  <2>3. SolePrimary'
    BY <1>2, <2>1, <2>2 DEF SolePrimary
  <2>4. Summarised'
    BY <1>1, <1>6, <2>1, <2>2
       DEF IfaceInv, Summarised, BssidFollowsPrimary, SetBssid, WritesBssid
  <2>5. curbssid' \in Bss \cup {None} /\ sync' \in BOOLEAN /\ missed' \in BOOLEAN
    BY <1>2, <2>1 DEF IfaceInv, IfaceTypes, SetBssid, WritesBssid, bssVars
  <2> QED
    BY <1>1, <1>2, <2>1, <2>2, <2>3, <2>4, <2>5
<1> QED
  BY <1>7, <1>8, <1>9

\* An absence is announced to the one P2P station only.
LEMMA P2pAgrees ==
  ASSUME IfaceInv,
         \/ \E v \in Vif, synced \in BOOLEAN : UpdateP2pPs(v, synced)
         \/ UNCHANGED <<p2pVif, noa, genTimer>>
  PROVE  /\ p2pVif' \in Vif \cup {None} /\ genTimer' \in BOOLEAN
         /\ noa' \in [Vif -> {"none", "absent", "present"}]
         /\ p2pVif' # None => type[p2pVif'] # None
         /\ \A u \in asleep : p2p[u] => u = p2pVif' /\ genTimer'
<1>1. asleep \subseteq Vif
  BY DEF IfaceInv, SleepersWatched, Associated
<1>2. CASE UNCHANGED <<p2pVif, noa, genTimer>>
  BY <1>2 DEF IfaceInv, IfaceTypes, SleepersWatched
<1>3. CASE ~UNCHANGED <<p2pVif, noa, genTimer>>
  <2>1. PICK v \in Vif :
          /\ type[v] = "STATION" /\ p2p[v]
          /\ \E n \in {"none", "absent", "present"} :
             /\ p2pVif' = v
             /\ noa' = [noa EXCEPT ![v] = n]
             /\ genTimer' = (genTimer \/ n # "none")
    BY <1>3 DEF UpdateP2pPs
  <2>2. "STATION" # None
    BY InterfacesAssumption DEF IfTypes
  <2> QED
    BY <1>1, <2>1, <2>2 DEF IfaceInv, IfaceTypes, Granted, SleepersWatched
<1> QED
  BY <1>2, <1>3

\* main.c:1771-1834, 1836-1965
LEMMA BssInfoAgrees ==
  ASSUME IfaceInv, NEW v \in Vif,
         (\E b \in Bss : Associate(v, b)) \/ Disassociate(v)
  PROVE  IfaceInv'
<1>1. PICK b \in Bss \cup {None} :
        /\ BssChangedAssoc(v, b)
        /\ assoc[v] = None <=> b # None
        /\ b # None => type[v] = "STATION"
    BY InterfacesAssumption DEF Associate, Disassociate
<1>2. /\ UpdateP2pPs(v, sync') \/ UNCHANGED <<p2pVif, noa, genTimer>>
      /\ asleep' = asleep \ {v}
      /\ UNCHANGED <<vifVars, modeVars>>
  BY DEF Associate, Disassociate
<1>3. /\ SolePrimary' /\ Summarised'
      /\ assoc' = [assoc EXCEPT ![v] = b]
      /\ assoc' \in [Vif -> Bss \cup {None}] /\ primary' \subseteq Vif
      /\ prim' \in BOOLEAN
      /\ curbssid' \in Bss \cup {None} /\ sync' \in BOOLEAN /\ missed' \in BOOLEAN
  BY <1>1, <1>2, AssocAgrees
<1>4. /\ p2pVif' \in Vif \cup {None} /\ genTimer' \in BOOLEAN
      /\ noa' \in [Vif -> {"none", "absent", "present"}]
      /\ p2pVif' # None => type[p2pVif'] # None
      /\ \A u \in asleep : p2p[u] => u = p2pVif' /\ genTimer'
  BY <1>2, <1>3, P2pAgrees
<1>5. IfaceTypes'
  BY <1>2, <1>3, <1>4 DEF IfaceInv, IfaceTypes, vifVars, modeVars
<1>6. Granted'
  BY <1>1, <1>2, <1>3 DEF IfaceInv, IfaceTypes, Granted, vifVars
<1>7. ModeOfInterfaces'
  BY <1>2 DEF IfaceInv, ModeOfInterfaces, vifVars, modeVars, Present
<1>8. SleepersWatched'
  BY <1>2, <1>3, <1>4 DEF IfaceInv, IfaceTypes, SleepersWatched, vifVars, Associated
<1> QED
  BY <1>3, <1>5, <1>6, <1>7, <1>8 DEF IfaceInv

\* While an ad-hoc interface is there the device is not in STATION mode, so
\* that the cell it joins is nobody else's BSSID.
LEMMA IbssAgrees ==
  ASSUME IfaceInv, NEW v \in Vif, NEW b \in Bss, JoinIbss(v, b)
  PROVE  IfaceInv'
<1>1. type[v] = "ADHOC" /\ curbssid' = b
      /\ UNCHANGED <<vifVars, modeVars, assoc, primVars, sync, missed, p2pVars>>
  BY DEF JoinIbss
<1>2. "ADHOC" \in {type[u] : u \in Present}
  BY <1>1, InterfacesAssumption DEF Present, IfTypes
<1>3. opmode # "STATION"
  BY <1>2 DEF IfaceInv, ModeOfInterfaces, OpmodeOf
<1>4. Summarised'
  BY <1>1, <1>3 DEF Summarised, BssidFollowsPrimary, modeVars
<1>5. IfaceTypes' /\ Granted'
  BY <1>1 DEF IfaceInv, IfaceTypes, Granted, vifVars, modeVars, primVars, p2pVars
<1>6. ModeOfInterfaces'
  BY <1>1 DEF IfaceInv, ModeOfInterfaces, vifVars, modeVars, Present
<1>7. SolePrimary'
  BY <1>1 DEF IfaceInv, SolePrimary, primVars, Associated
<1>8. SleepersWatched'
  BY <1>1 DEF IfaceInv, SleepersWatched, p2pVars, vifVars, Associated
<1> QED
  BY <1>4, <1>5, <1>6, <1>7, <1>8 DEF IfaceInv

\* The steps that are about beacons and absences alone.
LEMMA BeaconsAgree ==
  ASSUME IfaceInv,
         (\E v \in Vif : NoaChanged(v)) \/ TsfOutOfRange \/ BeaconReceived \/ P2pPsTimer
  PROVE  IfaceInv'
<1>1. /\ UNCHANGED <<vifVars, modeVars, assoc, primVars, curbssid, missed>>
      /\ sync' \in BOOLEAN
  BY DEF NoaChanged, TsfOutOfRange, BeaconReceived, P2pPsTimer, IfaceInv, IfaceTypes,
         bssVars
<1>2. Granted' /\ SolePrimary' /\ Summarised'
  BY <1>1 DEF IfaceInv, Granted, SolePrimary, Summarised, BssidFollowsPrimary,
              Associated, vifVars, modeVars, primVars
<1>3. ModeOfInterfaces'
  BY <1>1 DEF IfaceInv, ModeOfInterfaces, vifVars, modeVars, Present
<1>4. /\ p2pVif' \in Vif \cup {None} /\ genTimer' \in BOOLEAN
      /\ noa' \in [Vif -> {"none", "absent", "present"}]
      /\ SleepersWatched'
  <2>1. CASE \/ \E v \in Vif : NoaChanged(v)
             \/ TsfOutOfRange \/ BeaconReceived
    <3>1. asleep' = asleep
          /\ \/ \E v \in Vif, s \in BOOLEAN : UpdateP2pPs(v, s)
             \/ UNCHANGED <<p2pVif, noa, genTimer>>
      BY <2>1 DEF NoaChanged, TsfOutOfRange, BeaconReceived, IfaceInv, IfaceTypes,
                  Associated, p2pVars
    <3>2. /\ p2pVif' \in Vif \cup {None} /\ genTimer' \in BOOLEAN
          /\ noa' \in [Vif -> {"none", "absent", "present"}]
          /\ p2pVif' # None => type[p2pVif'] # None
          /\ \A u \in asleep : p2p[u] => u = p2pVif' /\ genTimer'
      BY <3>1, P2pAgrees
    <3> QED
      BY <1>1, <3>1, <3>2 DEF IfaceInv, SleepersWatched, vifVars, Associated
  <2>2. CASE P2pPsTimer
    <3>1. PICK n \in {"none", "absent", "present"} :
            /\ noa' = [noa EXCEPT ![p2pVif] = n]
            /\ genTimer' = (genTimer \/ n # "none")
            /\ asleep' = IF assoc[p2pVif] # None /\ n = "absent"
                         THEN asleep \cup {p2pVif} ELSE asleep \ {p2pVif}
      BY <2>2 DEF P2pPsTimer
    <3>2. p2pVif # None /\ p2pVif' = p2pVif /\ p2pVif \in Vif
      BY <2>2 DEF P2pPsTimer, IfaceInv, IfaceTypes
    <3>3. noa' \in [Vif -> {"none", "absent", "present"}] /\ genTimer' \in BOOLEAN
      BY <3>1, <3>2 DEF IfaceInv, IfaceTypes
    <3>4. asleep' \subseteq Associated
      BY <3>1, <3>2 DEF IfaceInv, SleepersWatched, Associated
    <3>5. ASSUME NEW u \in asleep', p2p[u]
          PROVE  u = p2pVif' /\ genTimer'
      BY <3>1, <3>2, <3>5 DEF IfaceInv, IfaceTypes, SleepersWatched
    <3>6. p2pVif' # None => type[p2pVif'] # None
      BY <3>2 DEF IfaceInv, SleepersWatched
    <3> QED
      BY <1>1, <3>2, <3>3, <3>4, <3>5, <3>6 DEF SleepersWatched, vifVars, Associated
  <2> QED
    BY <2>1, <2>2
<1>5. IfaceTypes'
  BY <1>1, <1>4 DEF IfaceInv, IfaceTypes, vifVars, modeVars, primVars
<1> QED
  BY <1>2, <1>3, <1>4, <1>5 DEF IfaceInv

LEMMA IfaceFresh == IfaceInit => IfaceInv
<1> SUFFICES ASSUME IfaceInit PROVE IfaceInv
  OBVIOUS
<1>1. Present = {} /\ Associated = {}
  BY DEF IfaceInit, Present, Associated
<1>2. ModeOfInterfaces
  BY <1>1, FS_EmptySet DEF IfaceInit, ModeOfInterfaces, OpmodeOf
<1> QED
  BY <1>1, <1>2
     DEF IfaceInit, IfaceInv, IfaceTypes, Granted, SolePrimary, Summarised,
         BssidFollowsPrimary, SleepersWatched

LEMMA IfaceStep ==
  ASSUME IfaceInv, [DeviceNext]_deviceVars
  PROVE  IfaceInv'
<1>1. CASE NewSoftc
  <2>1. IfaceInit'
    BY <1>1 DEF NewSoftc, IfaceInit
  <2> QED
    BY <2>1, IfaceFresh, PTL
<1>2. CASE UNCHANGED ifaceVars
  <2>1. IfaceTypes' /\ Granted' /\ Summarised'
    BY <1>2 DEF IfaceInv, IfaceTypes, Granted, Summarised, BssidFollowsPrimary,
                ifaceVars, vifVars, modeVars, primVars, bssVars, p2pVars
  <2>2. ModeOfInterfaces'
    BY <1>2 DEF IfaceInv, ModeOfInterfaces, Present, ifaceVars, vifVars, modeVars
  <2>3. SolePrimary' /\ SleepersWatched'
    BY <1>2 DEF IfaceInv, SolePrimary, SleepersWatched, Associated, ifaceVars,
                vifVars, primVars, p2pVars
  <2> QED
    BY <2>1, <2>2, <2>3 DEF IfaceInv
<1>3. CASE InterfaceStep
  BY <1>3, AddAgrees, ChangeAgrees, BssInfoAgrees, IbssAgrees, BeaconsAgree
     DEF InterfaceStep
<1>4. CASE TearDownStep
  BY <1>4, RemoveAgrees, BssInfoAgrees DEF TearDownStep
<1> QED
  BY <1>1, <1>2, <1>3, <1>4 DEF DeviceNext, deviceVars

LEMMA DeviceInductive == DeviceSpec => [](LifeInv /\ IfaceInv)
<1>1. DeviceInit => LifeInv /\ IfaceInv
  <2>1. DeviceInit => LifeInv
    BY DEF DeviceInit, LifeInit, Nothing, LifeInv, Holding, Stages, Resource
  <2> QED
    BY <2>1, IfaceFresh DEF DeviceInit
<1>2. LifeInv /\ IfaceInv /\ [DeviceNext]_deviceVars => LifeInv' /\ IfaceInv'
  BY LifeStep, IfaceStep
<1> QED
  BY <1>1, <1>2, PTL DEF DeviceSpec

\* Every variable of the device keeps its type.
THEOREM DeviceTyped == DeviceSpec => []DeviceTypeOK
BY DeviceInductive, IfaceInvSuffices, PTL

\* Whatever interfaces are added, changed and removed, whichever of them
\* associate, leave and sleep, and whenever the device comes and goes, the mode,
\* the masks, the beacon slots, the primary station with its BSSID and the P2P
\* timer of main.c:1052-1321 and 1771-1965 are those of the interfaces there are.
THEOREM InterfacesAgreeHolds == DeviceSpec => []InterfacesAgree
BY DeviceInductive, IfaceInvSuffices, PTL
=============================================================================
