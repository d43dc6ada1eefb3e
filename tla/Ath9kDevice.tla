---------------------------- MODULE Ath9kDevice ----------------------------
(***************************************************************************)
(* One ath9k device from the loading of the driver to its removal: the     *)
(* probe of Ath9kLifeCycle, and the interfaces of Ath9kInterfaces, which   *)
(* mac80211 may add as soon as ieee80211_register_hw has made the device   *)
(* visible and which it takes away again when the device is unregistered,  *)
(* be it because a later step of the probe failed.                         *)
(***************************************************************************)
EXTENDS Ath9kInterfaces

deviceVars == <<lifeVars, ifaceVars>>

DeviceInit == LifeInit /\ IfaceInit

\* mac80211 removes every interface before it lets the driver go.
Removed == Present = {} /\ FinishUnregister

\* A new softc, and with it no interface, no timer and no flag.
NewSoftc ==
  /\ AllocSoftc
  /\ type' = [v \in Vif |-> None] /\ p2p' = [v \in Vif |-> FALSE]
  /\ slots' = {} /\ nvifs' = 0
  /\ opmode' = "STATION" /\ tsfoor' = FALSE /\ masked' = {} /\ macaddr' = None
  /\ assoc' = [v \in Vif |-> None] /\ primary' = {} /\ prim' = FALSE
  /\ curbssid' = None /\ sync' = FALSE /\ missed' = FALSE
  /\ p2pVif' = None /\ noa' = [v \in Vif |-> "none"]
  /\ genTimer' = FALSE /\ asleep' = {}

ProbeOrRemove ==
  \/ AllocFails \/ InitSocPlatform \/ RequestGpio \/ HwInit \/ InitQueues
  \/ InitBtcoex \/ InitChannels \/ InitRegd \/ InitTx \/ InitRx \/ RegisterHw
  \/ InitDebug \/ RegulatoryHint \/ DeinitDevice \/ Removed
  \/ ModuleStep

DeviceNext ==
  \/ NewSoftc
  \/ ProbeOrRemove /\ UNCHANGED ifaceVars
  \/ held["registered"] = 1 /\ stage # "unregistering" /\ InterfaceStep
     /\ UNCHANGED lifeVars
  \/ held["registered"] = 1 /\ TearDownStep /\ UNCHANGED lifeVars

DeviceSpec == DeviceInit /\ [][DeviceNext]_deviceVars

-----------------------------------------------------------------------------
DeviceTypeOK ==
  /\ LifeTypeOK
  /\ type \in [Vif -> Types \cup {None}] /\ p2p \in [Vif -> BOOLEAN]
  /\ slots \subseteq Vif /\ nvifs \in 0..Cardinality(Vif)
  /\ opmode \in {"STATION", "AP", "ADHOC", "MESH_POINT"} /\ tsfoor \in BOOLEAN
  /\ masked \subseteq Vif /\ macaddr \in Vif \cup {None}
  /\ assoc \in [Vif -> Bss \cup {None}]
  /\ primary \subseteq Vif /\ prim \in BOOLEAN
  /\ curbssid \in Bss \cup {None} /\ sync \in BOOLEAN /\ missed \in BOOLEAN
  /\ p2pVif \in Vif \cup {None} /\ noa \in [Vif -> {"none", "absent", "present"}]
  /\ genTimer \in BOOLEAN /\ asleep \subseteq Vif

\* The mode, the address mask, the beacon slots and the clock interrupt are
\* those of the interfaces there are.
ModeOfInterfaces ==
  /\ nvifs = Cardinality(Present)
  /\ masked = Present
  /\ IF Present = {} THEN macaddr = None ELSE macaddr \in Present
  /\ opmode = OpmodeOf({type[v] : v \in Present})
  /\ tsfoor <=> \E v \in Present : type[v] \notin {"AP", "WDS"}
  /\ slots = {v \in Present : UsesBeacons(type[v])}

\* Among the associated stations exactly one is the primary one.
OnePrimary ==
  /\ prim <=> primary # {}
  /\ Cardinality(primary) <= 1
  /\ primary \subseteq Associated
  /\ Associated # {} => prim

\* In STATION mode the chip is programmed with the network of the primary
\* station, however stations and access points came and went.
BssidFollowsPrimary ==
  opmode = "STATION" => \A v \in primary : curbssid = assoc[v]

\* A P2P client whose group owner's queues are asleep is the one the timer
\* looks after, and the timer is started, so that they can be woken.  (A client
\* turned into an ordinary station is not: change_interface lets the timer keep
\* the old absence, which puts the new network to sleep.)
SleepersWatched ==
  /\ p2pVif # None => type[p2pVif] # None
  /\ asleep \subseteq Associated
  /\ \A v \in asleep : p2p[v] => v = p2pVif /\ genTimer

\* What main.c:1052-1321 and 1771-1965 keep of the interfaces beside mac80211
\* agrees with the interfaces there are, except that nobody syncs to the
\* primary station when the mode comes back to STATION from mesh or ad hoc.
InterfacesAgree ==
  /\ ModeOfInterfaces
  /\ OnePrimary
  /\ missed \/ BssidFollowsPrimary
  /\ SleepersWatched
=============================================================================
