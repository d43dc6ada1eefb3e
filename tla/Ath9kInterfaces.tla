-------------------------- MODULE Ath9kInterfaces --------------------------
(***************************************************************************)
(* ath9k/main.c: the virtual interfaces of one device, the operating mode  *)
(* they add up to, association and the absence of a P2P group owner.       *)
(*                                                                         *)
(* Every entry holds sc->mutex from end to end, so an entry is one step.   *)
(* mac80211, which calls them, keeps its promises: interfaces are added    *)
(* within the combinations of if_limits, and one is changed or removed     *)
(* only when it is no longer associated and no longer running, so that the *)
(* iteration over active interfaces meets the others only.                 *)
(***************************************************************************)
EXTENDS Ath9kLifeCycle, FiniteSets

CONSTANTS Vif,    \* interfaces mac80211 may ask for
          Bss,    \* networks a station may join
          Types,  \* interface types in use
          None    \* no interface, no network, no type

\* The NL80211_IFTYPEs of if_limits.
IfTypes == {"STATION", "AP", "ADHOC", "MESH_POINT", "WDS"}

ASSUME InterfacesAssumption ==
  /\ IsFiniteSet(Vif)
  /\ Types \subseteq IfTypes
  /\ None \notin Vif \cup Bss \cup IfTypes

VARIABLES
  type,      \* vif->type, None when the driver does not have the interface
  p2p,       \* vif->p2p
  assoc,     \* the network of a station whose bss_conf.assoc is set
  primary,   \* interfaces with avp->primary_sta_vif
  slots,     \* interfaces with a beacon slot
  nvifs,     \* sc->nvifs
  opmode,    \* ah->opmode
  tsfoor,    \* ATH9K_INT_TSFOOR in ah->imask
  masked,    \* interfaces whose address is in common->bssidmask
  macaddr,   \* the interface common->macaddr is taken from
  prim,      \* ATH_OP_PRIM_STA_VIF
  curbssid,  \* common->curbssid
  sync,      \* PS_BEACON_SYNC
  missed,    \* history: opmode has become STATION without the beacon sync
  p2pVif,    \* sc->p2p_ps_vif
  noa,       \* avp->noa: "none" (no next switch), "absent" or "present"
  genTimer,  \* sc->p2p_ps_timer is started
  asleep     \* interfaces for whose group owner an->sleeping is set

vifVars   == <<type, p2p, slots, nvifs>>
modeVars  == <<opmode, tsfoor, masked, macaddr>>
primVars  == <<primary, prim>>
bssVars   == <<curbssid, sync, missed>>
p2pVars   == <<p2pVif, noa, genTimer, asleep>>
ifaceVars == <<vifVars, modeVars, assoc, primVars, bssVars, p2pVars>>

\* A softc fresh from kzalloc has no interface.
IfaceInit ==
  /\ type = [v \in Vif |-> None] /\ p2p = [v \in Vif |-> FALSE]
  /\ slots = {} /\ nvifs = 0
  /\ opmode = "STATION" /\ tsfoor = FALSE /\ masked = {} /\ macaddr = None
  /\ assoc = [v \in Vif |-> None] /\ primary = {} /\ prim = FALSE
  /\ curbssid = None /\ sync = FALSE /\ missed = FALSE
  /\ p2pVif = None /\ noa = [v \in Vif |-> "none"]
  /\ genTimer = FALSE /\ asleep = {}

Present    == {v \in Vif : type[v] # None}
Associated == {v \in Vif : assoc[v] # None}

\* if_limits: one P2P interface and one ad-hoc interface; mac80211 also keeps
\* P2P to stations and access points.
Allowed(t, p) ==
  /\ Cardinality({v \in Vif : p[v]}) <= 1
  /\ Cardinality({v \in Vif : t[v] = "ADHOC"}) <= 1
  /\ \A v \in Vif : p[v] => t[v] \in {"STATION", "AP"}

UsesBeacons(t) == t \in {"AP", "ADHOC", "MESH_POINT"}

-----------------------------------------------------------------------------
\* Whether ath9k_set_assoc_state, called in mode m, goes on to the BSSID.
WritesBssid(m) == m = "STATION"

\* ath9k_set_assoc_state for the network b of the primary station.
SetBssid(m, b) ==
  IF WritesBssid(m) THEN curbssid' = b /\ sync' = TRUE /\ missed' = FALSE
                    ELSE UNCHANGED bssVars

\* ath9k_calculate_summary_state: the mode the types T in use add up to.
OpmodeOf(T) ==
  IF "AP" \in T THEN "AP"
  ELSE IF "MESH_POINT" \in T THEN "MESH_POINT"
  ELSE IF "WDS" \in T THEN "AP"
  ELSE IF "ADHOC" \in T THEN "ADHOC"
  ELSE "STATION"

\* ath9k_calculate_iter_data and the mask, the mode and the interrupt that
\* follow from it: v is counted first, then the active interfaces in some order.
CalculateIterData(v, t) ==
  LET counted == {u \in Vif : t[u] # None}
      inUse   == {t[u] : u \in counted}
  IN  /\ masked' = counted
      /\ IF v # None THEN macaddr' = v
         ELSE IF counted = {} THEN macaddr' = None
         ELSE \E u \in counted : macaddr' = u
      /\ opmode' = OpmodeOf(inUse)
      /\ tsfoor' = (inUse \cap {"STATION", "ADHOC", "MESH_POINT"} # {})

\* Mutant: the new mode is set and nobody looks for a primary station.
NoSync(t) == UNCHANGED bssVars

\* The sync of the primary station when the last access point has gone.
SyncPrimary(t) ==
  LET stations == {u \in primary : t[u] = "STATION"}
      turned   == opmode' = "STATION" /\ prim
  IN  IF turned /\ opmode = "AP" /\ stations # {}
      THEN \E u \in stations : SetBssid("STATION", assoc[u])
      ELSE /\ missed' = (missed \/ (turned /\ opmode # "STATION"))
           /\ UNCHANGED <<curbssid, sync>>

CalculateSummaryState(v, t) == CalculateIterData(v, t) /\ SyncPrimary(t)

-----------------------------------------------------------------------------
AddInterface(v, t, p) ==
  LET types == [type EXCEPT ![v] = t]
      p2ps  == [p2p EXCEPT ![v] = p]
  IN  /\ type[v] = None /\ Allowed(types, p2ps)
      /\ type' = types /\ p2p' = p2ps
      /\ nvifs' = nvifs + 1
      /\ CalculateSummaryState(v, types)
      /\ slots' = IF UsesBeacons(t) THEN slots \cup {v} ELSE slots
      /\ noa' = [noa EXCEPT ![v] = "none"]
      /\ UNCHANGED <<assoc, primVars, p2pVif, genTimer, asleep>>

\* The slot goes by the old type and comes by the new one.
ChangeInterface(v, t, p) ==
  LET types == [type EXCEPT ![v] = t]
      p2ps  == [p2p EXCEPT ![v] = p]
      kept  == IF UsesBeacons(type[v]) THEN slots \ {v} ELSE slots
  IN  /\ type[v] # None /\ assoc[v] = None /\ Allowed(types, p2ps)
      /\ <<t, p>> # <<type[v], p2p[v]>>
      /\ type' = types /\ p2p' = p2ps
      /\ CalculateSummaryState(v, types)
      /\ slots' = IF UsesBeacons(t) THEN kept \cup {v} ELSE kept
      /\ UNCHANGED <<nvifs, assoc, primVars, p2pVars>>

\* Mutant: sc->nvifs is not counted down.
RemoveUncounted(v) ==
  /\ type[v] # None /\ assoc[v] = None
  /\ p2pVif' = IF p2pVif = v THEN None ELSE p2pVif
  /\ type' = [type EXCEPT ![v] = None] /\ p2p' = [p2p EXCEPT ![v] = FALSE]
  /\ slots' = IF UsesBeacons(type[v]) THEN slots \ {v} ELSE slots
  /\ CalculateSummaryState(None, type')
  /\ UNCHANGED <<nvifs, assoc, primVars, noa, genTimer, asleep>>

\* ath9k_update_p2p_ps_timer(sc, NULL) returns at once: the timer keeps going.
RemoveInterface(v) ==
  /\ type[v] # None /\ assoc[v] = None
  /\ p2pVif' = IF p2pVif = v THEN None ELSE p2pVif
  /\ type' = [type EXCEPT ![v] = None] /\ p2p' = [p2p EXCEPT ![v] = FALSE]
  /\ nvifs' = nvifs - 1
  /\ slots' = IF UsesBeacons(type[v]) THEN slots \ {v} ELSE slots
  /\ CalculateSummaryState(None, type')
  /\ UNCHANGED <<assoc, primVars, noa, genTimer, asleep>>

-----------------------------------------------------------------------------
\* ath9k_update_p2p_ps for v, unless PS_BEACON_SYNC is set: the attribute is
\* parsed, and the timer started when it announces a next switch.
UpdateP2pPs(v, synced) ==
  IF synced \/ held["p2p_timer"] = 0 \/ type[v] # "STATION" \/ ~p2p[v]
  THEN UNCHANGED <<p2pVif, noa, genTimer>>
  ELSE \E n \in {"none", "absent", "present"} :
         /\ p2pVif' = v
         /\ noa' = [noa EXCEPT ![v] = n]
         /\ genTimer' = (genTimer \/ n # "none")

\* ath9k_bss_assoc_iter over the interfaces of as: the first one associated
\* becomes the primary station if there is none in "rest".
BssAssocIter(as, rest, still) ==
  LET candidates == {u \in Vif : as[u] # None}
  IN  IF still \/ candidates = {}
      THEN /\ primary' = rest /\ prim' = still
           /\ IF ~still /\ opmode = "STATION"
              THEN curbssid' = None /\ UNCHANGED <<sync, missed>>
              ELSE UNCHANGED bssVars
      ELSE \E u \in candidates :
             /\ primary' = rest \cup {u} /\ prim' = TRUE
             /\ SetBssid(opmode, as[u])

\* BSS_CHANGED_ASSOC: v has joined b, or left its network (b is None).
BssChangedAssoc(v, b) ==
  LET as      == [assoc EXCEPT ![v] = b]
      dropped == v \in primary /\ b = None
  IN  /\ assoc' = as
      /\ BssAssocIter(as, IF dropped THEN primary \ {v} ELSE primary,
                      prim /\ ~dropped)

\* ath9k_bss_info_changed for a station that has joined b; BSS_CHANGED_P2P_PS
\* comes with it when the group owner announced an absence.
Associate(v, b) ==
  /\ type[v] = "STATION" /\ assoc[v] = None
  /\ BssChangedAssoc(v, b)
  /\ UpdateP2pPs(v, sync') \/ UNCHANGED <<p2pVif, noa, genTimer>>
  /\ asleep' = asleep \ {v}
  /\ UNCHANGED <<vifVars, modeVars>>

Disassociate(v) ==
  /\ assoc[v] # None
  /\ BssChangedAssoc(v, None)
  /\ asleep' = asleep \ {v}
  /\ UNCHANGED <<vifVars, modeVars, p2pVif, noa, genTimer>>

\* BSS_CHANGED_IBSS: the cell of an ad-hoc interface is b.
JoinIbss(v, b) ==
  /\ type[v] = "ADHOC"
  /\ curbssid' = b
  /\ UNCHANGED <<vifVars, modeVars, assoc, primVars, sync, missed, p2pVars>>

\* BSS_CHANGED_P2P_PS on its own.
NoaChanged(v) ==
  /\ assoc[v] # None
  /\ UpdateP2pPs(v, sync)
  /\ UNCHANGED <<vifVars, modeVars, assoc, primVars, bssVars, asleep>>

\* ath9k_tasklet, ATH9K_INT_TSFOOR: the clock of the network has run away.
TsfOutOfRange ==
  /\ tsfoor /\ ~sync
  /\ sync' = TRUE
  /\ UNCHANGED <<vifVars, modeVars, assoc, primVars, curbssid, missed, p2pVars>>

\* ath_rx_ps_beacon (recv.c): the beacon that was waited for.
BeaconReceived ==
  /\ sync
  /\ sync' = FALSE
  /\ \/ \E v \in Associated : UpdateP2pPs(v, FALSE)
     \/ UNCHANGED <<p2pVif, noa, genTimer>>
  /\ UNCHANGED <<vifVars, modeVars, assoc, primVars, curbssid, missed, asleep>>

\* ath9k_p2p_ps_timer, from the timer or from ath_complete_reset: the absence
\* moves on when its time has come, and the queues of the group owner, if the
\* interface has one, follow.
P2pPsTimer ==
  /\ p2pVif # None
  /\ \E n \in {"none", "absent", "present"} :
       /\ noa[p2pVif] = "none" => n = "none"
       /\ noa' = [noa EXCEPT ![p2pVif] = n]
       /\ genTimer' = (genTimer \/ n # "none")
       /\ asleep' = IF assoc[p2pVif] # None /\ n = "absent"
                    THEN asleep \cup {p2pVif} ELSE asleep \ {p2pVif}
  /\ UNCHANGED <<vifVars, modeVars, assoc, primVars, bssVars, p2pVif>>

InterfaceStep ==
  \/ \E v \in Vif, t \in Types, p \in BOOLEAN :
       AddInterface(v, t, p) \/ ChangeInterface(v, t, p)
  \/ \E v \in Vif, b \in Bss : Associate(v, b) \/ JoinIbss(v, b)
  \/ \E v \in Vif : NoaChanged(v)
  \/ TsfOutOfRange \/ BeaconReceived \/ P2pPsTimer

\* What mac80211 still does while it unregisters the device.
TearDownStep == \E v \in Vif : RemoveInterface(v) \/ Disassociate(v)
=============================================================================
