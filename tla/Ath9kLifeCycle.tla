--------------------------- MODULE Ath9kLifeCycle ---------------------------
(***************************************************************************)
(* ath9k/init.c: the driver module, the probe of one device                *)
(* (ath9k_init_device, ath9k_init_softc) and its removal.                  *)
(*                                                                         *)
(* A probe acquires resources one after the other; any step may fail, and  *)
(* the gotos of the two functions undo what was done.  "held" counts what  *)
(* this probe has, so that a missing release leaves 1 and a repeated one   *)
(* makes -1.  Memory from devm_kzalloc goes with the device and is no      *)
(* resource here, and neither are the DMA buffers, which come from it.     *)
(***************************************************************************)
EXTENDS Integers

VARIABLES
  driver,  \* ath9k.ko: how far ath9k_init or ath9k_exit has come
  stage,   \* the last step of the probe that is done
  held,    \* what the probe holds
  leaked,  \* <<failed step, resource>> for what the last probe never released
  ah       \* the exported ath9k_ah: null, of this probe, or of freed memory

lifeVars == <<driver, stage, held, leaked, ah>>

Resource == {"dfs", "eeprom", "gpio", "hw", "queues", "btcoex", "p2p_timer",
             "rx", "registered", "debug", "rfkill"}

\* Released only if they are there: NULL pointers and queues never set up.
Optional == {"dfs", "eeprom", "p2p_timer"}

Stages == {"out", "softc", "platform", "gpio", "hw", "queues", "btcoex",
           "channels", "regd", "tx", "rx", "registered", "debug", "up",
           "unregistering"}

Nothing == [r \in Resource |-> 0]

LifeInit ==
  /\ driver = "unloaded" /\ stage = "out"
  /\ held = Nothing /\ leaked = {} /\ ah = "null"

-----------------------------------------------------------------------------
Acquired(R) == [r \in Resource |-> IF r \in R THEN held[r] + 1 ELSE held[r]]

Released(R) == [r \in Resource |->
                  IF r \in R /\ (r \in Optional => held[r] # 0)
                  THEN held[r] - 1 ELSE held[r]]

\* A step is done, with all of R.
Step(from, to, R) ==
  /\ stage = from /\ stage' = to
  /\ held' = Acquired(R)
  /\ UNCHANGED <<driver, leaked, ah>>

\* The probe or the removal is over, R released; the softc is freed, and with
\* it the memory ath9k_ah points to.
Over(at, R) ==
  /\ stage' = "out"
  /\ held' = Nothing
  /\ leaked' = {<<at, r>> : r \in {x \in Resource : Released(R)[x] # 0}}
  /\ ah' = IF ah = "live" THEN "freed" ELSE ah
  /\ UNCHANGED driver

\* The step after "from" fails; the label it jumps to releases R.
Fail(from, at, R) == stage = from /\ Over(at, R)

-----------------------------------------------------------------------------
(* ath9k_init_softc *)

\* The labels, last to first.
ErrHw     == {"eeprom", "gpio"}
ErrQueues == ErrHw \cup {"hw"}

\* Mutant: err_btcoex falls past the queues.
NoQueueCleanup == ErrQueues

ErrBtcoex == ErrQueues \cup {"queues"}

\* ath9k_deinit_softc, for what comes after ath9k_init_softc.
DeinitSoftc == {"p2p_timer", "btcoex", "queues", "hw", "dfs", "eeprom", "gpio"}

AllocSoftc ==
  /\ driver \in {"ahb", "loaded"} /\ stage = "out"
  /\ stage' = "softc"
  /\ ah' = "live" /\ leaked' = {}
  /\ \E R \in SUBSET {"dfs"} : held' = Acquired(R)
  /\ UNCHANGED driver

\* ath9k_ah is assigned before it is looked at.
AllocFails ==
  /\ driver \in {"ahb", "loaded"} /\ stage = "out"
  /\ ah' = "null"
  /\ UNCHANGED <<driver, stage, held, leaked>>

\* The platform may name an EEPROM file, which is then loaded and waited for.
InitSocPlatform ==
  \/ \E R \in SUBSET {"eeprom"} : Step("softc", "platform", R)
  \/ Fail("softc", "platform", {})

RequestGpio ==
  Step("platform", "gpio", {"gpio"}) \/ Fail("platform", "gpio", {})

HwInit == Step("gpio", "hw", {"hw"}) \/ Fail("gpio", "hw", ErrHw)

InitQueues == Step("hw", "queues", {"queues"})

InitBtcoex ==
  Step("queues", "btcoex", {"btcoex"}) \/ Fail("queues", "btcoex", ErrBtcoex)

\* ath9k_cmn_init_channels_rates; the timer of P2P may not be had.
InitChannels ==
  \/ \E R \in SUBSET {"p2p_timer"} : Step("btcoex", "channels", R)
  \/ Fail("btcoex", "channels", ErrBtcoex)

(* the rest of ath9k_init_device *)

InitRegd == Step("channels", "regd", {}) \/ Fail("channels", "regd", DeinitSoftc)

InitTx == Step("regd", "tx", {}) \/ Fail("regd", "tx", DeinitSoftc)

InitRx == Step("tx", "rx", {"rx"}) \/ Fail("tx", "rx", DeinitSoftc)

\* label rx_cleanup
RxCleanup == {"rx"} \cup DeinitSoftc

RegisterHw ==
  \/ Step("rx", "registered", {"registered"})
  \/ Fail("rx", "registered", RxCleanup)

\* ieee80211_unregister_hw begins, R released before it; mac80211 then calls
\* the driver back to remove the interfaces.
Unregister(from, R) ==
  /\ stage = from /\ stage' = "unregistering"
  /\ held' = Released(R)
  /\ UNCHANGED <<driver, leaked, ah>>

InitDebug ==
  Step("registered", "debug", {"debug"}) \/ Unregister("registered", {})

\* regulatory_hint, then LEDs and rfkill polling, which cannot fail.
RegulatoryHint ==
  Step("debug", "up", {"rfkill"}) \/ Unregister("debug", {"debug"})

\* ath9k_deinit_device, up to ieee80211_unregister_hw.
DeinitDevice == Unregister("up", {"rfkill", "debug"})

\* ieee80211_unregister_hw returns.
FinishUnregister ==
  /\ stage = "unregistering"
  /\ Over("up", {"registered"} \cup RxCleanup)

-----------------------------------------------------------------------------
(* ath9k_init and ath9k_exit *)

AhbInit ==
  /\ driver = "unloaded"
  /\ driver' = "ahb"
  /\ UNCHANGED <<stage, held, leaked, ah>>

\* ath_pci_init succeeds, or fails and the AHB driver goes as well.
PciInit ==
  /\ driver = "ahb"
  /\ driver' \in {"loaded", "exiting"}
  /\ UNCHANGED <<stage, held, leaked, ah>>

ModuleExit ==
  /\ driver = "loaded"
  /\ driver' = "exiting"
  /\ UNCHANGED <<stage, held, leaked, ah>>

\* The bus waits for probes and removals; a new ath9k.ko has a NULL ath9k_ah.
Unloaded ==
  /\ driver = "exiting" /\ stage = "out"
  /\ driver' = "unloaded"
  /\ ah' = "null"
  /\ UNCHANGED <<stage, held, leaked>>

ModuleStep == AhbInit \/ PciInit \/ ModuleExit \/ Unloaded

-----------------------------------------------------------------------------
LifeTypeOK ==
  /\ driver \in {"unloaded", "ahb", "loaded", "exiting"}
  /\ stage \in Stages
  /\ held \in [Resource -> {-1, 0, 1}]
  /\ leaked \subseteq Stages \X Resource
  /\ ah \in {"null", "live", "freed"}

\* What the labels of ath9k_init_softc forget: the DFS detector always, the
\* EEPROM when the GPIO is refused, Bluetooth coexistence when the channels
\* cannot be set up.
Forgotten ==
  ({"platform", "gpio", "hw", "btcoex", "channels"} \X {"dfs"})
    \cup {<<"gpio", "eeprom">>, <<"channels", "btcoex">>}

\* Nothing is released twice; a probe that fails leaves behind no more than
\* the resources listed in Forgotten, a device that is removed nothing; and
\* while a probe or a device is there, ath9k_ah, which unlock.ko writes
\* through, points to its memory (init.c:489-640, 812-937).
DeviceUnwound ==
  /\ \A r \in Resource : held[r] \in {0, 1}
  /\ leaked \subseteq Forgotten
  /\ stage # "out" => ah = "live"
  /\ ah = "live" => stage # "out"
=============================================================================
