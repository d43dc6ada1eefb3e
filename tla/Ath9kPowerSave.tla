--------------------------- MODULE Ath9kPowerSave ---------------------------
(***************************************************************************)
(* Power saving of ath9k/main.c.  Whoever touches the chip brackets the    *)
(* access with ath9k_ps_wakeup and ath9k_ps_restore; the last one to leave *)
(* arms the sleep timer when the device is idle, or puts the chip to       *)
(* network sleep when power save is on and nobody waits for a frame.       *)
(* Threads interleave between critical sections of sc_pm_lock; the timer   *)
(* handler does not take that lock.  ath_isr is one step: its boards have  *)
(* one CPU.                                                                *)
(***************************************************************************)
EXTENDS Integers, FiniteSets

CONSTANTS User,      \* threads that bracket: tasklets, work, TSF reads, ...
          AutoSleep  \* ATH9K_HW_CAP_AUTOSLEEP
ASSUME PowerAssumption == IsFiniteSet(User) /\ AutoSleep \in BOOLEAN
                          /\ "config" \notin User /\ "tx" \notin User

VARIABLES
  pc,        \* of every thread: out, waking, in; tx also saw sleep, marked
  lock,      \* sc_pm_lock, held while ath9k_ps_wakeup waits for the timer
  usecount,  \* ps_usecount
  idle,      \* ps_idle
  enabled,   \* ps_enabled
  waits,     \* the PS_WAIT_FOR_ bits of ps_flags
  mode,      \* power_mode
  pending, running,  \* the sleep timer is queued, its handler runs
  stop       \* ath9k_stop: none, or the ps_idle it will put back
timerVars == <<pending, running>>
vars == <<pc, lock, usecount, idle, enabled, waits, mode, timerVars, stop>>

Thread == User \cup {"config", "tx"}
Wait   == {"beacon", "cab", "pspoll", "txack", "ani"}
NotStopping == "none"
\* Where t calls ath9k_ps_wakeup: ath9k_tx looks at the chip before.
CallsFrom(t) == IF t = "tx" THEN "saw sleep" ELSE "out"
\* Where it calls ath9k_ps_restore: ath9k_tx has marked its frame.
LeavesFrom(t) == IF t = "tx" THEN "marked" ELSE "in"

Init ==
  /\ pc = [t \in Thread |-> "out"] /\ lock = FALSE /\ usecount = 0
  /\ idle = FALSE /\ enabled = FALSE /\ waits = {} /\ mode = "awake"
  /\ pending = FALSE /\ running = FALSE /\ stop = "stopped"

-----------------------------------------------------------------------------
(* ath9k_ps_wakeup *)

\* Mutant: only the first thread is counted.
WakeupUncounted(t) ==
  /\ pc[t] = CallsFrom(t) /\ ~lock /\ usecount > 0
  /\ pc' = [pc EXCEPT ![t] = "in"]
  /\ UNCHANGED <<usecount, lock, idle, enabled, waits, mode, timerVars, stop>>

\* The counter was not zero: the chip is awake already.
WakeupMore(t) ==
  /\ pc[t] = CallsFrom(t) /\ ~lock /\ usecount > 0
  /\ usecount' = usecount + 1
  /\ pc' = [pc EXCEPT ![t] = "in"]
  /\ UNCHANGED <<lock, idle, enabled, waits, mode, timerVars, stop>>

\* The first one dequeues the timer and waits for a handler that runs.
WakeupFirst(t) ==
  /\ pc[t] = CallsFrom(t) /\ ~lock /\ usecount = 0
  /\ usecount' = 1
  /\ pending' = FALSE
  /\ lock' = TRUE
  /\ pc' = [pc EXCEPT ![t] = "waking"]
  /\ UNCHANGED <<idle, enabled, waits, mode, running, stop>>

\* Mutant: del_timer for del_timer_sync.
TimerDequeued == TRUE

TimerGone == ~running

WakeupAwake(t) ==
  /\ pc[t] = "waking" /\ TimerGone
  /\ mode' = "awake"
  /\ lock' = FALSE
  /\ pc' = [pc EXCEPT ![t] = "in"]
  /\ UNCHANGED <<usecount, idle, enabled, waits, timerVars, stop>>

\* Mutant: a thread that waits for a frame does not keep the chip awake.
SleepAnyway == enabled

\* PS_BEACON_SYNC and the other bits of ps_flags do not count.
MaySleep == enabled /\ waits = {}

\* ath9k_ps_restore
Restore(t) ==
  /\ pc[t] = LeavesFrom(t) /\ ~lock
  /\ usecount' = usecount - 1
  /\ pc' = [pc EXCEPT ![t] = "out"]
  /\ pending' = (pending \/ (usecount = 1 /\ idle))
  /\ mode' = IF usecount = 1 /\ ~idle /\ MaySleep THEN "network sleep" ELSE mode
  /\ UNCHANGED <<lock, idle, enabled, waits, running, stop>>

(* ath_ps_full_sleep, 100 ms after the last thread has left *)

TimerFires ==
  /\ pending /\ ~running
  /\ pending' = FALSE /\ running' = TRUE
  /\ UNCHANGED <<pc, lock, usecount, idle, enabled, waits, mode, stop>>

TimerSleeps ==
  /\ running /\ running' = FALSE
  /\ mode' = "full sleep"
  /\ UNCHANGED <<pc, lock, usecount, idle, enabled, waits, pending, stop>>

-----------------------------------------------------------------------------
(* What threads do between wakeup and restore *)
Inside(t) == pc[t] = "in"

\* ath9k_tasklet (TSFOOR), ath_complete_reset, ath9k_set_assoc_state and the
\* receive path set bits, the receive and transmit paths clear them.
WaitFor(t) ==
  /\ Inside(t) /\ ~lock
  /\ \E w \in Wait \ {"pspoll", "txack"} : waits' = waits \cup {w}
  /\ UNCHANGED <<pc, lock, usecount, idle, enabled, mode, timerVars, stop>>

Arrived(t) ==
  /\ Inside(t) /\ ~lock
  /\ \E w \in waits : waits' = waits \ {w}
  /\ UNCHANGED <<pc, lock, usecount, idle, enabled, mode, timerVars, stop>>

\* ath9k_tx looks at the mode without the lock and wakes a sleeping chip.
TxLooks ==
  /\ pc["tx"] = "out" /\ mode = "network sleep"
  /\ pc' = [pc EXCEPT !["tx"] = "saw sleep"]
  /\ UNCHANGED <<lock, usecount, idle, enabled, waits, mode, timerVars, stop>>

\* Its frame keeps the chip awake after ath9k_ps_restore.
TxWaitFor ==
  /\ Inside("tx") /\ ~lock
  /\ \E w \in {"pspoll", "txack"} : waits' = waits \cup {w}
  /\ pc' = [pc EXCEPT !["tx"] = "marked"]
  /\ UNCHANGED <<lock, usecount, idle, enabled, mode, timerVars, stop>>

\* Mutant: ps_idle is assigned before ath9k_ps_wakeup.
ConfigIdleFirst ==
  /\ pc["config"] = "out" /\ stop = NotStopping
  /\ idle' = ~idle
  /\ UNCHANGED <<pc, lock, usecount, enabled, waits, mode, timerVars, stop>>

\* ath9k_config: IEEE80211_CONF_CHANGE_IDLE
ConfigIdle ==
  /\ Inside("config") /\ stop = NotStopping
  /\ idle' = ~idle
  /\ UNCHANGED <<pc, lock, usecount, enabled, waits, mode, timerVars, stop>>

\* ath9k_config: IEEE80211_CONF_CHANGE_PS
EnablePs ==
  /\ Inside("config") /\ ~lock /\ stop = NotStopping
  /\ enabled' = TRUE
  /\ UNCHANGED <<pc, lock, usecount, idle, waits, mode, timerVars, stop>>

DisablePs ==
  /\ Inside("config") /\ ~lock /\ stop = NotStopping
  /\ enabled' = FALSE
  /\ mode' = "awake"
  /\ waits' = IF AutoSleep THEN waits ELSE waits \cap {"ani"}
  /\ UNCHANGED <<pc, lock, usecount, idle, timerVars, stop>>

\* ath9k_stop borrows ps_idle so that its own restore arms the timer.
StopIdle ==
  /\ Inside("config") /\ stop = NotStopping
  /\ stop' = IF idle THEN "was idle" ELSE "was busy"
  /\ idle' = TRUE
  /\ UNCHANGED <<pc, lock, usecount, enabled, waits, mode, timerVars>>

\* sc->ps_idle = prev_idle, without the lock; then the device is invalid.
StopPutsBack ==
  /\ pc["config"] = "out" /\ stop \in {"was idle", "was busy"}
  /\ idle' = (stop = "was idle")
  /\ stop' = "stopped"
  /\ UNCHANGED <<pc, lock, usecount, enabled, waits, mode, timerVars>>

\* ath9k_start
Start ==
  /\ Inside("config") /\ stop = "stopped"
  /\ stop' = NotStopping
  /\ UNCHANGED <<pc, lock, usecount, idle, enabled, waits, mode, timerVars>>

\* Mutant: the interrupt wakes an idle chip too.
IsrWakesAlways == TRUE

IsrMayWake == ~idle

\* ath_isr on ATH9K_INT_TIM_TIMER, which disable_ps masks
IsrTimTimer ==
  /\ enabled /\ ~AutoSleep /\ ~lock /\ stop # "stopped"
  /\ IsrMayWake
  /\ mode' = "awake"
  /\ waits' = waits \cup {"beacon"}
  /\ UNCHANGED <<pc, lock, usecount, idle, enabled, timerVars, stop>>

-----------------------------------------------------------------------------
Wakeup(t) == WakeupMore(t) \/ WakeupFirst(t)
MayWakeUp(t) == t = "config" => stop \in {NotStopping, "stopped"}

Bracket(t) == (MayWakeUp(t) /\ Wakeup(t)) \/ WakeupAwake(t) \/ Restore(t)

Next ==
  \/ \E t \in Thread : Bracket(t)
  \/ TimerFires \/ TimerSleeps
  \/ \E t \in User : WaitFor(t) \/ Arrived(t)
  \/ TxLooks \/ TxWaitFor
  \/ ConfigIdle \/ EnablePs \/ DisablePs
  \/ StopIdle \/ StopPutsBack \/ Start \/ IsrTimTimer

Spec == Init /\ [][Next]_vars

\* The timer expires and its handler ends.
FairSpec == Spec /\ WF_vars(TimerFires) /\ WF_vars(TimerSleeps)

-----------------------------------------------------------------------------
Users == {t \in Thread : pc[t] \in {"waking", "in", "marked"}}

TypeOK ==
  /\ pc \in [Thread -> {"out", "saw sleep", "waking", "in", "marked"}]
  /\ usecount = Cardinality(Users)
  /\ {lock, idle, enabled, pending, running} \subseteq BOOLEAN
  /\ waits \subseteq Wait
  /\ mode \in {"awake", "network sleep", "full sleep"}
  /\ stop \in {NotStopping, "was idle", "was busy", "stopped"}

\* Between ath9k_ps_wakeup and ath9k_ps_restore the chip is awake, even when
\* the sleep timer expires while another thread wakes it (main.c:88-133).
AwakeWhileInUse == \A t \in Thread : pc[t] \in {"in", "marked"} => mode = "awake"

\* The chip is not in network sleep while a frame is waited for: the thread
\* that set the bit may leave, the chip stays up (main.c:150-160,930-948).
AwakeWhileWaiting == waits # {} => mode # "network sleep"

\* Only an idle or a stopped device is put into full sleep, although the timer
\* is armed long before it expires (main.c:88-102,145-148,1015-1045).
FullSleepMeansIdle == mode = "full sleep" => idle \/ stop # NotStopping

\* An idle device that nobody uses any more falls into full sleep for good.
IdleFallsAsleep ==
  <>[](idle /\ Users = {}) => <>[](mode = "full sleep")
=============================================================================
