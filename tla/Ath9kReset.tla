----------------------------- MODULE Ath9kReset -----------------------------
(***************************************************************************)
(* Interrupts and resets of ath9k/main.c: ath_isr, the tasklet it          *)
(* schedules, the queued reset and the mac80211 entries that reset, stop   *)
(* and start the chip.  They share a reference count of the reasons to     *)
(* keep interrupts off, which ath9k_hw_disable_interrupts decrements and   *)
(* ath9k_hw_enable_interrupts increments; the chip's interrupt enable goes *)
(* back on when the count returns to zero.  Power saving is in             *)
(* Ath9kPowerSave; ps_wakeup and ps_restore do not appear here.            *)
(***************************************************************************)
EXTENDS Integers, FiniteSets

CONSTANT MaxGtt   \* MAX_GTT_CNT
ASSUME ResetAssumption == MaxGtt \in Nat \ {0}

VARIABLES
  invalid,   \* ATH_OP_INVALID: the device is stopped
  hwReset,   \* ATH_OP_HW_RESET
  global,    \* ATH9K_INT_GLOBAL in imask
  ref,       \* intr_ref_cnt
  ier,       \* the interrupt enable register
  tasklet,   \* intr_tq
  disabled,  \* how often tasklet_disable holds it back
  status,    \* intrstatus
  gtt,       \* gtt_cnt
  work,      \* hw_reset_work is queued
  pc,        \* where each thread that may reset is
  lock,      \* who holds sc_pcu_lock
  stop,      \* how far ath9k_stop has come, in the mac80211 thread
  idle,      \* ps_idle
  lost       \* history: a reset was cancelled, or could not restart reception
irqVars  == <<global, ref, ier>>
taskVars == <<tasklet, disabled, status, gtt>>
macVars  == <<stop, idle>>
vars == <<invalid, hwReset, irqVars, taskVars, work, pc, lock, macVars, lost>>

Thread == {"worker", "mac"}   \* hw_reset_work, and whoever holds sc->mutex
Statuses == {"frames", "fatal", "gtt"}

Init ==
  /\ invalid = TRUE /\ hwReset = FALSE
  /\ global = FALSE /\ ref = -1 /\ ier = FALSE
  /\ tasklet = "idle" /\ disabled = 0 /\ status = "frames" /\ gtt = 0
  /\ work = FALSE /\ pc = [t \in Thread |-> "none"] /\ lock = "none"
  /\ stop = "none" /\ idle = FALSE /\ lost = FALSE

-----------------------------------------------------------------------------
(* ath9k_hw_disable_interrupts and ath9k_hw_enable_interrupts *)

\* Mutant: a count that does not know whether interrupts are wanted at all.
DisableUncounted == /\ ref' = ref - 1
                    /\ ier' = FALSE

DisableInterrupts == /\ ref' = IF global THEN ref - 1 ELSE -1
                     /\ ier' = FALSE

\* Mutant: interrupts go back on although another reason is left.
EnableAlways == IF global THEN ref' = ref + 1 /\ ier' = TRUE
                ELSE UNCHANGED <<ref, ier>>

EnableInterrupts == IF global THEN ref' = ref + 1 /\ ier' = (ier \/ ref + 1 = 0)
                    ELSE UNCHANGED <<ref, ier>>

\* Mutant: the flag is set, the work is not queued.
FlagOnly == hwReset' = TRUE /\ UNCHANGED work

QueueReset == hwReset' = TRUE /\ work' = TRUE

-----------------------------------------------------------------------------
(* ath_isr *)

\* A reset is on its way: the interrupt is killed, the count left alone.
IsrKill ==
  /\ ier /\ ~invalid /\ hwReset
  /\ ier' = FALSE
  /\ UNCHANGED <<invalid, hwReset, global, ref, taskVars, work, pc, lock,
                 macVars, lost>>

\* Any status bit of SCHED_INTR: interrupts go off, the tasklet is scheduled.
IsrSchedule ==
  /\ ier /\ ~invalid /\ ~hwReset
  /\ status' \in Statuses
  /\ DisableInterrupts
  /\ tasklet' = "scheduled"
  /\ UNCHANGED <<invalid, hwReset, global, disabled, gtt, work, pc, lock,
                 macVars, lost>>

(* ath9k_tasklet *)

TaskletStart ==
  /\ tasklet = "scheduled" /\ disabled = 0
  /\ tasklet' = "running"
  /\ UNCHANGED <<invalid, hwReset, irqVars, disabled, status, gtt, work, pc,
                 lock, macVars, lost>>

TaskletRuns == tasklet = "running" /\ lock = "none" /\ tasklet' = "idle"

\* Mutant: the count is not given back.
KeepInterruptsOff == UNCHANGED ref

\* atomic_inc: the reset will enable the interrupts.
LeaveToReset == ref' = ref + 1

TaskletFatal ==
  /\ TaskletRuns /\ status = "fatal"
  /\ QueueReset /\ LeaveToReset
  /\ UNCHANGED <<invalid, global, ier, disabled, status, gtt, pc, lock,
                 macVars, lost>>

\* The fifth transmit timeout in a row finds the chip dead.
TaskletGttHang ==
  /\ TaskletRuns /\ status = "gtt" /\ gtt + 1 >= MaxGtt
  /\ gtt' = MaxGtt
  /\ QueueReset /\ LeaveToReset
  /\ UNCHANGED <<invalid, global, ier, disabled, status, pc, lock, macVars,
                 lost>>

\* Frames are processed; a transmitted one ends the row of timeouts, on the
\* chips with EDMA.
TaskletFrames ==
  /\ TaskletRuns /\ status # "fatal"
  /\ gtt' \in CASE status = "gtt" -> {IF gtt < MaxGtt THEN gtt + 1 ELSE gtt}
                [] OTHER          -> {gtt, 0}
  /\ EnableInterrupts
  /\ lost' = (lost /\ (~ier' \/ hwReset))
  /\ UNCHANGED <<invalid, hwReset, global, disabled, status, work, pc, lock,
                 macVars>>

\* The hang checks of other files (beacons, stuck queues) call
\* ath9k_queue_reset too, until ath9k_stop has killed them.
HangDetected ==
  /\ ~invalid /\ stop # "killed"
  /\ QueueReset
  /\ UNCHANGED <<invalid, irqVars, taskVars, pc, lock, macVars, lost>>

-----------------------------------------------------------------------------
(* ath_reset_internal, in the worker or under sc->mutex *)

ResetWork ==
  /\ work /\ pc["worker"] = "none"
  /\ work' = FALSE
  /\ pc' = [pc EXCEPT !["worker"] = "begin"]
  /\ UNCHANGED <<invalid, hwReset, irqVars, taskVars, lock, macVars, lost>>

DisableTasklet(t) ==
  /\ pc[t] = "begin"
  /\ pc' = [pc EXCEPT ![t] = "disabled"]
  /\ disabled' = disabled + 1
  /\ UNCHANGED <<invalid, hwReset, irqVars, tasklet, status, gtt, work, lock,
                 macVars, lost>>

\* tasklet_disable has waited for the tasklet; ath_prepare_reset.
PrepareReset(t) ==
  /\ pc[t] = "disabled" /\ tasklet # "running" /\ lock = "none"
  /\ lock' = t
  /\ pc' = [pc EXCEPT ![t] = "resetting"]
  /\ DisableInterrupts
  /\ UNCHANGED <<invalid, hwReset, global, taskVars, work, macVars, lost>>

\* ath_complete_reset
CompleteReset(t) ==
  /\ pc[t] = "resetting"
  /\ pc' = [pc EXCEPT ![t] = "unlock"]
  /\ hwReset' = FALSE /\ gtt' = 0
  /\ EnableInterrupts
  /\ lost' = (lost /\ ~ier')
  /\ UNCHANGED <<invalid, global, tasklet, disabled, status, work, lock,
                 macVars>>

\* ath9k_hw_reset fails: another reset is queued.
ResetFails(t) ==
  /\ pc[t] = "resetting"
  /\ pc' = [pc EXCEPT ![t] = "unlock"]
  /\ EnableInterrupts /\ QueueReset
  /\ UNCHANGED <<invalid, global, taskVars, lock, macVars, lost>>

\* ath_startrecv fails: no interrupts, and no further attempt.  Once is enough:
\* the count never returns to zero before the next start.
RestartFails(t) ==
  /\ pc[t] = "resetting" /\ ~lost
  /\ pc' = [pc EXCEPT ![t] = "unlock"]
  /\ lost' = TRUE
  /\ UNCHANGED <<invalid, hwReset, irqVars, taskVars, work, lock, macVars>>

EndReset(t) ==
  /\ pc[t] = "unlock"
  /\ lock' = "none" /\ disabled' = disabled - 1
  /\ pc' = [pc EXCEPT ![t] = "none"]
  /\ UNCHANGED <<invalid, hwReset, irqVars, tasklet, status, gtt, work,
                 macVars, lost>>

Reset(t) == DisableTasklet(t) \/ PrepareReset(t) \/ CompleteReset(t)
              \/ ResetFails(t) \/ RestartFails(t) \/ EndReset(t)

-----------------------------------------------------------------------------
(* mac80211 entries, one at a time under sc->mutex *)
MacFree == pc["mac"] = "none" /\ stop = "none"

\* The count starts at -1 and ath_complete_reset brings it to 0; the result of
\* ath9k_hw_reset only decides reset_power_on.
Start ==
  /\ MacFree /\ invalid /\ lock = "none"
  /\ invalid' = FALSE /\ global' = TRUE /\ lost' = FALSE
  /\ hwReset' = FALSE /\ gtt' = 0 /\ ref' = 0 /\ ier' = TRUE
  /\ UNCHANGED <<tasklet, disabled, status, work, pc, lock, macVars>>

StartNoReception ==
  /\ MacFree /\ invalid /\ lock = "none"
  /\ invalid' = FALSE /\ global' = TRUE /\ lost' = TRUE
  /\ ref' = -1
  /\ UNCHANGED <<hwReset, ier, taskVars, work, pc, lock, macVars>>

\* ath_set_channel
SetChannel ==
  /\ MacFree /\ ~invalid
  /\ pc' = [pc EXCEPT !["mac"] = "begin"]
  /\ UNCHANGED <<invalid, hwReset, irqVars, taskVars, work, lock, macVars,
                 lost>>

\* ath9k_flush: frames left after 200 ms are dropped, and the chip is reset
\* when its queues do not drain.
Flush ==
  /\ MacFree /\ ~invalid
  /\ \E drained \in BOOLEAN :
       pc' = [pc EXCEPT !["mac"] = IF drained THEN @ ELSE "begin"]
  /\ UNCHANGED <<invalid, hwReset, irqVars, taskVars, work, lock, macVars,
                 lost>>

\* ath9k_config: entering idle cancels the queued reset, flag or no flag.
ConfigIdle ==
  /\ MacFree /\ ~invalid /\ ~idle /\ pc["worker"] = "none"
  /\ idle' = TRUE
  /\ work' = FALSE
  /\ lost' = (lost \/ hwReset)
  /\ UNCHANGED <<invalid, hwReset, irqVars, taskVars, pc, lock, stop>>

\* Leaving idle resets the chip only when it had fallen into full sleep.
ConfigBusy ==
  /\ MacFree /\ ~invalid /\ idle
  /\ idle' = FALSE
  /\ \E fullsleep \in BOOLEAN :
       pc' = [pc EXCEPT !["mac"] = IF fullsleep THEN "begin" ELSE @]
  /\ UNCHANGED <<invalid, hwReset, irqVars, taskVars, work, lock, stop, lost>>

\* ath9k_stop: ath_cancel_work
StopCancelWork ==
  /\ MacFree /\ ~invalid /\ pc["worker"] = "none"
  /\ work' = FALSE
  /\ stop' = "cancelled"
  /\ UNCHANGED <<invalid, hwReset, irqVars, taskVars, pc, lock, idle, lost>>

\* ath9k_stop of a device that is not there
StopNotPresent ==
  /\ MacFree /\ invalid /\ pc["worker"] = "none"
  /\ work' = FALSE
  /\ UNCHANGED <<invalid, hwReset, irqVars, taskVars, pc, lock, macVars, lost>>

\* Mutant: ATH9K_INT_GLOBAL stays in the mask.
StopKeepsMask ==
  /\ stop = "cancelled" /\ lock = "none"
  /\ stop' = "masked"
  /\ ref' = -1 /\ ier' = FALSE
  /\ UNCHANGED <<invalid, hwReset, global, taskVars, work, pc, lock, idle,
                 lost>>

StopInterrupts ==
  /\ stop = "cancelled" /\ lock = "none"
  /\ stop' = "masked"
  /\ global' = FALSE /\ ref' = -1 /\ ier' = FALSE
  /\ UNCHANGED <<invalid, hwReset, taskVars, work, pc, lock, idle, lost>>

\* tasklet_kill waits for the tasklet, running or scheduled.
StopTasklet ==
  /\ stop = "masked" /\ tasklet = "idle"
  /\ stop' = "killed"
  /\ UNCHANGED <<invalid, hwReset, irqVars, taskVars, work, pc, lock, idle,
                 lost>>

\* ath_prepare_reset, ath9k_hw_reset, and the device is gone.
StopChip ==
  /\ stop = "killed" /\ lock = "none"
  /\ DisableInterrupts
  /\ invalid' = TRUE /\ stop' = "none"
  /\ UNCHANGED <<hwReset, global, taskVars, work, pc, lock, idle, lost>>

Stop == StopCancelWork \/ StopNotPresent \/ StopInterrupts \/ StopTasklet \/ StopChip

-----------------------------------------------------------------------------
Tasklet == TaskletStart \/ TaskletFatal \/ TaskletGttHang \/ TaskletFrames

Next == \/ IsrKill \/ IsrSchedule \/ Tasklet \/ HangDetected \/ ResetWork
        \/ \E t \in Thread : Reset(t)
        \/ Start \/ StartNoReception \/ SetChannel \/ Flush
        \/ ConfigIdle \/ ConfigBusy \/ Stop

Spec == Init /\ [][Next]_vars

\* The work queue is served and a thread inside a reset or a stop goes on.
\* Who waits for sc_pcu_lock gets it in his turn, and a tasklet held back by
\* tasklet_disable is retried until it runs: strong fairness.  Nothing obliges
\* the hardware or mac80211 to do anything.
FairSpec ==
  /\ Spec
  /\ SF_vars(Tasklet) /\ WF_vars(ResetWork)
  /\ \A t \in Thread : SF_vars(PrepareReset(t)) /\ WF_vars(Reset(t))
  /\ SF_vars(StopInterrupts) /\ WF_vars(StopTasklet) /\ SF_vars(StopChip)

-----------------------------------------------------------------------------
TypeOK ==
  /\ {invalid, hwReset, global, ier, work, idle, lost} \subseteq BOOLEAN
  /\ ref \in -3..0
  /\ tasklet \in {"idle", "scheduled", "running"}
  /\ disabled \in 0..2 /\ status \in Statuses /\ gtt \in 0..MaxGtt
  /\ pc \in [Thread -> {"none", "begin", "disabled", "resetting", "unlock"}]
  /\ lock \in Thread \cup {"none"}
  /\ stop \in {"none", "cancelled", "masked", "killed"}

\* The reasons to keep interrupts off: a tasklet that has not run, a reset
\* between its two halves.
Owed == (IF tasklet = "idle" THEN 0 ELSE 1)
          + Cardinality({t \in Thread : pc[t] = "resetting"})

\* The count is exactly minus the number of reasons, so that the last of them
\* to go, in whatever order, is the one that turns interrupts on.
RefCountExact == global /\ ~lost => ref + Owed = 0 /\ (ier => ref = 0)

\* While the device runs with interrupts off somebody will turn them on: the
\* tasklet, a reset in progress or a queued one (main.c:462-472,660-687).
SomeoneWillEnable ==
  ~invalid /\ ~ier /\ ~lost =>
    \/ tasklet # "idle"
    \/ \E t \in Thread : pc[t] # "none"
    \/ hwReset /\ work
    \/ stop # "none"

\* A new interrupt never overwrites intrstatus before the tasklet has read it.
NoStatusLost == [][IsrSchedule => tasklet = "idle"]_vars

\* From tasklet_kill in ath9k_stop to the next start no interrupt comes and no
\* tasklet runs, though a reset queued meanwhile may still be at work
\* (main.c:1000-1013).
QuietAfterStop == stop = "killed" \/ invalid => ~ier /\ tasklet = "idle"

\* Once mac80211 stops changing channels a running device keeps getting its
\* interrupts back, however often it hangs and resets fail, unless going idle
\* cancelled a reset or one could not restart reception.
InterruptsComeBack ==
  <>[](pc["mac"] = "none") => []<>(ier \/ invalid \/ lost)
=============================================================================
