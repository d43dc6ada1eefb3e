-------------------------- MODULE Ath9kResetProofs --------------------------
(***************************************************************************)
(* The interrupt reference count is exact in every order of interrupts,    *)
(* tasklets, resets and stops, for any MAX_GTT_CNT.                        *)
(***************************************************************************)
EXTENDS Ath9kReset, FiniteSetTheorems, TLAPS

Types ==
  /\ invalid \in BOOLEAN /\ hwReset \in BOOLEAN /\ global \in BOOLEAN
  /\ ier \in BOOLEAN /\ work \in BOOLEAN /\ idle \in BOOLEAN /\ lost \in BOOLEAN
  /\ ref \in Int
  /\ tasklet \in {"idle", "scheduled", "running"}
  /\ status \in Statuses /\ gtt \in 0..MaxGtt
  /\ pc \in [Thread -> {"none", "begin", "disabled", "resetting", "unlock"}]
  /\ lock \in Thread \cup {"none"}
  /\ stop \in {"none", "cancelled", "masked", "killed"}

\* tasklet_disable and sc_pcu_lock bracket the two halves of a reset.
LockHeld == \A t \in Thread : pc[t] \in {"resetting", "unlock"} <=> lock = t
Holds(t) == IF pc[t] \in {"disabled", "resetting", "unlock"} THEN 1 ELSE 0
Disabled == disabled = Holds("worker") + Holds("mac")

\* The mac80211 thread resets only a device that is present.
MacPresent == /\ pc["mac"] # "none" => ~invalid /\ stop = "none"
              /\ stop # "none" => ~invalid
              /\ global <=> ~invalid /\ stop \in {"none", "cancelled"}

\* Owed without counting: at most one thread is between its two halves.
OwedNow == (IF tasklet = "idle" THEN 0 ELSE 1)
             + (IF \E t \in Thread : pc[t] = "resetting" THEN 1 ELSE 0)

\* Interrupts are on only when the count is zero; a failed restart of
\* reception leaves the count one too low until the next start.
Count == /\ global => ref + OwedNow = 0 \/ (lost /\ ref + OwedNow = -1)
         /\ ~global => ref = -1 \/ (ref = 0 /\ tasklet = "idle")
         /\ ier => global /\ ref = 0

\* Interrupts that are off for no other reason are off for a reset, and that
\* reset is queued or at work.
Killed == ~invalid /\ ~ier /\ ~lost /\ stop = "none" =>
            \/ tasklet # "idle"
            \/ \E t \in Thread : pc[t] = "resetting"
            \/ hwReset
Queued == ~invalid /\ hwReset /\ ~lost /\ stop = "none" =>
            work \/ pc["worker"] \in {"begin", "disabled", "resetting"}

Brackets == LockHeld /\ Disabled /\ MacPresent
Awaited  == Killed /\ Queued
ResetInv == Types /\ Brackets /\ Count /\ Awaited /\ QuietAfterStop

-----------------------------------------------------------------------------
\* Disabling and enabling keep the types.
LEMMA DisableTypes ==
  ASSUME Types, DisableInterrupts
  PROVE  ref' \in Int /\ ier' = FALSE
<1>1. CASE global
  BY <1>1 DEF Types, DisableInterrupts
<1>2. CASE ~global
  BY <1>2 DEF Types, DisableInterrupts
<1> QED
  BY <1>1, <1>2

LEMMA EnableTypes ==
  ASSUME Types, EnableInterrupts
  PROVE  ref' \in Int /\ ier' \in BOOLEAN
<1>1. CASE global
  BY <1>1 DEF Types, EnableInterrupts
<1>2. CASE ~global
  BY <1>2 DEF Types, EnableInterrupts
<1> QED
  BY <1>1, <1>2

LEMMA NoTimeouts == 0 \in 0..MaxGtt
BY ResetAssumption

\* ath_isr
LEMMA ResetIsr ==
  ASSUME ResetInv, IsrKill \/ IsrSchedule \/ HangDetected
  PROVE  ResetInv'
<1> USE ResetAssumption DEF ResetInv, Thread, irqVars, taskVars, macVars
<1>1. CASE IsrKill
  <2>1. Types'
    BY <1>1 DEF IsrKill, Types
  <2>2. Brackets'
    BY <1>1 DEF IsrKill, Types, Brackets, LockHeld, Disabled, Holds, MacPresent
  <2>3. Count'
    BY <1>1
       DEF IsrKill, Types, Brackets, LockHeld, MacPresent, Count, OwedNow,
           QuietAfterStop
  <2>4. Awaited'
    BY <1>1
       DEF IsrKill, Types, Brackets, LockHeld, MacPresent, Count, OwedNow,
           Awaited, Killed, Queued
  <2>5. QuietAfterStop'
    BY <1>1 DEF IsrKill, Types, Brackets, MacPresent, Count, QuietAfterStop
  <2> QED
    BY <2>1, <2>2, <2>3, <2>4, <2>5
<1>2. CASE IsrSchedule
  <2>1. Types'
    <3>1. ref' \in Int /\ ier' \in BOOLEAN
      BY <1>2, DisableTypes DEF IsrSchedule
    <3>2. pc' \in [Thread -> {"none", "begin", "disabled", "resetting", "unlock"}]
      BY <1>2 DEF IsrSchedule, DisableInterrupts, Statuses, Types
    <3> QED
      BY <1>2, <3>1, <3>2 DEF IsrSchedule, DisableInterrupts, Statuses, Types
  <2>2. Brackets'
    BY <1>2
       DEF IsrSchedule, DisableInterrupts, Statuses, Types, Brackets, LockHeld,
           Disabled, Holds, MacPresent
  <2>3. Count'
    BY <1>2
       DEF IsrSchedule, DisableInterrupts, Statuses, Types, Brackets, LockHeld,
           MacPresent, Count, OwedNow, QuietAfterStop
  <2>4. Awaited'
    BY <1>2
       DEF IsrSchedule, DisableInterrupts, Statuses, Types, Brackets, LockHeld,
           MacPresent, Count, OwedNow, Awaited, Killed, Queued
  <2>5. QuietAfterStop'
    BY <1>2
       DEF IsrSchedule, DisableInterrupts, Statuses, Types, Brackets,
           MacPresent, Count, QuietAfterStop
  <2> QED
    BY <2>1, <2>2, <2>3, <2>4, <2>5
<1>3. CASE HangDetected
  <2>1. Types'
    BY <1>3 DEF HangDetected, QueueReset, Types
  <2>2. Brackets'
    BY <1>3
       DEF HangDetected, QueueReset, Types, Brackets, LockHeld, Disabled,
           Holds, MacPresent
  <2>3. Count'
    BY <1>3
       DEF HangDetected, QueueReset, Types, Brackets, LockHeld, MacPresent,
           Count, OwedNow, QuietAfterStop
  <2>4. Awaited'
    BY <1>3
       DEF HangDetected, QueueReset, Types, Brackets, LockHeld, MacPresent,
           Count, OwedNow, Awaited, Killed, Queued
  <2>5. QuietAfterStop'
    BY <1>3
       DEF HangDetected, QueueReset, Types, Brackets, MacPresent, Count,
           QuietAfterStop
  <2> QED
    BY <2>1, <2>2, <2>3, <2>4, <2>5
<1> QED
  BY <1>1, <1>2, <1>3

\* ath9k_tasklet
LEMMA ResetTasklet ==
  ASSUME ResetInv, TaskletStart \/ TaskletFatal \/ TaskletGttHang \/ TaskletFrames
  PROVE  ResetInv'
<1> USE ResetAssumption DEF ResetInv, Thread, irqVars, taskVars, macVars
<1>1. CASE TaskletStart
  <2>1. Types'
    BY <1>1 DEF TaskletStart, Types
  <2>2. Brackets'
    BY <1>1
       DEF TaskletStart, Types, Brackets, LockHeld, Disabled, Holds, MacPresent
  <2>3. Count'
    BY <1>1
       DEF TaskletStart, Types, Brackets, LockHeld, MacPresent, Count, OwedNow,
           QuietAfterStop
  <2>4. Awaited'
    BY <1>1
       DEF TaskletStart, Types, Brackets, LockHeld, MacPresent, Count, OwedNow,
           Awaited, Killed, Queued
  <2>5. QuietAfterStop'
    BY <1>1
       DEF TaskletStart, Types, Brackets, MacPresent, Count, QuietAfterStop
  <2> QED
    BY <2>1, <2>2, <2>3, <2>4, <2>5
<1>2. CASE TaskletFatal
  <2>1. Types'
    BY <1>2 DEF TaskletFatal, QueueReset, LeaveToReset, TaskletRuns, Types
  <2>2. Brackets'
    BY <1>2
       DEF TaskletFatal, QueueReset, LeaveToReset, TaskletRuns, Types,
           Brackets, LockHeld, Disabled, Holds, MacPresent
  <2>3. Count'
    <3>1. OwedNow = 1 /\ OwedNow' = 0 /\ tasklet' = "idle"
      BY <1>2
         DEF TaskletFatal, QueueReset, LeaveToReset, TaskletRuns, Types,
             Brackets, LockHeld, MacPresent, Count, OwedNow, QuietAfterStop
    <3>2. ref' = ref + 1 /\ ier' = ier /\ global' = global /\ (lost' <=> lost)
      BY <1>2
         DEF TaskletFatal, QueueReset, LeaveToReset, TaskletRuns, Types,
             Brackets, LockHeld, MacPresent, Count, OwedNow, QuietAfterStop
    <3>3. ~ier /\ ref \in Int
      BY <3>1 DEF Types, Count
    <3>4. CASE global
      BY <3>1, <3>2, <3>3, <3>4 DEF Types, Count
    <3>5. CASE ~global
      BY <1>2, <3>1, <3>2, <3>3, <3>5
         DEF Types, Count, TaskletFatal, TaskletRuns
    <3> QED
      BY <3>4, <3>5
  <2>4. Awaited'
    BY <1>2
       DEF TaskletFatal, QueueReset, LeaveToReset, TaskletRuns, Types,
           Brackets, LockHeld, MacPresent, Count, OwedNow, Awaited, Killed,
           Queued
  <2>5. QuietAfterStop'
    BY <1>2
       DEF TaskletFatal, QueueReset, LeaveToReset, TaskletRuns, Types,
           Brackets, MacPresent, Count, QuietAfterStop
  <2> QED
    BY <2>1, <2>2, <2>3, <2>4, <2>5
<1>3. CASE TaskletGttHang
  <2>1. Types'
    BY <1>3 DEF TaskletGttHang, QueueReset, LeaveToReset, TaskletRuns, Types
  <2>2. Brackets'
    BY <1>3
       DEF TaskletGttHang, QueueReset, LeaveToReset, TaskletRuns, Types,
           Brackets, LockHeld, Disabled, Holds, MacPresent
  <2>3. Count'
    <3>1. OwedNow = 1 /\ OwedNow' = 0 /\ tasklet' = "idle"
      BY <1>3
         DEF TaskletGttHang, QueueReset, LeaveToReset, TaskletRuns, Types,
             Brackets, LockHeld, MacPresent, Count, OwedNow, QuietAfterStop
    <3>2. ref' = ref + 1 /\ ier' = ier /\ global' = global /\ (lost' <=> lost)
      BY <1>3
         DEF TaskletGttHang, QueueReset, LeaveToReset, TaskletRuns, Types,
             Brackets, LockHeld, MacPresent, Count, OwedNow, QuietAfterStop
    <3>3. ~ier /\ ref \in Int
      BY <3>1 DEF Types, Count
    <3>4. CASE global
      BY <3>1, <3>2, <3>3, <3>4 DEF Types, Count
    <3>5. CASE ~global
      BY <1>3, <3>1, <3>2, <3>3, <3>5
         DEF Types, Count, TaskletGttHang, TaskletRuns
    <3> QED
      BY <3>4, <3>5
  <2>4. Awaited'
    BY <1>3
       DEF TaskletGttHang, QueueReset, LeaveToReset, TaskletRuns, Types,
           Brackets, LockHeld, MacPresent, Count, OwedNow, Awaited, Killed,
           Queued
  <2>5. QuietAfterStop'
    BY <1>3
       DEF TaskletGttHang, QueueReset, LeaveToReset, TaskletRuns, Types,
           Brackets, MacPresent, Count, QuietAfterStop
  <2> QED
    BY <2>1, <2>2, <2>3, <2>4, <2>5
<1>4. CASE TaskletFrames
  <2>1. Types'
    BY <1>4 DEF TaskletFrames, EnableInterrupts, TaskletRuns, Types
  <2>2. Brackets'
    BY <1>4
       DEF TaskletFrames, EnableInterrupts, TaskletRuns, Types, Brackets,
           LockHeld, Disabled, Holds, MacPresent
  <2>3. Count'
    BY <1>4
       DEF TaskletFrames, EnableInterrupts, TaskletRuns, Types, Brackets,
           LockHeld, MacPresent, Count, OwedNow, QuietAfterStop
  <2>4. Awaited'
    BY <1>4
       DEF TaskletFrames, EnableInterrupts, TaskletRuns, Types, Brackets,
           LockHeld, MacPresent, Count, OwedNow, Awaited, Killed, Queued
  <2>5. QuietAfterStop'
    BY <1>4
       DEF TaskletFrames, EnableInterrupts, TaskletRuns, Types, Brackets,
           MacPresent, Count, QuietAfterStop
  <2> QED
    BY <2>1, <2>2, <2>3, <2>4, <2>5
<1> QED
  BY <1>1, <1>2, <1>3, <1>4

\* ath_reset_internal, in any thread
LEMMA ResetThread ==
  ASSUME ResetInv, NEW t \in Thread, DisableTasklet(t) \/ PrepareReset(t) \/ CompleteReset(t) \/ ResetFails(t) \/ RestartFails(t) \/ EndReset(t)
  PROVE  ResetInv'
<1> USE ResetAssumption DEF ResetInv, Thread, irqVars, taskVars, macVars
<1>1. CASE DisableTasklet(t)
  <2>1. Types'
    BY <1>1 DEF DisableTasklet, Types
  <2>2. Brackets'
    BY <1>1
       DEF DisableTasklet, Types, Brackets, LockHeld, Disabled, Holds,
           MacPresent
  <2>3. Count'
    BY <1>1
       DEF DisableTasklet, Types, Brackets, LockHeld, MacPresent, Count,
           OwedNow, QuietAfterStop
  <2>4. Awaited'
    BY <1>1
       DEF DisableTasklet, Types, Brackets, LockHeld, MacPresent, Count,
           OwedNow, Awaited, Killed, Queued
  <2>5. QuietAfterStop'
    BY <1>1
       DEF DisableTasklet, Types, Brackets, MacPresent, Count, QuietAfterStop
  <2> QED
    BY <2>1, <2>2, <2>3, <2>4, <2>5
<1>2. CASE PrepareReset(t)
  <2>1. Types'
    <3>1. ref' \in Int /\ ier' \in BOOLEAN
      BY <1>2, DisableTypes DEF PrepareReset
    <3>2. pc' \in [Thread -> {"none", "begin", "disabled", "resetting", "unlock"}]
      BY <1>2 DEF PrepareReset, DisableInterrupts, Types
    <3> QED
      BY <1>2, <3>1, <3>2 DEF PrepareReset, DisableInterrupts, Types
  <2>2. Brackets'
    BY <1>2
       DEF PrepareReset, DisableInterrupts, Types, Brackets, LockHeld,
           Disabled, Holds, MacPresent
  <2>3. Count'
    BY <1>2
       DEF PrepareReset, DisableInterrupts, Types, Brackets, LockHeld,
           MacPresent, Count, OwedNow, QuietAfterStop
  <2>4. Awaited'
    BY <1>2
       DEF PrepareReset, DisableInterrupts, Types, Brackets, LockHeld,
           MacPresent, Count, OwedNow, Awaited, Killed, Queued
  <2>5. QuietAfterStop'
    BY <1>2
       DEF PrepareReset, DisableInterrupts, Types, Brackets, MacPresent, Count,
           QuietAfterStop
  <2> QED
    BY <2>1, <2>2, <2>3, <2>4, <2>5
<1>3. CASE CompleteReset(t)
  <2>1. Types'
    <3>1. ref' \in Int /\ ier' \in BOOLEAN
      BY <1>3 DEF CompleteReset, EnableInterrupts, Types
    <3>2. pc' \in [Thread -> {"none", "begin", "disabled", "resetting", "unlock"}]
      BY <1>3 DEF CompleteReset, EnableInterrupts, Types
    <3>3. gtt' \in 0..MaxGtt /\ lost' \in BOOLEAN /\ hwReset' \in BOOLEAN
      BY <1>3, NoTimeouts DEF CompleteReset, Types
    <3> QED
      BY <1>3, <3>1, <3>2, <3>3 DEF CompleteReset, Types
  <2>2. Brackets'
    BY <1>3
       DEF CompleteReset, EnableInterrupts, Types, Brackets, LockHeld,
           Disabled, Holds, MacPresent
  <2>3. Count'
    BY <1>3
       DEF CompleteReset, EnableInterrupts, Types, Brackets, LockHeld,
           MacPresent, Count, OwedNow, QuietAfterStop
  <2>4. Awaited'
    BY <1>3
       DEF CompleteReset, EnableInterrupts, Types, Brackets, LockHeld,
           MacPresent, Count, OwedNow, Awaited, Killed, Queued
  <2>5. QuietAfterStop'
    BY <1>3
       DEF CompleteReset, EnableInterrupts, Types, Brackets, MacPresent, Count,
           QuietAfterStop
  <2> QED
    BY <2>1, <2>2, <2>3, <2>4, <2>5
<1>4. CASE ResetFails(t)
  <2>1. Types'
    BY <1>4 DEF ResetFails, EnableInterrupts, QueueReset, Types
  <2>2. Brackets'
    BY <1>4
       DEF ResetFails, EnableInterrupts, QueueReset, Types, Brackets, LockHeld,
           Disabled, Holds, MacPresent
  <2>3. Count'
    BY <1>4
       DEF ResetFails, EnableInterrupts, QueueReset, Types, Brackets, LockHeld,
           MacPresent, Count, OwedNow, QuietAfterStop
  <2>4. Awaited'
    BY <1>4
       DEF ResetFails, EnableInterrupts, QueueReset, Types, Brackets, LockHeld,
           MacPresent, Count, OwedNow, Awaited, Killed, Queued
  <2>5. QuietAfterStop'
    BY <1>4
       DEF ResetFails, EnableInterrupts, QueueReset, Types, Brackets,
           MacPresent, Count, QuietAfterStop
  <2> QED
    BY <2>1, <2>2, <2>3, <2>4, <2>5
<1>5. CASE RestartFails(t)
  <2>1. Types'
    BY <1>5 DEF RestartFails, Types
  <2>2. Brackets'
    BY <1>5
       DEF RestartFails, Types, Brackets, LockHeld, Disabled, Holds, MacPresent
  <2>3. Count'
    BY <1>5
       DEF RestartFails, Types, Brackets, LockHeld, MacPresent, Count, OwedNow,
           QuietAfterStop
  <2>4. Awaited'
    BY <1>5
       DEF RestartFails, Types, Brackets, LockHeld, MacPresent, Count, OwedNow,
           Awaited, Killed, Queued
  <2>5. QuietAfterStop'
    BY <1>5
       DEF RestartFails, Types, Brackets, MacPresent, Count, QuietAfterStop
  <2> QED
    BY <2>1, <2>2, <2>3, <2>4, <2>5
<1>6. CASE EndReset(t)
  <2>1. Types'
    BY <1>6 DEF EndReset, Types
  <2>2. Brackets'
    BY <1>6
       DEF EndReset, Types, Brackets, LockHeld, Disabled, Holds, MacPresent
  <2>3. Count'
    BY <1>6
       DEF EndReset, Types, Brackets, LockHeld, MacPresent, Count, OwedNow,
           QuietAfterStop
  <2>4. Awaited'
    BY <1>6
       DEF EndReset, Types, Brackets, LockHeld, MacPresent, Count, OwedNow,
           Awaited, Killed, Queued
  <2>5. QuietAfterStop'
    BY <1>6 DEF EndReset, Types, Brackets, MacPresent, Count, QuietAfterStop
  <2> QED
    BY <2>1, <2>2, <2>3, <2>4, <2>5
<1> QED
  BY <1>1, <1>2, <1>3, <1>4, <1>5, <1>6

\* the worker and the mac80211 entries
LEMMA ResetMac ==
  ASSUME ResetInv, ResetWork \/ Start \/ StartNoReception \/ SetChannel \/ Flush \/ ConfigIdle \/ ConfigBusy
  PROVE  ResetInv'
<1> USE ResetAssumption DEF ResetInv, Thread, irqVars, taskVars, macVars
<1>1. CASE ResetWork
  <2>1. Types'
    <3>1. ref' \in Int /\ ier' \in BOOLEAN
      BY <1>1 DEF ResetWork, Types
    <3>2. pc' \in [Thread -> {"none", "begin", "disabled", "resetting", "unlock"}]
      BY <1>1 DEF ResetWork, Types
    <3> QED
      BY <1>1, <3>1, <3>2 DEF ResetWork, Types
  <2>2. Brackets'
    BY <1>1
       DEF ResetWork, Types, Brackets, LockHeld, Disabled, Holds, MacPresent
  <2>3. Count'
    BY <1>1
       DEF ResetWork, Types, Brackets, LockHeld, MacPresent, Count, OwedNow,
           QuietAfterStop
  <2>4. Awaited'
    BY <1>1
       DEF ResetWork, Types, Brackets, LockHeld, MacPresent, Count, OwedNow,
           Awaited, Killed, Queued
  <2>5. QuietAfterStop'
    BY <1>1 DEF ResetWork, Types, Brackets, MacPresent, Count, QuietAfterStop
  <2> QED
    BY <2>1, <2>2, <2>3, <2>4, <2>5
<1>2. CASE Start
  <2>1. Types'
    <3>1. ref' \in Int /\ ier' \in BOOLEAN
      BY <1>2 DEF Start, MacFree, Types
    <3>2. pc' \in [Thread -> {"none", "begin", "disabled", "resetting", "unlock"}]
      BY <1>2 DEF Start, MacFree, Types
    <3>3. gtt' \in 0..MaxGtt /\ lost' \in BOOLEAN /\ hwReset' \in BOOLEAN
      BY <1>2, NoTimeouts DEF Start, Types
    <3> QED
      BY <1>2, <3>1, <3>2, <3>3 DEF Start, Types
  <2>2. Brackets'
    BY <1>2
       DEF Start, MacFree, Types, Brackets, LockHeld, Disabled, Holds,
           MacPresent
  <2>3. Count'
    <3>1. OwedNow' = 0
      BY <1>2
         DEF Start, MacFree, Types, Brackets, LockHeld, MacPresent, Count,
             OwedNow, QuietAfterStop
    <3>2. ref' = 0 /\ ier' = TRUE /\ global' = TRUE
      BY <1>2 DEF Start
    <3> QED
      BY <3>1, <3>2 DEF Count
  <2>4. Awaited'
    BY <1>2
       DEF Start, MacFree, Types, Brackets, LockHeld, MacPresent, Count,
           OwedNow, Awaited, Killed, Queued
  <2>5. QuietAfterStop'
    BY <1>2
       DEF Start, MacFree, Types, Brackets, MacPresent, Count, QuietAfterStop
  <2> QED
    BY <2>1, <2>2, <2>3, <2>4, <2>5
<1>3. CASE StartNoReception
  <2>1. Types'
    <3>1. ref' \in Int /\ ier' \in BOOLEAN
      BY <1>3 DEF StartNoReception, MacFree, Types
    <3>2. pc' \in [Thread -> {"none", "begin", "disabled", "resetting", "unlock"}]
      BY <1>3 DEF StartNoReception, MacFree, Types
    <3> QED
      BY <1>3, <3>1, <3>2 DEF StartNoReception, MacFree, Types
  <2>2. Brackets'
    BY <1>3
       DEF StartNoReception, MacFree, Types, Brackets, LockHeld, Disabled,
           Holds, MacPresent
  <2>3. Count'
    <3>1. OwedNow' = 0
      BY <1>3
         DEF StartNoReception, MacFree, Types, Brackets, LockHeld, MacPresent,
             Count, OwedNow, QuietAfterStop
    <3> QED
      BY <1>3, <3>1
         DEF StartNoReception, MacFree, Types, Brackets, LockHeld, MacPresent,
             Count, QuietAfterStop
  <2>4. Awaited'
    BY <1>3
       DEF StartNoReception, MacFree, Types, Brackets, LockHeld, MacPresent,
           Count, OwedNow, Awaited, Killed, Queued
  <2>5. QuietAfterStop'
    BY <1>3
       DEF StartNoReception, MacFree, Types, Brackets, MacPresent, Count,
           QuietAfterStop
  <2> QED
    BY <2>1, <2>2, <2>3, <2>4, <2>5
<1>4. CASE SetChannel
  <2>1. Types'
    BY <1>4 DEF SetChannel, MacFree, Types
  <2>2. Brackets'
    BY <1>4
       DEF SetChannel, MacFree, Types, Brackets, LockHeld, Disabled, Holds,
           MacPresent
  <2>3. Count'
    BY <1>4
       DEF SetChannel, MacFree, Types, Brackets, LockHeld, MacPresent, Count,
           OwedNow, QuietAfterStop
  <2>4. Awaited'
    BY <1>4
       DEF SetChannel, MacFree, Types, Brackets, LockHeld, MacPresent, Count,
           OwedNow, Awaited, Killed, Queued
  <2>5. QuietAfterStop'
    BY <1>4
       DEF SetChannel, MacFree, Types, Brackets, MacPresent, Count,
           QuietAfterStop
  <2> QED
    BY <2>1, <2>2, <2>3, <2>4, <2>5
<1>5. CASE Flush
  <2>1. Types'
    BY <1>5 DEF Flush, MacFree, Types
  <2>2. Brackets'
    BY <1>5
       DEF Flush, MacFree, Types, Brackets, LockHeld, Disabled, Holds,
           MacPresent
  <2>3. Count'
    BY <1>5
       DEF Flush, MacFree, Types, Brackets, LockHeld, MacPresent, Count,
           OwedNow, QuietAfterStop
  <2>4. Awaited'
    BY <1>5
       DEF Flush, MacFree, Types, Brackets, LockHeld, MacPresent, Count,
           OwedNow, Awaited, Killed, Queued
  <2>5. QuietAfterStop'
    BY <1>5
       DEF Flush, MacFree, Types, Brackets, MacPresent, Count, QuietAfterStop
  <2> QED
    BY <2>1, <2>2, <2>3, <2>4, <2>5
<1>6. CASE ConfigIdle
  <2>1. Types'
    BY <1>6 DEF ConfigIdle, MacFree, Types
  <2>2. Brackets'
    BY <1>6
       DEF ConfigIdle, MacFree, Types, Brackets, LockHeld, Disabled, Holds,
           MacPresent
  <2>3. Count'
    BY <1>6
       DEF ConfigIdle, MacFree, Types, Brackets, LockHeld, MacPresent, Count,
           OwedNow, QuietAfterStop
  <2>4. Awaited'
    BY <1>6
       DEF ConfigIdle, MacFree, Types, Brackets, LockHeld, MacPresent, Count,
           OwedNow, Awaited, Killed, Queued
  <2>5. QuietAfterStop'
    BY <1>6
       DEF ConfigIdle, MacFree, Types, Brackets, MacPresent, Count,
           QuietAfterStop
  <2> QED
    BY <2>1, <2>2, <2>3, <2>4, <2>5
<1>7. CASE ConfigBusy
  <2>1. Types'
    BY <1>7 DEF ConfigBusy, MacFree, Types
  <2>2. Brackets'
    BY <1>7
       DEF ConfigBusy, MacFree, Types, Brackets, LockHeld, Disabled, Holds,
           MacPresent
  <2>3. Count'
    BY <1>7
       DEF ConfigBusy, MacFree, Types, Brackets, LockHeld, MacPresent, Count,
           OwedNow, QuietAfterStop
  <2>4. Awaited'
    BY <1>7
       DEF ConfigBusy, MacFree, Types, Brackets, LockHeld, MacPresent, Count,
           OwedNow, Awaited, Killed, Queued
  <2>5. QuietAfterStop'
    BY <1>7
       DEF ConfigBusy, MacFree, Types, Brackets, MacPresent, Count,
           QuietAfterStop
  <2> QED
    BY <2>1, <2>2, <2>3, <2>4, <2>5
<1> QED
  BY <1>1, <1>2, <1>3, <1>4, <1>5, <1>6, <1>7

\* ath9k_stop
LEMMA ResetStop ==
  ASSUME ResetInv, StopCancelWork \/ StopNotPresent \/ StopInterrupts \/ StopTasklet \/ StopChip
  PROVE  ResetInv'
<1> USE ResetAssumption DEF ResetInv, Thread, irqVars, taskVars, macVars
<1>1. CASE StopCancelWork
  <2>1. Types'
    BY <1>1 DEF StopCancelWork, MacFree, Types
  <2>2. Brackets'
    BY <1>1
       DEF StopCancelWork, MacFree, Types, Brackets, LockHeld, Disabled, Holds,
           MacPresent
  <2>3. Count'
    BY <1>1
       DEF StopCancelWork, MacFree, Types, Brackets, LockHeld, MacPresent,
           Count, OwedNow, QuietAfterStop
  <2>4. Awaited'
    BY <1>1
       DEF StopCancelWork, MacFree, Types, Brackets, LockHeld, MacPresent,
           Count, OwedNow, Awaited, Killed, Queued
  <2>5. QuietAfterStop'
    BY <1>1
       DEF StopCancelWork, MacFree, Types, Brackets, MacPresent, Count,
           QuietAfterStop
  <2> QED
    BY <2>1, <2>2, <2>3, <2>4, <2>5
<1>2. CASE StopNotPresent
  <2>1. Types'
    BY <1>2 DEF StopNotPresent, MacFree, Types
  <2>2. Brackets'
    BY <1>2
       DEF StopNotPresent, MacFree, Types, Brackets, LockHeld, Disabled, Holds,
           MacPresent
  <2>3. Count'
    BY <1>2
       DEF StopNotPresent, MacFree, Types, Brackets, LockHeld, MacPresent,
           Count, OwedNow, QuietAfterStop
  <2>4. Awaited'
    BY <1>2
       DEF StopNotPresent, MacFree, Types, Brackets, LockHeld, MacPresent,
           Count, OwedNow, Awaited, Killed, Queued
  <2>5. QuietAfterStop'
    BY <1>2
       DEF StopNotPresent, MacFree, Types, Brackets, MacPresent, Count,
           QuietAfterStop
  <2> QED
    BY <2>1, <2>2, <2>3, <2>4, <2>5
<1>3. CASE StopInterrupts
  <2>1. Types'
    <3>0. -1 \in Int
      OBVIOUS
    <3>1. ref' \in Int /\ ier' \in BOOLEAN
      BY <1>3, <3>0 DEF StopInterrupts
    <3>2. pc' \in [Thread -> {"none", "begin", "disabled", "resetting", "unlock"}]
      BY <1>3 DEF StopInterrupts, Types
    <3> QED
      BY <1>3, <3>1, <3>2 DEF StopInterrupts, Types
  <2>2. Brackets'
    BY <1>3
       DEF StopInterrupts, Types, Brackets, LockHeld, Disabled, Holds,
           MacPresent
  <2>3. Count'
    BY <1>3
       DEF StopInterrupts, Types, Brackets, LockHeld, MacPresent, Count,
           OwedNow, QuietAfterStop
  <2>4. Awaited'
    BY <1>3
       DEF StopInterrupts, Types, Brackets, LockHeld, MacPresent, Count,
           OwedNow, Awaited, Killed, Queued
  <2>5. QuietAfterStop'
    BY <1>3
       DEF StopInterrupts, Types, Brackets, MacPresent, Count, QuietAfterStop
  <2> QED
    BY <2>1, <2>2, <2>3, <2>4, <2>5
<1>4. CASE StopTasklet
  <2>1. Types'
    BY <1>4 DEF StopTasklet, Types
  <2>2. Brackets'
    BY <1>4
       DEF StopTasklet, Types, Brackets, LockHeld, Disabled, Holds, MacPresent
  <2>3. Count'
    BY <1>4
       DEF StopTasklet, Types, Brackets, LockHeld, MacPresent, Count, OwedNow,
           QuietAfterStop
  <2>4. Awaited'
    BY <1>4
       DEF StopTasklet, Types, Brackets, LockHeld, MacPresent, Count, OwedNow,
           Awaited, Killed, Queued
  <2>5. QuietAfterStop'
    BY <1>4 DEF StopTasklet, Types, Brackets, MacPresent, Count, QuietAfterStop
  <2> QED
    BY <2>1, <2>2, <2>3, <2>4, <2>5
<1>5. CASE StopChip
  <2>1. Types'
    <3>1. ref' \in Int /\ ier' \in BOOLEAN
      BY <1>5, DisableTypes DEF StopChip
    <3>2. pc' \in [Thread -> {"none", "begin", "disabled", "resetting", "unlock"}]
      BY <1>5 DEF StopChip, DisableInterrupts, Types
    <3> QED
      BY <1>5, <3>1, <3>2 DEF StopChip, DisableInterrupts, Types
  <2>2. Brackets'
    BY <1>5
       DEF StopChip, DisableInterrupts, Types, Brackets, LockHeld, Disabled,
           Holds, MacPresent
  <2>3. Count'
    BY <1>5
       DEF StopChip, DisableInterrupts, Types, Brackets, LockHeld, MacPresent,
           Count, OwedNow, QuietAfterStop
  <2>4. Awaited'
    BY <1>5
       DEF StopChip, DisableInterrupts, Types, Brackets, LockHeld, MacPresent,
           Count, OwedNow, Awaited, Killed, Queued
  <2>5. QuietAfterStop'
    BY <1>5
       DEF StopChip, DisableInterrupts, Types, Brackets, MacPresent, Count,
           QuietAfterStop
  <2> QED
    BY <2>1, <2>2, <2>3, <2>4, <2>5
<1> QED
  BY <1>1, <1>2, <1>3, <1>4, <1>5

LEMMA ResetInit == Init => ResetInv
<1> SUFFICES ASSUME Init PROVE ResetInv
  OBVIOUS
<1> USE DEF Init, ResetInv
<1>1. Types
  <2>1. -1 \in Int
    OBVIOUS
  <2> QED
    BY <2>1, NoTimeouts DEF Types, Statuses, Thread
<1>2. Brackets
  BY DEF Brackets, LockHeld, Disabled, Holds, MacPresent, Thread
<1>3. Count /\ Awaited /\ QuietAfterStop
  BY DEF Count, Awaited, Killed, Queued, QuietAfterStop
<1> QED
  BY <1>1, <1>2, <1>3

LEMMA ResetUnchanged ==
  ASSUME ResetInv, UNCHANGED vars
  PROVE  ResetInv'
<1> USE DEF vars, irqVars, taskVars, macVars, ResetInv
<1>1. Types' /\ Brackets' /\ QuietAfterStop'
  BY DEF Types, Brackets, LockHeld, Disabled, Holds, MacPresent, QuietAfterStop
<1>2. Count' /\ Awaited'
  BY DEF Count, OwedNow, Awaited, Killed, Queued
<1> QED
  BY <1>1, <1>2

LEMMA ResetStep ==
  ASSUME ResetInv, [Next]_vars
  PROVE  ResetInv'
<1>1. CASE IsrKill \/ IsrSchedule \/ HangDetected
  BY <1>1, ResetIsr
<1>2. CASE Tasklet
  BY <1>2, ResetTasklet DEF Tasklet
<1>3. CASE \E t \in Thread : Reset(t)
  BY <1>3, ResetThread DEF Reset
<1>4. CASE ResetWork \/ Start \/ StartNoReception \/ SetChannel \/ Flush
             \/ ConfigIdle \/ ConfigBusy
  BY <1>4, ResetMac
<1>5. CASE Stop
  BY <1>5, ResetStop DEF Stop
<1>6. CASE UNCHANGED vars
  BY <1>6, ResetUnchanged
<1> QED
  BY <1>1, <1>2, <1>3, <1>4, <1>5, <1>6 DEF Next

LEMMA ResetInvariant == Spec => []ResetInv
<1>1. ResetInv /\ [Next]_vars => ResetInv'
  BY ResetStep
<1> QED
  BY ResetInit, <1>1, PTL DEF Spec

-----------------------------------------------------------------------------
\* sc_pcu_lock lets one thread at a time be between its two halves.
LEMMA OwedIsOwedNow ==
  ASSUME ResetInv PROVE Owed = OwedNow
<1> DEFINE R == {t \in Thread : pc[t] = "resetting"}
<1>1. \A t \in R : R = {t}
  BY DEF ResetInv, Brackets, LockHeld
<1>2. Cardinality(R) = IF \E t \in Thread : pc[t] = "resetting" THEN 1 ELSE 0
  <2>1. CASE R = {}
    BY <2>1, FS_EmptySet
  <2>2. CASE R # {}
    <3>1. PICK t \in R : R = {t}
      BY <1>1, <2>2
    <3> QED
      BY <3>1, FS_Singleton
  <2> QED
    BY <2>1, <2>2
<1> QED
  BY <1>2 DEF Owed, OwedNow

\* The types of all variables; the count is never below -3, nor is the tasklet
\* disabled more than twice.
THEOREM TypeCorrect == Spec => []TypeOK
<1>1. ASSUME ResetInv PROVE TypeOK
  <2>1. disabled \in 0..2
    BY <1>1 DEF ResetInv, Brackets, Disabled, Holds
  <2>2. OwedNow \in 0..2
    BY DEF OwedNow
  <2>3. ref \in -3..0
    BY <1>1, <2>2 DEF ResetInv, Types, Count
  <2> QED
    BY <1>1, <2>1, <2>3 DEF ResetInv, Types, TypeOK
<1> QED
  BY ResetInvariant, <1>1, PTL

\* The count is minus the number of reasons to keep interrupts off
\* (main.c:202-270, 442-557).
THEOREM RefCountExactHolds == Spec => []RefCountExact
<1>1. ResetInv => RefCountExact
  BY OwedIsOwedNow DEF ResetInv, Count, RefCountExact
<1> QED
  BY ResetInvariant, <1>1, PTL

\* While the device runs with interrupts off somebody will turn them on
\* (main.c:462-472, 660-687).
THEOREM SomeoneWillEnableHolds == Spec => []SomeoneWillEnable
<1>1. ResetInv => SomeoneWillEnable
  BY DEF ResetInv, Types, Awaited, Killed, Queued, SomeoneWillEnable, Thread
<1> QED
  BY ResetInvariant, <1>1, PTL

\* A stopped device is quiet (main.c:1000-1013).
THEOREM QuietAfterStopHolds == Spec => []QuietAfterStop
<1>1. ResetInv => QuietAfterStop
  BY DEF ResetInv
<1> QED
  BY ResetInvariant, <1>1, PTL

\* An interrupt comes only when the tasklet has read the last status
\* (main.c:602-687, 442-449).
THEOREM NoStatusLostHolds == Spec => NoStatusLost
<1>1. ResetInv /\ ier => tasklet = "idle"
  BY DEF ResetInv, Types, Count, OwedNow
<1>2. ResetInv => (IsrSchedule => tasklet = "idle")
  BY <1>1 DEF IsrSchedule
<1>3. ResetInv /\ [Next]_vars => [IsrSchedule => tasklet = "idle"]_vars
  BY <1>2
<1> QED
  BY ResetInvariant, <1>3, PTL DEF Spec, NoStatusLost
=============================================================================
