------------------------ MODULE Ath9kPowerSaveProofs ------------------------
(***************************************************************************)
(* Nobody touches a sleeping chip, for any number of threads.              *)
(***************************************************************************)
EXTENDS Ath9kPowerSave, FiniteSetTheorems, TLAPS

Types ==
  /\ pc \in [Thread -> {"out", "saw sleep", "waking", "in", "marked"}]
  /\ usecount \in Nat
  /\ lock \in BOOLEAN /\ idle \in BOOLEAN /\ enabled \in BOOLEAN
  /\ pending \in BOOLEAN /\ running \in BOOLEAN
  /\ waits \subseteq Wait
  /\ mode \in {"awake", "network sleep", "full sleep"}
  /\ stop \in {NotStopping, "was idle", "was busy", "stopped"}

CountsUsers == usecount = Cardinality(Users)

\* Whoever waits for the timer is alone and has the lock.
WakesAlone == \A t \in Thread : pc[t] = "waking" => lock /\ Users = {t}

\* The timer is armed only when nobody is left, and its handler outlives that
\* only as long as the first thread to come waits for it.
TimerMeansUnused ==
  /\ pending => Users = {}
  /\ running => \A t \in Thread : pc[t] \notin {"in", "marked"}

\* The timer of a device that was idle when it was armed.
TimerMeansIdle == pending \/ running => idle \/ stop # NotStopping

PowerInv ==
  /\ Types /\ CountsUsers /\ WakesAlone /\ TimerMeansUnused /\ TimerMeansIdle
  /\ AwakeWhileInUse /\ AwakeWhileWaiting /\ FullSleepMeansIdle

-----------------------------------------------------------------------------
\* usecount tells an empty set of users, and a last one.
LEMMA UsersFinite == IsFiniteSet(Users)
<1>1. IsFiniteSet(User)
  BY PowerAssumption
<1>2. IsFiniteSet((User \cup {"config"}) \cup {"tx"})
  BY <1>1, FS_AddElement
<1>3. Users \subseteq (User \cup {"config"}) \cup {"tx"}
  BY DEF Users, Thread
<1> QED
  BY <1>2, <1>3, FS_Subset

LEMMA NoUser ==
  ASSUME CountsUsers PROVE usecount = 0 <=> Users = {}
BY UsersFinite, FS_EmptySet DEF CountsUsers

LEMMA UserArrives ==
  ASSUME CountsUsers, NEW t, t \notin Users, Users' = Users \cup {t},
         usecount' = usecount + 1
  PROVE  CountsUsers'
BY UsersFinite, FS_AddElement DEF CountsUsers

LEMMA UserLeaves ==
  ASSUME CountsUsers, NEW t, t \in Users, Users' = Users \ {t},
         usecount' = usecount - 1
  PROVE  CountsUsers' /\ (usecount = 1 <=> Users' = {})
<1>1. Cardinality(Users \ {t}) = Cardinality(Users) - 1
  BY UsersFinite, FS_RemoveElement
<1>2. IsFiniteSet(Users \ {t})
  BY UsersFinite, FS_Subset
<1>3. Cardinality(Users \ {t}) = 0 <=> Users \ {t} = {}
  BY <1>2, FS_EmptySet
<1>4. Cardinality(Users) \in Nat
  BY UsersFinite, FS_CardinalityType
<1> QED
  BY <1>1, <1>3, <1>4 DEF CountsUsers

-----------------------------------------------------------------------------
\* The steps of a thread through ath9k_ps_wakeup and ath9k_ps_restore.
LEMMA PowerBracket ==
  ASSUME PowerInv, NEW t \in Thread, Bracket(t)
  PROVE  PowerInv'
<1> USE DEF PowerInv
<1>1. CASE WakeupMore(t)
  <2>1. t \notin Users /\ Users' = Users \cup {t}
    BY <1>1 DEF WakeupMore, CallsFrom, Users, Types
  <2>2. PICK u \in Users : TRUE
    BY <1>1, NoUser DEF WakeupMore
  <2>3. pc[u] \in {"in", "marked"}
    BY <1>1, <2>2 DEF WakeupMore, WakesAlone, Users, Types
  <2>4. mode = "awake" /\ ~pending /\ ~running
    BY <2>2, <2>3 DEF AwakeWhileInUse, TimerMeansUnused, Users, Types
  <2>5. Types'
    <3>1. pc' \in [Thread -> {"out", "saw sleep", "waking", "in", "marked"}]
      BY <1>1 DEF WakeupMore, Types
    <3>2. usecount \in Nat /\ usecount' = usecount + 1
      BY <1>1 DEF WakeupMore, Types
    <3>3. usecount' \in Nat
      BY ONLY <3>2
    <3> QED
      BY <1>1, <3>1, <3>3 DEF WakeupMore, Types, timerVars
  <2>6. TimerMeansIdle' /\ AwakeWhileWaiting' /\ FullSleepMeansIdle'
    BY <1>1, <2>4 DEF WakeupMore, TimerMeansIdle, AwakeWhileWaiting, FullSleepMeansIdle, timerVars
  <2>7. CountsUsers'
    BY <1>1, <2>1, UserArrives DEF WakeupMore
  <2>8. WakesAlone'
    BY <1>1 DEF WakeupMore, WakesAlone, Types
  <2>9. TimerMeansUnused' /\ AwakeWhileInUse'
    BY <1>1, <2>4 DEF WakeupMore, TimerMeansUnused, AwakeWhileInUse, timerVars
  <2> QED
    BY <2>5, <2>6, <2>7, <2>8, <2>9
<1>2. CASE WakeupFirst(t)
  <2>1. Users = {} /\ Users' = {t}
    BY <1>2, NoUser DEF WakeupFirst, Users, Types
  <2>2. Types' /\ TimerMeansIdle' /\ AwakeWhileWaiting' /\ FullSleepMeansIdle'
    BY <1>2 DEF WakeupFirst, Types, TimerMeansIdle, AwakeWhileWaiting, FullSleepMeansIdle, timerVars
  <2>3. CountsUsers'
    BY <1>2, <2>1, UserArrives DEF WakeupFirst
  <2>4. WakesAlone'
    BY <1>2, <2>1 DEF WakeupFirst, WakesAlone, Users, Types
  <2>5. TimerMeansUnused' /\ AwakeWhileInUse'
    BY <1>2, <2>1 DEF WakeupFirst, TimerMeansUnused, AwakeWhileInUse, Users, Types
  <2> QED
    BY <2>2, <2>3, <2>4, <2>5
<1>3. CASE WakeupAwake(t)
  <2>1. Users = {t} /\ Users' = Users
    BY <1>3 DEF WakeupAwake, WakesAlone, Users, Types
  <2>2. ~pending /\ ~running
    BY <1>3, <2>1 DEF WakeupAwake, TimerGone, TimerMeansUnused, Types
  <2>3. Types' /\ CountsUsers' /\ TimerMeansIdle'
    BY <1>3, <2>1 DEF WakeupAwake, Types, CountsUsers, TimerMeansIdle, timerVars
  <2>4. WakesAlone'
    BY <1>3, <2>1 DEF WakeupAwake, WakesAlone, Users, Types
  <2>5. TimerMeansUnused' /\ AwakeWhileInUse' /\ AwakeWhileWaiting' /\ FullSleepMeansIdle'
    BY <1>3, <2>2 DEF WakeupAwake, TimerMeansUnused, AwakeWhileInUse, AwakeWhileWaiting, FullSleepMeansIdle, timerVars
  <2> QED
    BY <2>3, <2>4, <2>5
<1>4. CASE Restore(t)
  <2>1. t \in Users /\ pc[t] \in {"in", "marked"} /\ Users' = Users \ {t}
    BY <1>4 DEF Restore, LeavesFrom, Users, Types
  <2>2. mode = "awake" /\ ~pending /\ ~running
    BY <2>1 DEF AwakeWhileInUse, TimerMeansUnused, Types
  <2>3. CountsUsers' /\ (usecount = 1 <=> Users' = {})
    BY <1>4, <2>1, UserLeaves DEF Restore
  <2>4. usecount' \in Nat
    BY <2>3, UsersFinite, FS_CardinalityType, <2>1, FS_Subset DEF CountsUsers
  <2>5. pending' \in BOOLEAN /\ running' = running
    BY <1>4 DEF Restore
  <2>6. Types'
    BY <1>4, <2>4, <2>5 DEF Restore, Types
  <2>7. WakesAlone'
    BY <1>4 DEF Restore, WakesAlone, Types
  <2>8. TimerMeansUnused' /\ TimerMeansIdle'
    BY <1>4, <2>2, <2>3 DEF Restore, TimerMeansUnused, TimerMeansIdle
  <2>9. AwakeWhileInUse'
    BY <1>4, <2>2, <2>3 DEF Restore, AwakeWhileInUse, Users, Types
  <2>10. AwakeWhileWaiting' /\ FullSleepMeansIdle'
    BY <1>4, <2>2 DEF Restore, MaySleep, AwakeWhileWaiting, FullSleepMeansIdle
  <2> QED
    BY <2>3, <2>6, <2>7, <2>8, <2>9, <2>10
<1> QED
  BY <1>1, <1>2, <1>3, <1>4 DEF Bracket, Wakeup
-----------------------------------------------------------------------------
\* The sleep timer.
LEMMA PowerTimer ==
  ASSUME PowerInv, TimerFires \/ TimerSleeps
  PROVE  PowerInv'
<1> USE DEF PowerInv
<1>1. Users' = Users /\ pc' = pc /\ usecount' = usecount
  BY DEF TimerFires, TimerSleeps, Users
<1>2. Types' /\ CountsUsers' /\ WakesAlone'
  BY <1>1 DEF TimerFires, TimerSleeps, Types, CountsUsers, WakesAlone
<1>3. \A t \in Thread : pc[t] \notin {"in", "marked"}
  BY DEF TimerFires, TimerSleeps, TimerMeansUnused, Users
<1>4. TimerMeansUnused' /\ AwakeWhileInUse'
  <2>1. pending' => Users' = {}
    BY <1>1 DEF TimerFires, TimerSleeps, TimerMeansUnused
  <2>2. \A t \in Thread : pc'[t] \notin {"in", "marked"}
    BY <1>1, <1>3
  <2> QED
    BY <2>1, <2>2 DEF TimerMeansUnused, AwakeWhileInUse
<1>5. TimerMeansIdle'
  BY DEF TimerFires, TimerSleeps, Types, TimerMeansIdle
<1>6. AwakeWhileWaiting' /\ FullSleepMeansIdle'
  BY DEF TimerFires, TimerSleeps, Types, TimerMeansIdle, AwakeWhileWaiting,
         FullSleepMeansIdle
<1> QED
  BY <1>2, <1>4, <1>5, <1>6

\* Steps that leave the bracket and the timer as they are.
LEMMA PowerFlags ==
  ASSUME PowerInv, NEW t \in Thread,
         \/ WaitFor(t) \/ Arrived(t) \/ ConfigIdle \/ EnablePs \/ DisablePs
         \/ StopIdle \/ StopPutsBack \/ Start \/ IsrTimTimer
  PROVE  PowerInv'
<1> USE DEF PowerInv, timerVars, Inside
<1>1. /\ pc' = pc /\ usecount' = usecount /\ lock' = lock
      /\ pending' = pending /\ running' = running
  BY DEF WaitFor, Arrived, ConfigIdle, EnablePs, DisablePs, StopIdle,
         StopPutsBack, Start, IsrTimTimer
<1>2. mode' = mode \/ mode' = "awake"
  BY DEF WaitFor, Arrived, ConfigIdle, EnablePs, DisablePs, StopIdle,
         StopPutsBack, Start, IsrTimTimer
<1>3. CountsUsers' /\ WakesAlone' /\ TimerMeansUnused' /\ AwakeWhileInUse'
  BY <1>1, <1>2 DEF CountsUsers, WakesAlone, TimerMeansUnused,
                    AwakeWhileInUse, Users
<1>4. Types'
  BY <1>1, <1>2 DEF Types, WaitFor, Arrived, ConfigIdle, EnablePs, DisablePs,
                    StopIdle, StopPutsBack, Start, IsrTimTimer, Wait
<1>5. "config" \in Thread
  BY DEF Thread
<1>6. ASSUME pc["config"] = "in"
      PROVE  mode = "awake" /\ ~pending /\ ~running
  BY <1>5, <1>6 DEF AwakeWhileInUse, TimerMeansUnused, Types, Users
<1>7. TimerMeansIdle' /\ FullSleepMeansIdle'
  <2>1. CASE idle' = idle /\ stop' = stop
    BY <1>1, <1>2, <2>1 DEF TimerMeansIdle, FullSleepMeansIdle
  <2>2. CASE ConfigIdle \/ StopIdle \/ Start
    BY <1>1, <1>2, <1>6, <2>2
       DEF ConfigIdle, StopIdle, Start, TimerMeansIdle, FullSleepMeansIdle
  <2>3. CASE StopPutsBack
    BY <2>3 DEF StopPutsBack, NotStopping, TimerMeansIdle, FullSleepMeansIdle
  <2> QED
    BY <2>1, <2>2, <2>3 DEF WaitFor, Arrived, EnablePs, DisablePs, IsrTimTimer
<1>8. AwakeWhileWaiting'
  <2>1. CASE WaitFor(t)
    BY <2>1 DEF WaitFor, AwakeWhileInUse, AwakeWhileWaiting
  <2>2. CASE DisablePs \/ IsrTimTimer
    BY <2>2 DEF DisablePs, IsrTimTimer, AwakeWhileWaiting
  <2>3. CASE Arrived(t)
    BY <2>3 DEF Arrived, AwakeWhileWaiting
  <2>4. CASE ConfigIdle \/ EnablePs \/ StopIdle \/ StopPutsBack \/ Start
    BY <2>4 DEF ConfigIdle, EnablePs, StopIdle, StopPutsBack, Start,
                AwakeWhileWaiting
  <2> QED
    BY <2>1, <2>2, <2>3, <2>4
<1> QED
  BY <1>3, <1>4, <1>7, <1>8

\* ath9k_tx between its look at the mode and its restore.
LEMMA PowerTx ==
  ASSUME PowerInv, TxLooks \/ TxWaitFor
  PROVE  PowerInv'
<1> USE DEF PowerInv, timerVars, Inside
<1>0. "tx" \in Thread
  BY DEF Thread
<1>1. /\ Users' = Users /\ usecount' = usecount /\ lock' = lock /\ mode' = mode
      /\ pending' = pending /\ running' = running /\ idle' = idle /\ stop' = stop
  BY <1>0 DEF TxLooks, TxWaitFor, Users, Types
<1>2. Types'
  BY <1>0 DEF TxLooks, TxWaitFor, Types, Wait
<1>3. CountsUsers' /\ WakesAlone' /\ TimerMeansIdle' /\ FullSleepMeansIdle'
  BY <1>0, <1>1 DEF TxLooks, TxWaitFor, Types, CountsUsers, WakesAlone,
                    TimerMeansIdle, FullSleepMeansIdle
<1>4. TimerMeansUnused' /\ AwakeWhileInUse'
  BY <1>0, <1>1 DEF TxLooks, TxWaitFor, Types, TimerMeansUnused, AwakeWhileInUse
<1>5. AwakeWhileWaiting'
  BY <1>0, <1>1 DEF TxLooks, TxWaitFor, AwakeWhileInUse, AwakeWhileWaiting
<1> QED
  BY <1>2, <1>3, <1>4, <1>5

LEMMA PowerStep ==
  ASSUME PowerInv, [Next]_vars
  PROVE  PowerInv'
<1>0. User \subseteq Thread /\ "config" \in Thread
  BY DEF Thread
<1>1. CASE \E t \in Thread : Bracket(t)
  BY <1>1, PowerBracket
<1>2. CASE TimerFires \/ TimerSleeps
  BY <1>2, PowerTimer
<1>3. CASE \E t \in User : WaitFor(t) \/ Arrived(t)
  BY <1>0, <1>3, PowerFlags
<1>4. CASE TxLooks \/ TxWaitFor
  BY <1>4, PowerTx
<1>5. CASE ConfigIdle \/ EnablePs \/ DisablePs \/ StopIdle \/ StopPutsBack
             \/ Start \/ IsrTimTimer
  BY <1>0, <1>5, PowerFlags
<1>6. CASE UNCHANGED vars
  BY <1>6 DEF vars, timerVars, PowerInv, Types, CountsUsers, WakesAlone,
              TimerMeansUnused, TimerMeansIdle, AwakeWhileInUse,
              AwakeWhileWaiting, FullSleepMeansIdle, Users
<1> QED
  BY <1>1, <1>2, <1>3, <1>4, <1>5, <1>6 DEF Next

LEMMA PowerInit == Init => PowerInv
<1> SUFFICES ASSUME Init PROVE PowerInv
  OBVIOUS
<1>1. Users = {}
  BY DEF Init, Users
<1>2. CountsUsers
  BY <1>1, FS_EmptySet DEF Init, CountsUsers
<1> QED
  BY <1>1, <1>2 DEF Init, PowerInv, Types, WakesAlone, TimerMeansUnused,
     TimerMeansIdle, AwakeWhileInUse, AwakeWhileWaiting, FullSleepMeansIdle,
     NotStopping

LEMMA PowerInvariant == Spec => []PowerInv
<1>1. PowerInv /\ [Next]_vars => PowerInv'
  BY PowerStep
<1> QED
  BY PowerInit, <1>1, PTL DEF Spec

-----------------------------------------------------------------------------
\* The types of all variables, and usecount is the number of threads between
\* ath9k_ps_wakeup and ath9k_ps_restore.
THEOREM TypeCorrect == Spec => []TypeOK
<1>1. PowerInv => TypeOK
  BY DEF PowerInv, Types, CountsUsers, TypeOK
<1> QED
  BY PowerInvariant, <1>1, PTL

\* Between ath9k_ps_wakeup and ath9k_ps_restore the chip is awake
\* (main.c:88-133).
THEOREM AwakeWhileInUseHolds == Spec => []AwakeWhileInUse
<1>1. PowerInv => AwakeWhileInUse
  BY DEF PowerInv
<1> QED
  BY PowerInvariant, <1>1, PTL

\* The chip is not in network sleep while a frame is waited for
\* (main.c:150-160, 930-948).
THEOREM AwakeWhileWaitingHolds == Spec => []AwakeWhileWaiting
<1>1. PowerInv => AwakeWhileWaiting
  BY DEF PowerInv
<1> QED
  BY PowerInvariant, <1>1, PTL

\* Only an idle or a stopped device is in full sleep (main.c:88-102, 145-148,
\* 1015-1045).
THEOREM FullSleepMeansIdleHolds == Spec => []FullSleepMeansIdle
<1>1. PowerInv => FullSleepMeansIdle
  BY DEF PowerInv
<1> QED
  BY PowerInvariant, <1>1, PTL
=============================================================================
