---------------------------- MODULE UnlockProofs ----------------------------
(***************************************************************************)
(* Theorems about the unlock modules of any number of nodes, joined by any *)
(* wires, for any periods, random terms, latency and free-list lengths.    *)
(***************************************************************************)
EXTENDS Unlock, TLAPS

\* hrtimer_forward_now puts the expiry one tick to one period ahead, and loses
\* at most the lateness of the call.
LEMMA ForwardNowBounds ==
  ASSUME NEW left \in Int, left <= 0, NEW period \in Nat \ {0}
  PROVE  /\ ForwardNow(left, period) \in 1..period
         /\ ForwardNow(left, period) >= period + left
<1>1. (-left) % period \in 0..period - 1
  BY SMT
<1>2. (-left) % period <= -left
  BY SMT
<1>3. QED  BY <1>1, <1>2 DEF ForwardNow

\* A difference that does not go below zero does not wrap.
LEMMA U32SubExact ==
  ASSUME NEW a \in Int, NEW b \in Int, a >= b
  PROVE  U32Sub(a, b) = a - b
BY DEF U32Sub

-----------------------------------------------------------------------------
(* Type correctness *)

LEMMA ParamType ==
  ASSUME TypeOK, NEW n \in Node
  PROVE  /\ T[n] \in MinT..MaxT /\ T[n] \in Nat \ {0}
         /\ Delta[n] \in 1..MaxDelta /\ Delta[n] \in Nat \ {0}
<1>1. T[n] \in Periods /\ Delta[n] \in Deltas
  BY DEF TypeOK
<1>2. T[n] \in MinT..MaxT /\ Delta[n] \in 1..MaxDelta
  BY <1>1, UnlockAssumption
<1>3. MinT \in Nat \ {0} /\ MaxT \in Nat /\ MaxDelta \in Nat
  BY UnlockAssumption
<1>4. QED  BY <1>2, <1>3

LEMMA PulseType ==
  ASSUME NEW n \in Node, NEW after \in [Node -> {NoIrq} \cup 0..Latency],
         Pulse(n, after)
  PROVE  irq' \in [Node -> {NoIrq} \cup 0..Latency]
BY UnlockAssumption DEF Pulse, NoIrq

LEMMA WindowType ==
  ASSUME NEW n \in Node, TypeOK, UpdateWindow(n)
  PROVE  /\ bufCounter' \in [Node -> Nat]
         /\ dcu' \in [Node -> [Dcu -> CwValues]]
<1>1. PICK size \in BufSizes :
        /\ bufCounter' = [bufCounter EXCEPT ![n] = size]
        /\ dcu' = [dcu EXCEPT ![n] = [q \in Dcu |-> CwOf(size)]]
  BY DEF UpdateWindow
<1>2. size \in Nat /\ CwOf(size) \in CwValues
  BY UnlockAssumption DEF CwOf, CwValues
<1>3. QED  BY <1>1, <1>2 DEF TypeOK

LEMMA InitType == Init => TypeOK
<1>1. 15 \in CwValues /\ 0 \in Dcu
  BY UnlockAssumption DEF CwValues, Dcu
<1> SUFFICES ASSUME Init PROVE TypeOK
  OBVIOUS
<1>2. /\ mod \in [Node -> ModStates] /\ handler \in [Node -> HandlerStates]
      /\ initq \in [Node -> Dcu]
  BY <1>1 DEF Init, ModStates, HandlerStates
<1>3. T \in [Node -> Periods] /\ Delta \in [Node -> Deltas]
  BY UnlockAssumption DEF Init
<1>4. age \in [Node -> 0..Second] /\ gap \in [Node -> 0..Second]
  BY UnlockAssumption DEF Init
<1>5. txReady \in [Node -> BOOLEAN]
  BY DEF Init
<1>6. dcu \in [Node -> [Dcu -> CwValues]]
  BY <1>1 DEF Init
<1>7. QED
  BY <1>2, <1>3, <1>4, <1>5, <1>6 DEF Init, TypeOK

LEMMA NextType == TypeOK /\ [Next]_vars => TypeOK'
<1> SUFFICES ASSUME TypeOK, [Next]_vars PROVE TypeOK'
  OBVIOUS
<1> USE UnlockAssumption DEF TypeOK
<1> USE DEF lifeVars, paramVars, irqVars, timerVars, stampVars, ratevars, flagVars
<1>1. ASSUME NEW n \in Node, LoadRequest(n) PROVE TypeOK'
  BY <1>1 DEF LoadRequest, ModStates
<1>2. ASSUME NEW n \in Node, LoadFails(n) PROVE TypeOK'
  BY <1>2 DEF LoadFails
<1>3. ASSUME NEW n \in Node, LoadStartTimer(n) PROVE TypeOK'
  <2>1. 0 \in Dcu
    BY DEF Dcu
  <2>2. T[n] \in Int
    BY ParamType
  <2>3. QED  BY <1>3, <2>1, <2>2 DEF LoadStartTimer, ModStates
<1>4. ASSUME NEW n \in Node, LoadEditDcu(n) PROVE TypeOK'
  <2>1. 15 \in CwValues
    BY DEF CwValues
  <2>2. dcu' \in [Node -> [Dcu -> CwValues]]
    BY <1>4, <2>1 DEF LoadEditDcu
  <2>3. initq' \in [Node -> Dcu]
    <3>1. initq[n] \in 0..Dcus - 1
      BY DEF Dcu
    <3>2. (IF initq[n] + 1 = Dcus THEN 0 ELSE initq[n] + 1) \in Dcu
      BY <3>1 DEF Dcu
    <3>3. QED  BY <1>4, <3>2 DEF LoadEditDcu
  <2>4. mod' \in [Node -> ModStates]
    BY <1>4 DEF LoadEditDcu, ModStates
  <2>5. QED  BY <1>4, <2>2, <2>3, <2>4 DEF LoadEditDcu
<1>5. ASSUME NEW n \in Node, UnloadCancelTimer(n) PROVE TypeOK'
  BY <1>5 DEF UnloadCancelTimer, ModStates
<1>6. ASSUME NEW n \in Node, UnloadFreeIrq(n) PROVE TypeOK'
  BY <1>6 DEF UnloadFreeIrq, ModStates
<1>7. ASSUME NEW n \in Node, Operator(n) PROVE TypeOK'
  <2>1. ASSUME NEW t \in Periods, SetT(n, t) PROVE TypeOK'
    BY <2>1, <1>7 DEF SetT
  <2>2. ASSUME NEW d \in Deltas, SetDelta(n, d) PROVE TypeOK'
    BY <2>2, <1>7 DEF SetDelta
  <2>3. CASE FirstPacket(n)
    BY <2>3, <1>7 DEF FirstPacket
  <2>4. QED  BY <1>7, <2>1, <2>2, <2>3 DEF Operator
<1>8. ASSUME NEW n \in Node, TimerHandler(n) PROVE TypeOK'
  <2>1. irq' \in [Node -> {NoIrq} \cup 0..Latency]
    BY <1>8, PulseType DEF TimerHandler, TimerPulse
  <2>2. /\ bufCounter' \in [Node -> Nat]
        /\ dcu' \in [Node -> [Dcu -> CwValues]]
    BY <1>8, WindowType DEF TimerHandler
  <2>3. T[n] \in Nat \ {0} /\ timer[n] \in Int /\ timer[n] <= 0
    BY <1>8, ParamType DEF TimerHandler, Due
  <2>4. ForwardNow(timer[n], T[n]) \in Int
    BY <2>3, ForwardNowBounds
  <2>5. timer' \in [Node -> Int]
    BY <1>8, <2>4 DEF TimerHandler
  <2>6. sincePulse' \in [Node -> Nat]
    BY <1>8 DEF TimerHandler, TimerPulse
  <2>7. QED  BY <1>8, <2>1, <2>2, <2>5, <2>6 DEF TimerHandler
<1>9. ASSUME NEW n \in Node, TimerHandlerNoBuffer(n) PROVE TypeOK'
  <2>1. irq' \in [Node -> {NoIrq} \cup 0..Latency]
    BY <1>9, PulseType DEF TimerHandlerNoBuffer, TimerPulse
  <2>2. QED  BY <1>9, <2>1 DEF TimerHandlerNoBuffer, TimerPulse
<1>10. ASSUME NEW n \in Node, IrqSpins(n) PROVE TypeOK'
  BY <1>10 DEF IrqSpins, IrqCleared, HandlerStates
<1>11. ASSUME NEW n \in Node, IrqNoBuffer(n) PROVE TypeOK'
  BY <1>11 DEF IrqNoBuffer, IrqCleared
<1>12. ASSUME NEW n \in Node, IrqRefused(n) PROVE TypeOK'
  <2>1. /\ bufCounter' \in [Node -> Nat]
        /\ dcu' \in [Node -> [Dcu -> CwValues]]
    BY <1>12, WindowType DEF IrqRefused
  <2>2. QED  BY <1>12, <2>1 DEF IrqRefused, IrqCleared
<1>13. ASSUME NEW n \in Node, IrqAccepted(n) PROVE TypeOK'
  <2>1. /\ bufCounter' \in [Node -> Nat]
        /\ dcu' \in [Node -> [Dcu -> CwValues]]
    BY <1>13, WindowType DEF IrqAccepted
  <2>2. irq' \in [Node -> {NoIrq} \cup 0..Latency]
    <3>1. IrqCleared(n) \in [Node -> {NoIrq} \cup 0..Latency]
      BY DEF IrqCleared
    <3>2. QED  BY <1>13, <3>1, PulseType DEF IrqAccepted
  <2>3. PICK rng \in 0..2 * Delta[n] - 1, backoff \in 0..2 * Delta[n] - 1 :
          /\ delay' = [delay EXCEPT ![n] = backoff]
          /\ restart' = [restart EXCEPT ![n] = U32Sub(NextTimer(n, rng), backoff)]
    BY <1>13 DEF IrqAccepted
  <2>4. T[n] \in Nat /\ Delta[n] \in Nat /\ age[n] \in 0..Second
    BY ParamType
  <2>5. backoff \in Nat /\ rng \in Nat
    BY <2>4
  <2>6. U32Sub(NextTimer(n, rng), backoff) \in Int
    BY <2>4, <2>5 DEF U32Sub, NextTimer
  <2>7. delay' \in [Node -> Nat] /\ restart' \in [Node -> Int]
    BY <2>3, <2>5, <2>6
  <2>8. QED
    BY <1>13, <2>1, <2>2, <2>4, <2>7 DEF IrqAccepted, ShiftStamps, HandlerStates
<1>14. ASSUME NEW n \in Node, IrqReturns(n) PROVE TypeOK'
  BY <1>14 DEF IrqReturns, ReleaseRadio, HandlerStates
<1>15. CASE Tick
  <2>1. age' \in [Node -> 0..Second]
    BY <1>15 DEF Tick, Grow
  <2>2. delay' \in [Node -> Nat]
    BY <1>15 DEF Tick, CanWait
  <2>3. irq' \in [Node -> {NoIrq} \cup 0..Latency]
    BY <1>15 DEF Tick, CanWait, NoIrq, IrqWaits
  <2>4. timer' \in [Node -> Int] /\ sincePulse' \in [Node -> Nat]
    BY <1>15 DEF Tick
  <2>5. QED  BY <1>15, <2>1, <2>2, <2>3, <2>4 DEF Tick
<1>16. CASE UNCHANGED vars
  BY <1>16 DEF vars
<1>17. QED
  BY <1>1, <1>2, <1>3, <1>4, <1>5, <1>6, <1>7, <1>8, <1>9, <1>10, <1>11,
     <1>12, <1>13, <1>14, <1>15, <1>16
  DEF Next, Timer, Irq, Load, Unload

\* Every variable keeps its type, with and without a free list, on kernels
\* with and without real spin locks.
THEOREM TypeCorrect == Spec => []TypeOK
BY InitType, NextType, PTL DEF Spec

-----------------------------------------------------------------------------
(* The radio, the lock and the timer between signals, when packets are sent *)
(* before the module is loaded                                              *)

\* As src/README.md asks: packets are sent before insmod.
PacketsFirst == TxFirst = Node
TxAll == \A n \in Node : txReady[n]

\* Then no handler ever meets a NULL free list, so the two early returns that leak
\* are unreachable and the invariant is inductive.
FreeInv == TypeOK /\ TxAll /\ RadioFreeBetweenSignals

LEMMA InitFree == ASSUME PacketsFirst PROVE Init => FreeInv
<1> SUFFICES ASSUME Init PROVE TxAll /\ RadioFreeBetweenSignals
  BY InitType DEF FreeInv
<1>1. TxAll
  BY PacketsFirst DEF PacketsFirst, Init, TxAll
<1>2. RadioFreeBetweenSignals
  BY DEF Init, RadioFreeBetweenSignals
<1>3. QED  BY <1>1, <1>2

LEMMA NextTxAll == TypeOK /\ TxAll /\ [Next]_vars => TxAll'
<1> SUFFICES ASSUME TypeOK, TxAll, [Next]_vars PROVE txReady' = txReady
  BY DEF TxAll
<1> USE DEF TxAll
<1>1. ASSUME NEW n \in Node, Timer(n) \/ Irq(n) PROVE txReady' = txReady
  BY <1>1 DEF Timer, Irq, TimerHandler, TimerHandlerNoBuffer, IrqSpins,
     IrqNoBuffer, IrqRefused, IrqAccepted, IrqReturns
<1>2. ASSUME NEW n \in Node, Load(n) \/ Unload(n) PROVE txReady' = txReady
  BY <1>2 DEF Load, Unload, LoadRequest, LoadFails, LoadStartTimer, LoadEditDcu,
     UnloadCancelTimer, UnloadFreeIrq
<1>3. ASSUME NEW n \in Node, Operator(n) PROVE txReady' = txReady
  BY <1>3 DEF Operator, SetT, SetDelta, FirstPacket
<1>4. CASE Tick
  BY <1>4 DEF Tick
<1>5. CASE UNCHANGED vars
  BY <1>5 DEF vars
<1>6. QED  BY <1>1, <1>2, <1>3, <1>4, <1>5 DEF Next

LEMMA NextFree == FreeInv /\ [Next]_vars => FreeInv'
<1> SUFFICES ASSUME FreeInv, [Next]_vars PROVE RadioFreeBetweenSignals'
  BY NextType, NextTxAll DEF FreeInv
<1> USE DEF FreeInv, TypeOK, RadioFreeBetweenSignals, Listening, Preemptible
<1> USE DEF lifeVars, paramVars, irqVars, timerVars, stampVars, ratevars, flagVars
<1>1. ASSUME NEW n \in Node, Load(n) PROVE RadioFreeBetweenSignals'
  <2>1. CASE LoadRequest(n)
    BY <2>1 DEF LoadRequest
  <2>2. CASE LoadFails(n)
    BY <2>2 DEF LoadFails
  <2>3. CASE LoadStartTimer(n)
    BY <2>3 DEF LoadStartTimer
  <2>4. CASE LoadEditDcu(n)
    BY <2>4 DEF LoadEditDcu
  <2>5. QED  BY <1>1, <2>1, <2>2, <2>3, <2>4 DEF Load
<1>2. ASSUME NEW n \in Node, Unload(n) PROVE RadioFreeBetweenSignals'
  BY <1>2 DEF Unload, UnloadCancelTimer, UnloadFreeIrq
<1>3. ASSUME NEW n \in Node, Operator(n) PROVE RadioFreeBetweenSignals'
  BY <1>3 DEF Operator, SetT, SetDelta, FirstPacket
<1>4. ASSUME NEW n \in Node, Timer(n) PROVE RadioFreeBetweenSignals'
  BY <1>4 DEF Timer, TimerHandler, TimerHandlerNoBuffer, TxAll
<1>5. ASSUME NEW n \in Node, Irq(n) PROVE RadioFreeBetweenSignals'
  <2>1. CASE IrqSpins(n)
    BY <2>1 DEF IrqSpins, IrqWaits
  <2>2. CASE IrqNoBuffer(n)
    BY <2>2 DEF IrqNoBuffer, TxAll
  <2>3. CASE IrqRefused(n)
    BY <2>3 DEF IrqRefused, IrqTaken, IrqWaits
  <2>4. CASE IrqAccepted(n)
    <3>1. PICK rng \in 0..2 * Delta[n] - 1, backoff \in 0..2 * Delta[n] - 1 :
            delay' = [delay EXCEPT ![n] = backoff]
      BY <2>4 DEF IrqAccepted
    <3>2. backoff <= 2 * MaxDelta - 1 /\ backoff \in Nat
      BY <3>1, ParamType, UnlockAssumption
    <3>3. delay'[n] <= 2 * MaxDelta - 1
      BY <3>1, <3>2
    <3>4. Listening(n)
      BY <2>4 DEF IrqAccepted, IrqTaken, IrqWaits
    <3>5. QED  BY <2>4, <3>1, <3>3, <3>4 DEF IrqAccepted
  <2>5. CASE IrqReturns(n)
    BY <2>5 DEF IrqReturns, ReleaseRadio
  <2>6. QED  BY <1>5, <2>1, <2>2, <2>3, <2>4, <2>5 DEF Irq
<1>6. CASE Tick
  BY <1>6, UnlockAssumption DEF Tick
<1>7. CASE UNCHANGED vars
  BY <1>7 DEF vars
<1>8. QED
  BY <1>1, <1>2, <1>3, <1>4, <1>5, <1>6, <1>7 DEF Next

\* If packets are sent before insmod, as README.md asks, then in every reachable
\* state the lock is held, the radio frozen and the timer stopped exactly while
\* an accepted signal's backoff runs, and that is shorter than 2 * Delta.
THEOREM RadioFree ==
  ASSUME PacketsFirst
  PROVE  Spec => []RadioFreeBetweenSignals
<1>1. FreeInv => RadioFreeBetweenSignals
  BY DEF FreeInv
<1>2. QED  BY <1>1, InitFree, NextFree, PTL DEF Spec

-----------------------------------------------------------------------------
(* How far apart a node's pulses are                                        *)

\* When the timer, queued or about to be, will have run since the last pulse:
\* between one period less the jitter and one period plus a random term.
Slot == MinT - Jitter .. MaxT + 2 * MaxDelta - 1

PulseSpacing ==
  \A n \in Node :
    /\ armed[n] => /\ timer[n] >= -Latency
                   /\ sincePulse[n] + timer[n] \in Slot
    /\ handler[n] = "backoff" => /\ restart[n] >= 0
                                 /\ sincePulse[n] + delay[n] + restart[n] \in Slot
    /\ mod[n] \in {"editing", "in"} => armed[n] \/ handler[n] = "backoff"

SpacingInv == FreeInv /\ PulseSpacing

LEMMA SlotOf ==
  ASSUME NEW t \in MinT..MaxT, NEW d \in 1..MaxDelta
  PROVE  /\ t \in Slot
         /\ \A late \in 0..Latency, left \in Int :
              t - late <= left /\ left <= t => left \in Slot
         /\ \A rng \in 0..2 * d - 1 : t + rng \in Slot /\ t - rng \in Slot
<1>1. Jitter \in Nat /\ Jitter >= 2 * MaxDelta - 1 /\ Jitter >= Latency
  BY UnlockAssumption DEF Jitter
<1>2. MinT \in Nat /\ MaxT \in Nat /\ MaxDelta \in Nat /\ Latency \in Nat
  BY UnlockAssumption
<1>3. t \in Slot
  BY <1>1, <1>2 DEF Slot
<1>4. ASSUME NEW late \in 0..Latency, NEW left \in Int, t - late <= left, left <= t
      PROVE  left \in Slot
  BY <1>1, <1>2, <1>4 DEF Slot
<1>5. ASSUME NEW rng \in 0..2 * d - 1
      PROVE  t + rng \in Slot /\ t - rng \in Slot
  BY <1>1, <1>2 DEF Slot
<1>6. QED  BY <1>3, <1>4, <1>5

LEMMA InitSpacing == ASSUME PacketsFirst PROVE Init => SpacingInv
<1> SUFFICES ASSUME Init PROVE PulseSpacing
  BY InitFree, PacketsFirst DEF SpacingInv
<1>1. QED  BY DEF Init, PulseSpacing

LEMMA NextSpacing ==
  ASSUME SafePeriods
  PROVE  SpacingInv /\ [Next]_vars => SpacingInv'
<1> SUFFICES ASSUME SpacingInv, [Next]_vars PROVE PulseSpacing'
  BY NextFree DEF SpacingInv
<1> USE DEF SpacingInv, FreeInv, TypeOK, PulseSpacing, Preemptible
<1> USE DEF lifeVars, paramVars, irqVars, timerVars, stampVars, ratevars, flagVars
<1>1. ASSUME NEW n \in Node, Load(n) PROVE PulseSpacing'
  <2>1. CASE LoadRequest(n)
    BY <2>1 DEF LoadRequest
  <2>2. CASE LoadFails(n)
    BY <2>2 DEF LoadFails
  <2>3. CASE LoadStartTimer(n)
    <3>1. T[n] \in Slot /\ T[n] \in Nat /\ Latency \in Nat
      BY ParamType, SlotOf, UnlockAssumption
    <3>2. timer'[n] = T[n] /\ sincePulse'[n] = 0
      BY <2>3 DEF LoadStartTimer
    <3>3. QED  BY <2>3, <3>1, <3>2 DEF LoadStartTimer
  <2>4. CASE LoadEditDcu(n)
    BY <2>4 DEF LoadEditDcu
  <2>5. QED  BY <1>1, <2>1, <2>2, <2>3, <2>4 DEF Load
<1>2. ASSUME NEW n \in Node, Unload(n) PROVE PulseSpacing'
  <2>1. CASE UnloadCancelTimer(n)
    BY <2>1 DEF UnloadCancelTimer
  <2>2. CASE UnloadFreeIrq(n)
    BY <2>2 DEF UnloadFreeIrq
  <2>3. QED  BY <1>2, <2>1, <2>2 DEF Unload
<1>3. ASSUME NEW n \in Node, Operator(n) PROVE PulseSpacing'
  BY <1>3 DEF Operator, SetT, SetDelta, FirstPacket
<1>4. ASSUME NEW n \in Node, Timer(n) PROVE PulseSpacing'
  <2>1. CASE TimerHandler(n)
    <3>1. armed[n] /\ timer[n] \in Int /\ timer[n] <= 0 /\ timer[n] >= -Latency
      BY <2>1 DEF TimerHandler, Due
    <3> DEFINE left == ForwardNow(timer[n], T[n])
    <3>2. left \in 1..T[n] /\ left >= T[n] + timer[n]
      BY <3>1, ParamType, ForwardNowBounds
    <3>3. left \in Slot /\ left >= -Latency
      <4>1. T[n] \in MinT..MaxT /\ T[n] \in Nat /\ Latency \in Nat
              /\ Delta[n] \in 1..MaxDelta
        BY ParamType, UnlockAssumption
      <4> DEFINE late == -timer[n]
      <4>2. late \in 0..Latency /\ T[n] - late <= left
              /\ left <= T[n] /\ left \in Int
        BY <3>1, <3>2, <4>1
      <4> HIDE DEF left, late
      <4>3. left \in Slot
        BY <4>1, <4>2, SlotOf
      <4>4. left >= -Latency
        BY <3>2, <4>1
      <4>5. QED  BY <4>3, <4>4
    <3>4. timer'[n] = left /\ sincePulse'[n] = 0
      BY <2>1 DEF TimerHandler, TimerPulse
    <3>5. \A m \in Node \ {n} : timer'[m] = timer[m] /\ sincePulse'[m] = sincePulse[m]
      BY <2>1 DEF TimerHandler, TimerPulse
    <3>6. handler[n] = "idle" /\ UNCHANGED <<mod, handler, delay, restart, armed>>
      BY <2>1 DEF TimerHandler, Due
    <3>7. left \in Int
      BY <3>2, ParamType
    <3> HIDE DEF left
    <3>8. QED  BY <3>3, <3>4, <3>5, <3>6, <3>7
  <2>2. CASE TimerHandlerNoBuffer(n)
    BY <2>2 DEF TimerHandlerNoBuffer, TxAll
  <2>3. QED  BY <1>4, <2>1, <2>2 DEF Timer
<1>5. ASSUME NEW n \in Node, Irq(n) PROVE PulseSpacing'
  <2>1. CASE IrqSpins(n)
    BY <2>1 DEF IrqSpins, IrqWaits, RadioFreeBetweenSignals
  <2>2. CASE IrqNoBuffer(n)
    BY <2>2 DEF IrqNoBuffer, TxAll
  <2>3. CASE IrqRefused(n)
    BY <2>3 DEF IrqRefused
  <2>4. CASE IrqAccepted(n)
    <3>1. PICK rng \in 0..2 * Delta[n] - 1, backoff \in 0..2 * Delta[n] - 1 :
            /\ delay' = [delay EXCEPT ![n] = backoff]
            /\ restart' = [restart EXCEPT ![n] = U32Sub(NextTimer(n, rng), backoff)]
      BY <2>4 DEF IrqAccepted
    <3> DEFINE next == NextTimer(n, rng)
    <3>2. next = T[n] + rng \/ next = T[n] - rng
      BY DEF NextTimer
    <3>3. next \in Slot
      BY <3>2, ParamType, SlotOf
    <3>4. next >= backoff /\ next \in Int /\ backoff \in Nat
      BY <3>2, ParamType, SafePeriods, UnlockAssumption DEF SafePeriods
    <3>5. restart' = [restart EXCEPT ![n] = next - backoff]
      <4>1. U32Sub(next, backoff) = next - backoff
        BY <3>4, U32SubExact
      <4>2. QED  BY <3>1, <4>1
    <3> HIDE DEF next
    <3>6. /\ sincePulse' = [sincePulse EXCEPT ![n] = 0]
          /\ armed' = [armed EXCEPT ![n] = FALSE]
          /\ handler' = [handler EXCEPT ![n] = "backoff"]
          /\ UNCHANGED <<mod, timer>>
      BY <2>4 DEF IrqAccepted
    <3>7. restart'[n] >= 0
            /\ sincePulse'[n] + delay'[n] + restart'[n] \in Slot
      BY <3>1, <3>3, <3>4, <3>5, <3>6
    <3>8. QED  BY <3>1, <3>5, <3>6, <3>7
  <2>5. CASE IrqReturns(n)
    <3>1. /\ restart[n] >= 0 /\ sincePulse[n] + delay[n] + restart[n] \in Slot
          /\ delay[n] = 0 /\ restart[n] \in Int /\ sincePulse[n] \in Nat
      BY <2>5 DEF IrqReturns
    <3>2. timer'[n] = restart[n] /\ timer'[n] >= -Latency
            /\ sincePulse'[n] + timer'[n] \in Slot
      BY <2>5, <3>1, UnlockAssumption DEF IrqReturns
    <3>3. QED  BY <2>5, <3>2 DEF IrqReturns
  <2>6. QED  BY <1>5, <2>1, <2>2, <2>3, <2>4, <2>5 DEF Irq
<1>6. CASE Tick
  <2> SUFFICES ASSUME NEW n \in Node
      PROVE  /\ armed'[n] => /\ timer'[n] >= -Latency
                             /\ sincePulse'[n] + timer'[n] \in Slot
             /\ handler'[n] = "backoff" =>
                  /\ restart'[n] >= 0
                  /\ sincePulse'[n] + delay'[n] + restart'[n] \in Slot
             /\ mod'[n] \in {"editing", "in"} =>
                  armed'[n] \/ handler'[n] = "backoff"
    OBVIOUS
  <2>1. UNCHANGED <<mod, handler, armed, restart>>
    BY <1>6 DEF Tick
  <2>2. CASE Ticking(n)
    <3>1. timer[n] > -Latency /\ timer[n] \in Int /\ sincePulse[n] \in Nat
      BY <1>6, <2>2 DEF Tick, CanWait, Ticking
    <3>2. timer'[n] = timer[n] - 1 /\ sincePulse'[n] = sincePulse[n] + 1
      BY <1>6, <2>2 DEF Tick
    <3>3. handler[n] = "idle" /\ armed[n]
      BY <2>2 DEF Ticking
    <3>4. timer'[n] >= -Latency
      <4>1. Latency \in Nat
        BY UnlockAssumption
      <4>2. QED  BY <3>1, <3>2, <4>1
    <3>5. sincePulse'[n] + timer'[n] = sincePulse[n] + timer[n]
      BY <3>1, <3>2
    <3>6. QED  BY <2>1, <3>3, <3>4, <3>5
  <2>3. CASE handler[n] = "backoff"
    <3>1. /\ delay'[n] = delay[n] - 1 /\ sincePulse'[n] = sincePulse[n] + 1
          /\ delay[n] \in Nat /\ sincePulse[n] \in Nat /\ restart[n] \in Int
      BY <1>6, <2>3 DEF Tick
    <3>2. ~armed[n]
      BY <2>3 DEF RadioFreeBetweenSignals
    <3>3. sincePulse'[n] + delay'[n] + restart'[n]
            = sincePulse[n] + delay[n] + restart[n]
      BY <2>1, <3>1
    <3>4. QED  BY <2>1, <2>3, <3>2, <3>3
  <2>4. CASE ~Ticking(n) /\ handler[n] # "backoff"
    BY <1>6, <2>1, <2>4 DEF Tick
  <2>5. QED  BY <2>2, <2>3, <2>4
<1>7. CASE UNCHANGED vars
  BY <1>7 DEF vars
<1>8. QED
  BY <1>1, <1>2, <1>3, <1>4, <1>5, <1>6, <1>7 DEF Next

LEMMA SpacingCorrect ==
  ASSUME PacketsFirst, SafePeriods
  PROVE  Spec => []SpacingInv
BY InitSpacing, NextSpacing, PTL DEF Spec

\* For every wiring and every sequence of signals, refusals, relays, parameter
\* writes, loads and unloads, a loaded node has pulsed within the last period
\* plus one random term plus the latency, if every period is long enough for
\* the unsigned subtraction of unlock.c:182 and packets are sent first.
THEOREM HeartbeatHolds ==
  ASSUME PacketsFirst, SafePeriods
  PROVE  Spec => []Heartbeat
<1>1. SpacingInv => Heartbeat
  <2> SUFFICES ASSUME SpacingInv, NEW n \in Node, mod[n] \in {"editing", "in"}
      PROVE  /\ armed[n] \/ handler[n] = "backoff"
             /\ sincePulse[n] <= MaxT + 2 * MaxDelta - 1 + Latency
    BY DEF Heartbeat
  <2> USE DEF SpacingInv, FreeInv, TypeOK, PulseSpacing, Slot
  <2>1. armed[n] \/ handler[n] = "backoff"
    OBVIOUS
  <2>2. MaxT \in Nat /\ MaxDelta \in Nat /\ Latency \in Nat
    BY UnlockAssumption
  <2>3. sincePulse[n] \in Nat /\ timer[n] \in Int /\ delay[n] \in Nat
          /\ restart[n] \in Int
    OBVIOUS
  <2>4. CASE armed[n]
    BY <2>2, <2>3, <2>4
  <2>5. CASE handler[n] = "backoff"
    BY <2>2, <2>3, <2>5
  <2>6. QED  BY <2>1, <2>4, <2>5
<1>2. QED  BY <1>1, SpacingCorrect, PTL

\* Nor does a node's timer ever pulse sooner after its last pulse, own or
\* relayed, than a period less the jitter.
THEOREM NoEarlyPulseHolds ==
  ASSUME PacketsFirst, SafePeriods
  PROVE  Spec => NoEarlyPulse
<1>1. ASSUME SpacingInv, NEW n \in Node, TimerHandler(n)
      PROVE  sincePulse[n] >= MinT - Jitter
  <2>1. armed[n] /\ timer[n] <= 0
    BY <1>1 DEF TimerHandler, Due
  <2>2. sincePulse[n] + timer[n] \in Slot /\ timer[n] \in Int /\ sincePulse[n] \in Nat
    BY <1>1, <2>1 DEF SpacingInv, FreeInv, TypeOK, PulseSpacing
  <2>3. MinT - Jitter \in Int
    BY UnlockAssumption DEF Jitter
  <2>4. QED  BY <2>1, <2>2, <2>3 DEF Slot
<1>2. SpacingInv =>
        [\A n \in Node : TimerHandler(n) => sincePulse[n] >= MinT - Jitter]_vars
  BY <1>1
<1>3. QED  BY <1>2, SpacingCorrect, PTL DEF NoEarlyPulse

-----------------------------------------------------------------------------
(* rmmod                                                                    *)

\* The radio is forced quiet only within a backoff, and a module that is out
\* leaves nothing behind; so it is also where packets were not sent first and
\* a spinning handler keeps rmmod from ever finishing.
UnloadInv ==
  /\ TypeOK
  /\ \A n \in Node : handler[n] # "backoff" => ~quiet[n]
  /\ \A n \in Node : mod[n] = "out" =>
       handler[n] # "backoff" /\ irq[n] = NoIrq /\ ~unlocked[n]

LEMMA NextUnload == UnloadInv /\ [Next]_vars => UnloadInv'
<1> SUFFICES ASSUME UnloadInv, [Next]_vars
    PROVE  \A n \in Node : /\ handler'[n] # "backoff" => ~quiet'[n]
                           /\ mod'[n] = "out" => /\ handler'[n] # "backoff"
                                                 /\ irq'[n] = NoIrq /\ ~unlocked'[n]
  BY NextType DEF UnloadInv
<1> USE DEF UnloadInv, TypeOK, Listening, Preemptible
<1> USE DEF lifeVars, paramVars, irqVars, timerVars, stampVars, ratevars, flagVars
<1>1. ASSUME NEW k \in Node, Load(k) \/ Operator(k), NEW n \in Node
      PROVE  /\ handler'[n] # "backoff" => ~quiet'[n]
             /\ mod'[n] = "out" => /\ handler'[n] # "backoff"
                                   /\ irq'[n] = NoIrq /\ ~unlocked'[n]
  BY <1>1 DEF Load, Operator, LoadRequest, LoadFails, LoadStartTimer, LoadEditDcu,
     SetT, SetDelta, FirstPacket
<1>2. ASSUME NEW k \in Node, Unload(k), NEW n \in Node
      PROVE  /\ handler'[n] # "backoff" => ~quiet'[n]
             /\ mod'[n] = "out" => /\ handler'[n] # "backoff"
                                   /\ irq'[n] = NoIrq /\ ~unlocked'[n]
  BY <1>2 DEF Unload, UnloadCancelTimer, UnloadFreeIrq
<1>3. ASSUME NEW k \in Node, Timer(k), NEW n \in Node
      PROVE  /\ handler'[n] # "backoff" => ~quiet'[n]
             /\ mod'[n] = "out" => /\ handler'[n] # "backoff"
                                   /\ irq'[n] = NoIrq /\ ~unlocked'[n]
  <2>1. Pulse(k, irq) /\ UNCHANGED <<mod, handler, quiet, unlocked>>
    BY <1>3 DEF Timer, TimerHandler, TimerHandlerNoBuffer, TimerPulse
  <2>2. mod[n] = "out" => irq'[n] = irq[n]
    BY <2>1 DEF Pulse
  <2>3. QED  BY <2>1, <2>2
<1>4. ASSUME NEW k \in Node, Irq(k), NEW n \in Node
      PROVE  /\ handler'[n] # "backoff" => ~quiet'[n]
             /\ mod'[n] = "out" => /\ handler'[n] # "backoff"
                                   /\ irq'[n] = NoIrq /\ ~unlocked'[n]
  <2>1. CASE IrqSpins(k) \/ IrqNoBuffer(k) \/ IrqRefused(k)
    BY <2>1 DEF IrqSpins, IrqNoBuffer, IrqRefused, IrqTaken, IrqWaits, IrqCleared
  <2>2. CASE IrqAccepted(k)
    BY <2>2 DEF IrqAccepted, IrqTaken, IrqWaits, IrqCleared, Pulse
  <2>3. CASE IrqReturns(k)
    BY <2>3 DEF IrqReturns, ReleaseRadio
  <2>4. QED  BY <1>4, <2>1, <2>2, <2>3 DEF Irq
<1>5. CASE Tick
  BY <1>5 DEF Tick, IrqWaits
<1>6. CASE UNCHANGED vars
  BY <1>6 DEF vars
<1>7. QED
  BY <1>1, <1>2, <1>3, <1>4, <1>5, <1>6 DEF Next

\* Whatever moment rmmod hits, and whether packets were sent first or not, it
\* leaves no interrupt, no backoff and no quiet radio behind (unlock.c:249-264).
THEOREM UnloadLeavesRadioFreeHolds == Spec => []UnloadLeavesRadioFree
<1>1. Init => UnloadInv
  BY InitType DEF Init, UnloadInv
<1>2. UnloadInv => UnloadLeavesRadioFree
  BY DEF UnloadInv, UnloadLeavesRadioFree
<1>3. QED  BY <1>1, <1>2, NextUnload, PTL DEF Spec

-----------------------------------------------------------------------------
(* Hearing on                                                               *)

\* The longest time to a node's next pulse, and what the age of the last
\* accepted signal can reach: a pulse refused within the debounce and a wait
\* for the next one, in which insmod may start the source's timer anew.
LongestWait  == MaxT + 2 * MaxDelta - 1 + Latency
LongestAge   == MaxT + LongestWait
OldestAge    == LongestAge + MaxT + Latency

\* Nobody runs rmmod.
NoUnload == MayUnload = {}

\* A second is far longer than a period (by default 20 ms, unlock.c:44).
LongSecond == OldestAge + Latency < Second

\* A node whose timer runs, or will when its backoff ends.
Live(m) == armed[m] \/ handler[m] = "backoff"

\* When it pulses next at the latest.
NextPulse(m) == Latency + IF handler[m] = "backoff" THEN delay[m] + restart[m]
                          ELSE timer[m]

\* A source in the middle of insmod has its start of the timer still to come.
Patience(m) == IF mod[m] = "requested" THEN LongestAge ELSE OldestAge

\* A node that has accepted a signal since it was loaded.
Heard(n) == Listening(n) /\ gap[n] < Second

\* Without rmmod a timer once started runs on, each edge comes from such a node,
\* and one of them pulses before the age of a signal gets too large.
HearingOn(n) ==
  /\ mod[n] # "exiting"
  /\ armed[n] => Listening(n)
  /\ handler[n] = "backoff" => age[n] + delay[n] <= 2 * MaxDelta - 1
  /\ irq[n] # NoIrq => Listening(n) /\ \E m \in Upstream(n) : Live(m)
  /\ Heard(n) /\ irq[n] # NoIrq => age[n] - irq[n] <= OldestAge
  /\ Heard(n) /\ irq[n] = NoIrq =>
       \E m \in Upstream(n) : Live(m) /\ age[n] + NextPulse(m) <= Patience(m)

HearInv == SpacingInv /\ \A n \in Node : HearingOn(n)

LEMMA Waits ==
  /\ MinT \in Nat \ {0} /\ MaxT \in Nat /\ MaxDelta \in Nat /\ Latency \in Nat
  /\ Second \in Nat /\ NoIrq \notin 0..Latency
  /\ 2 * MaxDelta >= 0 /\ LongestWait >= 0 + (2 * MaxDelta - 1)
  /\ LongestWait \in Int /\ LongestAge = MaxT + LongestWait
  /\ OldestAge = LongestAge + MaxT + Latency
BY UnlockAssumption DEF LongestWait, LongestAge, OldestAge, NoIrq

\* The next pulse of a live node is not overdue and not too far away.
LEMMA NextPulseBounds ==
  SpacingInv => \A m \in Node : Live(m) => NextPulse(m) \in 0..LongestWait
<1> SUFFICES ASSUME SpacingInv, NEW m \in Node, Live(m)
    PROVE  NextPulse(m) \in 0..LongestWait
  OBVIOUS
<1> USE Waits DEF SpacingInv, FreeInv, TypeOK, PulseSpacing, Slot
<1>1. CASE handler[m] = "backoff"
  <2>1. /\ sincePulse[m] \in Nat /\ delay[m] \in Nat /\ restart[m] \in Int
        /\ restart[m] >= 0 /\ sincePulse[m] + delay[m] + restart[m] \in Slot
    BY <1>1
  <2>2. delay[m] + restart[m] <= MaxT + 2 * MaxDelta - 1
    BY <2>1
  <2>3. QED  BY <1>1, <2>1, <2>2 DEF NextPulse, LongestWait
<1>2. CASE handler[m] # "backoff"
  <2>1. /\ sincePulse[m] \in Nat /\ timer[m] \in Int
        /\ timer[m] >= -Latency /\ sincePulse[m] + timer[m] \in Slot
    BY <1>2 DEF Live
  <2>2. timer[m] <= MaxT + 2 * MaxDelta - 1
    BY <2>1
  <2>3. QED  BY <1>2, <2>1, <2>2 DEF NextPulse, LongestWait
<1>3. QED  BY <1>1, <1>2

LEMMA NextPulseBoundsNext ==
  SpacingInv' => (\A m \in Node : Live(m) => NextPulse(m) \in 0..LongestWait)'
BY NextPulseBounds, PTL

\* What a heard node's age can be.
LEMMA HeardAge ==
  ASSUME HearInv, NEW n \in Node, Heard(n)
  PROVE  /\ irq[n] = NoIrq => age[n] <= OldestAge
         /\ age[n] <= OldestAge + Latency
         /\ \E m \in Upstream(n) : Live(m)
<1>1. age[n] \in Nat /\ irq[n] \in {NoIrq} \cup 0..Latency
  BY Waits DEF HearInv, SpacingInv, FreeInv, TypeOK
<1>2. CASE irq[n] = NoIrq
  <2>1. PICK m \in Upstream(n) : Live(m) /\ age[n] + NextPulse(m) <= Patience(m)
    BY <1>2 DEF HearInv, HearingOn
  <2>2. NextPulse(m) \in 0..LongestWait
    BY <2>1, NextPulseBounds DEF HearInv, Upstream
  <2>3. Patience(m) \in Int /\ Patience(m) <= OldestAge
    BY Waits DEF Patience
  <2>4. NextPulse(m) >= 0 /\ NextPulse(m) \in Int
    BY Waits, <2>2
  <2>5. age[n] <= OldestAge
    BY Waits, <1>1, <2>1, <2>3, <2>4
  <2>6. QED  BY Waits, <1>1, <2>1, <2>5
<1>3. CASE irq[n] # NoIrq
  BY Waits, <1>1, <1>3 DEF HearInv, HearingOn
<1>4. QED  BY <1>2, <1>3

\* What a step leaves of a node's hearing when it touches neither its age nor
\* its interrupt, and of its sources starts the timer of one in insmod at most.
LEMMA HearingKept ==
  ASSUME HearInv, SpacingInv', NEW n \in Node,
         mod'[n] # "exiting", armed'[n] => Listening(n)',
         handler'[n] = "backoff" => handler[n] = "backoff" /\ delay'[n] = delay[n],
         age'[n] = age[n], irq'[n] = irq[n],
         Heard(n)' => Heard(n), Listening(n) => Listening(n)',
         \A m \in Upstream(n) : Live(m) => Live(m)',
         \A m \in Upstream(n) : Heard(n) /\ irq[n] = NoIrq /\ Live(m) =>
           \/ NextPulse(m)' = NextPulse(m) /\ Patience(m)' = Patience(m)
           \/ NextPulse(m)' <= MaxT + Latency /\ Patience(m) = LongestAge
              /\ Patience(m)' = OldestAge
  PROVE  HearingOn(n)'
<1> USE DEF HearInv
<1>1. age[n] \in Nat
  BY DEF SpacingInv, FreeInv, TypeOK
<1>2. irq'[n] # NoIrq => Listening(n)' /\ \E m \in Upstream(n) : Live(m)'
  BY DEF HearingOn
<1>3. ASSUME Heard(n)', irq'[n] = NoIrq
      PROVE  \E m \in Upstream(n) : Live(m)' /\ age'[n] + NextPulse(m)' <= Patience(m)'
  <2>1. PICK m \in Upstream(n) : Live(m) /\ age[n] + NextPulse(m) <= Patience(m)
    BY <1>3 DEF HearingOn
  <2>2. m \in Node /\ Live(m)'
    BY <2>1 DEF Upstream
  <2>3. NextPulse(m) \in 0..LongestWait
    BY <2>1, <2>2, NextPulseBounds
  <2>4. (\A k \in Node : Live(k) => NextPulse(k) \in 0..LongestWait)'
    BY NextPulseBoundsNext
  <2>5. NextPulse(m)' \in 0..LongestWait'
    BY <2>2, <2>4
  <2>6. LongestWait' = LongestWait
    BY DEF LongestWait
  <2> DEFINE next == NextPulse(m)
             pat  == Patience(m)
             nextp == NextPulse(m)'
             patp  == Patience(m)'
  <2>7. /\ next \in Nat /\ nextp \in Nat /\ pat \in Int /\ age[n] + next <= pat
        /\ \/ nextp = next /\ patp = pat
           \/ nextp <= MaxT + Latency /\ pat = LongestAge /\ patp = OldestAge
    BY <1>3, <2>1, <2>3, <2>5, <2>6, Waits DEF Patience
  <2>8. age[n] + nextp <= patp
    <3> HIDE DEF next, pat, nextp, patp
    <3>1. QED  BY <1>1, <2>7, Waits
  <2>9. QED  BY <2>1, <2>2, <2>8
<1>4. QED  BY <1>2, <1>3 DEF HearingOn, Heard, Listening

\* A pulse of k: what its wires latch, and what they do not.
LEMMA HearingPulsed ==
  ASSUME HearInv, SpacingInv', NEW k \in Node, NEW after \in [Node -> {NoIrq} \cup 0..Latency],
         Pulse(k, after), Live(k)', mod' = mod,
         NEW n \in Node \ {k}, after[n] = irq[n],
         age'[n] = age[n], gap'[n] = gap[n], delay'[n] = delay[n],
         armed'[n] = armed[n], handler'[n] = handler[n],
         \A m \in Node \ {k} : Live(m)' = Live(m) /\ NextPulse(m)' = NextPulse(m)
  PROVE  HearingOn(n)'
<1> USE DEF HearInv
<1>1. CASE <<k, n>> \in Wires /\ Listening(n) /\ irq[n] = NoIrq
  <2>1. irq'[n] = 0 /\ irq'[n] # NoIrq
    BY <1>1 DEF Pulse, NoIrq
  <2>2. Listening(n)' /\ k \in Upstream(n) /\ (Heard(n)' => Heard(n))
    BY <1>1 DEF Listening, Heard, Upstream
  <2>3. Heard(n) => age[n] <= OldestAge
    BY <1>1, HeardAge
  <2>4. age[n] \in Nat
    BY DEF SpacingInv, FreeInv, TypeOK
  <2>5. QED
    BY <2>1, <2>2, <2>3, <2>4, Waits DEF HearingOn
<1>2. CASE ~(<<k, n>> \in Wires /\ Listening(n) /\ irq[n] = NoIrq)
  <2>1. irq'[n] = irq[n]
    BY <1>2 DEF Pulse
  <2>2. \A m \in Upstream(n) : Heard(n) /\ irq[n] = NoIrq /\ Live(m) =>
           NextPulse(m)' = NextPulse(m) /\ Patience(m)' = Patience(m)
    BY <1>2 DEF Upstream, Heard, Patience
  <2>3. \A m \in Upstream(n) : Live(m) => Live(m)'
    BY DEF Upstream
  <2>4. /\ mod'[n] # "exiting" /\ (armed'[n] => Listening(n)')
        /\ (Heard(n)' => Heard(n)) /\ (Listening(n) => Listening(n)')
    BY DEF HearingOn, Heard, Listening
  <2>5. QED  BY <2>1, <2>2, <2>3, <2>4, HearingKept
<1>3. QED  BY <1>1, <1>2

\* insmod: the timer of a source may start anew, once.
LEMMA HearingLoad ==
  ASSUME HearInv, SpacingInv', NEW k \in Node, Load(k), NEW n \in Node
  PROVE  HearingOn(n)'
<1> USE DEF HearInv, SpacingInv, FreeInv, TypeOK
<1> USE DEF lifeVars, paramVars, irqVars, timerVars, stampVars, ratevars, flagVars
<1>1. CASE LoadRequest(k)
  <2>1. ~Live(k) /\ irq[k] = NoIrq
    BY <1>1 DEF LoadRequest, Live, RadioFreeBetweenSignals, HearingOn, Listening
  <2>2. CASE n = k
    BY <1>1, <2>1, <2>2, Waits DEF LoadRequest, HearingOn, Live, Heard, Listening
  <2>3. CASE n # k
    <3>1. /\ mod'[n] = mod[n] /\ armed' = armed /\ handler' = handler /\ delay' = delay
          /\ age'[n] = age[n] /\ gap'[n] = gap[n] /\ irq' = irq
      BY <1>1, <2>3 DEF LoadRequest
    <3>2. \A m \in Upstream(n) : Live(m) =>
            Live(m)' /\ NextPulse(m)' = NextPulse(m) /\ Patience(m)' = Patience(m)
      BY <1>1, <2>1 DEF LoadRequest, Live, NextPulse, Patience, Upstream
    <3>3. QED  BY <3>1, <3>2, HearingKept DEF HearingOn, Heard, Listening
  <2>4. QED  BY <2>2, <2>3
<1>2. CASE LoadFails(k)
  <2>1. UNCHANGED <<mod, armed, handler, delay, restart, timer, age, gap, irq>>
    BY <1>2 DEF LoadFails
  <2>2. \A m \in Upstream(n) : Live(m) =>
          Live(m)' /\ NextPulse(m)' = NextPulse(m) /\ Patience(m)' = Patience(m)
    BY <2>1 DEF Live, NextPulse, Patience
  <2>3. QED  BY <2>1, <2>2, HearingKept DEF HearingOn, Heard, Listening
<1>3. CASE LoadStartTimer(k)
  <2>1. /\ mod[k] = "requested" /\ mod'[k] = "editing" /\ handler[k] = "idle"
        /\ armed'[k] /\ timer'[k] = T[k]
        /\ UNCHANGED <<handler, delay, restart, age, gap, irq>>
        /\ \A m \in Node \ {k} : /\ mod'[m] = mod[m] /\ armed'[m] = armed[m]
                                 /\ timer'[m] = timer[m]
    BY <1>3 DEF LoadStartTimer, Preemptible
  <2>2. \A m \in Node \ {k} : Live(m) =>
          Live(m)' /\ NextPulse(m)' = NextPulse(m) /\ Patience(m)' = Patience(m)
    BY <2>1 DEF Live, NextPulse, Patience
  <2>3. Live(k)' /\ Patience(k) = LongestAge /\ Patience(k)' = OldestAge
    BY <2>1 DEF Live, Patience, OldestAge, LongestAge, LongestWait
  <2>4. NextPulse(k)' <= MaxT + Latency
    <3>1. T[k] \in MinT..MaxT
      BY ParamType
    <3>2. NextPulse(k)' = Latency + T[k]
      BY <2>1 DEF NextPulse
    <3>3. QED  BY <3>1, <3>2, Waits
  <2>5. /\ mod'[n] # "exiting" /\ (armed'[n] => Listening(n)')
        /\ (Heard(n)' => Heard(n)) /\ (Listening(n) => Listening(n)')
    BY <2>1 DEF HearingOn, Heard, Listening
  <2>6. \A m \in Upstream(n) : m \in Node
    BY DEF Upstream
  <2>7. QED  BY <2>1, <2>2, <2>3, <2>4, <2>5, <2>6, HearingKept
<1>4. CASE LoadEditDcu(k)
  <2>1. /\ mod[k] = "editing" /\ mod'[k] \in {"editing", "in"}
        /\ UNCHANGED <<armed, handler, delay, restart, timer, age, gap, irq>>
        /\ \A m \in Node \ {k} : mod'[m] = mod[m]
    BY <1>4 DEF LoadEditDcu
  <2>2. \A m \in Upstream(n) : Live(m) =>
          Live(m)' /\ NextPulse(m)' = NextPulse(m) /\ Patience(m)' = Patience(m)
    BY <2>1 DEF Live, NextPulse, Patience, Upstream, OldestAge, LongestAge, LongestWait
  <2>3. /\ mod'[n] # "exiting" /\ (armed'[n] => Listening(n)')
        /\ (Heard(n)' => Heard(n)) /\ (Listening(n) => Listening(n)')
    BY <2>1 DEF HearingOn, Heard, Listening
  <2>4. QED  BY <2>1, <2>2, <2>3, HearingKept
<1>5. QED  BY <1>1, <1>2, <1>3, <1>4 DEF Load

LEMMA HearingOperator ==
  ASSUME HearInv, SpacingInv', NEW n \in Node,
         UNCHANGED <<mod, armed, handler, delay, restart, timer, age, gap, irq>>
  PROVE  HearingOn(n)'
<1>1. \A m \in Upstream(n) : Live(m) =>
        Live(m)' /\ NextPulse(m)' = NextPulse(m) /\ Patience(m)' = Patience(m)
  BY DEF Live, NextPulse, Patience, OldestAge, LongestAge, LongestWait
<1>2. QED  BY <1>1, HearingKept DEF HearInv, HearingOn, Heard, Listening

LEMMA HearingTimer ==
  ASSUME HearInv, SpacingInv', NEW k \in Node, Timer(k), NEW n \in Node
  PROVE  HearingOn(n)'
<1> USE DEF HearInv, SpacingInv, FreeInv, TypeOK
<1> USE DEF lifeVars, paramVars, irqVars, timerVars, stampVars, ratevars, flagVars
<1>1. TimerHandler(k)
  BY DEF Timer, TimerHandlerNoBuffer, TxAll
<1>2. /\ Pulse(k, irq) /\ armed[k] /\ handler[k] = "idle"
      /\ UNCHANGED <<mod, armed, handler, delay, restart, age, gap>>
      /\ \A m \in Node \ {k} : timer'[m] = timer[m]
  BY <1>1 DEF TimerHandler, TimerPulse, Due
<1>3. \A m \in Node \ {k} : Live(m)' = Live(m) /\ NextPulse(m)' = NextPulse(m)
  BY <1>2 DEF Live, NextPulse
<1>4. CASE n = k
  <2>1. <<k, k>> \notin Wires /\ irq'[n] = irq[n]
    BY <1>2, <1>4, UnlockAssumption DEF Pulse
  <2>2. \A m \in Upstream(n) : m \in Node \ {k}
    BY <1>4, <2>1 DEF Upstream
  <2>3. \A m \in Upstream(n) : Live(m) =>
          Live(m)' /\ NextPulse(m)' = NextPulse(m) /\ Patience(m)' = Patience(m)
    BY <1>2, <1>3, <2>2 DEF Patience, OldestAge, LongestAge, LongestWait
  <2>4. QED  BY <1>2, <2>1, <2>3, HearingKept DEF HearingOn, Heard, Listening
<1>5. CASE n # k
  <2>1. Live(k)'
    BY <1>2 DEF Live
  <2>2. QED  BY <1>2, <1>3, <1>5, <2>1, HearingPulsed
<1>6. QED  BY <1>4, <1>5

\* A signal refused on a node that hears is one that came too soon, as none
\* comes a second late.
LEMMA RefusedSoon ==
  ASSUME LongSecond, HearInv, NEW n \in Node, Heard(n), Refused(n)
  PROVE  age[n] <= MaxT
<1>1. age[n] \in Nat /\ age[n] <= OldestAge + Latency
  BY HeardAge DEF HearInv, SpacingInv, FreeInv, TypeOK
<1>2. T[n] \in Nat /\ T[n] <= MaxT
  BY ParamType, Waits DEF HearInv, SpacingInv, FreeInv
<1>3. age[n] < Second
  BY <1>1, Waits DEF LongSecond
<1>4. 2 * age[n] < T[n]
  BY <1>1, <1>3, Waits DEF Refused
<1>5. QED  BY <1>1, <1>2, <1>4, Waits

LEMMA HearingIrq ==
  ASSUME LongSecond, HearInv, SpacingInv', NEW k \in Node, Irq(k), NEW n \in Node
  PROVE  HearingOn(n)'
<1> USE DEF HearInv, SpacingInv, FreeInv, TypeOK
<1> USE DEF lifeVars, paramVars, irqVars, timerVars, stampVars, ratevars, flagVars
<1>1. <<k, k>> \notin Wires /\ \A m \in Upstream(k) : m \in Node \ {k}
  BY UnlockAssumption DEF Upstream
<1>2. CASE IrqRefused(k)
  <2>1. /\ UNCHANGED <<mod, armed, handler, delay, restart, timer, age, gap>>
        /\ irq' = IrqCleared(k) /\ irq[k] # NoIrq /\ Listening(k) /\ Refused(k)
        /\ handler[k] = "idle"
    BY <1>2 DEF IrqRefused, IrqTaken, IrqWaits
  <2>2. \A m \in Node : /\ Live(m)' = Live(m) /\ NextPulse(m)' = NextPulse(m)
                        /\ Patience(m)' = Patience(m)
    BY <2>1 DEF Live, NextPulse, Patience, OldestAge, LongestAge, LongestWait
  <2>3. CASE n = k
    <3>1. irq'[n] = NoIrq
      BY <2>1, <2>3 DEF IrqCleared
    <3>2. PICK m \in Upstream(n) : Live(m)
      BY <2>1, <2>3 DEF HearingOn
    <3>3. NextPulse(m) \in 0..LongestWait /\ m \in Node
      BY <3>2, NextPulseBounds DEF Upstream
    <3>4. ASSUME Heard(n) PROVE age[n] + NextPulse(m) <= Patience(m)
      <4>1. age[n] \in Nat /\ age[n] <= MaxT
        BY <2>1, <2>3, <3>4, RefusedSoon
      <4> DEFINE next == NextPulse(m)
      <4>2. next \in 0..LongestWait
        BY <3>3
      <4> HIDE DEF next
      <4>3. age[n] + next <= LongestAge /\ LongestAge <= OldestAge
        BY <4>1, <4>2, Waits
      <4>4. age[n] + next \in Int /\ LongestAge \in Int /\ OldestAge \in Int
        BY <4>1, <4>2, Waits
      <4>5. QED  BY <4>3, <4>4 DEF next, Patience
    <3>5. Heard(n)' = Heard(n)
      BY <2>1 DEF Heard, Listening
    <3>6. Heard(n)' => \E j \in Upstream(n) : Live(j)' /\ age'[n] + NextPulse(j)' <= Patience(j)'
      BY <2>1, <2>2, <3>2, <3>3, <3>4, <3>5
    <3>7. QED  BY <2>1, <3>1, <3>6 DEF HearingOn, Listening
  <2>4. CASE n # k
    <3>1. irq'[n] = irq[n] /\ \A m \in Upstream(n) : m \in Node
      BY <2>1, <2>4 DEF IrqCleared, Upstream
    <3>2. QED  BY <2>1, <2>2, <3>1, HearingKept DEF HearingOn, Heard, Listening
  <2>5. QED  BY <2>3, <2>4
<1>3. CASE IrqAccepted(k)
  <2>1. PICK backoff \in 0..2 * Delta[k] - 1 : delay' = [delay EXCEPT ![k] = backoff]
    BY <1>3 DEF IrqAccepted
  <2>2. /\ mod' = mod /\ timer' = timer /\ Pulse(k, IrqCleared(k))
        /\ handler' = [handler EXCEPT ![k] = "backoff"]
        /\ armed' = [armed EXCEPT ![k] = FALSE]
        /\ age' = [age EXCEPT ![k] = 0] /\ gap' = [gap EXCEPT ![k] = age[k]]
        /\ irq[k] # NoIrq /\ Listening(k)
    BY <1>3 DEF IrqAccepted, IrqTaken, IrqWaits, ShiftStamps
  <2>3. \A m \in Node \ {k} : restart'[m] = restart[m]
    BY <1>3 DEF IrqAccepted
  <2>4. Live(k)'
    BY <2>2 DEF Live
  <2>5. \A m \in Node \ {k} : Live(m)' = Live(m) /\ NextPulse(m)' = NextPulse(m)
    BY <2>1, <2>2, <2>3 DEF Live, NextPulse
  <2>6. CASE n = k
    <3>1. irq'[n] = NoIrq
      BY <1>1, <2>2, <2>6 DEF Pulse, IrqCleared
    <3>2. age'[n] = 0 /\ delay'[n] = backoff /\ ~armed'[n] /\ Listening(n)'
      BY <2>1, <2>2, <2>6 DEF Listening
    <3>3. backoff <= 2 * MaxDelta - 1 /\ backoff \in Nat
      BY <2>1, ParamType, Waits
    <3>4. PICK m \in Upstream(n) : Live(m)
      BY <2>2, <2>6 DEF HearingOn
    <3>5. m \in Node \ {k} /\ Live(m)' /\ NextPulse(m)' = NextPulse(m)
          /\ NextPulse(m) \in 0..LongestWait
      BY <1>1, <2>5, <2>6, <3>4, NextPulseBounds
    <3>6. age'[n] + NextPulse(m)' <= Patience(m)'
      <4> DEFINE next == NextPulse(m)
      <4>1. next \in 0..LongestWait /\ NextPulse(m)' = next
        BY <3>5
      <4> HIDE DEF next
      <4>2. next <= LongestAge /\ LongestAge <= OldestAge /\ next \in Int
            /\ LongestAge \in Int /\ OldestAge \in Int
        BY <4>1, Waits
      <4>3. Patience(m)' = LongestAge \/ Patience(m)' = OldestAge
        BY DEF Patience, OldestAge, LongestAge, LongestWait
      <4>4. QED  BY <3>2, <4>1, <4>2, <4>3
    <3>7. mod'[n] # "exiting"
      BY <2>2 DEF HearingOn
    <3>8. age'[n] + delay'[n] <= 2 * MaxDelta - 1
      BY <3>2, <3>3
    <3>9. \E j \in Upstream(n) : Live(j)' /\ age'[n] + NextPulse(j)' <= Patience(j)'
      BY <3>4, <3>5, <3>6
    <3>10. QED  BY <3>1, <3>2, <3>7, <3>8, <3>9 DEF HearingOn
  <2>7. CASE n # k
    <3>1. IrqCleared(k) \in [Node -> {NoIrq} \cup 0..Latency]
          /\ IrqCleared(k)[n] = irq[n]
      BY <2>7 DEF IrqCleared
    <3>2. /\ age'[n] = age[n] /\ gap'[n] = gap[n] /\ delay'[n] = delay[n]
          /\ armed'[n] = armed[n] /\ handler'[n] = handler[n] /\ n \in Node \ {k}
      BY <2>1, <2>2, <2>7
    <3> DEFINE after == IrqCleared(k)
    <3>3. after \in [Node -> {NoIrq} \cup 0..Latency] /\ after[n] = irq[n]
          /\ Pulse(k, after)
      BY <2>2, <3>1
    <3> HIDE DEF after
    <3>4. QED  BY <2>2, <2>4, <2>5, <3>2, <3>3, HearingPulsed
  <2>8. QED  BY <2>6, <2>7
<1>4. CASE IrqReturns(k)
  <2>1. /\ handler[k] = "backoff" /\ delay[k] = 0 /\ Listening(k)
        /\ handler' = [handler EXCEPT ![k] = "idle"]
        /\ armed' = [armed EXCEPT ![k] = TRUE]
        /\ timer' = [timer EXCEPT ![k] = restart[k]]
        /\ restart' = [restart EXCEPT ![k] = 0]
        /\ UNCHANGED <<mod, delay, age, gap, irq>>
    BY <1>4 DEF IrqReturns, RadioFreeBetweenSignals
  <2>2. Live(k)' /\ NextPulse(k)' = NextPulse(k)
    BY <2>1, Waits DEF Live, NextPulse
  <2>3. \A m \in Node : /\ Live(m) => Live(m)' /\ NextPulse(m)' = NextPulse(m)
                        /\ Patience(m)' = Patience(m)
    BY <2>1, <2>2 DEF Live, NextPulse, Patience, OldestAge, LongestAge, LongestWait
  <2>4. /\ mod'[n] # "exiting" /\ (armed'[n] => Listening(n)')
        /\ (Heard(n)' => Heard(n)) /\ (Listening(n) => Listening(n)')
        /\ (handler'[n] = "backoff" => handler[n] = "backoff")
    BY <2>1 DEF HearingOn, Heard, Listening
  <2>5. \A m \in Upstream(n) : m \in Node
    BY DEF Upstream
  <2>6. QED  BY <2>1, <2>3, <2>4, <2>5, HearingKept
<1>5. ~IrqSpins(k) /\ ~IrqNoBuffer(k)
  BY DEF IrqSpins, IrqNoBuffer, IrqWaits, RadioFreeBetweenSignals, TxAll
<1>6. QED  BY <1>2, <1>3, <1>4, <1>5 DEF Irq

LEMMA HearingTick ==
  ASSUME HearInv, SpacingInv', Tick, NEW n \in Node
  PROVE  HearingOn(n)'
<1> USE DEF HearInv, SpacingInv, FreeInv, TypeOK
<1>1. /\ UNCHANGED <<mod, handler, restart, armed, gap>>
      /\ age'[n] \in Nat /\ age'[n] <= age[n] + 1
      /\ irq'[n] = IF IrqWaits(n) THEN irq[n] + 1 ELSE irq[n]
      /\ \A m \in Node : delay'[m] = IF handler[m] = "backoff" THEN delay[m] - 1 ELSE delay[m]
      /\ \A m \in Node : timer'[m] = IF Ticking(m) THEN timer[m] - 1 ELSE timer[m]
  BY UnlockAssumption DEF Tick, Grow, lifeVars
<1>2. /\ age[n] \in Nat /\ delay[n] \in Nat /\ irq[n] \in {NoIrq} \cup 0..Latency
      /\ \A m \in Node : delay[m] \in Nat /\ restart[m] \in Int /\ timer[m] \in Int
  OBVIOUS
<1>3. \A m \in Node : Live(m) =>
        Live(m)' /\ NextPulse(m)' = NextPulse(m) - 1 /\ Patience(m)' = Patience(m)
  <2> SUFFICES ASSUME NEW m \in Node, Live(m)
      PROVE  Live(m)' /\ NextPulse(m)' = NextPulse(m) - 1 /\ Patience(m)' = Patience(m)
    OBVIOUS
  <2>1. Live(m)' /\ Patience(m)' = Patience(m)
    BY <1>1 DEF Live, Patience, OldestAge, LongestAge, LongestWait
  <2>2. CASE handler[m] = "backoff"
    <3>1. delay'[m] = delay[m] - 1 /\ restart'[m] = restart[m] /\ handler'[m] = "backoff"
          /\ delay[m] \in Int /\ restart[m] \in Int /\ Latency \in Int
      BY <1>1, <1>2, <2>2, Waits
    <3>2. NextPulse(m)' = Latency + (delay'[m] + restart'[m])
          /\ NextPulse(m) = Latency + (delay[m] + restart[m])
      BY <2>2, <3>1 DEF NextPulse
    <3>3. NextPulse(m)' = NextPulse(m) - 1
      BY <3>1, <3>2
    <3>4. QED  BY <2>1, <3>3
  <2>3. CASE handler[m] # "backoff"
    <3>1. Ticking(m)
      BY <2>3 DEF Live, Ticking, HearingOn, RadioFreeBetweenSignals, HandlerStates
    <3>2. timer'[m] = timer[m] - 1 /\ handler'[m] # "backoff"
          /\ timer[m] \in Int /\ Latency \in Int
      BY <1>1, <1>2, <2>3, <3>1, Waits
    <3>3. NextPulse(m)' = Latency + timer'[m] /\ NextPulse(m) = Latency + timer[m]
      BY <2>3, <3>2 DEF NextPulse
    <3>4. NextPulse(m)' = NextPulse(m) - 1
      BY <3>2, <3>3
    <3>5. QED  BY <2>1, <3>4
  <2>4. QED  BY <2>1, <2>2, <2>3
<1>4. mod'[n] # "exiting" /\ (armed'[n] => Listening(n)') /\ (Heard(n)' <=> Heard(n))
      /\ (Listening(n)' <=> Listening(n))
  BY <1>1 DEF HearingOn, Heard, Listening
<1>5. handler'[n] = "backoff" => age'[n] + delay'[n] <= 2 * MaxDelta - 1
  BY <1>1, <1>2, Waits DEF HearingOn
<1>6. irq'[n] # NoIrq <=> irq[n] # NoIrq
  BY <1>1, <1>2, Waits DEF IrqWaits, NoIrq
<1>7. irq'[n] # NoIrq => Listening(n)' /\ \E m \in Upstream(n) : Live(m)'
  BY <1>3, <1>4, <1>6 DEF HearingOn, Upstream
<1>8. ASSUME Heard(n), irq[n] # NoIrq PROVE age'[n] - irq'[n] <= OldestAge
  <2>1. age[n] - irq[n] <= OldestAge /\ irq[n] \in Nat /\ Listening(n)
    BY <1>2, <1>8, Waits DEF HearingOn, Heard
  <2>2. CASE handler[n] = "idle"
    BY <1>1, <1>2, <1>8, <2>1, <2>2, Waits DEF IrqWaits
  <2>3. CASE handler[n] # "idle"
    <3>1. handler[n] = "backoff" /\ irq'[n] = irq[n]
      BY <1>1, <2>3 DEF IrqWaits, RadioFreeBetweenSignals, HandlerStates
    <3>2. delay'[n] \in Nat
      BY <1>1, <1>2, <3>1 DEF Tick, CanWait
    <3>3. QED  BY <1>1, <1>2, <1>5, <2>1, <3>1, <3>2, Waits
  <2>4. QED  BY <2>2, <2>3
<1>9. ASSUME Heard(n), irq[n] = NoIrq
      PROVE  \E m \in Upstream(n) : Live(m)' /\ age'[n] + NextPulse(m)' <= Patience(m)'
  <2>1. PICK m \in Upstream(n) : Live(m) /\ age[n] + NextPulse(m) <= Patience(m)
    BY <1>9 DEF HearingOn
  <2>2. /\ m \in Node /\ Live(m)' /\ NextPulse(m)' = NextPulse(m) - 1
        /\ Patience(m)' = Patience(m)
    BY <1>3, <2>1 DEF Upstream
  <2>3. NextPulse(m) \in 0..LongestWait
    BY <2>1, <2>2, NextPulseBounds
  <2> DEFINE next == NextPulse(m)
             pat  == Patience(m)
  <2>4. next \in Int /\ pat \in Int /\ age[n] + next <= pat
    BY <2>1, <2>3, Waits DEF Patience
  <2>5. NextPulse(m)' = next - 1 /\ Patience(m)' = pat
    BY <2>2
  <2> HIDE DEF next, pat
  <2>6. age'[n] + NextPulse(m)' <= Patience(m)'
    BY <1>1, <1>2, <2>4, <2>5
  <2>7. QED  BY <2>1, <2>2, <2>6
<1>10. QED  BY <1>4, <1>5, <1>6, <1>7, <1>8, <1>9 DEF HearingOn

LEMMA HearStep ==
  ASSUME NoUnload, LongSecond, SafePeriods
  PROVE  HearInv /\ [Next]_vars => HearInv'
<1> SUFFICES ASSUME HearInv, [Next]_vars PROVE HearInv'
  OBVIOUS
<1>1. SpacingInv'
  BY NextSpacing DEF HearInv
<1> SUFFICES ASSUME NEW n \in Node PROVE HearingOn(n)'
  BY <1>1 DEF HearInv
<1>2. ASSUME NEW k \in Node, Load(k) PROVE HearingOn(n)'
  BY <1>1, <1>2, HearingLoad
<1>3. ASSUME NEW k \in Node, Unload(k) PROVE HearingOn(n)'
  BY <1>3 DEF Unload, UnloadCancelTimer, UnloadFreeIrq, HearInv, HearingOn, NoUnload
<1>4. ASSUME NEW k \in Node, Operator(k) PROVE HearingOn(n)'
  BY <1>1, <1>4, HearingOperator DEF Operator, SetT, SetDelta, FirstPacket,
     lifeVars, irqVars, timerVars, stampVars
<1>5. ASSUME NEW k \in Node, Timer(k) PROVE HearingOn(n)'
  BY <1>1, <1>5, HearingTimer
<1>6. ASSUME NEW k \in Node, Irq(k) PROVE HearingOn(n)'
  BY <1>1, <1>6, HearingIrq
<1>7. CASE Tick
  BY <1>1, <1>7, HearingTick
<1>8. CASE UNCHANGED vars
  BY <1>1, <1>8, HearingOperator DEF vars, lifeVars, irqVars, timerVars, stampVars
<1>9. QED
  BY <1>2, <1>3, <1>4, <1>5, <1>6, <1>7, <1>8 DEF Next

\* In any wiring, a node that has accepted a signal goes on accepting signals,
\* and never grows deaf, as long as one of its sources stays loaded: the T/2
\* debounce costs it one pulse at most (unlock.c:140-158), if packets are sent
\* first, periods are long enough for the unsigned subtraction of unlock.c:182,
\* a second lasts longer than three periods, and nothing is unloaded.
THEOREM KeepsHearingHolds ==
  ASSUME PacketsFirst, SafePeriods, LongSecond, NoUnload
  PROVE  Spec => []KeepsHearing
<1>1. Init => HearInv
  <2> SUFFICES ASSUME Init PROVE \A n \in Node : HearingOn(n)
    BY InitSpacing DEF HearInv
  <2>1. QED  BY DEF Init, HearingOn, Heard, Listening
<1>2. HearInv => KeepsHearing
  <2> SUFFICES ASSUME HearInv, NEW n \in Node, Heard(n) PROVE age[n] < Second
    BY DEF KeepsHearing, Heard
  <2>1. age[n] \in Nat /\ age[n] <= OldestAge + Latency
    BY HeardAge DEF HearInv, SpacingInv, FreeInv, TypeOK
  <2>2. QED  BY <2>1, Waits DEF LongSecond
<1>3. QED  BY <1>1, <1>2, HearStep, PTL DEF Spec

-----------------------------------------------------------------------------
(* Siblings                                                                 *)

\* Each source is a node of its own period, and the only one of its leaves.
StarWired == \A n \in Node : \A h \in Upstream(n) :
               Upstream(n) = {h} /\ Upstream(h) = {}

\* All nodes have the same T, and an interrupt's wait is short beside it.
SamePeriod   == MinT = MaxT
ShortLatency == 4 * Latency < MinT /\ MaxT + 2 * Latency < Second

Running(h) == mod[h] \in {"editing", "in"}

\* A source nobody unlocks pulses once per T, but for the lateness of an expiry.
Beating(h) ==
  /\ irq[h] = NoIrq /\ handler[h] = "idle" /\ mod[h] # "exiting"
  /\ armed[h] <=> Running(h)
  /\ armed[h] => /\ timer[h] >= -Latency
                 /\ sincePulse[h] + timer[h] \in MaxT - Latency..MaxT

\* A leaf has accepted the last pulse of its source, or it is about to and has
\* accepted the one before.
Following(n, h) ==
  /\ mod[n] # "exiting"
  /\ irq[n] # NoIrq => /\ Listening(n) /\ handler[n] = "idle"
                       /\ Running(h) /\ irq[n] = sincePulse[h]
  /\ handler[n] = "backoff" => /\ Heard(n) /\ irq[n] = NoIrq
                               /\ age[n] + delay[n] <= 2 * MaxDelta - 1
  /\ Heard(n) =>
       /\ Running(h)
       /\ irq[n] = NoIrq => sincePulse[h] - age[n] \in 0..Latency
       /\ irq[n] # NoIrq =>
            age[n] - sincePulse[h] \in MaxT - 2 * Latency..MaxT + Latency

InStep(h) == /\ Upstream(h) = {} => Beating(h)
             /\ \A n \in Node : h \in Upstream(n) => Following(n, h)
StepInv == SpacingInv /\ \A h \in Node : InStep(h)

LEMMA Typed ==
  ASSUME SpacingInv, NEW n \in Node
  PROVE  /\ age[n] \in 0..Second /\ gap[n] \in 0..Second
         /\ irq[n] \in {NoIrq} \cup 0..Latency /\ timer[n] \in Int
         /\ delay[n] \in Nat /\ sincePulse[n] \in Nat /\ txReady[n]
         /\ handler[n] \in {"idle", "backoff"} /\ armed[n] \in BOOLEAN
         /\ T[n] \in MinT..MaxT
BY ParamType DEF SpacingInv, FreeInv, TypeOK, TxAll, RadioFreeBetweenSignals, HandlerStates

\* What a source's leaves know of it and what a leaf is, left as it was.
LEMMA StepKept ==
  ASSUME StepInv, NEW h \in Node,
         Upstream(h) = {} =>
           /\ irq'[h] = irq[h] /\ handler'[h] = handler[h] /\ mod'[h] # "exiting"
           /\ armed'[h] = armed[h] /\ timer'[h] = timer[h],
         Running(h)' = Running(h), sincePulse'[h] = sincePulse[h],
         \A n \in Node : h \in Upstream(n) =>
           /\ mod'[n] # "exiting" /\ irq'[n] = irq[n] /\ handler'[n] = handler[n]
           /\ age'[n] = age[n] /\ delay'[n] = delay[n]
           /\ Heard(n)' = Heard(n) /\ (Listening(n) => Listening(n)')
  PROVE  InStep(h)'
<1>1. Upstream(h) = {} => Beating(h)'
  BY DEF StepInv, InStep, Beating
<1>2. ASSUME NEW n \in Node, h \in Upstream(n) PROVE Following(n, h)'
  BY <1>2 DEF StepInv, InStep, Following
<1>3. QED  BY <1>1, <1>2 DEF InStep, Upstream

LEMMA StepLoad ==
  ASSUME StepInv, StarWired, SamePeriod, NEW k \in Node, Load(k), NEW h \in Node
  PROVE  InStep(h)'
<1> USE DEF StepInv, lifeVars, paramVars, irqVars, timerVars, stampVars, ratevars, flagVars
<1>1. CASE LoadRequest(k)
  <2>1. /\ mod[k] = "out" /\ mod' = [mod EXCEPT ![k] = "requested"] /\ ~armed[k]
        /\ age' = [age EXCEPT ![k] = 0] /\ gap' = [gap EXCEPT ![k] = Second]
        /\ UNCHANGED <<handler, delay, armed, timer, irq, sincePulse>>
    BY <1>1 DEF LoadRequest
  <2>2. Running(h)' = Running(h)
    BY <2>1 DEF Running, SpacingInv, FreeInv, TypeOK
  <2>3. Upstream(h) = {} => Beating(h)'
    BY <2>1, <2>2 DEF InStep, Beating, Running, SpacingInv, FreeInv, TypeOK
  <2>4. ASSUME NEW n \in Node, h \in Upstream(n) PROVE Following(n, h)'
    <3>1. Following(n, h)
      BY <2>4 DEF InStep
    <3>2. CASE n = k
      BY <2>1, <3>1, <3>2, Waits DEF Following, Heard, Listening, SpacingInv, FreeInv, TypeOK
    <3>3. CASE n # k
      BY <2>1, <2>2, <3>1, <3>3 DEF Following, Heard, Listening
    <3>4. QED  BY <3>2, <3>3
  <2>5. QED  BY <2>3, <2>4 DEF InStep, Upstream
<1>2. CASE LoadFails(k)
  <2>1. UNCHANGED <<mod, handler, delay, armed, timer, irq, age, gap, sincePulse>>
    BY <1>2 DEF LoadFails
  <2>2. QED  BY <2>1, StepKept DEF InStep, Beating, Following, Running, Heard, Listening
<1>3. CASE LoadStartTimer(k)
  <2>1. /\ mod[k] = "requested" /\ mod' = [mod EXCEPT ![k] = "editing"]
        /\ armed' = [armed EXCEPT ![k] = TRUE] /\ timer' = [timer EXCEPT ![k] = T[k]]
        /\ sincePulse' = [sincePulse EXCEPT ![k] = 0]
        /\ UNCHANGED <<handler, delay, irq, age, gap>>
    BY <1>3 DEF LoadStartTimer
  <2>2. T[k] = MaxT /\ MaxT \in Nat /\ Latency \in Nat
    BY Typed, Waits DEF SamePeriod
  <2>3. Upstream(h) = {} => Beating(h)'
    BY <2>1, <2>2 DEF InStep, Beating, Running, SpacingInv, FreeInv, TypeOK
  <2>4. ASSUME NEW n \in Node, h \in Upstream(n) PROVE Following(n, h)'
    <3>1. Following(n, h) /\ Upstream(h) = {}
      BY <2>4 DEF InStep, StarWired
    <3>2. Listening(n)' = Listening(n) /\ Heard(n)' = Heard(n) /\ mod'[n] # "exiting"
      BY <2>1, <3>1 DEF Following, Heard, Listening, SpacingInv, FreeInv, TypeOK
    <3>3. CASE h = k
      BY <2>1, <3>1, <3>2, <3>3 DEF Following, Running
    <3>4. CASE h # k
      <4>1. Running(h)' = Running(h) /\ sincePulse'[h] = sincePulse[h]
        BY <2>1, <3>4 DEF Running, SpacingInv, FreeInv, TypeOK
      <4>2. QED  BY <2>1, <3>1, <3>2, <4>1 DEF Following
    <3>5. QED  BY <3>3, <3>4
  <2>5. QED  BY <2>3, <2>4 DEF InStep, Upstream
<1>4. CASE LoadEditDcu(k)
  <2>1. /\ mod[k] = "editing" /\ mod'[k] \in {"editing", "in"}
        /\ \A n \in Node \ {k} : mod'[n] = mod[n]
        /\ UNCHANGED <<handler, delay, armed, timer, irq, age, gap, sincePulse>>
    BY <1>4 DEF LoadEditDcu, SpacingInv, FreeInv, TypeOK
  <2>2. \A n \in Node : /\ Running(n)' = Running(n) /\ Listening(n)' = Listening(n)
                        /\ Heard(n)' = Heard(n) /\ (mod[n] # "exiting" => mod'[n] # "exiting")
    BY <2>1 DEF Running, Listening, Heard
  <2>3. QED  BY <2>1, <2>2, StepKept DEF InStep, Beating, Following
<1>5. QED  BY <1>1, <1>2, <1>3, <1>4 DEF Load

\* A parameter or the free list does not touch what the nodes have heard.
LEMMA StepOperator ==
  ASSUME StepInv, NEW h \in Node,
         UNCHANGED <<mod, handler, delay, armed, timer, irq, age, gap, sincePulse>>
  PROVE  InStep(h)'
BY StepKept DEF StepInv, InStep, Beating, Following, Running, Heard, Listening

\* The numbers a pulse and its interrupt meet.
LEMMA ShortWaits ==
  ASSUME SamePeriod, ShortLatency, SafePeriods
  PROVE  /\ MaxT \in Nat \ {0} /\ MaxDelta \in Nat /\ Latency \in Nat /\ Second \in Nat
         /\ 4 * Latency < MaxT /\ MaxT + 2 * Latency < Second
         /\ 2 * (2 * MaxDelta - 1) <= MaxT /\ MinT = MaxT /\ NoIrq = -1
BY Waits DEF SamePeriod, ShortLatency, SafePeriods, NoIrq

\* A pulse of a source finds its leaves idle, the last edge taken.
LEMMA StepTimer ==
  ASSUME StepInv, StarWired, SamePeriod, ShortLatency, SafePeriods,
         NEW k \in Node, Timer(k), NEW h \in Node
  PROVE  InStep(h)'
<1> USE DEF StepInv, lifeVars, paramVars, irqVars, timerVars, stampVars, ratevars, flagVars
<1>1. TimerHandler(k)
  BY Typed DEF Timer, TimerHandlerNoBuffer
<1>2. /\ Pulse(k, irq) /\ armed[k] /\ handler[k] = "idle" /\ timer[k] <= 0 /\ Listening(k)
      /\ timer' = [timer EXCEPT ![k] = ForwardNow(timer[k], T[k])]
      /\ sincePulse' = [sincePulse EXCEPT ![k] = 0]
      /\ UNCHANGED <<mod, armed, handler, delay, age, gap>>
  BY <1>1 DEF TimerHandler, TimerPulse, Due
<1>3. \A n \in Node : k \notin Upstream(n) => irq'[n] = irq[n]
  BY <1>2 DEF Pulse, Upstream
<1>4. k \notin Upstream(k)
  BY UnlockAssumption DEF Upstream
<1>5. CASE h # k
  <2>1. \A n \in Node : h \in Upstream(n) => k \notin Upstream(n)
    BY <1>5 DEF StarWired
  <2>2. timer'[h] = timer[h] /\ sincePulse'[h] = sincePulse[h]
    BY <1>2, <1>5 DEF SpacingInv, FreeInv, TypeOK
  <2>3. Running(h)' = Running(h) /\ \A n \in Node : Heard(n)' = Heard(n) /\ Listening(n)' = Listening(n)
    BY <1>2 DEF Running, Heard, Listening
  <2>4. Upstream(h) = {} => irq'[h] = irq[h]
    BY <1>3
  <2>5. QED  BY <1>2, <1>3, <2>1, <2>2, <2>3, <2>4, StepKept DEF InStep, Beating, Following
<1>6. CASE h = k
  <2>1. /\ timer[k] \in Int /\ sincePulse[k] \in Nat /\ T[k] = MaxT
    BY Typed, ShortWaits
  <2>2. ForwardNow(timer[k], T[k]) \in 1..MaxT /\ ForwardNow(timer[k], T[k]) >= MaxT + timer[k]
    BY <1>2, <2>1, ForwardNowBounds, ShortWaits
  <2>3. timer'[k] = ForwardNow(timer[k], T[k]) /\ sincePulse'[k] = 0
    BY <1>2 DEF SpacingInv, FreeInv, TypeOK
  <2>4. ASSUME Upstream(k) = {} PROVE Beating(k)'
    <3>1. Beating(k)
      BY <2>4 DEF InStep
    <3>2. timer[k] >= -Latency
      BY <1>2, <3>1 DEF Beating
    <3> DEFINE next == ForwardNow(timer[k], T[k])
    <3>3. next \in Int /\ next >= MaxT - Latency /\ next <= MaxT
      BY <2>1, <2>2, <3>2, ShortWaits
    <3>4. timer'[k] = next
      BY <2>3
    <3> HIDE DEF next
    <3>5. timer'[k] >= -Latency /\ sincePulse'[k] + timer'[k] \in MaxT - Latency..MaxT
      BY <2>3, <3>3, <3>4, ShortWaits
    <3>6. irq'[k] = irq[k] /\ Running(k)' = Running(k)
      BY <1>2, <1>3, <1>4 DEF Running
    <3>7. QED  BY <1>2, <3>1, <3>5, <3>6 DEF Beating
  <2>5. ASSUME NEW n \in Node, k \in Upstream(n) PROVE Following(n, k)'
    <3>1. Following(n, k) /\ Upstream(k) = {} /\ Beating(k)
      BY <1>6, <2>5 DEF InStep, StarWired
    <3>2. /\ sincePulse[k] \in Nat /\ sincePulse[k] >= MaxT - Latency
          /\ sincePulse[k] <= MaxT + Latency
      BY <1>2, <2>1, <3>1, ShortWaits DEF Beating
    <3>3. /\ age[n] \in Nat /\ delay[n] \in Nat /\ irq[n] \in {NoIrq} \cup 0..Latency
          /\ handler[n] \in {"idle", "backoff"}
      BY Typed
    <3>4. irq[n] = NoIrq
      BY <3>1, <3>2, <3>3, ShortWaits DEF Following
    <3>5. Running(k)
      BY <1>2, <3>1 DEF Beating
    <3>6. Heard(n) => age[n] \in MaxT - 2 * Latency..MaxT + Latency
      <4>1. Heard(n) => sincePulse[k] - age[n] \in 0..Latency
        BY <3>1, <3>4 DEF Following
      <4>2. QED  BY <3>2, <3>3, <4>1, ShortWaits
    <3>7. handler[n] = "idle"
      <4>1. SUFFICES ASSUME handler[n] = "backoff" PROVE FALSE
        BY <3>3
      <4>2. Heard(n) /\ age[n] + delay[n] <= 2 * MaxDelta - 1
        BY <3>1, <4>1 DEF Following
      <4>3. age[n] >= MaxT - 2 * Latency
        BY <3>3, <3>6, <4>2, ShortWaits
      <4>4. QED  BY <3>3, <4>2, <4>3, ShortWaits
    <3>8. irq'[n] = IF Listening(n) THEN 0 ELSE NoIrq
      BY <1>2, <2>5, <3>4 DEF Pulse, Upstream
    <3>9. age'[n] - sincePulse'[k] = age[n] /\ sincePulse'[k] - age'[n] = 0 - age[n]
      BY <1>2, <2>3, <3>3
    <3>10. /\ Running(k)' /\ Listening(n)' = Listening(n) /\ Heard(n)' = Heard(n)
           /\ mod'[n] # "exiting" /\ handler'[n] = "idle" /\ (Heard(n) => Listening(n))
      BY <1>2, <3>1, <3>5, <3>7 DEF Running, Listening, Heard, Following
    <3>11. QED  BY <2>3, <3>6, <3>8, <3>9, <3>10, ShortWaits DEF Following
  <2>6. QED  BY <1>6, <2>4, <2>5 DEF InStep, Upstream
<1>7. QED  BY <1>5, <1>6

\* A leaf that hears refuses nothing; with the first signal it accepts it falls
\* in with the others.
LEMMA StepIrq ==
  ASSUME StepInv, StarWired, SamePeriod, ShortLatency, SafePeriods,
         NEW k \in Node, Irq(k), NEW h \in Node
  PROVE  InStep(h)'
<1> USE DEF StepInv, lifeVars, paramVars, irqVars, timerVars, stampVars, ratevars, flagVars
<1>1. ~IrqSpins(k) /\ ~IrqNoBuffer(k)
  BY Typed DEF IrqSpins, IrqNoBuffer, IrqWaits, SpacingInv, FreeInv, RadioFreeBetweenSignals
<1>2. Upstream(k) # {} /\ k \notin Upstream(k) /\ \A n \in Node : k \notin Upstream(n)
  <2>1. Upstream(k) # {}
    BY <1>1, Typed DEF InStep, Beating, Irq, IrqRefused, IrqAccepted, IrqReturns,
       IrqTaken, IrqWaits
  <2>2. QED  BY <2>1, UnlockAssumption DEF StarWired, Upstream
<1>3. PICK s \in Node : s \in Upstream(k) /\ Upstream(k) = {s} /\ Following(k, s)
  BY <1>2 DEF InStep, StarWired, Upstream
<1>4. ASSUME UNCHANGED <<mod, sincePulse>>,
             \A n \in Node \ {k} : /\ irq'[n] = irq[n] /\ handler'[n] = handler[n]
                                   /\ age'[n] = age[n] /\ gap'[n] = gap[n]
                                   /\ delay'[n] = delay[n] /\ armed'[n] = armed[n]
                                   /\ timer'[n] = timer[n],
             Following(k, s)'
      PROVE  InStep(h)'
  <2>1. Running(h)' = Running(h)
    BY <1>4 DEF Running
  <2>2. Upstream(h) = {} => Beating(h)'
    <3>1. Upstream(h) = {} => h \in Node \ {k} /\ Beating(h)
      BY <1>2 DEF InStep
    <3>2. QED  BY <1>4, <2>1, <3>1 DEF Beating
  <2>3. ASSUME NEW n \in Node, h \in Upstream(n) PROVE Following(n, h)'
    <3>1. CASE n = k
      BY <1>3, <1>4, <2>3, <3>1
    <3>2. CASE n # k
      BY <1>4, <2>1, <2>3, <3>2 DEF InStep, Following, Heard, Listening
    <3>3. QED  BY <3>1, <3>2
  <2>4. QED  BY <2>2, <2>3 DEF InStep, Upstream
<1>5. /\ age[k] \in 0..Second /\ irq[k] \in {NoIrq} \cup 0..Latency /\ T[k] = MaxT
      /\ sincePulse[s] \in Nat /\ delay[k] \in Nat
  BY Typed, ShortWaits
<1>6. ASSUME irq[k] # NoIrq, Heard(k) PROVE ~Refused(k)
  <2>1. age[k] - sincePulse[s] \in MaxT - 2 * Latency..MaxT + Latency /\ irq[k] = sincePulse[s]
    BY <1>3, <1>6 DEF Following
  <2>2. age[k] >= MaxT - 2 * Latency /\ age[k] <= MaxT + 2 * Latency
    BY <1>5, <1>6, <2>1, ShortWaits
  <2>3. QED  BY <1>5, <2>2, ShortWaits DEF Refused
<1>7. CASE IrqRefused(k)
  <2>1. /\ UNCHANGED <<mod, handler, delay, armed, timer, age, gap, sincePulse>>
        /\ irq' = IrqCleared(k) /\ irq[k] # NoIrq /\ Listening(k) /\ Refused(k)
        /\ handler[k] = "idle"
    BY <1>7 DEF IrqRefused, IrqTaken, IrqWaits
  <2>2. irq'[k] = NoIrq /\ \A n \in Node \ {k} : irq'[n] = irq[n]
    BY <2>1 DEF IrqCleared, SpacingInv, FreeInv, TypeOK
  <2>3. ~Heard(k)' /\ mod'[k] # "exiting"
    BY <1>3, <1>6, <2>1 DEF Heard, Listening, Following
  <2>4. Following(k, s)'
    BY <2>1, <2>2, <2>3 DEF Following
  <2>5. QED  BY <1>4, <2>1, <2>2, <2>4
<1>8. CASE IrqAccepted(k)
  <2>1. PICK backoff \in 0..2 * Delta[k] - 1 : delay' = [delay EXCEPT ![k] = backoff]
    BY <1>8 DEF IrqAccepted
  <2>2. /\ mod' = mod /\ timer' = timer /\ Pulse(k, IrqCleared(k))
        /\ handler' = [handler EXCEPT ![k] = "backoff"]
        /\ armed' = [armed EXCEPT ![k] = FALSE]
        /\ age' = [age EXCEPT ![k] = 0] /\ gap' = [gap EXCEPT ![k] = age[k]]
        /\ sincePulse' = [sincePulse EXCEPT ![k] = 0]
        /\ irq[k] # NoIrq /\ Listening(k) /\ ~Refused(k)
    BY <1>8 DEF IrqAccepted, IrqTaken, IrqWaits, ShiftStamps
  <2>3. irq' = IrqCleared(k)
    <3>1. IrqCleared(k) \in [Node -> {NoIrq} \cup 0..Latency]
      BY DEF IrqCleared, SpacingInv, FreeInv, TypeOK
    <3> DEFINE after == IrqCleared(k)
    <3>2. Pulse(k, after) /\ after \in [Node -> {NoIrq} \cup 0..Latency]
      BY <2>2, <3>1
    <3> HIDE DEF after
    <3>3. \A n \in Node : <<k, n>> \notin Wires
      BY <1>2 DEF Upstream
    <3>4. irq' = after
      BY <3>2, <3>3 DEF Pulse
    <3>5. QED  BY <3>4 DEF after
  <2>4. irq'[k] = NoIrq /\ \A n \in Node \ {k} : irq'[n] = irq[n]
    BY <2>3 DEF IrqCleared, SpacingInv, FreeInv, TypeOK
  <2>5. backoff \in Nat /\ backoff <= 2 * MaxDelta - 1
    BY <2>1, ParamType, Waits DEF SpacingInv, FreeInv
  <2>6. age'[k] = 0 /\ gap'[k] = age[k] /\ delay'[k] = backoff /\ handler'[k] = "backoff"
        /\ sincePulse'[s] = sincePulse[s]
    BY <1>2, <1>3, <2>1, <2>2 DEF SpacingInv, FreeInv, TypeOK
  <2>7. age[k] < Second
    BY <1>5, <2>2, ShortWaits DEF Refused
  <2>8. Heard(k)' /\ Running(s)' /\ mod'[k] # "exiting"
    BY <1>3, <2>2, <2>6, <2>7 DEF Heard, Listening, Following, Running
  <2>9. sincePulse'[s] - age'[k] \in 0..Latency
    <3>1. irq[k] = sincePulse[s] /\ irq[k] \in 0..Latency
      BY <1>3, <1>5, <2>2 DEF Following
    <3>2. QED  BY <2>6, <3>1, ShortWaits
  <2>10. Following(k, s)'
    BY <2>4, <2>5, <2>6, <2>8, <2>9 DEF Following
  <2>11. \A n \in Node \ {k} : /\ handler'[n] = handler[n] /\ age'[n] = age[n]
                               /\ gap'[n] = gap[n] /\ delay'[n] = delay[n]
                               /\ armed'[n] = armed[n] /\ timer'[n] = timer[n]
                               /\ sincePulse'[n] = sincePulse[n]
    BY <2>1, <2>2
  <2>12. Upstream(h) = {} => Beating(h)'
    <3>1. Upstream(h) = {} => h \in Node \ {k} /\ Beating(h)
      BY <1>2 DEF InStep
    <3>2. QED  BY <2>2, <2>4, <2>11, <3>1 DEF Beating, Running
  <2>13. ASSUME NEW n \in Node, h \in Upstream(n) PROVE Following(n, h)'
    <3>1. CASE n = k
      BY <1>3, <2>10, <2>13, <3>1
    <3>2. CASE n # k
      <4>1. h \in Node \ {k} /\ n \in Node \ {k} /\ Following(n, h)
        BY <1>2, <2>13, <3>2 DEF InStep
      <4>2. QED  BY <2>2, <2>4, <2>11, <4>1 DEF Following, Heard, Listening, Running
    <3>3. QED  BY <3>1, <3>2
  <2>14. QED  BY <2>12, <2>13 DEF InStep, Upstream
<1>9. CASE IrqReturns(k)
  <2>1. /\ handler' = [handler EXCEPT ![k] = "idle"] /\ handler[k] = "backoff"
        /\ armed' = [armed EXCEPT ![k] = TRUE]
        /\ timer' = [timer EXCEPT ![k] = restart[k]]
        /\ UNCHANGED <<mod, delay, age, gap, irq, sincePulse>>
    BY <1>9 DEF IrqReturns
  <2>2. handler'[k] = "idle" /\ irq[k] = NoIrq
    BY <1>3, <2>1 DEF Following, SpacingInv, FreeInv, TypeOK
  <2>3. Following(k, s)'
    BY <1>3, <2>1, <2>2 DEF Following, Heard, Listening, Running
  <2>4. QED  BY <1>4, <2>1, <2>3
<1>10. QED  BY <1>1, <1>7, <1>8, <1>9 DEF Irq

\* Time moves a source's pulse and what its leaves make of it by the same tick.
LEMMA StepTick ==
  ASSUME StepInv, StarWired, SamePeriod, ShortLatency, SafePeriods, Tick, NEW h \in Node
  PROVE  InStep(h)'
<1> USE DEF StepInv
<1>1. /\ UNCHANGED <<mod, handler, armed, gap>>
      /\ \A n \in Node : CanWait(n)
      /\ \A n \in Node : age'[n] = Grow(age[n], Second)
      /\ \A n \in Node : delay'[n] = IF handler[n] = "backoff" THEN delay[n] - 1 ELSE delay[n]
      /\ \A n \in Node : timer'[n] = IF Ticking(n) THEN timer[n] - 1 ELSE timer[n]
      /\ \A n \in Node : irq'[n] = IF IrqWaits(n) THEN irq[n] + 1 ELSE irq[n]
      /\ \A n \in Node : sincePulse'[n] = IF Ticking(n) \/ handler[n] = "backoff"
                                          THEN sincePulse[n] + 1 ELSE sincePulse[n]
  BY DEF Tick, lifeVars
<1>2. \A n \in Node : /\ Running(n)' = Running(n) /\ Heard(n)' = Heard(n)
                      /\ Listening(n)' = Listening(n)
  BY <1>1 DEF Running, Heard, Listening
<1>3. /\ sincePulse[h] \in Nat /\ timer[h] \in Int
  BY Typed
<1>4. ASSUME Beating(h), armed[h]
      PROVE  /\ timer'[h] = timer[h] - 1 /\ sincePulse'[h] = sincePulse[h] + 1
             /\ timer[h] > -Latency
  <2>1. Ticking(h)
    BY <1>4 DEF Ticking, Beating, Running, Listening
  <2>2. timer[h] > -Latency
    BY <1>1, <1>4, <2>1 DEF Ticking, CanWait
  <2>3. QED  BY <1>1, <2>1, <2>2
<1>5. ASSUME Upstream(h) = {} PROVE Beating(h)'
  <2>1. Beating(h) /\ irq'[h] = irq[h]
    BY <1>1, <1>5 DEF InStep, Beating, IrqWaits
  <2>2. CASE armed[h]
    <3>1. timer'[h] >= -Latency /\ sincePulse'[h] + timer'[h] = sincePulse[h] + timer[h]
      BY <1>3, <1>4, <2>1, <2>2, ShortWaits
    <3>2. QED  BY <1>1, <1>2, <2>1, <2>2, <3>1 DEF Beating
  <2>3. CASE ~armed[h]
    BY <1>1, <1>2, <2>1, <2>3 DEF Beating
  <2>4. QED  BY <2>2, <2>3
<1>6. ASSUME NEW n \in Node, h \in Upstream(n) PROVE Following(n, h)'
  <2>1. Following(n, h) /\ Beating(h)
    BY <1>6 DEF InStep, StarWired
  <2>2. /\ age[n] \in 0..Second /\ delay[n] \in Nat /\ irq[n] \in {NoIrq} \cup 0..Latency
        /\ handler[n] \in {"idle", "backoff"}
    BY Typed
  <2>3. ASSUME Running(h)
        PROVE  sincePulse'[h] = sincePulse[h] + 1 /\ sincePulse[h] <= MaxT + Latency
    <3>1. armed[h] /\ timer[h] >= -Latency /\ sincePulse[h] + timer[h] <= MaxT
      BY <2>1, <2>3, ShortWaits DEF Beating
    <3>2. QED  BY <1>3, <1>4, <2>1, <3>1, ShortWaits
  <2>4. ASSUME Heard(n) PROVE age'[n] = age[n] + 1
    <3>1. Running(h)
      BY <2>1, <2>4 DEF Following
    <3>2. CASE irq[n] = NoIrq
      <4>1. sincePulse[h] - age[n] \in 0..Latency
        BY <2>1, <2>4, <3>2 DEF Following
      <4>2. age[n] < Second
        BY <1>3, <2>2, <2>3, <3>1, <4>1, ShortWaits
      <4>3. QED  BY <1>1, <4>2 DEF Grow
    <3>3. CASE irq[n] # NoIrq
      <4>1. /\ age[n] - sincePulse[h] \in MaxT - 2 * Latency..MaxT + Latency
            /\ irq[n] = sincePulse[h]
        BY <2>1, <2>4, <3>3 DEF Following
      <4>2. age[n] < Second
        BY <1>3, <2>2, <3>3, <4>1, ShortWaits
      <4>3. QED  BY <1>1, <4>2 DEF Grow
    <3>4. QED  BY <3>2, <3>3
  <2>5. CASE irq[n] # NoIrq
    <3>1. Listening(n) /\ handler[n] = "idle" /\ Running(h) /\ irq[n] = sincePulse[h]
      BY <2>1, <2>5 DEF Following
    <3>2. irq'[n] = irq[n] + 1
      BY <1>1, <2>5, <3>1 DEF IrqWaits
    <3>3. irq'[n] # NoIrq /\ irq'[n] = sincePulse'[h]
      BY <1>3, <2>2, <2>3, <2>5, <3>1, <3>2, ShortWaits
    <3>4. Heard(n) => age'[n] - sincePulse'[h] = age[n] - sincePulse[h]
      BY <1>3, <2>2, <2>3, <2>4, <3>1
    <3>5. QED  BY <1>1, <1>2, <2>1, <2>5, <3>1, <3>3, <3>4 DEF Following
  <2>6. CASE irq[n] = NoIrq
    <3>1. irq'[n] = NoIrq
      BY <1>1, <2>6 DEF IrqWaits
    <3>2. ASSUME handler[n] = "backoff"
          PROVE  Heard(n) /\ age'[n] + delay'[n] <= 2 * MaxDelta - 1
      <4>1. Heard(n) /\ age[n] + delay[n] <= 2 * MaxDelta - 1
        BY <2>1, <3>2 DEF Following
      <4>2. delay'[n] = delay[n] - 1 /\ age'[n] = age[n] + 1
        BY <1>1, <2>4, <3>2, <4>1
      <4>3. QED  BY <2>2, <4>1, <4>2, ShortWaits
    <3>3. ASSUME Heard(n) PROVE Running(h) /\ sincePulse'[h] - age'[n] \in 0..Latency
      <4>1. Running(h) /\ sincePulse[h] - age[n] \in 0..Latency
        BY <2>1, <2>6, <3>3 DEF Following
      <4>2. sincePulse'[h] - age'[n] = sincePulse[h] - age[n]
        BY <1>3, <2>2, <2>3, <2>4, <3>3, <4>1
      <4>3. QED  BY <4>1, <4>2
    <3>4. QED  BY <1>1, <1>2, <2>1, <3>1, <3>2, <3>3 DEF Following
  <2>7. QED  BY <2>5, <2>6
<1>7. QED  BY <1>5, <1>6 DEF InStep, Upstream

LEMMA NextInStep ==
  ASSUME StarWired, SamePeriod, ShortLatency, SafePeriods, NoUnload
  PROVE  StepInv /\ [Next]_vars => StepInv'
<1> SUFFICES ASSUME StepInv, [Next]_vars PROVE StepInv'
  OBVIOUS
<1>1. SpacingInv'
  BY NextSpacing DEF StepInv
<1> SUFFICES ASSUME NEW h \in Node PROVE InStep(h)'
  BY <1>1 DEF StepInv
<1>2. ASSUME NEW k \in Node, Load(k) PROVE InStep(h)'
  BY <1>2, StepLoad
<1>3. ASSUME NEW k \in Node, Unload(k) PROVE InStep(h)'
  <2>1. mod[k] # "exiting"
    <3>1. CASE Upstream(k) = {}
      BY <3>1 DEF StepInv, InStep, Beating
    <3>2. CASE Upstream(k) # {}
      BY <3>2 DEF StepInv, InStep, Following, Upstream
    <3>3. QED  BY <3>1, <3>2
  <2>2. QED  BY <1>3, <2>1 DEF Unload, UnloadCancelTimer, UnloadFreeIrq, NoUnload
<1>4. ASSUME NEW k \in Node, Operator(k) PROVE InStep(h)'
  BY <1>4, StepOperator DEF Operator, SetT, SetDelta, FirstPacket,
     lifeVars, irqVars, timerVars, stampVars
<1>5. ASSUME NEW k \in Node, Timer(k) PROVE InStep(h)'
  BY <1>5, StepTimer
<1>6. ASSUME NEW k \in Node, Irq(k) PROVE InStep(h)'
  BY <1>6, StepIrq
<1>7. CASE Tick
  BY <1>7, StepTick
<1>8. CASE UNCHANGED vars
  BY <1>8, StepOperator DEF vars, lifeVars, irqVars, timerVars, stampVars
<1>9. QED
  BY <1>2, <1>3, <1>4, <1>5, <1>6, <1>7, <1>8 DEF Next

\* In the documented wiring, one source and any number of leaves, all leaves
\* that have heard the source accept each of its pulses, within the latency of
\* one interrupt of each other (unlock.c:140-158), if the nodes have the same
\* T, an interrupt waits less than a quarter of it, T is less than a second,
\* packets are sent first and nothing is unloaded.
THEOREM SiblingsInStepHolds ==
  ASSUME PacketsFirst, SafePeriods, StarWired, SamePeriod, ShortLatency, NoUnload
  PROVE  Spec => []SiblingsInStep
<1>1. Init => StepInv
  <2> SUFFICES ASSUME Init PROVE \A h \in Node : InStep(h)
    BY InitSpacing DEF StepInv
  <2>1. QED
    BY DEF Init, InStep, Beating, Following, Running, Heard, Listening
<1>2. StepInv => SiblingsInStep
  <2> SUFFICES ASSUME StepInv, NEW a \in Node, NEW b \in Node,
                      NEW h \in Upstream(a), h \in Upstream(b),
                      Heard(a), Heard(b), irq[a] = NoIrq, irq[b] = NoIrq
               PROVE  age[a] <= age[b] + Latency
    BY DEF SiblingsInStep, Heard
  <2>1. h \in Node
    BY DEF Upstream
  <2>2. /\ sincePulse[h] - age[a] \in 0..Latency
        /\ sincePulse[h] - age[b] \in 0..Latency
    BY <2>1 DEF StepInv, InStep, Following
  <2>3. age[a] \in Nat /\ age[b] \in Nat /\ sincePulse[h] \in Nat /\ Latency \in Nat
    BY <2>1, Typed, Waits DEF StepInv
  <2>4. QED  BY <2>2, <2>3
<1>3. QED  BY <1>1, <1>2, NextInStep, PTL DEF Spec
=============================================================================
