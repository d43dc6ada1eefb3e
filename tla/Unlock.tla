------------------------------- MODULE Unlock -------------------------------
(***************************************************************************)
(* kernel-module/unlock.c on a set of nodes joined by unlock wires.        *)
(*                                                                         *)
(* Every node runs one copy of the module on a uniprocessor board: the     *)
(* hrtimer callback and the GPIO interrupt handler run in hard-interrupt   *)
(* context with interrupts disabled, so neither preempts the other, while  *)
(* both preempt unlock_init and unlock_exit between any two statements.    *)
(* A pulse on UNLOCK_OUT raises the UNLOCK_IN interrupt of every node it   *)
(* is wired to; the GPIO controller latches one edge per line.             *)
(*                                                                         *)
(* Time passes in ticks of one microsecond-like unit.  A time stamp is     *)
(* kept as its age, capped at one second: the code compares differences of *)
(* time stamps with T/2, with T and with a whole second, never more.       *)
(***************************************************************************)
EXTENDS ContentionWindow

CONSTANTS
  Node,             \* the boards
  Wires,            \* <<a, b>>: a's UNLOCK_OUT drives b's UNLOCK_IN
  Periods, DefaultT,       \* values of module parameter T, its initial one
  MinT, MaxT,              \* bounds of Periods
  Deltas, DefaultDelta,    \* values of module parameter Delta, its initial one
  MaxDelta,                \* bound of Deltas
  Second,           \* one second, in ticks
  NsWrap,           \* 2^32 nanoseconds, in ticks: intervals are u32
  Latency,          \* how long an interrupt can wait for a free CPU
  BufSizes,         \* free-list lengths get_buf_size may count
  Dcus,             \* how many DCUs edit_contentionWindow writes
  TxFirst,          \* boards that send packets before insmod, as the README asks
  SpinlockIsReal,   \* FALSE on the boards' uniprocessor kernel
  MayUnload         \* boards where rmmod is ever run

ASSUME UnlockAssumption ==
  /\ Wires \subseteq Node \X Node /\ \A n \in Node : <<n, n>> \notin Wires
  /\ MinT \in Nat \ {0} /\ MaxT \in Nat /\ MaxDelta \in Nat
  /\ Periods \subseteq MinT..MaxT  /\ DefaultT \in Periods
  /\ Deltas \subseteq 1..MaxDelta  /\ DefaultDelta \in Deltas
  /\ Second \in Nat \ {0} /\ Latency \in Nat
  /\ NsWrap \in Nat /\ MaxT < NsWrap
  /\ BufSizes \subseteq Nat
  /\ Dcus \in Nat \ {0}
  /\ TxFirst \subseteq Node /\ MayUnload \subseteq Node /\ SpinlockIsReal \in BOOLEAN

VARIABLES
  mod,         \* how far unlock_init or unlock_exit of the node has come
  initq,       \* qnum of the edit_contentionWindow(15) of unlock_init
  T, Delta,    \* the writable module parameters
  handler,     \* unlock_r_irq_handler: idle, in its backoff, or spinning
  delay,       \* what is left of ndelay(backoff * 1000)
  restart,     \* next_timer - backoff, still to be programmed
  armed,       \* hrtimer queued
  timer,       \* ticks until it expires; negative when it is late
  irq,         \* ticks an UNLOCK_IN edge has been latched, NoIrq if none
  age,         \* now - last_unlock, at most Second
  gap,         \* last_unlock - last_unlock_2nd, at most Second
  lock,        \* driver_lock held
  quiet,       \* AR_PCU_FORCE_QUIET_COLL
  txReady,     \* txbuf_fff # NULL
  bufCounter,  \* buf_counter, as the character device exports it
  dcu,         \* the window each DCU is programmed with
  logging,     \* unlocking_logging, force_quiet_bit_restore, max_timing_count
  unlocked,    \* ath9k_ah->unlocked
  sincePulse   \* history: age of the node's last pulse, or of hrtimer_start
               \* in unlock_init; it stops when no timer or backoff runs

lifeVars  == <<mod, initq>>
paramVars == <<T, Delta>>
irqVars   == <<handler, delay, restart, lock, quiet>>
timerVars == <<armed, timer>>
stampVars == <<age, gap>>
ratevars  == <<bufCounter, dcu>>
flagVars  == <<logging, unlocked>>
vars == <<lifeVars, paramVars, irqVars, timerVars, irq, stampVars, txReady,
          ratevars, flagVars, sincePulse>>

NoIrq == -1
Dcu   == 0..Dcus - 1

\* Module states: "out"; "requested" and "editing" inside unlock_init, after
\* request_irq and after hrtimer_start; "in"; "exiting" inside unlock_exit,
\* between hrtimer_cancel and free_irq.
ModStates     == {"out", "requested", "editing", "in", "exiting"}
HandlerStates == {"idle", "backoff", "spin"}

Init ==
  /\ mod = [n \in Node |-> "out"]   /\ initq = [n \in Node |-> 0]
  /\ T = [n \in Node |-> DefaultT]  /\ Delta = [n \in Node |-> DefaultDelta]
  /\ handler = [n \in Node |-> "idle"]
  /\ delay = [n \in Node |-> 0]     /\ restart = [n \in Node |-> 0]
  /\ armed = [n \in Node |-> FALSE] /\ timer = [n \in Node |-> 0]
  /\ irq = [n \in Node |-> NoIrq]
  /\ age = [n \in Node |-> Second]  /\ gap = [n \in Node |-> Second]
  /\ lock = [n \in Node |-> FALSE]  /\ quiet = [n \in Node |-> FALSE]
  /\ txReady \in [Node -> BOOLEAN] /\ \A n \in TxFirst : txReady[n]
  /\ bufCounter = [n \in Node |-> 0]
  /\ dcu = [n \in Node |-> [q \in Dcu |-> 15]]
  /\ logging = [n \in Node |-> FALSE] /\ unlocked = [n \in Node |-> FALSE]
  /\ sincePulse = [n \in Node |-> 0]

-----------------------------------------------------------------------------
\* Mutant: the operands of the subtraction swapped.
SwappedSub(a, b) == IF b >= a THEN b - a ELSE NsWrap + b - a

\* The unsigned subtraction next_timer -= backoff, in the ticks hrtimer_start
\* makes of it: next_timer * 1000 is a u32 number of nanoseconds.
U32Sub(a, b) == IF a >= b THEN a - b ELSE NsWrap + a - b

\* Mutant: the timer is restarted without being forwarded.
NotForwarded(left, period) == left

\* hrtimer_forward_now: skip whole periods until the expiry is in the future.
ForwardNow(left, period) == period - ((-left) % period)

Grow(ticks, bound) == IF ticks < bound THEN ticks + 1 ELSE bound

\* Interrupt lines that have a handler.
Listening(n) == mod[n] # "out"

\* gpio_set_value(1); udelay(1); gpio_set_value(0) on UNLOCK_OUT, seen by the
\* nodes wired to it; an edge that is already latched absorbs the new one.
\* "after" is irq once the pulsing node has taken its own interrupt.
Pulse(n, after) ==
  irq' = [m \in Node |-> IF <<n, m>> \in Wires /\ Listening(m) /\ after[m] = NoIrq
                         THEN 0 ELSE after[m]]

\* Mutant: the count is published, the window is not edited.
CountOnly(n) == /\ \E size \in BufSizes : bufCounter' = [bufCounter EXCEPT ![n] = size]
                /\ UNCHANGED dcu

\* get_buf_size, the ladder and edit_contentionWindow(cw_val), inside one
\* interrupt handler.
UpdateWindow(n) ==
  \E size \in BufSizes :
    /\ bufCounter' = [bufCounter EXCEPT ![n] = size]
    /\ dcu' = [dcu EXCEPT ![n] = [q \in Dcu |-> CwOf(size)]]

\* Process context runs on a node only while its interrupt handler does not.
Preemptible(n) == handler[n] = "idle"

-----------------------------------------------------------------------------
(* unlock_init *)

\* Up to request_irq: the module's memory is fresh, the interrupt is live.
LoadRequest(n) ==
  /\ mod[n] = "out" /\ ~armed[n]
  /\ mod'     = [mod EXCEPT ![n] = "requested"]
  /\ logging' = [logging EXCEPT ![n] = TRUE]
  /\ T'       = [T EXCEPT ![n] = DefaultT]
  /\ Delta'   = [Delta EXCEPT ![n] = DefaultDelta]
  /\ age'     = [age EXCEPT ![n] = 0]
  /\ gap'     = [gap EXCEPT ![n] = Second]
  /\ lock'    = [lock EXCEPT ![n] = FALSE]
  /\ UNCHANGED <<initq, handler, delay, restart, quiet, timerVars, irq,
                 txReady, ratevars, unlocked, sincePulse>>

\* A GPIO or the interrupt is refused: GPIOs go back, the flags stay set.
LoadFails(n) ==
  /\ mod[n] = "out" /\ ~armed[n]
  /\ logging' = [logging EXCEPT ![n] = TRUE]
  /\ UNCHANGED <<lifeVars, paramVars, irqVars, timerVars, irq, stampVars,
                 txReady, ratevars, unlocked, sincePulse>>

\* hrtimer_start(&unlock_timer, T)
LoadStartTimer(n) ==
  /\ mod[n] = "requested" /\ Preemptible(n)
  /\ mod'   = [mod EXCEPT ![n] = "editing"]
  /\ initq' = [initq EXCEPT ![n] = 0]
  /\ armed' = [armed EXCEPT ![n] = TRUE]
  /\ timer' = [timer EXCEPT ![n] = T[n]]
  /\ sincePulse' = [sincePulse EXCEPT ![n] = 0]
  /\ UNCHANGED <<paramVars, irqVars, irq, stampVars, txReady, ratevars,
                 flagVars>>

\* One register of edit_contentionWindow(15), then the end of unlock_init.
LoadEditDcu(n) ==
  /\ mod[n] = "editing" /\ Preemptible(n)
  /\ dcu'   = [dcu EXCEPT ![n][initq[n]] = 15]
  /\ initq' = [initq EXCEPT ![n] = IF @ + 1 = Dcus THEN 0 ELSE @ + 1]
  /\ mod'   = [mod EXCEPT ![n] = IF initq[n] + 1 = Dcus THEN "in" ELSE @]
  /\ UNCHANGED <<paramVars, irqVars, timerVars, irq, stampVars, txReady,
                 bufCounter, flagVars, sincePulse>>

(* unlock_exit *)

UnloadCancelTimer(n) ==
  /\ n \in MayUnload
  /\ mod[n] = "in" /\ Preemptible(n)
  /\ mod'   = [mod EXCEPT ![n] = "exiting"]
  /\ armed' = [armed EXCEPT ![n] = FALSE]
  /\ UNCHANGED <<initq, paramVars, irqVars, timer, irq, stampVars, txReady,
                 ratevars, flagVars, sincePulse>>

\* Mutant: rmmod does not wait for a handler in progress.
UnloadMidSignal(n) ==
  /\ mod[n] = "exiting"
  /\ mod'      = [mod EXCEPT ![n] = "out"]
  /\ irq'      = [irq EXCEPT ![n] = NoIrq]
  /\ logging'  = [logging EXCEPT ![n] = FALSE]
  /\ unlocked' = [unlocked EXCEPT ![n] = FALSE]
  /\ UNCHANGED <<initq, paramVars, irqVars, timerVars, stampVars, txReady,
                 ratevars, sincePulse>>

\* free_irq waits for the handler; then the flags are cleared.
UnloadFreeIrq(n) ==
  /\ mod[n] = "exiting" /\ Preemptible(n)
  /\ mod'      = [mod EXCEPT ![n] = "out"]
  /\ irq'      = [irq EXCEPT ![n] = NoIrq]
  /\ logging'  = [logging EXCEPT ![n] = FALSE]
  /\ unlocked' = [unlocked EXCEPT ![n] = FALSE]
  /\ UNCHANGED <<initq, paramVars, irqVars, timerVars, stampVars, txReady,
                 ratevars, sincePulse>>

\* echo $1 > /sys/module/unlock/parameters/T, and /Delta
SetT(n, t) ==
  /\ Listening(n) /\ Preemptible(n) /\ t # T[n]
  /\ T' = [T EXCEPT ![n] = t]
  /\ UNCHANGED <<lifeVars, Delta, irqVars, timerVars, irq, stampVars, txReady,
                 ratevars, flagVars, sincePulse>>

SetDelta(n, d) ==
  /\ Listening(n) /\ Preemptible(n) /\ d # Delta[n]
  /\ Delta' = [Delta EXCEPT ![n] = d]
  /\ UNCHANGED <<lifeVars, T, irqVars, timerVars, irq, stampVars, txReady,
                 ratevars, flagVars, sincePulse>>

\* The first packet ath9k_tx sees publishes the free list.
FirstPacket(n) ==
  /\ ~txReady[n] /\ Preemptible(n)
  /\ txReady' = [txReady EXCEPT ![n] = TRUE]
  /\ UNCHANGED <<lifeVars, paramVars, irqVars, timerVars, irq, stampVars,
                 ratevars, flagVars, sincePulse>>

-----------------------------------------------------------------------------
(* unlock_timer_handler *)

Due(n) == Listening(n) /\ handler[n] = "idle" /\ armed[n] /\ timer[n] <= 0

\* The pulse goes out whatever follows.
TimerPulse(n) ==
  /\ Pulse(n, irq)
  /\ sincePulse' = [sincePulse EXCEPT ![n] = 0]

TimerHandler(n) ==
  /\ Due(n) /\ txReady[n]
  /\ TimerPulse(n)
  /\ UpdateWindow(n)
  /\ timer' = [timer EXCEPT ![n] = ForwardNow(@, T[n])]
  /\ UNCHANGED <<lifeVars, paramVars, irqVars, armed, stampVars, txReady,
                 flagVars>>

\* Without a free list the handler returns no value: whatever is in the
\* register decides whether the timer, not forwarded, is queued again.
TimerHandlerNoBuffer(n) ==
  /\ Due(n) /\ ~txReady[n]
  /\ TimerPulse(n)
  /\ \E restarted \in BOOLEAN : armed' = [armed EXCEPT ![n] = restarted]
  /\ UNCHANGED <<lifeVars, paramVars, irqVars, timer, stampVars, txReady,
                 ratevars, flagVars>>

-----------------------------------------------------------------------------
(* unlock_r_irq_handler *)

\* An edge waits for a CPU that can take it.
IrqWaits(n) == Listening(n) /\ handler[n] = "idle" /\ irq[n] # NoIrq

\* The interrupt is taken and spin_lock_irqsave gets through.
IrqTaken(n) == IrqWaits(n) /\ (SpinlockIsReal => ~lock[n])
IrqCleared(n) == [irq EXCEPT ![n] = NoIrq]

\* A kernel with real spin locks spins for ever on a lock nobody will release.
IrqSpins(n) ==
  /\ IrqWaits(n) /\ SpinlockIsReal /\ lock[n]
  /\ handler' = [handler EXCEPT ![n] = "spin"]
  /\ irq' = IrqCleared(n)
  /\ UNCHANGED <<lifeVars, paramVars, delay, restart, lock, quiet, timerVars,
                 stampVars, txReady, ratevars, flagVars, sincePulse>>

\* Without a free list it returns with driver_lock held.
IrqNoBuffer(n) ==
  /\ IrqTaken(n) /\ ~txReady[n]
  /\ lock' = [lock EXCEPT ![n] = TRUE]
  /\ irq' = IrqCleared(n)
  /\ UNCHANGED <<lifeVars, paramVars, handler, delay, restart, quiet,
                 timerVars, stampVars, txReady, ratevars, flagVars, sincePulse>>

\* Mutants: no debounce; T * 1000 for T * 500.
RefusedOld(n)    == age[n] >= Second
RefusedPeriod(n) == age[n] >= Second \/ age[n] <= T[n]

\* diff.tv_sec || diff.tv_nsec < T * 500
Refused(n) == age[n] >= Second \/ 2 * age[n] < T[n]

\* The window is updated even when the signal is then ignored.
IrqRefused(n) ==
  /\ IrqTaken(n) /\ txReady[n] /\ Refused(n)
  /\ UpdateWindow(n)
  /\ irq'  = IrqCleared(n)
  /\ lock' = [lock EXCEPT ![n] = FALSE]
  /\ UNCHANGED <<lifeVars, paramVars, handler, delay, restart, quiet,
                 timerVars, stampVars, txReady, flagVars, sincePulse>>

\* The period is stretched by rng when the last one was at most T, or over a
\* second, and shortened by rng when it was longer than T.
NextTimer(n, rng) ==
  IF gap[n] >= Second \/ gap[n] <= T[n] THEN T[n] + rng ELSE T[n] - rng

\* Mutant: last_unlock keeps its old value.
SecondStampOnly(n) == /\ gap' = [gap EXCEPT ![n] = age[n]]
                      /\ UNCHANGED age

\* last_unlock_2nd = last_unlock; last_unlock = now
ShiftStamps(n) == /\ gap' = [gap EXCEPT ![n] = age[n]]
                  /\ age' = [age EXCEPT ![n] = 0]

\* Down to ndelay: the timer stopped, the signal relayed, the stamps shifted
\* and the radio's transmission frozen for a random backoff.
IrqAccepted(n) ==
  /\ IrqTaken(n) /\ txReady[n] /\ ~Refused(n)
  /\ UpdateWindow(n)
  /\ \E rng, backoff \in 0..2 * Delta[n] - 1 :
       /\ delay'   = [delay EXCEPT ![n] = backoff]
       /\ restart' = [restart EXCEPT ![n] = U32Sub(NextTimer(n, rng), backoff)]
  /\ handler' = [handler EXCEPT ![n] = "backoff"]
  /\ lock'    = [lock EXCEPT ![n] = TRUE]
  /\ quiet'   = [quiet EXCEPT ![n] = TRUE]
  /\ armed'   = [armed EXCEPT ![n] = FALSE]
  /\ Pulse(n, IrqCleared(n))
  /\ ShiftStamps(n)
  /\ sincePulse' = [sincePulse EXCEPT ![n] = 0]
  /\ UNCHANGED <<lifeVars, paramVars, timer, txReady, flagVars>>

\* Mutant: AR_PCU_FORCE_QUIET_COLL is never cleared.
RadioStaysQuiet(n) == UNCHANGED quiet

\* REG_CLR_BIT(AR_PCU_MISC, AR_PCU_FORCE_QUIET_COLL)
ReleaseRadio(n) == quiet' = [quiet EXCEPT ![n] = FALSE]

\* After ndelay: the radio released, the timer programmed, the lock dropped.
IrqReturns(n) ==
  /\ handler[n] = "backoff" /\ delay[n] = 0
  /\ handler'  = [handler EXCEPT ![n] = "idle"]
  /\ unlocked' = [unlocked EXCEPT ![n] = TRUE]
  /\ ReleaseRadio(n)
  /\ armed'    = [armed EXCEPT ![n] = TRUE]
  /\ timer'    = [timer EXCEPT ![n] = restart[n]]
  /\ restart'  = [restart EXCEPT ![n] = 0]
  /\ lock'     = [lock EXCEPT ![n] = FALSE]
  /\ UNCHANGED <<lifeVars, paramVars, delay, irq, stampVars, txReady,
                 ratevars, logging, sincePulse>>

-----------------------------------------------------------------------------
\* A due interrupt waits at most Latency for its CPU; a backoff is exact.
CanWait(n) ==
  /\ handler[n] = "idle" /\ Listening(n) =>
       irq[n] < Latency /\ (armed[n] => timer[n] > -Latency)
  /\ handler[n] = "backoff" => delay[n] > 0

\* The hrtimer of an unloaded module is beyond this model: it runs freed code.
Ticking(n) == armed[n] /\ Listening(n) /\ handler[n] = "idle"

Tick ==
  /\ \A n \in Node : CanWait(n)
  /\ age'   = [n \in Node |-> Grow(age[n], Second)]
  /\ delay' = [n \in Node |-> IF handler[n] = "backoff" THEN delay[n] - 1
                              ELSE delay[n]]
  /\ timer' = [n \in Node |-> IF Ticking(n) THEN timer[n] - 1 ELSE timer[n]]
  /\ irq'   = [n \in Node |-> IF IrqWaits(n) THEN irq[n] + 1 ELSE irq[n]]
  /\ sincePulse' = [n \in Node |-> IF Ticking(n) \/ handler[n] = "backoff"
                                   THEN sincePulse[n] + 1 ELSE sincePulse[n]]
  /\ UNCHANGED <<lifeVars, paramVars, handler, restart, armed, gap, lock,
                 quiet, txReady, ratevars, flagVars>>

Timer(n) == TimerHandler(n) \/ TimerHandlerNoBuffer(n)
Irq(n)   == IrqSpins(n) \/ IrqNoBuffer(n) \/ IrqRefused(n) \/ IrqAccepted(n)
              \/ IrqReturns(n)
Load(n)  == LoadRequest(n) \/ LoadFails(n) \/ LoadStartTimer(n)
              \/ LoadEditDcu(n)
Unload(n) == UnloadCancelTimer(n) \/ UnloadFreeIrq(n)
Operator(n) == \/ \E t \in Periods : SetT(n, t)
               \/ \E d \in Deltas  : SetDelta(n, d)
               \/ FirstPacket(n)

Next == \/ \E n \in Node : Timer(n) \/ Irq(n) \/ Load(n) \/ Unload(n) \/ Operator(n)
        \/ Tick

Spec == Init /\ [][Next]_vars

\* Interrupts are served, init and exit run on, and time passes when it can;
\* nothing obliges anyone to load, unload or send.
FairSpec ==
  /\ Spec
  /\ WF_vars(Tick)
  /\ \A n \in Node : WF_vars(Timer(n)) /\ WF_vars(Irq(n))
                     /\ WF_vars(LoadStartTimer(n)) /\ WF_vars(LoadEditDcu(n))
                     /\ WF_vars(UnloadFreeIrq(n))

-----------------------------------------------------------------------------
(* Properties *)

TypeOK ==
  /\ mod \in [Node -> ModStates]    /\ initq \in [Node -> Dcu]
  /\ T \in [Node -> Periods]        /\ Delta \in [Node -> Deltas]
  /\ handler \in [Node -> HandlerStates]
  /\ delay \in [Node -> Nat]        /\ restart \in [Node -> Int]
  /\ armed \in [Node -> BOOLEAN]    /\ timer \in [Node -> Int]
  /\ irq \in [Node -> {NoIrq} \cup 0..Latency]
  /\ age \in [Node -> 0..Second]    /\ gap \in [Node -> 0..Second]
  /\ lock \in [Node -> BOOLEAN]     /\ quiet \in [Node -> BOOLEAN]
  /\ txReady \in [Node -> BOOLEAN]
  /\ bufCounter \in [Node -> Nat]   /\ dcu \in [Node -> [Dcu -> CwValues]]
  /\ logging \in [Node -> BOOLEAN]  /\ unlocked \in [Node -> BOOLEAN]
  /\ sincePulse \in [Node -> Nat]

\* Every period leaves room for the two random terms subtracted from it.
SafePeriods == MinT >= 4 * MaxDelta - 2

\* The lock is held, the radio forced quiet and the timer stopped exactly
\* while a signal's backoff runs, and the backoff is shorter than 2 * Delta.
\* On boards that sent packets first no path out of unlock_r_irq_handler leaves
\* one of them behind; the return of unlock.c:119 does, on the others.
RadioFreeBetweenSignals ==
  \A n \in Node :
    /\ handler[n] = "backoff" => lock[n] /\ quiet[n] /\ ~armed[n] /\ Listening(n)
                                  /\ delay[n] <= 2 * MaxDelta - 1
    /\ handler[n] = "idle" => ~lock[n] /\ ~quiet[n]
    /\ handler[n] # "spin"

\* A loaded node pulses, on its own or by relaying, at least once in the
\* longest period plus 2 * Delta, whatever signals arrive, get refused or
\* change its parameters in between (unlock.c:107,161-186).
Heartbeat ==
  \A n \in Node :
    mod[n] \in {"editing", "in"} =>
      /\ armed[n] \/ handler[n] = "backoff"
      /\ sincePulse[n] <= MaxT + 2 * MaxDelta - 1 + Latency

\* What a random term or a late expiry can take off a period.
Jitter == IF 2 * MaxDelta - 1 > Latency THEN 2 * MaxDelta - 1 ELSE Latency

\* The timer never pulses sooner after the node's last pulse than the shortest
\* period less one random term, or less the lateness of the last expiry.
NoEarlyPulse ==
  [][\A n \in Node :
       TimerHandler(n) =>
         sincePulse[n] >= MinT - Jitter]_vars

\* The nodes whose UNLOCK_OUT reaches n.
Upstream(n) == {m \in Node : <<m, n>> \in Wires}

\* A node that accepted one signal of a source that stays loaded accepts the
\* next before its second runs out, so it never goes deaf: the T/2 debounce
\* refuses no pulse of a source whose period is T.
KeepsHearing ==
  \A n \in Node :
    Listening(n) /\ gap[n] < Second
      /\ (\E m \in Upstream(n) : mod[m] \in {"editing", "in"})
    => age[n] < Second

\* Nodes unlocked by the same source last accepted the same pulse: their last
\* unlock times differ by no more than the latency of one interrupt.
SiblingsInStep ==
  \A a, b \in Node :
    /\ Upstream(a) = Upstream(b) /\ Upstream(a) # {}
    /\ \A n \in {a, b} : Listening(n) /\ gap[n] < Second /\ irq[n] = NoIrq
    => age[a] <= age[b] + Latency

\* rmmod leaves no interrupt pending, no handler half way through its backoff
\* and the radio able to send, whatever moment it hits (unlock.c:249-264).
UnloadLeavesRadioFree ==
  \A n \in Node :
    mod[n] = "out" => /\ handler[n] # "backoff" /\ irq[n] = NoIrq
                      /\ ~quiet[n] /\ ~unlocked[n]

\* Relays never chase each other around a cycle of wires without time passing:
\* the debounce cuts every wave of pulses off (unlock.c:147).
TimeAdvances == <>[](\E n \in Node : mod[n] = "in") => []<><<Tick>>_vars

\* The windows edit_contentionWindow(15) leaves at the end of unlock_init, in
\* all DCUs or, when a signal parted the edit, only in those written after it,
\* give way to the window of the published free-buffer count, the same in every
\* DCU (unlock.c:104,144,238).
WindowFollowsBuffer ==
  \A n \in Node :
    mod[n] = "in" ~> \/ mod[n] # "in"
                     \/ \A q \in Dcu : dcu[n][q] = CwOf(bufCounter[n])

-----------------------------------------------------------------------------
(* What a comment of the source says and the code does not do *)

\* unlock.c:155 "relay the unlocking signal", unlock.c:217 "recieving and
\* propogating unlock signal": a node that stays wired to a pulsing node keeps
\* being unlocked.
KeepsBeingUnlocked ==
  \A n \in Node :
    <>[](mod[n] = "in" /\ \E m \in Upstream(n) : mod[m] = "in")
      => []<>(handler[n] = "backoff")
=============================================================================
