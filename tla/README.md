# U-CSMA rate control: verification project

U-CSMA boards share a radio channel by passing an *unlocking signal* over GPIO wires: every pulse
tells a node to look at how many transmit buffers it has free and to choose its contention window
accordingly, and the packet generator slows down when the pool is short. This directory holds TLA+
modules of that protocol and of the parts of the ath9k driver it rests on, the TLC runs that check
small instances, and theorems proved with TLAPS for all values of the constants.
`PROJECT.json` maps every definition that models code to the lines it models.

Contents: 1 inventory, 2 plan, 3 modules and the code, 4 runs and bounds, 5 fairness, 6 proofs,
7 findings, 8 what is only model-checked, 9 what is not modelled.

## 1. Inventory

Paths are relative to `src/`.

| Component | State it keeps | Operations | Talks to |
| --- | --- | --- | --- |
| Unlock module, `kernel-module/unlock.c` | parameters `T`, `Delta`; `last_unlock`, `last_unlock_2nd`; `driver_lock`; an hrtimer; `buf_counter` | `unlock_init`, `unlock_exit`, `unlock_timer_handler`, `unlock_r_irq_handler`, `get_buf_size`, `edit_contentionWindow`, writing the parameters | other boards by wires UNLOCK_OUT to UNLOCK_IN; ath9k by `txbuf_fff`, `ath9k_ah` and chip registers; the character device by `buf_counter` |
| Window edit, in `unlock.c`; `set_contention_window.c` is a test of the same registers | the `AR_DLCL_IFS` register of each DCU | the ladder, the shift-and-mask loop | the two handlers |
| Unlock module with log, `unlock_with_log.c` | the above, and an array of events | the above; the dump on `rmmod` | the same |
| Packetspammer, `packetspammer/packetspammer.c` | `sent_packet`, `sent_byte`, the pause | the sending loop, the `print_speed` thread | injects frames; reads the character device |
| Character device, `ath9k/buffer_number.c`, `kernel-module/buffer_number.c`, `ath9k/read_buffer_number.c` | major number, class, device; exported `buf_counter` | open, read, write, release; init and exit | packetspammer reads what the unlock handlers wrote |
| ath9k transmit entry, `ath9k/main.c` | the free list `sc->tx.txbuf`, published as `txbuf_fff` | `ath9k_tx`, and (in files outside this repository) taking and returning buffers | the unlock handlers walk the list without its lock |
| ath9k reset and interrupts, `ath9k/main.c` | `intr_ref_cnt`, `imask`, `intrstatus`, `ATH_OP_*` bits, the tasklet and the reset work | `ath_isr`, `ath9k_tasklet`, `ath_reset_work`, `ath_reset_internal`, `ath9k_start`, `ath9k_stop`, `ath9k_flush`, `ath9k_config`, `ath_set_channel` | the chip, mac80211 |
| ath9k power save, `ath9k/main.c` | `ps_usecount`, `ps_idle`, `ps_enabled`, `ps_flags`, `power_mode`, the sleep timer | `ath9k_ps_wakeup`, `ath9k_ps_restore`, `ath_ps_full_sleep`, and everybody who sets a flag | every path that touches the chip |
| ath9k interfaces and association, `ath9k/main.c` | `nvifs`, the operating mode, the address mask, the beacon slots, the primary station, `curbssid`, `p2p_ps_vif` and its timer | add, change, remove interface; `bss_info_changed`; `ath9k_p2p_ps_timer` | mac80211, beacons, power save |
| ath9k life cycle, `ath9k/init.c` | what a probe has acquired; the exported `ath9k_ah` | `ath9k_init_softc`, `ath9k_init_device`, `ath9k_deinit_*`, `ath9k_init`, `ath9k_exit` | the PCI/AHB glue, mac80211, and through `ath9k_ah` the modules above |
| Radiotap parser, `packetspammer/radiotap.c` | an iterator | `init`, `next` | nobody: it is linked and not called |
| GPIO measurement modules, `kernel-module/{gpio_timeline, record_gpio_event, gpio-irq-latency-test, interrupt_test_node1, interrupt_test_node2, kernel_timing_test}.c` | the pins and interrupts they hold, a bounded buffer, counters of passed and missed tests, a timer | interrupt and timer handlers, init and exit | the GPIOs the unlock module uses, and each other over the wires |
| Quiet-bit flipper, `kernel-module/flip_quiet_coll_bit.c` | a timer | clears `AR_PCU_FORCE_QUIET_COLL` for a moment and sets it again | the register `unlock.c` writes too |

What makes it hard:

* **Concurrency.** The hrtimer callback and the GPIO interrupt run in hard-interrupt context: they
  never preempt each other on a one-CPU board, but both preempt `unlock_init`, `unlock_exit` and
  the driver's list edits anywhere. `ath_isr`, the tasklet, the reset work, mac80211's calls and the
  sleep timer interleave under three locks, and some look at shared state without any.
* **Distribution.** Pulses are relayed; a cycle of wires brings a node its own pulse back. There is
  no message, only an edge, and an edge that is already latched absorbs the next.
* **Time.** The debounce compares time stamps with `T/2`, `T` and a whole second; the next expiry is
  randomised twice, in unsigned arithmetic.
* **Stale values.** The published free count is as old as the last pulse; the statistics thread
  reads counters that are being written; interrupt status waits in one word for the tasklet.
* **Partial failure.** A failed reset queues another; a failed restart of reception does not. A probe
  or an `insmod` can fail at every step, and has to undo what it did and nothing else.

What each part must guarantee is stated by its properties (section 4). `PROJECT.json` lists under
`hazards` each place where the code is exposed to one of these difficulties, with the properties
that would catch it going wrong.

## 2. Plan

Done, in this order:

1. `ContentionWindow` (the ladder and the bit arithmetic) and `EditContentionWindow` (the loop).
2. `Unlock`: the whole of `unlock.c` on a set of wired boards.
3. `TxBufPool`, the abstract free list, and `TxBufList`, the linked list that implements it.
4. `RateControl`: packetspammer, statistics thread, driver pool, pulses and character device in one
   loop.
5. `Ath9kReset` and `Ath9kPowerSave`: the two reference counts of `ath9k/main.c`.
6. `Ath9kLifeCycle`, `Ath9kInterfaces` and their composition `Ath9kDevice`.
7. `GpioModules`: loading, refusal and unloading of all modules of `kernel-module/`; `BoardTools`:
   what they do once loaded, with `unlock_with_log.c`, the flipper beside `unlock.c`, and the window
   edit as the handler calls it.
8. Proofs of every invariant and action property the passing runs check, and of the refinement of 3
   (section 6).

Left, most important first:

1. Weaker hypotheses for the theorems about the protocol. `KeepsHearing` and `SiblingsInStep` are
   proved without `rmmod`, and `SiblingsInStep` for the star only. Every node's `T` may change under
   way in the first, not in the second.
2. Stations and keys of `main.c` (1547-1630, 1685-1769): that every entry of `key_idx` is a live slot
   of its own station, and that the transmit filter of a sleeping station does not stay on a slot that
   is given to another. The key cache and the filter are in files outside the repository.

## 3. Modules and the code

**ContentionWindow.** `CwOf` is the if-else ladder both handlers walk. A 32-bit word is the set of
its one bits, so `Accumulate` (`tmp = w << 10; w |= tmp`) is a union and the width is explicit.

**EditContentionWindow.** One step per iteration of the loop, which reuses its parameter as the
accumulator; `NextEdit` is the next call, with another count, over the registers as they were left.

**Unlock.** All state is a function of the node. `mod` says how far `unlock_init` or `unlock_exit`
has come; the handlers may run between their steps. `LoadRequest` (GPIOs, `request_irq`),
`LoadFails`, `LoadStartTimer`, `LoadEditDcu` (one register each), `UnloadCancelTimer`,
`UnloadFreeIrq` are process context. `TimerHandler` is the timer callback. The interrupt handler
is `IrqRefused`, or `IrqAccepted` followed, after the busy wait, by `IrqReturns`; `IrqNoBuffer` and
`IrqSpins` are its paths without a free list. `Pulse` raises the wired nodes' interrupts. A time
stamp is kept as its age, capped at a second, because the code compares only differences with
`T/2`, `T` and a second. `U32Sub` is the unsigned subtraction that programs the timer. `sincePulse`
is a history variable.

**TxBufPool, TxBufList.** The first is the promise: a FIFO whose length may be read at any time. The
second is the kernel's circular list; `ListDel` and `ListAddTail` are the stores these primitives
make, in order, and `Count`, the walk of `get_buf_size`, may fall between any two of them. The
splice that returns an aggregate's buffers runs with interrupts off on the boards and is one step.
Taking and returning buffers is code outside the repository and marked external.

**RateControl.** `main` of packetspammer is a `pc`; `Inject` includes `ath9k_tx` on the other side of
the injection, because the frame is handed over synchronously. `print_speed` reads `sent_byte` at
two moments (`SampleStart`, `SampleEnd`). Integers are `WordSize` wide. When the device could not be
opened, `buf_free` is uninitialised: `Garbage`.

**Ath9kReset.** `DisableInterrupts` and `EnableInterrupts` are the two reference-counting functions,
as `main.c` uses them. `ath_reset_internal` is cut where its locks and `tasklet_disable` let others
in: `DisableTasklet`, `PrepareReset`, `CompleteReset` or `ResetFails` or `RestartFails`, `EndReset`,
for the worker and for the thread that holds `sc->mutex`. `ath9k_stop` is `StopCancelWork`,
`StopInterrupts`, `StopTasklet`, `StopChip`. `lost` is a history variable: a queued reset was
cancelled by going idle while its flag stayed set, or reception could not be restarted.

**Ath9kPowerSave.** A thread's `pc` says whether it is inside the bracket. `WakeupFirst` takes the
lock and dequeues the timer; `WakeupAwake` is past `del_timer_sync`. `TxLooks` is `ath9k_tx`'s look
at `power_mode` without the lock. `StopIdle` and `StopPutsBack` are `ath9k_stop` borrowing `ps_idle`.

**Ath9kLifeCycle.** A probe is a chain of steps; `stage` is the last one done, `held` counts what it
has. Each action is one step and its failure, which releases what the `goto` label does (`ErrHw`,
`ErrQueues`, `ErrBtcoex`, `RxCleanup`, `Unregister`). `leaked` is a history variable, what the last
probe left. `driver` is `ath9k_init` and `ath9k_exit` around it. `ah` is the exported pointer, which
is assigned early in `ath9k_init_softc` and never reset.

**Ath9kInterfaces.** `AddInterface`, `ChangeInterface` and `RemoveInterface` end in
`CalculateSummaryState`, as the code does; `ath9k_vif_iter` over all interfaces is the set
`Present`. mac80211's side is `type`, `p2p`, `assoc` and the combinations `if_comb` allows
(`Allowed`). `Associate`, `Disassociate` and `JoinIbss` are `ath9k_bss_info_changed`; the choice of
another primary station follows in the same step (`BssAssocIter`), any of the associated ones, as the
order of the iteration is not known. `noa`, `p2pVif`, `genTimer` and `asleep` are the absence of a
P2P group owner, which `P2pPsTimer` puts to sleep and wakes. `missed` is a history variable: the mode
came back to STATION without a sync.

**GpioModules.** An init function is a sequence of sets of resources, a fail path a sequence of what
is freed when step 1, 2, ... is refused; so each is one line, next to the code it stands for. A step
is refused because somebody has the resource or for any other reason. `gpio_free` frees a pin
whoever holds it; `free_irq` finds the caller's handler only. `spoiled` is a history variable.

**BoardTools.** The handlers of the loaded modules. `pend` is the latched edge on pin 22 of a board;
`plan` says which modules a board may load, how the boards are wired and whether a cable is loose.
The flipper's handler is cut at its `udelay` (`FlipOpen`, `FlipClose`), that of `unlock.ko` at the
window edit, one DCU per step, and at its `ndelay` (`UnlockIrq`, `UnlockEdits`, `UnlockRefuses` or
`UnlockBacksOff`, `UnlockReturns`). It is a hard interrupt and runs in the middle of the flipper's
handler, never the other way round. The timer handler of `unlock.ko` does not touch the bit and is in
`Unlock` only. `flipped` and `signalled` are history variables. The test of two nodes counts jiffies
(`Jiffy`), because node 2's debounce does.

Composition: `Ath9kDevice` puts the interfaces on the device of `Ath9kLifeCycle`: they may come as
soon as `ieee80211_register_hw` has returned, in the middle of the probe, and are removed by
`ieee80211_unregister_hw`. `BoardTools` extends `GpioModules` and `EditContentionWindow`. `Unlock` extends `ContentionWindow`; `TxBufList` instantiates `TxBufPool`;
`RateControl` puts the pool, the pulses and the character device, each at the level of detail its
properties need, under one `Next`. The two ath9k modules describe disjoint state of one driver.

## 4. Runs and bounds

All configurations check deadlock; none is disabled.

| Run | Question | Bounds, and why they are enough |
| --- | --- | --- |
| `unlock_pair` | two boards wired both ways, each hearing the other's pulses and the echo of its own: lock, radio and timer agree (`RadioFreeBetweenSignals`), pulses are neither too far apart (`Heartbeat`) nor, by the timer, too close (`NoEarlyPulse`), relays die out in the shortest cycle of wires (`TimeAdvances`), the window of `unlock_init` is replaced in every DCU the code writes (`WindowFollowsBuffer`) | both boards send packets first and stay loaded; `T` of 2, so that both halves of the debounce exist; `Delta` 1, so `rng` and `backoff` are 0 or 1; two DCUs, so that a signal can part the edit of `unlock_init`, and counts of 0 and 6, which give different windows; interrupts are served at once (`Latency` 0); a second of 3 ticks, longer than a period |
| `unlock_star` | the documented wiring, hub to left and right: a leaf that heard the hub keeps hearing it (`KeepsHearing`), leaves accept the same pulses (`SiblingsInStep`), `rmmod` leaves the radio able to send (`UnloadLeavesRadioFree`) | the hub sends packets first, a leaf with or without; real spin locks, so that the early return that keeps the lock makes the next signal spin; `T` in {2, 3}, so that it changes under way, and `Delta` in {1, 2}, so that the unsigned wrap (modulo 4) happens; the left leaf is loaded, refused, unloaded and reloaded at any moment; a second of 4 ticks, longer than a period. The constraint `RightComesLast` keeps the three boards within reach: only the hub's parameters are written, and the right leaf takes part only while these have their defaults and the left one is loaded, has a free list and has not kept the lock |
| `unlock_deaf`, `unlock_underflow`, `unlock_log`, `ath9k_bssid` | findings, section 7 | the smallest instance that shows each |
| `txbuf_list` | a walk between any two stores is a count of the pool (`CountsThePool`), no buffer is lost (`NoBufferLost`) | four buffers: an empty, a one-element and a full list, and a returning pair beside others |
| `rate_control` | stale counts stay promises (`CountIsAPromise`), a positive `-c` is met exactly (`StopsAtCount`), the printed rate across a wrap (`SpeedSurvivesWrap`) | two buffers, frames of one byte and words of eight values: the pool empties, `sent_byte` wraps at the fourth frame, `sent_packet` at the eighth; `-c` of 2 and 5, and of 0, about which `StopsAtCount` says nothing (section 7) |
| `ath9k_reset` | the count is exact (`RefCountExact`), somebody turns interrupts on (`SomeoneWillEnable`, `InterruptsComeBack`), a stopped device is quiet (`QuietAfterStop`), no status is overwritten (`NoStatusLost`) | two transmit timeouts make a hang (the code: `MAX_GTT_CNT`); the threads are all the threads there are |
| `power_save` | nobody uses a sleeping chip (`AwakeWhileInUse`, `AwakeWhileWaiting`), full sleep only when idle (`FullSleepMeansIdle`), and an idle chip gets there (`IdleFallsAsleep`) | two bracketing threads beside `ath9k_config` and `ath9k_tx`, so that the first and the last to come and go can be different ones; a chip without automatic sleep, which does more |
| `ath9k_device` | a failing probe undoes what it did (`DeviceUnwound`); the driver's summary agrees with the interfaces there are, one associated station is primary, its network is programmed, no group owner is left asleep (`InterfacesAgree`) | three interfaces, so that the primary station can leave two others behind, or share the device with an access point and an ad hoc interface; two networks; interfaces and networks symmetric; `PlainDevice`: interfaces come to a device without DFS detector and EEPROM file, with which they have nothing to do, and only after two of the three steps at which the code lets them |
| `board_tools` | resources are those of the loaded modules (`ResourcesMatchLoads`); the radio is quiet between the flipper's windows (`QuietBetweenWindows`); each of the eight DCUs the loop writes gets the window of the count (`EditedFields`), the ladder is monotone (`CwMonotone`); tests end (`TestsEnd`) | five plans: `unlock.ko` with the flipper; the latency test with a cable that may be loose; the two test nodes; two logging boards that unlock each other over loose cables; and every module that wants the same pins. Log and tests of three entries, so that each fills up while signals are still coming; counts at both ends of each rung of the ladder, eight of ten DCUs, 32-bit words |

Bounds that exist only for the model, all constants: `Second`, `NsWrap`, `Latency`, `WordSize`,
`FrameLen`, `NBuf`, `MaxGtt`, `RecordCount`, `NumTests`, `MissedIrqMax`, `MaxTestCount`; the constraints
`PlainDevice` and `RightComesLast`; and the plans. Every run of `Unlock` has `Latency` 0 and at most two
values of `T`: the theorems of section 6 hold for any latency, the two liveness properties
`TimeAdvances` and `WindowFollowsBuffer` are checked without one only. `sincePulse` of `Unlock` stops when neither timer nor backoff runs;
no guard cuts off a behaviour otherwise, but for `RestartFails`, which happens once between two
starts: after it the interrupt count cannot reach zero before the next start, so that a second
failure would only lower a number nobody compares.

Every property of a passing run has a mutant in `PROJECT.json`: a plausible slip in the code (a
stamp that is not shifted, the timer not forwarded, stores in another order, a count not given
back) under which the run finds the property violated.

## 5. Fairness

* `Unlock!FairSpec`: weak fairness of `Tick` (time passes when no interrupt is overdue), of both
  handlers (an enabled interrupt stays enabled until served) and of the continuing steps of
  `unlock_init` and `unlock_exit`. Nobody is obliged to load, unload, write a parameter or send.
* `Ath9kReset!FairSpec`: weak fairness of the work queue and of a thread inside a reset or a stop.
  Strong fairness where a thread waits for `sc_pcu_lock` or the tasklet is held back by
  `tasklet_disable`: the lock is handed on in turn, and the softirq is retried until it runs. The
  hardware and mac80211 owe nothing.
* `BoardTools!BoardFairSpec`: weak fairness of the timers of the tests, of node 2's interrupt, of the
  end of node 1's poll, which is a loop of a million turns, and of the jiffies. The jiffies of the two
  boards alternate and a board serves what is due before its next one: the crystals are alike and no
  handler of the test is as long as a jiffy. Edges may get lost for ever, and nobody has to load or
  unload.
* `BoardTools!BoardLogSpec`, of the run `unlock_log` only: besides, weak fairness of the logging module's
  timer. A queued timer expires; whether it is queued again is up to the code.
* `Ath9kPowerSave!FairSpec`: the timer expires, its handler ends; no thread has to leave.

## 6. Proofs

The assumptions are the named `ASSUME`s of the modules, which TLC evaluates in the runs. They say no
more than the types of the constants and what the code fixes: that no wire leads from a node to
itself and the unsigned type is wider than a period (`UnlockAssumption`); that the register field
and the DCUs are those of the loop (`EditAssumption`); that `int` has an even number of values
(`RateAssumption`); that an interface is one of finitely many (`InterfacesAssumption`: the code
announces at most 2048 in `init.c`); that a plan puts every
module but the logging one on one board at most, as the models keep the counters of one instance
(`PlansAssumption`); that there are finitely many buffers and the head of
the list is none of them (`ListAssumption`); and bounds of counters (`ToolsAssumption`,
`ResetAssumption`, `PowerAssumption`).

Some theorems about `Unlock` have premises of their own, which they state:

* `PacketsFirst` (`TxFirst = Node`): packets are sent before `insmod`, as the README of the repository asks.
* `SafePeriods`: `MinT >= 4 * MaxDelta - 2`, every period has room for the two random terms the code
  subtracts. Without it there is the second finding of section 7.
* `LongSecond`: a second is longer than three periods and what interrupts may be late. The default
  `T` is 20 ms and `Delta` 100 us (`unlock.c:44-48`), which leaves a factor of sixteen.
* `NoUnload` (`MayUnload = {}`): nothing is unloaded. `rmmod` of the source makes its leaves deaf, which
  is the first finding.
* `StarWired`, `SamePeriod`, `ShortLatency`: every source has no source of its own and is the only one
  of its leaves; all nodes have one `T`; an interrupt is late by less than a quarter of `T`, and `T`
  is shorter than a second.

Runs and theorems complement each other here. `unlock_pair` satisfies `PacketsFirst`, `SafePeriods` and
`NoUnload`, so that the three safety properties it checks are instances of their theorems.
`unlock_star` satisfies none of these, nor `LongSecond`: it shows `KeepsHearing` with a second hardly
longer than a period, for a leaf that comes and goes and a hub whose `T` and `Delta` change, and `SiblingsInStep`
for a left leaf that may have been unloaded and reloaded before the right one comes.

| Module | Theorems | Argument |
| --- | --- | --- |
| `EditContentionWindowProofs` | `CwOfMonotone`; `EditedFieldsCorrect`, `CwMonotoneAlways` | The ladder: a case split over the rungs. The loop: `IInv` adds to `EditedFields` what the accumulator holds after `qnum` rounds: its bits 0..9 are those of the window and, after the first round, bits 10..19 their copy. Without it nothing is known of the next register. |
| `UnlockProofs` | `TypeCorrect`; `RadioFree` | `FreeInv` adds that the free list is published on every node, which makes the two early returns that leave state behind unreachable. |
| `UnlockProofs` | `UnloadLeavesRadioFreeHolds` | `UnloadInv`: the radio is quiet only during a backoff, and a module that is out has no backoff and no pending interrupt, and `unlocked` is clear. It needs none of the premises above: a handler that spins for ever keeps `rmmod` from ending. |
| `UnlockProofs` | `HeartbeatHolds`, `NoEarlyPulseHolds` | `PulseSpacing`: for a queued timer `sincePulse + timer`, and during a backoff `sincePulse + delay + restart`, lie in `Slot`, the window in which the next pulse falls. Time moves one term up and the other down, so only the programming of the timer has to be computed: there `SafePeriods` excludes the unsigned wrap. |
| `UnlockProofs` | `KeepsHearingHolds` | `HearInv`: a node that has heard a signal has either an edge waiting or a source whose next pulse comes before the age gets too large. The source may change from step to step: a pulse that the debounce refuses passes the obligation on to that source's next one, a source in the middle of `insmod` to the pulse its new timer will give. |
| `UnlockProofs` | `SiblingsInStepHolds` | `StepInv` compares each leaf with its source: the age of what the leaf accepted is the time since the source's last pulse, up to a latency, or the leaf has that pulse waiting and the age is one period more. So no leaf that hears ever refuses a pulse, for its age is then near `T`, far from `T/2` and from a second. |
| `TxBufListProofs` | `ListTypeCorrect`, `NoBufferLostHolds`, `ListImplementsPool` | `ListInv`: some list of distinct buffers is what the `next` pointers follow from the head to the head, and the edit in progress is at one of the points between its stores (`Unlinking`, `Poisoning`, `Linking`, one clause each). Taking the first entry becomes visible to a walk with the store to the head, appending one with the store to the last entry; every other store is a stutter of the pool. What the walk returns is a statement about a recursive function along the list; `LeastNatural` (every set of naturals has a least element) stands in for induction. |
| `RateControlProofs` | `RateTyped`, `CountIsAPromiseHolds` | `free + sincePulse >= bufCounter`: a frame takes at most one buffer, everything else gives back |
| `RateControlProofs` | `StopsAtCountHolds` | `FrameInv` says at each program point how far `sent_packet` is behind the frames injected, and that it wraps only with the last one |
| `RateControlProofs` | `SpeedSurvivesWrapHolds` | `ReadingInv`: every reading is the `int` of the bytes counted by then; differences of such `int`s are those of the counts (`SignedSum`) |
| `Ath9kResetProofs` | `TypeCorrect`, `RefCountExactHolds`, `SomeoneWillEnableHolds`, `QuietAfterStopHolds`, `NoStatusLostHolds` | `ResetInv`: the lock and `tasklet_disable` bracket a reset (`Brackets`), the count is minus what is owed, or one less when reception was lost (`Count`), and interrupts off for no other reason mean a flagged, queued reset (`Awaited`). `RefCountExact` alone is not inductive: that two threads are never both between the halves of a reset comes from `Brackets`. |
| `Ath9kPowerSaveProofs` | `TypeCorrect`, `AwakeWhileInUseHolds`, `AwakeWhileWaitingHolds`, `FullSleepMeansIdleHolds` | `PowerInv`: `ps_usecount` is the number of threads inside; the thread that waits for the timer is alone and holds the lock; a queued timer means nobody is inside, and a running handler that nobody is past `del_timer_sync`. The handler takes no lock; these clauses are the reason it need not. |
| `Ath9kDeviceProofs` | `DeviceUnwoundHolds` | `LifeInv`: for each resource the stages at which the device has it (`Holding`). Every `goto` label is then shown to release what the stage at which it is reached had acquired, but for `Forgotten`. |
| `Ath9kDeviceProofs` | `DeviceTyped`, `InterfacesAgreeHolds` | `IfaceInv` adds what mac80211 grants (only stations associate, one interface is P2P) and states the only primary station without counting (`SolePrimary`). For any finite set of interfaces, any networks and all types of interfaces, mesh and WDS included. |
| `BoardToolsProofs` | `ResourcesMatchLoadsHolds` | `GpioInv`: what is loaded is planned, and only the two unlock modules leave in two steps. `UnwindFreesTaken`: each fail path frees what the steps before it took, unless it `spoiled` somebody's pin. |
| `BoardToolsProofs` | `QuietBetweenWindowsHolds` | `RadioInv`: the flipper's window is open only while it is loaded |
| `BoardToolsProofs` | `BoardTyped` | `LatInv`, `NodeInv`: a timer of a test runs only while tests are left, so no counter passes its end |
| `BoardToolsProofs` | `BoardEdits` | the board implements `EditContentionWindow!Spec`; so `EditedFieldsCorrect` and `CwMonotoneAlways` hold of the interrupt handler as well |

`SiblingsInStep` is not true of all wirings and parameters; TLC's simulation finds counterexamples
when a premise is dropped. Two leaves of the same two sources may accept different ones of their
pulses. A source that is itself unlocked may pulse by its timer and again by its own signal within a
leaf's debounce, or just after it. A leaf whose `T` is more than twice the source's refuses pulses its
sibling accepts.

## 7. Findings

* `unlock_deaf`: the debounce refuses a signal when the difference to the last one has a non-zero
  `tv_sec` (`unlock.c:147`). `last_unlock` moves only when a signal is accepted, so a node that has
  heard nothing for a second after `insmod`, or lost its upstream that long, ignores every later
  signal, until it is loaded again. It goes on pulsing by its own timer.
* `unlock_underflow`: `next_timer` and `backoff` are unsigned. When `T - rng < backoff`, which needs
  `T < 4 * Delta`, the subtraction at `unlock.c:182` wraps, the guard that follows can never fire,
  and the timer is programmed seconds ahead. With the default parameters it does not happen.
* `ath9k_bssid`: the comment at `main.c:1180` says a beacon sync is needed when the mode changes to
  STATION; the code does it only when the old mode was AP (`main.c:1184`). A station that joined while
  a mesh or ad hoc interface held the mode is primary and its BSSID is not programmed, also after that
  interface is gone. `InterfacesAgree` states that this is the only way to get there in STATION mode.
* `unlock_log`: the comments of `unlock_with_log.c` call its timer "used to periodically send out
  unlocking signal" (54) and `T` "how often (in us) to send unlocking signal" (37). The timer handler
  forwards the timer and returns `HRTIMER_NORESTART` (86): it fires once for every time `unlock_init` or
  the interrupt handler starts it, and a board that receives no signal sends one and falls silent.

Two disagreements are described here without a run of their own:

* `packetspammer -c 0`: the usage text says "0 for infinity" (`packetspammer.c:183`). `sent_packet` is
  incremented and then compared with `count` (431), so it equals 0 when it wraps, and the loop ends
  after 2^32 frames. The instance of `rate_control` contains such behaviours; `StopsAtCount` is not
  about them.
* The window edit: "use loop to unify operations on all 10 DCU units" (`unlock.c:275`), while the loop
  in the next line writes eight. `EditedFields` speaks of those eight; the registers of the last two keep
  what the driver put there.

Smaller observations the models show, which we know no document of the repository to deny:

* Every failure inside `ath9k_init_softc` leaks the DFS detector; the EEPROM file is leaked when the
  GPIO is refused, and Bluetooth coexistence when the channels cannot be set up (`Forgotten`).
* `ath9k_ah` points to freed memory after a failed probe or an unbind; `unlock.ko` writes through it.
* An interface changed from P2P client to ordinary station stays `p2p_ps_vif` with the old absence,
  which puts its new network to sleep.
* `record_gpio_event`, `interrupt_test_node1` and `interrupt_test_node2`, refused their pins, free
  those of the module that has them.
* `unlock_with_log`: a signal between `request_irq` and `hrtimer_start` makes the timer run twice for
  what looks like one reason; a full log ends the relaying; removing the flipper leaves the radio
  quiet.

Others are in the hazards: the timer handler returns no value without a free list
(`unlock.c:79`), a signal between `hrtimer_cancel` and `free_irq` queues the timer of a module about
to go (`unlock.c:251`), going idle leaves `ATH_OP_HW_RESET` set.

## 8. Only model-checked

Liveness (`TimeAdvances`, `WindowFollowsBuffer`, `InterruptsComeBack`, `IdleFallsAsleep`, `TestsEnd`),
the fairness it rests on, and anything that speaks of `ENABLED`, so also the absence of deadlock, is
beyond the prover. All other properties of the passing runs are theorems, under the premises of
section 6; what the runs show beyond those premises (`KeepsHearing` with a shorter second) is
model-checked only, and so is `SiblingsInStep` for a leaf that was reloaded.

## 9. Not modelled

* Steps of the wall clock: `do_gettimeofday` differences become negative or large; ages grow with
  real time in the model. `Delta = 0` traps in `rng %= Delta + Delta` and stops the board.
* The hrtimer that may survive `rmmod`: from there on it is freed code. `Unlock` keeps `armed` and
  does not reload such a node; `BoardTools` forgets the timer at the next `insmod`.
* Accesses to a softc that was freed: `Ath9kLifeCycle` shows that `ath9k_ah` may dangle, and stops
  there.
* Of the interfaces: beacon slots beyond whether one is taken, the slot time, `ATH_OP_BEACONS`, mesh
  and WDS in the passing run (the mode they give is in the module), stations, keys, aggregation.
* The second unregistration of the class in `ebbchar_exit`, and `rmmod` while the device is open: the
  reference counts of the driver core. The write entry, whose string nobody reads.
* `set_contention_window.c`, which zeroes the fields of DCU 1 once and prints (its timer is commented
  out); `kernel_timing_test.c`, which reads the
  clock in its init function; the radiotap parser, which is linked and never called.
* The inside of the transmit and receive paths (`xmit.c`, `recv.c` are not in the repository), the
  frame template, option parsing, the survey, antenna, spectral scan and TSF entries: sequential
  register accesses under one mutex.
* In `Unlock` the relaxed memory order of several CPUs: the boards have one.
* Everything listed as left in section 2.
