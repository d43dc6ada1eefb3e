---------------------------- MODULE BoardTools ----------------------------
(***************************************************************************)
(* The modules of kernel-module/ at work on wired boards: unlock_with_log, *)
(* the latency tests, the recorder, and flip_quiet_coll_bit beside the     *)
(* handler of unlock.c, which edits the contention window first.           *)
(*                                                                         *)
(* A board has one core.  An interrupt handler is not interrupted and runs *)
(* between any two steps of a timer handler; insmod and rmmod run when     *)
(* neither does.  A falling edge on pin 22 stays pending until its handler *)
(* runs.  Times are abstract: a signal is early (the debounce refuses it), *)
(* ripe or a second old, and a timer may expire whenever it is pending,    *)
(* except for the two-node test, where jiffies are counted.                *)
(***************************************************************************)
EXTENDS GpioModules, EditContentionWindow

CONSTANTS RecordCount,   \* RECORD_COUNT of the log and of the recorder
          NumTests,      \* NUM_TESTS of the latency test
          MissedIrqMax,  \* MISSED_IRQ_MAX
          TestCount,     \* parameter test_count of node 1
          MaxTestCount   \* MAX_TEST_COUNT

ASSUME ToolsAssumption ==
  /\ {RecordCount, NumTests, MaxTestCount} \subseteq Nat \ {0}
  /\ {MissedIrqMax, TestCount} \subseteq Nat

VARIABLES
  pend,     \* boards with an edge on pin 22 that no handler has seen
  log,      \* log[b]: who triggered the entries of unlock_with_log's log
  age,      \* age[b]: of its last_unlock
  records,  \* cur_count of the recorder
  lat,      \* test_data of the latency test, and the level of its output
  node,     \* test_data of node 1, and its timer; nothing depends on missed_count
  gap,      \* node 2: jiffies since last_interrupt_time, 2 for more
  turn,     \* the board whose jiffies move next
  irqAt,    \* where the handler of unlock.ko is: "none", "edit" or "backoff"
  quiet,    \* AR_PCU_FORCE_QUIET_COLL
  window,   \* release_force_quiet_coll is in its udelay
  flipped,  \* history: it has returned at least once
  signalled \* history: unlock.ko has cleared the bit since

editVars  == vars
logVars   == <<log, age>>
nodeVars  == <<node, gap, turn>>
radioVars == <<irqAt, quiet, window, flipped, signalled>>
boardVars == <<gpioVars, pend, logVars, records, lat, nodeVars, radioVars, editVars>>

FreshLat  == [fired |-> FALSE, tests |-> 0, missed |-> 0, high |-> TRUE,
              enabled |-> TRUE]
FreshNode == [due |-> 2, polling |-> FALSE, seen |-> FALSE, passes |-> 0]

Uses(m) == \E b \in Board : m \in plan.load[b]

BoardInit ==
  /\ GpioInit /\ Init
  /\ ~Uses("unlock") => size = CHOOSE s \in BufSizes : TRUE
  /\ pend = {}
  /\ log = [b \in Board |-> <<>>] /\ age = [b \in Board |-> "early"]
  /\ records = 0
  /\ lat = FreshLat
  /\ node = FreshNode /\ gap = 2 /\ turn \in {b \in Board : plan.load[b] # {}}
  /\ irqAt = "none" /\ quiet = FALSE /\ window = FALSE
  /\ flipped = FALSE /\ signalled = FALSE

-----------------------------------------------------------------------------
\* A falling edge on the output of src, with "kept" of the edges before it.
Edge(kept, src) ==
  LET hears == {b \in Board : <<src, b>> \in plan.wires /\ owner'[b]["irq22"] # Free}
  IN  pend' = kept \cup hears \/ (plan.lossy /\ pend' = kept)

Pending(b, m) == b \in pend /\ owner[b]["irq22"] = m

\* No handler is running on b.
Idle(b) == /\ "unlock" \in plan.load[b] => irqAt = "none"
           /\ "flip" \in plan.load[b] => ~window
           /\ "node1" \in plan.load[b] => ~node.polling

OutsideSignal ==
  /\ \E b \in Board : <<Outside, b>> \in plan.wires /\ b \notin pend
                      /\ owner[b]["irq22"] # Free /\ pend' = pend \cup {b}
  /\ UNCHANGED <<gpioVars, logVars, records, lat, nodeVars, radioVars, editVars>>

\* One step of insmod; the last one of the latency test drops its output.
Insmod(b, m) ==
  /\ Idle(b) /\ LoadStep(b, m)
  /\ IF m = "latency" /\ NextStep(b, m) = Len(LatencyInit)
     THEN Edge(pend, b) /\ lat' = [lat EXCEPT !.high = FALSE]
     ELSE UNCHANGED <<pend, lat>>
  /\ UNCHANGED <<logVars, records, nodeVars, radioVars, editVars>>

InsmodRefused(b, m) ==
  /\ Idle(b) /\ RefuseStep(b, m)
  /\ UNCHANGED <<pend, logVars, records, lat, nodeVars, radioVars, editVars>>

-----------------------------------------------------------------------------
(* unlock_with_log.c *)

\* The entry, the pulse and the count of both handlers, while there is room.
Record(b, kept, trigger) ==
  IF Len(log[b]) < RecordCount
  THEN log' = [log EXCEPT ![b] = Append(@, trigger)] /\ Edge(kept, b)
  ELSE pend' = kept /\ UNCHANGED log

\* HRTIMER_NORESTART: forwarding the timer does not start it again.
LogTimer(b) ==
  /\ "unlock_with_log" \in armed[b] /\ stage[b]["unlock_with_log"] # 0
  /\ armed' = [armed EXCEPT ![b] = @ \ {"unlock_with_log"}]
  /\ UNCHANGED <<plan, stage, owner, spoiled>>
  /\ Record(b, pend, "timer")
  /\ UNCHANGED <<age, records, lat, nodeVars, radioVars, editVars>>

LogIrqRefused(b) ==
  /\ Pending(b, "unlock_with_log") /\ age[b] # "ripe"
  /\ pend' = pend \ {b}
  /\ UNCHANGED <<gpioVars, logVars, records, lat, nodeVars, radioVars, editVars>>

LogIrq(b) ==
  /\ Pending(b, "unlock_with_log") /\ age[b] = "ripe"
  /\ armed' = [armed EXCEPT ![b] = @ \cup {"unlock_with_log"}]
  /\ UNCHANGED <<plan, stage, owner, spoiled>>
  /\ Record(b, pend \ {b}, "irq")
  /\ age' = [age EXCEPT ![b] = "early"]
  /\ UNCHANGED <<records, lat, nodeVars, radioVars, editVars>>

Age(b) ==
  /\ stage[b]["unlock_with_log"] # 0 /\ age[b] # "old"
  /\ age' = [age EXCEPT ![b] = IF @ = "early" THEN "ripe" ELSE "old"]
  /\ UNCHANGED <<gpioVars, pend, log, records, lat, nodeVars, radioVars, editVars>>

LogExitTimer(b) ==
  /\ LeaveTimer(b, "unlock_with_log")
  /\ UNCHANGED <<pend, logVars, records, lat, nodeVars, radioVars, editVars>>

LogExit(b) ==
  /\ LeaveIrq(b, "unlock_with_log")
  /\ pend' = pend \ {b}
  /\ log' = [log EXCEPT ![b] = <<>>] /\ age' = [age EXCEPT ![b] = "early"]
  /\ UNCHANGED <<records, lat, nodeVars, radioVars, editVars>>

-----------------------------------------------------------------------------
(* record_gpio_event.c and gpio_timeline.c *)

RecordIrq(b) ==
  /\ Pending(b, "record_gpio_event")
  /\ pend' = pend \ {b}
  /\ records' = IF records < RecordCount THEN records + 1 ELSE records
  /\ UNCHANGED <<gpioVars, logVars, lat, nodeVars, radioVars, editVars>>

RecordExit(b) ==
  /\ Idle(b) /\ Leave(b, "record_gpio_event", Pins \cup {"irq22"})
  /\ pend' = pend \ {b} /\ records' = 0
  /\ UNCHANGED <<logVars, lat, nodeVars, radioVars, editVars>>

TimelineIrq(b) ==
  /\ Pending(b, "gpio_timeline")
  /\ pend' = pend \ {b}
  /\ UNCHANGED <<gpioVars, logVars, records, lat, nodeVars, radioVars, editVars>>

TimelineExit(b) ==
  /\ Idle(b) /\ Leave(b, "gpio_timeline", AllPins \cup Irqs)
  /\ pend' = pend \ {b}
  /\ UNCHANGED <<logVars, records, lat, nodeVars, radioVars, editVars>>

EbbcharExit(b) ==
  /\ Idle(b) /\ Leave(b, "ebbchar", {"device", "class", "major"})
  /\ UNCHANGED <<pend, logVars, records, lat, nodeVars, radioVars, editVars>>

-----------------------------------------------------------------------------
(* gpio-irq-latency-test.c *)

LatencyIrq(b) ==
  /\ Pending(b, "latency") /\ lat.enabled
  /\ pend' = pend \ {b}
  /\ lat' = [lat EXCEPT !.fired = TRUE, !.high = TRUE]
  /\ UNCHANGED <<gpioVars, logVars, records, nodeVars, radioVars, editVars>>

\* Mutant: an interrupt that never came is not counted.
JudgeLenient(ok) ==
  [lat EXCEPT !.fired = FALSE, !.tests = IF ok THEN @ + 1 ELSE @,
              !.missed = IF ~ok /\ lat.fired THEN @ + 1 ELSE @]

\* The outcome of a test: an interrupt within the second passes.
Judge(ok) ==
  [lat EXCEPT !.fired = FALSE, !.tests = IF ok THEN @ + 1 ELSE @,
              !.missed = IF ok THEN @ ELSE @ + 1]

\* All tests passed, or too many interrupts missed.
Finished(d) == d.tests >= NumTests \/ d.missed > MissedIrqMax

\* The next test drops the output, which is no edge when it is low already.
LatencyTimer(b) ==
  /\ "latency" \in armed[b]
  /\ UNCHANGED <<plan, stage, owner, spoiled>>
  /\ \E ok \in {FALSE, lat.fired} :
       IF Finished(Judge(ok))
       THEN /\ armed' = [armed EXCEPT ![b] = @ \ {"latency"}]
            /\ lat' = [Judge(ok) EXCEPT !.enabled = FALSE]
            /\ UNCHANGED pend
       ELSE /\ lat' = [Judge(ok) EXCEPT !.high = FALSE]
            /\ IF lat.high THEN Edge(pend, b) ELSE UNCHANGED pend
            /\ UNCHANGED armed
  /\ UNCHANGED <<logVars, records, nodeVars, radioVars, editVars>>

LatencyExit(b) ==
  /\ Idle(b) /\ Leave(b, "latency", Pins \cup {"irq22"})
  /\ pend' = pend \ {b} /\ lat' = FreshLat
  /\ UNCHANGED <<logVars, records, nodeVars, radioVars, editVars>>

-----------------------------------------------------------------------------
(* interrupt_test_node1.c and interrupt_test_node2.c *)

MaxCount == IF TestCount > MaxTestCount THEN MaxTestCount ELSE TestCount

\* The timer handler pulses and begins to poll.
Node1Pulse(b) ==
  /\ "node1" \in armed[b] /\ node.due = 0 /\ ~node.polling
  /\ armed' = [armed EXCEPT ![b] = @ \ {"node1"}]
  /\ UNCHANGED <<plan, stage, owner, spoiled>>
  /\ Edge(pend, b)
  /\ node' = [node EXCEPT !.polling = TRUE, !.seen = FALSE]
  /\ UNCHANGED <<logVars, records, lat, gap, turn, radioVars, editVars>>

\* The rest of the handler; it has given up when the answer was not seen,
\* which takes longer than node 2 takes to answer.
Node1PollEnds(b) ==
  LET passes == IF node.seen THEN node.passes + 1 ELSE node.passes
      done   == node.seen /\ passes >= MaxCount
  IN  /\ Loaded(b, "node1") /\ node.polling
      /\ node.seen \/ ~\E c \in Board : Pending(c, "node2")
      /\ node' = [node EXCEPT !.polling = FALSE, !.seen = FALSE, !.due = 2,
                              !.passes = passes]
      /\ armed' = [armed EXCEPT ![b] = IF done THEN @ ELSE @ \cup {"node1"}]
      /\ UNCHANGED <<plan, stage, owner, spoiled, pend, logVars, records, lat,
                     gap, turn, radioVars, editVars>>

Node1Exit(b) ==
  /\ Idle(b) /\ Leave(b, "node1", Pins)
  /\ node' = FreshNode
  /\ UNCHANGED <<pend, logVars, records, lat, gap, turn, radioVars, editVars>>

\* The debounce.
Bounces == gap <= 1

\* An answer reaches node 1 if it is wired and polling.
Node2Irq(b) ==
  /\ Pending(b, "node2")
  /\ UNCHANGED gpioVars
  /\ IF Bounces THEN pend' = pend \ {b} /\ UNCHANGED <<node, gap>>
     ELSE /\ Edge(pend \ {b}, b)
          /\ gap' = 0
          /\ node' = [node EXCEPT !.seen = @ \/ (node.polling /\
                        \E c \in Board : Loaded(c, "node1") /\ <<b, c>> \in plan.wires)]
  /\ UNCHANGED <<logVars, records, lat, turn, radioVars, editVars>>

Node2Exit(b) ==
  /\ Idle(b) /\ Leave(b, "node2", Pins \cup {"irq22"})
  /\ pend' = pend \ {b} /\ gap' = 2
  /\ UNCHANGED <<logVars, records, lat, node, turn, radioVars, editVars>>

\* The jiffies of the two boards move in turn, and a board serves what is due
\* before its next jiffy.
Jiffy(b) ==
  /\ Uses("node1") /\ Uses("node2") /\ turn = b /\ ~Pending(b, "node2")
  /\ "node1" \in armed[b] => node.due > 0
  /\ turn' \in Board \ {b}
  /\ node' = IF "node1" \in armed[b] THEN [node EXCEPT !.due = @ - 1] ELSE node
  /\ gap' = IF "node2" \in plan.load[b] /\ gap < 2 THEN gap + 1 ELSE gap
  /\ UNCHANGED <<gpioVars, pend, logVars, records, lat, radioVars, editVars>>

-----------------------------------------------------------------------------
(* flip_quiet_coll_bit.c beside unlock.c *)

\* release_force_quiet_coll up to its udelay.
FlipOpen(b) ==
  /\ "flip" \in armed[b] /\ irqAt = "none"
  /\ armed' = [armed EXCEPT ![b] = @ \ {"flip"}]
  /\ quiet' = FALSE /\ window' = TRUE
  /\ UNCHANGED <<plan, stage, owner, spoiled, pend, logVars, records, lat,
                 nodeVars, irqAt, flipped, signalled, editVars>>

\* The rest of it.
FlipClose(b) ==
  /\ "flip" \in plan.load[b] /\ window /\ irqAt = "none"
  /\ armed' = [armed EXCEPT ![b] = @ \cup {"flip"}]
  /\ quiet' = TRUE /\ window' = FALSE /\ flipped' = TRUE /\ signalled' = FALSE
  /\ UNCHANGED <<plan, stage, owner, spoiled, pend, logVars, records, lat,
                 nodeVars, irqAt, editVars>>

\* del_timer: the bit stays as it is.
FlipExit(b) ==
  /\ Idle(b) /\ Leave(b, "flip", {})
  /\ UNCHANGED <<pend, logVars, records, lat, nodeVars, radioVars, editVars>>

\* unlock_r_irq_handler begins with the window of a new count.
UnlockIrq(b) ==
  /\ Pending(b, "unlock") /\ irqAt = "none"
  /\ pend' = pend \ {b} /\ irqAt' = "edit"
  /\ NextEdit \/ (qnum = 0 /\ UNCHANGED editVars)
  /\ UNCHANGED <<gpioVars, logVars, records, lat, nodeVars, quiet, window,
                 flipped, signalled>>

UnlockEdits ==
  /\ irqAt = "edit" /\ EditDcu
  /\ UNCHANGED <<gpioVars, pend, logVars, records, lat, nodeVars, radioVars>>

UnlockRefuses ==
  /\ irqAt = "edit" /\ qnum = Edited
  /\ irqAt' = "none"
  /\ UNCHANGED <<gpioVars, pend, logVars, records, lat, nodeVars, quiet, window,
                 flipped, signalled, editVars>>

UnlockBacksOff ==
  /\ irqAt = "edit" /\ qnum = Edited
  /\ irqAt' = "backoff" /\ quiet' = TRUE
  /\ UNCHANGED <<gpioVars, pend, logVars, records, lat, nodeVars, window, flipped,
                 signalled, editVars>>

\* Mutant: the bit is cleared by the timer only.
UnlockStaysQuiet(b) ==
  /\ irqAt = "backoff" /\ owner[b]["irq22"] = "unlock"
  /\ irqAt' = "none" /\ signalled' = TRUE
  /\ armed' = [armed EXCEPT ![b] = @ \cup {"unlock"}]
  /\ UNCHANGED <<plan, stage, owner, spoiled, pend, logVars, records, lat, nodeVars,
                 quiet, window, flipped, editVars>>

UnlockReturns(b) ==
  /\ irqAt = "backoff" /\ owner[b]["irq22"] = "unlock"
  /\ irqAt' = "none" /\ quiet' = FALSE /\ signalled' = TRUE
  /\ armed' = [armed EXCEPT ![b] = @ \cup {"unlock"}]
  /\ UNCHANGED <<plan, stage, owner, spoiled, pend, logVars, records, lat, nodeVars,
                 window, flipped, editVars>>

UnlockExitTimer(b) ==
  /\ Idle(b) /\ LeaveTimer(b, "unlock")
  /\ UNCHANGED <<pend, logVars, records, lat, nodeVars, radioVars, editVars>>

UnlockExit(b) ==
  /\ Idle(b) /\ LeaveIrq(b, "unlock")
  /\ pend' = pend \ {b}
  /\ UNCHANGED <<logVars, records, lat, nodeVars, radioVars, editVars>>

-----------------------------------------------------------------------------
LogStep(b) ==
  LogTimer(b) \/ LogIrqRefused(b) \/ LogIrq(b) \/ Age(b) \/ LogExitTimer(b) \/ LogExit(b)

RecorderStep(b) ==
  RecordIrq(b) \/ RecordExit(b) \/ TimelineIrq(b) \/ TimelineExit(b) \/ EbbcharExit(b)

LatencyStep(b) == LatencyIrq(b) \/ LatencyTimer(b) \/ LatencyExit(b)

NodeStep(b) ==
  \/ Node1Pulse(b) \/ Node1PollEnds(b) \/ Node1Exit(b)
  \/ Node2Irq(b) \/ Node2Exit(b) \/ Jiffy(b)

RadioStep(b) ==
  \/ FlipOpen(b) \/ FlipClose(b) \/ FlipExit(b)
  \/ UnlockIrq(b) \/ UnlockReturns(b) \/ UnlockExitTimer(b) \/ UnlockExit(b)

BoardNext ==
  \/ \E b \in Board, m \in Module : Insmod(b, m) \/ InsmodRefused(b, m)
  \/ OutsideSignal \/ UnlockEdits \/ UnlockRefuses \/ UnlockBacksOff
  \/ \E b \in Board : LogStep(b) \/ RecorderStep(b) \/ LatencyStep(b)
                      \/ NodeStep(b) \/ RadioStep(b)

BoardSpec == BoardInit /\ [][BoardNext]_boardVars

\* Timers expire, interrupts are served, handlers return and jiffies go by.
BoardFairSpec ==
  /\ BoardSpec
  /\ \A b \in Board :
       /\ WF_boardVars(LatencyTimer(b))
       /\ WF_boardVars(Node1Pulse(b)) /\ WF_boardVars(Node1PollEnds(b))
       /\ WF_boardVars(Node2Irq(b)) /\ WF_boardVars(Jiffy(b))

\* The timer of unlock_with_log expires too when it is queued.
BoardLogSpec == BoardFairSpec /\ \A b \in Board : WF_boardVars(LogTimer(b))

-----------------------------------------------------------------------------
BoardTypeOK ==
  /\ GpioTypeOK /\ TypeOK
  /\ pend \subseteq Board
  /\ \A b \in Board : Len(log[b]) <= RecordCount
  /\ age \in [Board -> {"early", "ripe", "old"}]
  /\ records \in 0..RecordCount
  /\ lat \in [fired : BOOLEAN, tests : 0..NumTests, missed : 0..MissedIrqMax + 1,
               high : BOOLEAN, enabled : BOOLEAN]
  /\ node \in [due : 0..2, polling : BOOLEAN, seen : BOOLEAN,
                passes : 0..MaxTestCount]
  /\ gap \in 0..2 /\ turn \in Board
  /\ irqAt \in {"none", "edit", "backoff"}
  /\ {quiet, window, flipped, signalled} \subseteq BOOLEAN

\* From the first window of flip_quiet_coll_bit on, the radio is quiet outside
\* the windows, also when the module is out, unless a signal accepted since
\* the last window made unlock.ko clear the bit; and a backoff of unlock.ko is
\* never cut short (flip_quiet_coll_bit.c:26-33, unlock.c:174-180).
QuietBetweenWindows ==
  /\ irqAt = "backoff" => quiet
  /\ flipped /\ ~window /\ irqAt # "backoff" => (quiet <=> ~signalled)

LatencyTesting == \E b \in Board : Loaded(b, "latency") /\ "latency" \in armed[b]

NodesTesting ==
  /\ \E b, c \in Board : b # c /\ Loaded(b, "node1") /\ Loaded(c, "node2")
  /\ node.passes < MaxCount

\* A test comes to its end whatever interrupts get lost, as the latency test
\* counts what it misses; and the test of two nodes does although node 2
\* ignores signals that come too soon, unless a module is unloaded
\* (gpio-irq-latency-test.c:60-115, interrupt_test_node1.c:33-81,
\* interrupt_test_node2.c:33-47).
TestsEnd == /\ LatencyTesting ~> ~LatencyTesting
            /\ NodesTesting ~> ~NodesTesting

-----------------------------------------------------------------------------
(* What a comment of the source says and the code does not do *)

\* unlock_with_log.c:54 "Timer used to periodically send out unlocking signal":
\* on a board where the module stays loaded its timer expires again and again,
\* be it to pulse or, with a full log, to do nothing.
TimerIsPeriodic ==
  \A b \in Board :
    <>[]Loaded(b, "unlock_with_log") => []<><<LogTimer(b)>>_boardVars
=============================================================================
