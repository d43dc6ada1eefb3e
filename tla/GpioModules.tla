---------------------------- MODULE GpioModules ----------------------------
(***************************************************************************)
(* insmod and rmmod of the modules of kernel-module/ on boards that have   *)
(* one set of GPIO pins, interrupts and device numbers each.               *)
(*                                                                         *)
(* An init function is a program, a sequence of steps that each take a set *)
(* of resources; a step may be refused, and the function then frees what   *)
(* its Unwind says for that step and gives up.  gpio_free does not ask who *)
(* holds a pin; free_irq only finds the caller's own handler.              *)
(***************************************************************************)
EXTENDS Integers, Sequences, FiniteSets

CONSTANTS Board,    \* the boards
          Outside,  \* whatever else drives a wire
          Free,     \* nobody: the owner of a free resource
          Plans     \* which modules may be loaded where, and how boards are wired

Pins == {"pin21", "pin22"}
AllPins == Pins \cup {"pin20"}
Irqs == {"irq20", "irq21", "irq22"}
Resource == AllPins \cup Irqs \cup {"major", "class", "device"}

Module == {"unlock", "unlock_with_log", "gpio_timeline", "record_gpio_event",
           "node1", "node2", "latency", "flip", "ebbchar"}

\* A plan also says whether an edge on a wire may get lost.
ASSUME PlansAssumption ==
  /\ Free \notin Module /\ Outside \notin Board
  /\ \A p \in Plans :
       /\ p.load \in [Board -> SUBSET Module]
       /\ p.wires \subseteq (Board \cup {Outside}) \X Board
       /\ p.lossy \in BOOLEAN
       /\ \A m \in Module \ {"unlock_with_log"}, b, c \in Board :
            m \in p.load[b] \cap p.load[c] => b = c

VARIABLES plan,    \* the plan of this behaviour
          stage,   \* stage[b][m]: steps of the init function done, -1 in the exit
          owner,   \* owner[b][r]: the module that holds resource r
          armed,   \* armed[b]: modules whose timer is pending
          spoiled  \* history: boards where a module freed the pins of another

gpioVars == <<plan, stage, owner, armed, spoiled>>

GpioInit ==
  /\ plan \in Plans
  /\ stage = [b \in Board |-> [m \in Module |-> 0]]
  /\ owner = [b \in Board |-> [r \in Resource |-> Free]]
  /\ armed = [b \in Board |-> {}]
  /\ spoiled = {}

-----------------------------------------------------------------------------
\* The last step without resources starts the module's timer.
UnlockInit   == <<Pins, {"irq22"}, {}>>
LogInit      == <<Pins, {"irq22"}, {}>>
TimelineInit == <<AllPins, {"irq20"}, {"irq21"}, {"irq22"}>>
RecordInit   == <<Pins, {"irq22"}>>
Node1Init    == <<Pins, {}>>
Node2Init    == <<Pins, {"irq22"}>>
LatencyInit  == <<{"pin21"}, {"pin22"}, {"irq22"}, {}>>
FlipInit     == <<{}>>
EbbcharInit  == <<{"major"}, {"class"}, {"device"}>>

Program ==
  [unlock            |-> UnlockInit,
   unlock_with_log   |-> LogInit,
   gpio_timeline     |-> TimelineInit,
   record_gpio_event |-> RecordInit,
   node1             |-> Node1Init,
   node2             |-> Node2Init,
   latency           |-> LatencyInit,
   flip              |-> FlipInit,
   ebbchar           |-> EbbcharInit]

\* What is freed when step 1, 2, ... is refused.
UnlockFail   == <<{}, Pins>>
LogFail      == <<{}, Pins>>
TimelineFail == <<{}, AllPins, AllPins \cup {"irq20"},
                  AllPins \cup {"irq20", "irq21"}>>
EbbcharFail  == <<{}, {"major"}, {"major", "class"}>>

\* Mutant: the label of the input pin forgets the output pin.
LatencyFailInOnly == <<{}, {"pin21"}, {"pin22"}>>

LatencyFail == <<{}, {"pin21"}, {"pin21", "pin22"}>>

\* These three free the pins when the pins themselves are refused.
RecordFail == <<Pins, Pins>>
Node1Fail  == <<Pins>>
Node2Fail  == <<Pins, Pins>>

Unwind ==
  [unlock            |-> UnlockFail,
   unlock_with_log   |-> LogFail,
   gpio_timeline     |-> TimelineFail,
   record_gpio_event |-> RecordFail,
   node1             |-> Node1Fail,
   node2             |-> Node2Fail,
   latency           |-> LatencyFail,
   flip              |-> <<>>,
   ebbchar           |-> EbbcharFail]

-----------------------------------------------------------------------------
Loaded(b, m) == stage[b][m] = Len(Program[m])

\* insmod and rmmod hold a lock: at most one module is on its way.
Busy(b) == \E m \in Module : stage[b][m] # 0 /\ ~Loaded(b, m)

MayStep(b, m) ==
  /\ m \in plan.load[b]
  /\ stage[b][m] \in 0..Len(Program[m]) - 1
  /\ stage[b][m] = 0 => ~Busy(b)

NextStep(b, m) == stage[b][m] + 1

\* The next step of m's init function succeeds; the timer of a module that
\* was loaded before is not the one of its new copy.
LoadStep(b, m) ==
  LET takes == Program[m][NextStep(b, m)]
      timers == IF stage[b][m] = 0 THEN armed[b] \ {m} ELSE armed[b]
  IN  /\ MayStep(b, m)
      /\ \A r \in takes : owner[b][r] = Free
      /\ stage' = [stage EXCEPT ![b][m] = NextStep(b, m)]
      /\ owner' = [owner EXCEPT ![b] = [r \in Resource |->
                     IF r \in takes THEN m ELSE owner[b][r]]]
      /\ armed' = [armed EXCEPT ![b] = IF takes = {} THEN timers \cup {m} ELSE timers]
      /\ UNCHANGED <<plan, spoiled>>

\* What freeing R does to the owners: pins go whoever holds them.
Freed(b, m, R) ==
  [owner EXCEPT ![b] = [r \in Resource |->
     IF r \in R /\ (r \in AllPins \/ owner[b][r] = m) THEN Free ELSE owner[b][r]]]

Robbed(b, m, R) == \E r \in R \cap AllPins : owner[b][r] \notin {m, Free}

\* The next step is refused, as somebody has a resource or for want of memory.
RefuseStep(b, m) ==
  LET gives == Unwind[m][NextStep(b, m)]
  IN  /\ MayStep(b, m) /\ NextStep(b, m) <= Len(Unwind[m])
      /\ stage' = [stage EXCEPT ![b][m] = 0]
      /\ owner' = Freed(b, m, gives)
      /\ spoiled' = IF Robbed(b, m, gives) THEN spoiled \cup {b} ELSE spoiled
      /\ UNCHANGED <<plan, armed>>

\* An exit function: the timer is deleted and R freed.
Leave(b, m, R) ==
  /\ Loaded(b, m) /\ ~Busy(b)
  /\ stage' = [stage EXCEPT ![b][m] = 0]
  /\ owner' = Freed(b, m, R)
  /\ armed' = [armed EXCEPT ![b] = @ \ {m}]
  /\ spoiled' = IF Robbed(b, m, R) THEN spoiled \cup {b} ELSE spoiled
  /\ UNCHANGED plan

\* The exit of the two unlock modules in two steps, since a signal in between
\* starts the timer again: hrtimer_cancel, then free_irq and the pins.
LeaveTimer(b, m) ==
  /\ Loaded(b, m) /\ ~Busy(b)
  /\ stage' = [stage EXCEPT ![b][m] = -1]
  /\ armed' = [armed EXCEPT ![b] = @ \ {m}]
  /\ UNCHANGED <<plan, owner, spoiled>>

LeaveIrq(b, m) ==
  /\ stage[b][m] = -1
  /\ stage' = [stage EXCEPT ![b][m] = 0]
  /\ owner' = Freed(b, m, Pins \cup {"irq22"})
  /\ spoiled' = IF Robbed(b, m, Pins) THEN spoiled \cup {b} ELSE spoiled
  /\ UNCHANGED <<plan, armed>>

-----------------------------------------------------------------------------
GpioTypeOK ==
  /\ plan \in Plans
  /\ stage \in [Board -> [Module -> -1..4]]
  /\ \A b \in Board, m \in Module : stage[b][m] <= Len(Program[m])
  /\ owner \in [Board -> [Resource -> Module \cup {Free}]]
  /\ armed \in [Board -> SUBSET Module]
  /\ spoiled \subseteq Board

\* What the steps done have taken.
Taken(b, m) ==
  UNION {Program[m][k] : k \in IF stage[b][m] = -1 THEN DOMAIN Program[m]
                               ELSE 1..stage[b][m]}

\* A module holds the interrupts and device numbers its init function has
\* taken, and nobody else does; the same goes for the pins until a module
\* that was refused them frees those of another (record_gpio_event.c:63,
\* interrupt_test_node1.c:93, interrupt_test_node2.c:59).  A module that is
\* out has no timer, but for the two unlock modules, which a signal in the
\* middle of the exit may leave with one.
ResourcesMatchLoads ==
  \A b \in Board :
    /\ \A m \in Module, r \in Resource \ AllPins :
         owner[b][r] = m <=> r \in Taken(b, m)
    /\ b \notin spoiled => \A m \in Module, r \in AllPins :
         owner[b][r] = m <=> r \in Taken(b, m)
    /\ \A m \in armed[b] \ {"unlock", "unlock_with_log"} : Loaded(b, m)
=============================================================================
