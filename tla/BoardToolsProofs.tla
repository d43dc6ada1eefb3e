-------------------------- MODULE BoardToolsProofs --------------------------
(***************************************************************************)
(* The modules of kernel-module/ on wired boards, for any boards, cables   *)
(* and plans of use: who holds which pin, interrupt and device number,     *)
(* what the logs may hold, and when the radio is quiet.                    *)
(***************************************************************************)
EXTENDS BoardTools, EditContentionWindowProofs

Unlockers == {"unlock", "unlock_with_log"}

-----------------------------------------------------------------------------
(* The tables of init functions *)

\* An init function has at most four steps, and only the last one, if any,
\* takes nothing.
LEMMA ProgramShape ==
  ASSUME NEW m \in Module
  PROVE  /\ Len(Program[m]) \in 1..4
         /\ DOMAIN Program[m] = 1..Len(Program[m])
         /\ \A k \in 1..Len(Program[m]) : /\ Program[m][k] \subseteq Resource
                                          /\ Program[m][k] = {} => k = Len(Program[m])
<1> USE DEF Resource, Pins, AllPins, Irqs, Program
<1>1. CASE m = "unlock"
  BY <1>1 DEF UnlockInit
<1>2. CASE m = "unlock_with_log"
  BY <1>2 DEF LogInit
<1>3. CASE m = "gpio_timeline"
  BY <1>3 DEF TimelineInit
<1>4. CASE m = "record_gpio_event"
  BY <1>4 DEF RecordInit
<1>5. CASE m = "node1"
  BY <1>5 DEF Node1Init
<1>6. CASE m = "node2"
  BY <1>6 DEF Node2Init
<1>7. CASE m = "latency"
  BY <1>7 DEF LatencyInit
<1>8. CASE m = "flip"
  BY <1>8 DEF FlipInit
<1>9. CASE m = "ebbchar"
  BY <1>9 DEF EbbcharInit
<1> QED
  BY <1>1, <1>2, <1>3, <1>4, <1>5, <1>6, <1>7, <1>8, <1>9 DEF Module

\* A step that is refused frees at least what the steps before it have taken.
LEMMA UnwindFreesTaken ==
  ASSUME NEW m \in Module, NEW k \in 1..Len(Unwind[m]), NEW j \in 1..k - 1,
         k <= Len(Program[m])
  PROVE  Program[m][j] \subseteq Unwind[m][k]
<1> USE DEF Pins, AllPins, Program, Unwind
<1>1. CASE m = "unlock"
  BY <1>1 DEF UnlockInit, UnlockFail
<1>2. CASE m = "unlock_with_log"
  BY <1>2 DEF LogInit, LogFail
<1>3. CASE m = "gpio_timeline"
  BY <1>3 DEF TimelineInit, TimelineFail
<1>4. CASE m = "record_gpio_event"
  BY <1>4 DEF RecordInit, RecordFail
<1>5. CASE m = "node1"
  BY <1>5 DEF Node1Init, Node1Fail
<1>6. CASE m = "node2"
  BY <1>6 DEF Node2Init, Node2Fail
<1>7. CASE m = "latency"
  BY <1>7 DEF LatencyInit, LatencyFail
<1>8. CASE m = "flip"
  BY <1>8
<1>9. CASE m = "ebbchar"
  BY <1>9 DEF EbbcharInit, EbbcharFail
<1> QED
  BY <1>1, <1>2, <1>3, <1>4, <1>5, <1>6, <1>7, <1>8, <1>9 DEF Module

-----------------------------------------------------------------------------
(* insmod and rmmod *)

\* A module is on a board only where the plan allows it, the two unlock modules
\* alone leave in two steps, and a window is open only while flip is loaded.
GpioInv ==
  /\ GpioTypeOK
  /\ \A b \in Board, m \in Module : stage[b][m] # 0 => m \in plan.load[b]
  /\ \A b \in Board, m \in Module : stage[b][m] = -1 => m \in Unlockers
  /\ ResourcesMatchLoads

\* Taken, by the number of steps done.
LEMMA TakenSteps ==
  ASSUME NEW m \in Module, NEW done \in -1..4, done <= Len(Program[m]), NEW r
  PROVE  r \in UNION {Program[m][k] : k \in IF done = -1 THEN DOMAIN Program[m]
                                            ELSE 1..done}
           <=> \E k \in 1..Len(Program[m]) : /\ done = -1 \/ k <= done
                                            /\ r \in Program[m][k]
BY ProgramShape

LEMMA LoadKeeps ==
  ASSUME GpioInv, NEW b \in Board, NEW m \in Module, LoadStep(b, m)
  PROVE  GpioInv'
<1> DEFINE k      == NextStep(b, m)
           takes  == Program[m][k]
           timers == IF stage[b][m] = 0 THEN armed[b] \ {m} ELSE armed[b]
<1>1. /\ m \in plan.load[b] /\ stage[b][m] \in 0..Len(Program[m]) - 1
      /\ \A r \in takes : owner[b][r] = Free
      /\ stage' = [stage EXCEPT ![b][m] = k]
      /\ owner' = [owner EXCEPT ![b] = [r \in Resource |->
                     IF r \in takes THEN m ELSE owner[b][r]]]
      /\ armed' = [armed EXCEPT ![b] = IF takes = {} THEN timers \cup {m} ELSE timers]
      /\ UNCHANGED <<plan, spoiled>>
  BY DEF LoadStep, MayStep
<1>2. /\ Len(Program[m]) \in 1..4 /\ k \in 1..Len(Program[m]) /\ k = stage[b][m] + 1
      /\ takes \subseteq Resource /\ (takes = {} => k = Len(Program[m]))
  BY <1>1, ProgramShape DEF NextStep
<1>3. /\ \A c \in Board, n \in Module : <<c, n>> # <<b, m>> => stage'[c][n] = stage[c][n]
      /\ stage'[b][m] = k
      /\ \A c \in Board \ {b} : owner'[c] = owner[c] /\ armed'[c] = armed[c]
      /\ \A r \in Resource : owner'[b][r] = IF r \in takes THEN m ELSE owner[b][r]
      /\ armed'[b] = IF takes = {} THEN timers \cup {m} ELSE timers
  BY <1>1 DEF GpioInv, GpioTypeOK
<1>4. GpioTypeOK'
  BY <1>1, <1>2, <1>3 DEF GpioInv, GpioTypeOK
<1>5. \A c \in Board, n \in Module :
        /\ stage'[c][n] # 0 => n \in plan'.load[c]
        /\ stage'[c][n] = -1 => n \in Unlockers
  BY <1>1, <1>2, <1>3 DEF GpioInv
<1>6. \A c \in Board, n \in Module, r \in Resource :
        r \in Taken(c, n)' <=>
          r \in Taken(c, n) \/ (c = b /\ n = m /\ r \in takes)
  <2> SUFFICES ASSUME NEW c \in Board, NEW n \in Module, NEW r \in Resource
               PROVE  r \in Taken(c, n)' <=>
                        r \in Taken(c, n) \/ (c = b /\ n = m /\ r \in takes)
    OBVIOUS
  <2>1. CASE <<c, n>> # <<b, m>>
    BY <1>3, <2>1 DEF Taken
  <2>2. CASE c = b /\ n = m
    BY <1>1, <1>2, <1>3, <1>4, <2>2, TakenSteps DEF GpioInv, GpioTypeOK, Taken
  <2> QED
    BY <2>1, <2>2
<1>7. Free \notin Module
  BY PlansAssumption
<1>8. ASSUME NEW c \in Board, NEW n \in Module, NEW r \in Resource,
             owner[c][r] = n <=> r \in Taken(c, n)
      PROVE  owner'[c][r] = n <=> r \in Taken(c, n)'
  BY <1>1, <1>3, <1>6, <1>7, <1>8
<1>9. ASSUME NEW c \in Board, NEW n \in armed'[c] \ Unlockers
      PROVE  Loaded(c, n)'
  BY <1>1, <1>2, <1>3, <1>9
     DEF GpioInv, GpioTypeOK, ResourcesMatchLoads, Loaded, Unlockers
<1>10. ResourcesMatchLoads'
  BY <1>1, <1>8, <1>9 DEF GpioInv, ResourcesMatchLoads, Unlockers, AllPins, Pins, Resource
<1> QED
  BY <1>4, <1>5, <1>10 DEF GpioInv

\* m goes and frees R, which is at least what it has taken.
LEMMA ReleaseKeeps ==
  ASSUME GpioInv, NEW b \in Board, NEW m \in Module, NEW R,
         stage' = [stage EXCEPT ![b][m] = 0],
         owner' = Freed(b, m, R),
         spoiled' = IF Robbed(b, m, R) THEN spoiled \cup {b} ELSE spoiled,
         \/ armed' = [armed EXCEPT ![b] = @ \ {m}]
         \/ armed' = armed /\ (m \in armed[b] => m \in Unlockers),
         UNCHANGED plan,
         Taken(b, m) \subseteq R
  PROVE  GpioInv'
<1>1. /\ \A c \in Board, n \in Module : <<c, n>> # <<b, m>> => stage'[c][n] = stage[c][n]
      /\ stage'[b][m] = 0
      /\ \A c \in Board \ {b} : owner'[c] = owner[c]
      /\ \A r \in Resource : owner'[b][r] =
           IF r \in R /\ (r \in AllPins \/ owner[b][r] = m) THEN Free ELSE owner[b][r]
      /\ \A c \in Board : armed'[c] \subseteq armed[c]
      /\ m \in armed'[b] => m \in Unlockers
  BY DEF GpioInv, GpioTypeOK, Freed
<1>2. GpioTypeOK'
  <2>1. Len(Program[m]) \in 1..4
    BY ProgramShape
  <2> QED
    BY <1>1, <2>1 DEF GpioInv, GpioTypeOK, Freed
<1>3. \A c \in Board, n \in Module :
        /\ stage'[c][n] # 0 => n \in plan'.load[c]
        /\ stage'[c][n] = -1 => n \in Unlockers
  BY <1>1 DEF GpioInv
<1>4. /\ \A c \in Board, n \in Module : <<c, n>> # <<b, m>> => Taken(c, n)' = Taken(c, n)
      /\ Taken(b, m)' = {}
  BY <1>1 DEF Taken
<1>5. Free \notin Module
  BY PlansAssumption
<1>6. ASSUME NEW c \in Board, NEW n \in Module, NEW r \in Resource \ AllPins
      PROVE  owner'[c][r] = n <=> r \in Taken(c, n)'
  BY <1>1, <1>4, <1>5 DEF GpioInv, ResourcesMatchLoads
<1>7. ASSUME NEW c \in Board, NEW n \in Module, NEW r \in AllPins, c \notin spoiled'
      PROVE  owner'[c][r] = n <=> r \in Taken(c, n)'
  <2>1. c \notin spoiled /\ r \in Resource
    BY <1>7 DEF Resource
  <2>2. owner[c][r] = n <=> r \in Taken(c, n)
    BY <2>1 DEF GpioInv, ResourcesMatchLoads
  <2>3. c = b /\ r \in R => owner[c][r] \in {m, Free}
    BY <1>7 DEF Robbed
  <2> QED
    BY <1>1, <1>4, <1>5, <2>1, <2>2, <2>3
<1>8. ASSUME NEW c \in Board, NEW n \in armed'[c] \ Unlockers
      PROVE  Loaded(c, n)'
  <2>1. n \in armed[c] /\ n \in Module /\ <<c, n>> # <<b, m>>
    BY <1>1, <1>8 DEF GpioInv, GpioTypeOK
  <2> QED
    BY <1>1, <1>8, <2>1 DEF GpioInv, ResourcesMatchLoads, Loaded, Unlockers
<1>9. ResourcesMatchLoads'
  BY <1>6, <1>7, <1>8 DEF ResourcesMatchLoads, Unlockers
<1> QED
  BY <1>2, <1>3, <1>9 DEF GpioInv

LEMMA RefuseKeeps ==
  ASSUME GpioInv, NEW b \in Board, NEW m \in Module, RefuseStep(b, m)
  PROVE  GpioInv'
<1> DEFINE k == NextStep(b, m)
           gives == Unwind[m][k]
<1>1. /\ stage[b][m] \in 0..Len(Program[m]) - 1 /\ k <= Len(Unwind[m])
      /\ stage' = [stage EXCEPT ![b][m] = 0]
      /\ owner' = Freed(b, m, gives)
      /\ spoiled' = IF Robbed(b, m, gives) THEN spoiled \cup {b} ELSE spoiled
      /\ UNCHANGED <<plan, armed>>
  BY DEF RefuseStep, MayStep
<1>2. k = stage[b][m] + 1 /\ k \in 1..Len(Unwind[m]) /\ Len(Program[m]) \in 1..4
      /\ k <= Len(Program[m])
  BY <1>1, ProgramShape DEF NextStep
<1>3. ASSUME NEW r \in Taken(b, m)
      PROVE  r \in gives
  <2>1. PICK j \in 1..Len(Program[m]) : j <= stage[b][m] /\ r \in Program[m][j]
    BY <1>1, <1>2, <1>3, TakenSteps DEF GpioInv, GpioTypeOK, Taken
  <2>2. j \in 1..k - 1
    BY <1>1, <1>2, <2>1
  <2> HIDE DEF k
  <2> QED
    BY <1>2, <2>1, <2>2, UnwindFreesTaken
<1>4. m \in armed[b] => m \in Unlockers
  BY <1>1, <1>2 DEF GpioInv, ResourcesMatchLoads, Loaded, Unlockers
<1> QED
  BY <1>1, <1>3, <1>4, ReleaseKeeps

\* Whatever m has taken is among what its steps take.
LEMMA TakenAtMost ==
  ASSUME GpioInv, NEW b \in Board, NEW m \in Module, NEW R,
         \A k \in 1..Len(Program[m]) : Program[m][k] \subseteq R
  PROVE  Taken(b, m) \subseteq R
<1> SUFFICES ASSUME NEW r \in Taken(b, m) PROVE r \in R
  OBVIOUS
<1>1. stage[b][m] \in -1..4 /\ stage[b][m] <= Len(Program[m])
  BY DEF GpioInv, GpioTypeOK
<1>2. PICK k \in 1..Len(Program[m]) : r \in Program[m][k]
  BY <1>1, TakenSteps DEF Taken
<1> QED
  BY <1>2

LEMMA LeaveKeeps ==
  ASSUME GpioInv, NEW b \in Board, NEW m \in Module, NEW R, Leave(b, m, R),
         \A k \in 1..Len(Program[m]) : Program[m][k] \subseteq R
  PROVE  GpioInv'
BY TakenAtMost, ReleaseKeeps DEF Leave

LEMMA LeaveTimerKeeps ==
  ASSUME GpioInv, NEW b \in Board, NEW m \in Unlockers, LeaveTimer(b, m)
  PROVE  GpioInv'
<1>1. /\ Loaded(b, m) /\ m \in Module
      /\ stage' = [stage EXCEPT ![b][m] = -1]
      /\ armed' = [armed EXCEPT ![b] = @ \ {m}]
      /\ UNCHANGED <<plan, owner, spoiled>>
  BY DEF LeaveTimer, Unlockers, Module
<1>2. stage[b][m] = Len(Program[m]) /\ Len(Program[m]) \in 1..4
      /\ DOMAIN Program[m] = 1..Len(Program[m])
  BY <1>1, ProgramShape DEF Loaded
<1>3. /\ \A c \in Board, n \in Module : <<c, n>> # <<b, m>> => stage'[c][n] = stage[c][n]
      /\ stage'[b][m] = -1
      /\ \A c \in Board : armed'[c] \subseteq armed[c]
  BY <1>1 DEF GpioInv, GpioTypeOK
<1>4. GpioTypeOK'
  BY <1>1, <1>2, <1>3 DEF GpioInv, GpioTypeOK
<1>5. \A c \in Board, n \in Module :
        /\ stage'[c][n] # 0 => n \in plan'.load[c]
        /\ stage'[c][n] = -1 => n \in Unlockers
  BY <1>1, <1>2, <1>3 DEF GpioInv
<1>6. \A c \in Board, n \in Module : Taken(c, n)' = Taken(c, n)
  BY <1>2, <1>3 DEF Taken
<1>7. \A c \in Board : \A n \in armed'[c] \ Unlockers : Loaded(c, n)'
  BY <1>1, <1>3 DEF GpioInv, GpioTypeOK, ResourcesMatchLoads, Loaded, Unlockers
<1>8. ResourcesMatchLoads'
  BY <1>1, <1>6, <1>7 DEF GpioInv, ResourcesMatchLoads, Unlockers
<1> QED
  BY <1>4, <1>5, <1>8 DEF GpioInv

LEMMA LeaveIrqKeeps ==
  ASSUME GpioInv, NEW b \in Board, NEW m \in Unlockers, LeaveIrq(b, m)
  PROVE  GpioInv'
<1> DEFINE R == Pins \cup {"irq22"}
<1>1. m \in Module /\ Robbed(b, m, R) = Robbed(b, m, Pins)
  BY DEF Unlockers, Module, Robbed, AllPins, Pins
<1>2. \A k \in 1..Len(Program[m]) : Program[m][k] \subseteq R
  BY DEF Unlockers, Program, UnlockInit, LogInit, Pins
<1>3. Taken(b, m) \subseteq R
  BY <1>1, <1>2, TakenAtMost
<1> QED
  BY <1>1, <1>3, ReleaseKeeps DEF LeaveIrq

\* A timer is started or expires: of an unlock module, or of one that is loaded.
LEMMA TimerKeeps ==
  ASSUME GpioInv, NEW b \in Board, NEW S,
         armed' = [armed EXCEPT ![b] = S], UNCHANGED <<plan, stage, owner, spoiled>>,
         \A n \in S \ armed[b] : n \in Module /\ (n \in Unlockers \/ Loaded(b, n))
  PROVE  GpioInv'
<1>1. /\ \A c \in Board \ {b} : armed'[c] = armed[c]
      /\ armed'[b] = S
  BY DEF GpioInv, GpioTypeOK
<1>2. GpioTypeOK'
  BY <1>1 DEF GpioInv, GpioTypeOK
<1>3. ResourcesMatchLoads'
  BY <1>1 DEF GpioInv, ResourcesMatchLoads, Taken, Loaded, Unlockers
<1> QED
  BY <1>2, <1>3 DEF GpioInv

-----------------------------------------------------------------------------
(* The steps of a board, by the module they belong to *)

\* A step of board c that may load, unload or time module n.
OwnStep(c, n) ==
  \/ Insmod(c, n) \/ InsmodRefused(c, n)
  \/ n = "unlock_with_log" /\ LogStep(c)
  \/ n \in {"record_gpio_event", "gpio_timeline", "ebbchar"} /\ RecorderStep(c)
  \/ n = "latency" /\ LatencyStep(c)
  \/ n \in {"node1", "node2"} /\ NodeStep(c)
  \/ n \in {"unlock", "flip"} /\ RadioStep(c)

\* The timer handler of the latency test goes on, or not.
LEMMA LatencyTimers ==
  ASSUME NEW b, LatencyTimer(b)
  PROVE  /\ UNCHANGED <<plan, stage, owner, spoiled>>
         /\ armed' = armed \/ armed' = [armed EXCEPT ![b] = @ \ {"latency"}]
BY DEF LatencyTimer

\* No module is loaded, unloaded or timed by the steps of the others.
LEMMA OthersKeep ==
  ASSUME GpioInv, [BoardNext]_boardVars, NEW c \in Board, NEW n \in Module,
         ~OwnStep(c, n)
  PROVE  stage'[c][n] = stage[c][n] /\ (n \in armed'[c] <=> n \in armed[c])
<1> USE DEF GpioInv, GpioTypeOK
<1>1. ASSUME NEW b \in Board, NEW m \in Module, Insmod(b, m) \/ InsmodRefused(b, m)
      PROVE  stage'[c][n] = stage[c][n] /\ (n \in armed'[c] <=> n \in armed[c])
  <2>1. <<b, m>> # <<c, n>> /\ (LoadStep(b, m) \/ RefuseStep(b, m))
    BY <1>1 DEF OwnStep, Insmod, InsmodRefused
  <2> QED
    BY <2>1 DEF LoadStep, RefuseStep
<1>2. ASSUME UNCHANGED <<stage, armed>>
      PROVE  stage'[c][n] = stage[c][n] /\ (n \in armed'[c] <=> n \in armed[c])
  BY <1>2
<1>3. CASE OutsideSignal \/ UnlockEdits \/ UnlockRefuses \/ UnlockBacksOff
             \/ UNCHANGED boardVars
  BY <1>2, <1>3 DEF OutsideSignal, UnlockEdits, UnlockRefuses, UnlockBacksOff,
                    gpioVars, boardVars
<1>4. ASSUME NEW b \in Board, LogStep(b)
      PROVE  stage'[c][n] = stage[c][n] /\ (n \in armed'[c] <=> n \in armed[c])
  <2>1. <<b, "unlock_with_log">> # <<c, n>>
    BY <1>4 DEF OwnStep
  <2> QED
    BY <1>4, <2>1 DEF LogStep, LogTimer, LogIrqRefused, LogIrq, Age, LogExitTimer,
                      LogExit, LeaveTimer, LeaveIrq, gpioVars
<1>5. ASSUME NEW b \in Board, RecorderStep(b)
      PROVE  stage'[c][n] = stage[c][n] /\ (n \in armed'[c] <=> n \in armed[c])
  <2>1. c = b => n \notin {"record_gpio_event", "gpio_timeline", "ebbchar"}
    BY <1>5 DEF OwnStep
  <2> QED
    BY <1>5, <2>1 DEF RecorderStep, RecordIrq, RecordExit, TimelineIrq, TimelineExit,
                      EbbcharExit, Leave, gpioVars
<1>6. ASSUME NEW b \in Board, LatencyStep(b)
      PROVE  stage'[c][n] = stage[c][n] /\ (n \in armed'[c] <=> n \in armed[c])
  <2>1. <<b, "latency">> # <<c, n>>
    BY <1>6 DEF OwnStep
  <2> QED
    BY <1>6, <2>1, LatencyTimers DEF LatencyStep, LatencyIrq, LatencyExit, Leave,
                                     gpioVars
<1>7. ASSUME NEW b \in Board, NodeStep(b)
      PROVE  stage'[c][n] = stage[c][n] /\ (n \in armed'[c] <=> n \in armed[c])
  <2>1. c = b => n \notin {"node1", "node2"}
    BY <1>7 DEF OwnStep
  <2> QED
    BY <1>7, <2>1 DEF NodeStep, Node1Pulse, Node1PollEnds, Node1Exit, Node2Irq,
                      Node2Exit, Jiffy, Leave, gpioVars
<1>8. ASSUME NEW b \in Board, RadioStep(b)
      PROVE  stage'[c][n] = stage[c][n] /\ (n \in armed'[c] <=> n \in armed[c])
  <2>1. c = b => n \notin {"unlock", "flip"}
    BY <1>8 DEF OwnStep
  <2> QED
    BY <1>8, <2>1 DEF RadioStep, FlipOpen, FlipClose, FlipExit, UnlockIrq,
                      UnlockReturns, UnlockExitTimer, UnlockExit, Leave, LeaveTimer,
                      LeaveIrq, gpioVars
<1> QED
  BY <1>1, <1>3, <1>4, <1>5, <1>6, <1>7, <1>8 DEF BoardNext

-----------------------------------------------------------------------------
(* Pins, interrupts and device numbers *)

\* A window of flip_quiet_coll_bit is open only while the module is loaded.
WindowInv ==
  window => \A b \in Board : "flip" \in plan.load[b] => Loaded(b, "flip")

\* The module is loaded on one board at most.
LEMMA OnOneBoard ==
  ASSUME GpioInv, NEW m \in Module \ {"unlock_with_log"}, NEW b \in Board, NEW c \in Board,
         m \in plan.load[b], m \in plan.load[c]
  PROVE  b = c
BY PlansAssumption DEF GpioInv, GpioTypeOK

LEMMA LoadedPlanned ==
  ASSUME GpioInv, NEW m \in Module, NEW b \in Board, Loaded(b, m)
  PROVE  m \in plan.load[b]
BY ProgramShape DEF GpioInv, Loaded

LEMMA GpioStep ==
  ASSUME GpioInv, WindowInv, [BoardNext]_boardVars
  PROVE  GpioInv'
<1>1. ASSUME UNCHANGED gpioVars PROVE GpioInv'
  BY <1>1 DEF gpioVars, GpioInv, GpioTypeOK, ResourcesMatchLoads, Taken, Loaded
<1>2. ASSUME NEW b \in Board, NEW m \in Module, Insmod(b, m) \/ InsmodRefused(b, m)
      PROVE  GpioInv'
  BY <1>2, LoadKeeps, RefuseKeeps DEF Insmod, InsmodRefused
<1>3. CASE OutsideSignal \/ UnlockEdits \/ UnlockRefuses \/ UnlockBacksOff
             \/ UNCHANGED boardVars
  BY <1>1, <1>3 DEF OutsideSignal, UnlockEdits, UnlockRefuses, UnlockBacksOff, boardVars
<1>4. ASSUME NEW b \in Board, LogStep(b) PROVE GpioInv'
  <2>1. CASE LogIrqRefused(b) \/ Age(b)
    BY <1>1, <2>1 DEF LogIrqRefused, Age
  <2>2. CASE LogTimer(b) \/ LogIrq(b)
    BY <2>2, TimerKeeps DEF LogTimer, LogIrq, Unlockers, Module
  <2>3. CASE LogExitTimer(b) \/ LogExit(b)
    BY <2>3, LeaveTimerKeeps, LeaveIrqKeeps DEF LogExitTimer, LogExit, Unlockers
  <2> QED
    BY <1>4, <2>1, <2>2, <2>3 DEF LogStep
<1>5. ASSUME NEW b \in Board, RecorderStep(b) PROVE GpioInv'
  <2>1. CASE RecordIrq(b) \/ TimelineIrq(b)
    BY <1>1, <2>1 DEF RecordIrq, TimelineIrq
  <2>2. CASE RecordExit(b)
    <3>1. \A k \in 1..Len(Program["record_gpio_event"]) :
            Program["record_gpio_event"][k] \subseteq Pins \cup {"irq22"}
      BY DEF Program, RecordInit
    <3> QED
      BY <2>2, <3>1, LeaveKeeps DEF RecordExit, Module
  <2>3. CASE TimelineExit(b)
    <3>1. \A k \in 1..Len(Program["gpio_timeline"]) :
            Program["gpio_timeline"][k] \subseteq AllPins \cup Irqs
      BY DEF Program, TimelineInit, Irqs
    <3> QED
      BY <2>3, <3>1, LeaveKeeps DEF TimelineExit, Module
  <2>4. CASE EbbcharExit(b)
    <3>1. \A k \in 1..Len(Program["ebbchar"]) :
            Program["ebbchar"][k] \subseteq {"device", "class", "major"}
      BY DEF Program, EbbcharInit
    <3> QED
      BY <2>4, <3>1, LeaveKeeps DEF EbbcharExit, Module
  <2> QED
    BY <1>5, <2>1, <2>2, <2>3, <2>4 DEF RecorderStep
<1>6. ASSUME NEW b \in Board, LatencyStep(b) PROVE GpioInv'
  <2>1. CASE LatencyIrq(b)
    BY <1>1, <2>1 DEF LatencyIrq
  <2>2. CASE LatencyTimer(b)
    <3>1. CASE armed' = armed
      BY <1>1, <2>2, <3>1, LatencyTimers DEF gpioVars
    <3>2. CASE armed' = [armed EXCEPT ![b] = @ \ {"latency"}]
      BY <2>2, <3>2, LatencyTimers, TimerKeeps
    <3> QED
      BY <2>2, <3>1, <3>2, LatencyTimers
  <2>3. CASE LatencyExit(b)
    <3>1. \A k \in 1..Len(Program["latency"]) :
            Program["latency"][k] \subseteq Pins \cup {"irq22"}
      BY DEF Program, LatencyInit, Pins
    <3> QED
      BY <2>3, <3>1, LeaveKeeps DEF LatencyExit, Module
  <2> QED
    BY <1>6, <2>1, <2>2, <2>3 DEF LatencyStep
<1>7. ASSUME NEW b \in Board, NodeStep(b) PROVE GpioInv'
  <2>1. CASE Node2Irq(b) \/ Jiffy(b)
    BY <1>1, <2>1 DEF Node2Irq, Jiffy
  <2>2. CASE Node1Pulse(b)
    BY <2>2, TimerKeeps DEF Node1Pulse
  <2>3. CASE Node1PollEnds(b)
    <3>1. PICK S \in {armed[b], armed[b] \cup {"node1"}} :
            armed' = [armed EXCEPT ![b] = S]
      BY <2>3 DEF Node1PollEnds
    <3> QED
      BY <2>3, <3>1, TimerKeeps DEF Node1PollEnds, Module
  <2>4. CASE Node1Exit(b)
    <3>1. \A k \in 1..Len(Program["node1"]) : Program["node1"][k] \subseteq Pins
      BY DEF Program, Node1Init
    <3> QED
      BY <2>4, <3>1, LeaveKeeps DEF Node1Exit, Module
  <2>5. CASE Node2Exit(b)
    <3>1. \A k \in 1..Len(Program["node2"]) :
            Program["node2"][k] \subseteq Pins \cup {"irq22"}
      BY DEF Program, Node2Init
    <3> QED
      BY <2>5, <3>1, LeaveKeeps DEF Node2Exit, Module
  <2> QED
    BY <1>7, <2>1, <2>2, <2>3, <2>4, <2>5 DEF NodeStep
<1>8. ASSUME NEW b \in Board, RadioStep(b) PROVE GpioInv'
  <2>1. CASE FlipOpen(b)
    BY <2>1, TimerKeeps DEF FlipOpen
  <2>2. CASE FlipClose(b)
    BY <2>2, TimerKeeps DEF FlipClose, WindowInv, Module
  <2>3. CASE FlipExit(b)
    <3>1. \A k \in 1..Len(Program["flip"]) : Program["flip"][k] \subseteq {}
      BY DEF Program, FlipInit
    <3> QED
      BY <2>3, <3>1, LeaveKeeps DEF FlipExit, Module
  <2>4. CASE UnlockIrq(b)
    BY <1>1, <2>4 DEF UnlockIrq
  <2>5. CASE UnlockReturns(b)
    BY <2>5, TimerKeeps DEF UnlockReturns, Unlockers, Module
  <2>6. CASE UnlockExitTimer(b) \/ UnlockExit(b)
    BY <2>6, LeaveTimerKeeps, LeaveIrqKeeps DEF UnlockExitTimer, UnlockExit, Unlockers
  <2> QED
    BY <1>8, <2>1, <2>2, <2>3, <2>4, <2>5, <2>6 DEF RadioStep
<1> QED
  BY <1>2, <1>3, <1>4, <1>5, <1>6, <1>7, <1>8 DEF BoardNext

LEMMA PlanKept ==
  ASSUME [BoardNext]_boardVars PROVE plan' = plan
<1>1. CASE \E b \in Board, m \in Module : Insmod(b, m) \/ InsmodRefused(b, m)
  BY <1>1 DEF Insmod, InsmodRefused, LoadStep, RefuseStep
<1>2. CASE OutsideSignal \/ UnlockEdits \/ UnlockRefuses \/ UnlockBacksOff
             \/ UNCHANGED boardVars
  BY <1>2 DEF OutsideSignal, UnlockEdits, UnlockRefuses, UnlockBacksOff, boardVars,
              gpioVars
<1>3. CASE \E b \in Board : LogStep(b) \/ RecorderStep(b)
  BY <1>3 DEF LogStep, LogTimer, LogIrqRefused, LogIrq, Age, LogExitTimer, LogExit,
              RecorderStep, RecordIrq, RecordExit, TimelineIrq, TimelineExit,
              EbbcharExit, Leave, LeaveTimer, LeaveIrq, gpioVars
<1>4. CASE \E b \in Board : LatencyStep(b) \/ NodeStep(b)
  BY <1>4, LatencyTimers DEF LatencyStep, LatencyIrq, LatencyExit, NodeStep, Node1Pulse,
              Node1PollEnds, Node1Exit, Node2Irq, Node2Exit, Jiffy, Leave, gpioVars
<1>5. CASE \E b \in Board : RadioStep(b)
  BY <1>5 DEF RadioStep, FlipOpen, FlipClose, FlipExit, UnlockIrq, UnlockReturns,
              UnlockExitTimer, UnlockExit, Leave, LeaveTimer, LeaveIrq, gpioVars
<1> QED
  BY <1>1, <1>2, <1>3, <1>4, <1>5 DEF BoardNext

-----------------------------------------------------------------------------
(* The radio *)

RadioInv ==
  /\ irqAt \in {"none", "edit", "backoff"}
  /\ {quiet, window, flipped, signalled} \subseteq BOOLEAN
  /\ WindowInv
  /\ QuietBetweenWindows

\* Most steps leave the radio alone.
LEMMA RadioSteps ==
  ASSUME [BoardNext]_boardVars
  PROVE  \/ UNCHANGED radioVars
         \/ \E b \in Board : \/ FlipOpen(b) \/ FlipClose(b) \/ UnlockIrq(b)
                             \/ UnlockReturns(b)
         \/ UnlockRefuses \/ UnlockBacksOff
<1>1. CASE \E b \in Board, m \in Module : Insmod(b, m) \/ InsmodRefused(b, m)
  BY <1>1 DEF Insmod, InsmodRefused
<1>2. CASE OutsideSignal \/ UnlockEdits \/ UNCHANGED boardVars
  BY <1>2 DEF OutsideSignal, UnlockEdits, boardVars
<1>3. CASE \E b \in Board : LogStep(b) \/ RecorderStep(b)
  BY <1>3 DEF LogStep, LogTimer, LogIrqRefused, LogIrq, Age, LogExitTimer, LogExit,
              RecorderStep, RecordIrq, RecordExit, TimelineIrq, TimelineExit,
              EbbcharExit
<1>4. CASE \E b \in Board : LatencyStep(b) \/ NodeStep(b)
  BY <1>4 DEF LatencyStep, LatencyIrq, LatencyTimer, LatencyExit, NodeStep, Node1Pulse,
              Node1PollEnds, Node1Exit, Node2Irq, Node2Exit, Jiffy
<1>5. CASE \E b \in Board : RadioStep(b)
  BY <1>5 DEF RadioStep, FlipExit, UnlockExitTimer, UnlockExit
<1> QED
  BY <1>1, <1>2, <1>3, <1>4, <1>5 DEF BoardNext

LEMMA WindowStep ==
  ASSUME GpioInv, RadioInv, [BoardNext]_boardVars
  PROVE  WindowInv'
<1> SUFFICES ASSUME window', NEW b \in Board, "flip" \in plan'.load[b]
             PROVE  Loaded(b, "flip")'
  BY DEF WindowInv
<1>1. "flip" \in plan.load[b] /\ "flip" \in Module
  BY PlanKept DEF Module
<1>2. CASE \E c \in Board : FlipOpen(c)
  <2>1. PICK c \in Board : FlipOpen(c)
    BY <1>2
  <2>2. Loaded(c, "flip") /\ stage' = stage
    BY <2>1 DEF FlipOpen, GpioInv, ResourcesMatchLoads
  <2>3. b = c
    BY <1>1, <2>2, LoadedPlanned, OnOneBoard
  <2> QED
    BY <2>2, <2>3 DEF Loaded
<1>3. CASE window
  <2>1. Loaded(b, "flip")
    BY <1>1, <1>3 DEF RadioInv, WindowInv
  <2>2. stage[b]["flip"] = Len(Program["flip"]) /\ Len(Program["flip"]) \in 1..4
    BY <1>1, <2>1, ProgramShape DEF Loaded
  <2>3. CASE OwnStep(b, "flip")
    <3>1. ~LoadStep(b, "flip") /\ ~RefuseStep(b, "flip")
      BY <2>2 DEF LoadStep, RefuseStep, MayStep
    <3>2. ~FlipExit(b)
      BY <1>1, <1>3 DEF FlipExit, Idle
    <3>3. RadioStep(b)
      BY <2>3, <3>1 DEF OwnStep, Insmod, InsmodRefused
    <3>4. stage'[b]["flip"] = stage[b]["flip"]
      BY <1>1, <3>2, <3>3
         DEF RadioStep, FlipOpen, FlipClose, UnlockIrq, UnlockReturns, UnlockExitTimer,
             UnlockExit, LeaveTimer, LeaveIrq, gpioVars, GpioInv, GpioTypeOK
    <3> QED
      BY <2>2, <3>4 DEF Loaded
  <2>4. CASE ~OwnStep(b, "flip")
    BY <1>1, <2>2, <2>4, OthersKeep DEF Loaded
  <2> QED
    BY <2>3, <2>4
<1>4. ~window => \E c \in Board : FlipOpen(c)
  BY RadioSteps DEF radioVars, FlipClose, UnlockIrq, UnlockReturns, UnlockRefuses,
                    UnlockBacksOff
<1> QED
  BY <1>2, <1>3, <1>4 DEF RadioInv

LEMMA RadioStepKeeps ==
  ASSUME GpioInv, RadioInv, [BoardNext]_boardVars
  PROVE  RadioInv'
<1>1. WindowInv'
  BY WindowStep
<1> USE <1>1 DEF RadioInv, QuietBetweenWindows
<1>2. CASE UNCHANGED radioVars
  BY <1>2 DEF radioVars
<1>3. CASE \E b \in Board : FlipOpen(b)
  BY <1>3 DEF FlipOpen
<1>4. CASE \E b \in Board : FlipClose(b)
  BY <1>4 DEF FlipClose
<1>5. CASE \E b \in Board : UnlockIrq(b)
  BY <1>5 DEF UnlockIrq
<1>6. CASE UnlockRefuses
  BY <1>6 DEF UnlockRefuses
<1>7. CASE UnlockBacksOff
  BY <1>7 DEF UnlockBacksOff
<1>8. CASE \E b \in Board : UnlockReturns(b)
  BY <1>8 DEF UnlockReturns
<1> QED
  BY <1>2, <1>3, <1>4, <1>5, <1>6, <1>7, <1>8, RadioSteps

LEMMA GpioAndRadio == BoardSpec => [](GpioInv /\ RadioInv)
<1>1. BoardInit => GpioInv /\ RadioInv
  <2> SUFFICES ASSUME BoardInit PROVE GpioInv /\ RadioInv
    OBVIOUS
  <2>1. GpioTypeOK
    BY ProgramShape DEF BoardInit, GpioInit, GpioTypeOK
  <2>2. \A b \in Board, m \in Module : Taken(b, m) = {}
    BY DEF BoardInit, GpioInit, Taken
  <2>3. ResourcesMatchLoads
    BY <2>2, PlansAssumption DEF BoardInit, GpioInit, ResourcesMatchLoads, Resource
  <2>4. RadioInv
    BY DEF BoardInit, RadioInv, WindowInv, QuietBetweenWindows
  <2> QED
    BY <2>1, <2>3, <2>4 DEF BoardInit, GpioInit, GpioInv
<1>2. GpioInv /\ RadioInv /\ [BoardNext]_boardVars => (GpioInv /\ RadioInv)'
  BY GpioStep, RadioStepKeeps DEF RadioInv
<1> QED
  BY <1>1, <1>2, PTL DEF BoardSpec

\* However the modules of one board are loaded, refused and unloaded, each holds
\* the interrupts and device numbers its init function has taken and nobody else
\* does; so it is with the pins until a module that was refused them frees those
\* of another (record_gpio_event.c:63, interrupt_test_node1.c:93,
\* interrupt_test_node2.c:59); and only loaded modules have a timer.
THEOREM ResourcesMatchLoadsHolds == BoardSpec => []ResourcesMatchLoads
<1>1. GpioInv => ResourcesMatchLoads
  BY DEF GpioInv
<1> QED
  BY <1>1, GpioAndRadio, PTL

\* The radio is quiet between the windows of flip_quiet_coll_bit, and during a
\* backoff of unlock.ko (flip_quiet_coll_bit.c:26-33, unlock.c:174-180).
THEOREM QuietBetweenWindowsHolds == BoardSpec => []QuietBetweenWindows
<1>1. RadioInv => QuietBetweenWindows
  BY DEF RadioInv
<1> QED
  BY <1>1, GpioAndRadio, PTL

-----------------------------------------------------------------------------
(* The log *)

Trigger == {"timer", "irq"}

LogInv ==
  /\ log \in [Board -> Seq(Trigger)]
  /\ \A b \in Board : Len(log[b]) <= RecordCount

LEMMA LogSteps ==
  ASSUME [BoardNext]_boardVars
  PROVE  log' = log \/ \E b \in Board : LogTimer(b) \/ LogIrq(b) \/ LogExit(b)
<1>1. CASE \E b \in Board, m \in Module : Insmod(b, m) \/ InsmodRefused(b, m)
  BY <1>1 DEF Insmod, InsmodRefused, logVars
<1>2. CASE OutsideSignal \/ UnlockEdits \/ UnlockRefuses \/ UnlockBacksOff
             \/ UNCHANGED boardVars
  BY <1>2 DEF OutsideSignal, UnlockEdits, UnlockRefuses, UnlockBacksOff, boardVars,
              logVars
<1>3. CASE \E b \in Board : LogStep(b) \/ RecorderStep(b)
  BY <1>3 DEF LogStep, LogIrqRefused, Age, LogExitTimer, RecorderStep, RecordIrq,
              RecordExit, TimelineIrq, TimelineExit, EbbcharExit, logVars
<1>4. CASE \E b \in Board : LatencyStep(b) \/ NodeStep(b)
  BY <1>4 DEF LatencyStep, LatencyIrq, LatencyTimer, LatencyExit, NodeStep, Node1Pulse,
              Node1PollEnds, Node1Exit, Node2Irq, Node2Exit, Jiffy, logVars
<1>5. CASE \E b \in Board : RadioStep(b)
  BY <1>5 DEF RadioStep, FlipOpen, FlipClose, FlipExit, UnlockIrq, UnlockReturns,
              UnlockExitTimer, UnlockExit, logVars
<1> QED
  BY <1>1, <1>2, <1>3, <1>4, <1>5 DEF BoardNext

LEMMA LogStepKeeps == LogInv /\ [BoardNext]_boardVars => LogInv'
<1> SUFFICES ASSUME LogInv, [BoardNext]_boardVars PROVE LogInv'
  OBVIOUS
<1>1. CASE \E b \in Board : LogTimer(b) \/ LogIrq(b)
  <2>1. PICK b \in Board : LogTimer(b) \/ LogIrq(b)
    BY <1>1
  <2>2. PICK e \in Trigger : \/ log' = log
                             \/ /\ log' = [log EXCEPT ![b] = Append(@, e)]
                                /\ Len(log[b]) < RecordCount
    BY <2>1 DEF LogTimer, LogIrq, Record, Trigger
  <2>3. CASE log' = log
    BY <2>3 DEF LogInv
  <2>4. CASE log' = [log EXCEPT ![b] = Append(@, e)] /\ Len(log[b]) < RecordCount
    <3>1. /\ log[b] \in Seq(Trigger) /\ Len(log[b]) \in Nat /\ RecordCount \in Nat
          /\ Append(log[b], e) \in Seq(Trigger)
          /\ Len(Append(log[b], e)) = Len(log[b]) + 1
      BY ToolsAssumption DEF LogInv
    <3>2. \A c \in Board : log'[c] = IF c = b THEN Append(log[b], e) ELSE log[c]
      BY <2>4 DEF LogInv
    <3> QED
      BY <2>4, <3>1, <3>2 DEF LogInv
  <2> QED
    BY <2>2, <2>3, <2>4
<1>2. CASE \E b \in Board : LogExit(b)
  BY <1>2, ToolsAssumption DEF LogExit, LogInv
<1> QED
  BY <1>1, <1>2, LogSteps DEF LogInv

LEMMA LogInvInit == BoardInit => LogInv
  BY ToolsAssumption DEF BoardInit, LogInv

-----------------------------------------------------------------------------
(* The latency test *)

LatType == [fired : BOOLEAN, tests : 0..NumTests, missed : 0..MissedIrqMax + 1,
            high : BOOLEAN, enabled : BOOLEAN]

\* While its timer runs, the test is not over; a module that is not loaded has
\* not begun it.
LatInv ==
  /\ lat \in LatType
  /\ \A b \in Board : "latency" \in armed[b] => ~Finished(lat)
  /\ \A b \in Board : "latency" \in plan.load[b] /\ ~Loaded(b, "latency") =>
                        lat.tests = 0 /\ lat.missed = 0

LEMMA LatHigh ==
  ASSUME NEW d \in LatType, NEW h \in BOOLEAN
  PROVE  /\ [d EXCEPT !.high = h] \in LatType
         /\ [d EXCEPT !.high = h].tests = d.tests
         /\ [d EXCEPT !.high = h].missed = d.missed
BY DEF LatType

LEMMA LatDisabled ==
  ASSUME NEW d \in LatType
  PROVE  [d EXCEPT !.enabled = FALSE] \in LatType
BY DEF LatType

LEMMA LatFired ==
  ASSUME NEW d \in LatType
  PROVE  /\ [d EXCEPT !.fired = TRUE, !.high = TRUE] \in LatType
         /\ [d EXCEPT !.fired = TRUE, !.high = TRUE].tests = d.tests
         /\ [d EXCEPT !.fired = TRUE, !.high = TRUE].missed = d.missed
BY DEF LatType

\* The verdict on a test that was not the last.
LEMMA JudgeType ==
  ASSUME lat \in LatType, ~Finished(lat), NEW ok \in BOOLEAN
  PROVE  Judge(ok) \in LatType
<1> DEFINE more == IF ok THEN lat.tests + 1 ELSE lat.tests
           lost == IF ok THEN lat.missed ELSE lat.missed + 1
<1>1. more \in 0..NumTests /\ lost \in 0..MissedIrqMax + 1
  BY ToolsAssumption DEF LatType, Finished
<1>2. Judge(ok) = [lat EXCEPT !.fired = FALSE, !.tests = more, !.missed = lost]
  BY DEF Judge
<1> HIDE DEF more, lost
<1> QED
  BY <1>1, <1>2 DEF LatType

\* Who has the interrupt has begun to load.
LEMMA OwnerPlanned ==
  ASSUME GpioInv, NEW b \in Board, NEW m \in Module, owner[b]["irq22"] = m
  PROVE  m \in plan.load[b]
<1>1. "irq22" \in Resource \ AllPins
  BY DEF Resource, Irqs, AllPins, Pins
<1>2. Taken(b, m) # {}
  BY <1>1 DEF GpioInv, ResourcesMatchLoads
<1>3. stage[b][m] # 0
  BY <1>2 DEF Taken
<1> QED
  BY <1>3 DEF GpioInv

\* A timer that runs after the step is that of the board the module is on.
LEMMA ArmedThere ==
  ASSUME GpioInv, GpioInv', plan' = plan, NEW b \in Board, NEW c \in Board,
         NEW m \in Module \ Unlockers, m \in plan.load[b], m \in armed'[c]
  PROVE  c = b
<1>1. stage'[c][m] = Len(Program[m])
  BY DEF GpioInv, ResourcesMatchLoads, Loaded, Unlockers
<1>2. m \in plan.load[c]
  BY <1>1, ProgramShape DEF GpioInv
<1> QED
  BY <1>2, OnOneBoard DEF Unlockers

LEMMA LatSteps ==
  ASSUME [BoardNext]_boardVars
  PROVE  \/ lat' = lat
         \/ \E b \in Board : \/ Insmod(b, "latency") /\ lat' = [lat EXCEPT !.high = FALSE]
                             \/ LatencyStep(b)
<1>1. CASE \E b \in Board, m \in Module : Insmod(b, m) \/ InsmodRefused(b, m)
  BY <1>1 DEF Insmod, InsmodRefused
<1>2. CASE OutsideSignal \/ UnlockEdits \/ UnlockRefuses \/ UnlockBacksOff
             \/ UNCHANGED boardVars
  BY <1>2 DEF OutsideSignal, UnlockEdits, UnlockRefuses, UnlockBacksOff, boardVars
<1>3. CASE \E b \in Board : LogStep(b) \/ RecorderStep(b)
  BY <1>3 DEF LogStep, LogTimer, LogIrq, LogIrqRefused, Age, LogExitTimer, LogExit,
              RecorderStep, RecordIrq, RecordExit, TimelineIrq, TimelineExit, EbbcharExit
<1>4. CASE \E b \in Board : NodeStep(b)
  BY <1>4 DEF NodeStep, Node1Pulse, Node1PollEnds, Node1Exit, Node2Irq, Node2Exit, Jiffy
<1>5. CASE \E b \in Board : RadioStep(b)
  BY <1>5 DEF RadioStep, FlipOpen, FlipClose, FlipExit, UnlockIrq, UnlockReturns,
              UnlockExitTimer, UnlockExit
<1> QED
  BY <1>1, <1>2, <1>3, <1>4, <1>5 DEF BoardNext

LEMMA LatStepKeeps ==
  ASSUME GpioInv, GpioInv', LatInv, [BoardNext]_boardVars
  PROVE  LatInv'
<1> DEFINE m == "latency"
<1>1. /\ m \in Module \ {"unlock_with_log"} /\ m \notin Unlockers /\ plan' = plan
      /\ Len(Program[m]) = 4
  BY PlanKept DEF Module, Unlockers, Program, LatencyInit
<1>2. CASE \A c \in Board : ~OwnStep(c, m)
  <2>1. lat' = lat
    BY <1>2, LatSteps DEF OwnStep
  <2>2. \A c \in Board : stage'[c][m] = stage[c][m] /\ (m \in armed'[c] <=> m \in armed[c])
    BY <1>1, <1>2, OthersKeep
  <2> QED
    BY <1>1, <2>1, <2>2 DEF LatInv, Loaded, Finished
<1>3. ASSUME NEW b \in Board, m \in plan.load[b], lat' \in LatType,
             m \in armed'[b] => ~Finished(lat'),
             stage'[b][m] # 4 => lat'.tests = 0 /\ lat'.missed = 0
      PROVE  LatInv'
  <2>1. \A c \in Board : m \in plan.load[c] => c = b
    BY <1>1, <1>3, OnOneBoard
  <2>2. \A c \in Board : m \in armed'[c] => c = b
    BY <1>1, <1>3, ArmedThere
  <2> QED
    BY <1>1, <1>3, <2>1, <2>2 DEF LatInv, Loaded, Finished
<1>4. ASSUME NEW b \in Board, Insmod(b, m) \/ InsmodRefused(b, m)
      PROVE  LatInv'
  <2>1. m \in plan.load[b] /\ ~Loaded(b, m) /\ lat' \in {lat, [lat EXCEPT !.high = FALSE]}
    BY <1>1, <1>4 DEF Insmod, InsmodRefused, LoadStep, RefuseStep, MayStep, Loaded
  <2>2. lat' \in LatType /\ lat'.tests = 0 /\ lat'.missed = 0
    BY <2>1, LatHigh DEF LatInv
  <2>3. ~Finished(lat')
    BY <2>2, ToolsAssumption DEF Finished
  <2> QED
    BY <1>3, <2>1, <2>2, <2>3
<1>5. ASSUME NEW b \in Board, LatencyIrq(b)
      PROVE  LatInv'
  <2>1. /\ m \in plan.load[b] /\ stage' = stage /\ armed' = armed
        /\ lat' = [lat EXCEPT !.fired = TRUE, !.high = TRUE]
    BY <1>1, <1>5, OwnerPlanned DEF LatencyIrq, Pending, gpioVars
  <2>2. lat' \in LatType /\ lat'.tests = lat.tests /\ lat'.missed = lat.missed
    BY <2>1, LatFired DEF LatInv
  <2> QED
    BY <1>1, <1>3, <2>1, <2>2 DEF LatInv, Loaded, Finished
<1>6. ASSUME NEW b \in Board, LatencyTimer(b)
      PROVE  LatInv'
  <2>1. m \in armed[b] /\ Loaded(b, m) /\ stage' = stage /\ m \in plan.load[b]
    BY <1>1, <1>6, LoadedPlanned DEF LatencyTimer, GpioInv, ResourcesMatchLoads, Unlockers
  <2>2. stage'[b][m] = 4
    BY <1>1, <2>1 DEF Loaded
  <2>3. PICK ok \in {FALSE, lat.fired} :
          IF Finished(Judge(ok))
          THEN /\ armed' = [armed EXCEPT ![b] = @ \ {m}]
               /\ lat' = [Judge(ok) EXCEPT !.enabled = FALSE]
          ELSE lat' = [Judge(ok) EXCEPT !.high = FALSE]
    BY <1>6 DEF LatencyTimer
  <2>4. ok \in BOOLEAN /\ ~Finished(lat) /\ lat \in LatType
    BY <2>1, <2>3 DEF LatInv, LatType
  <2>5. Judge(ok) \in LatType
    BY <2>4, JudgeType
  <2>6. CASE Finished(Judge(ok))
    BY <1>3, <2>1, <2>2, <2>3, <2>5, <2>6, LatDisabled DEF GpioInv, GpioTypeOK
  <2>7. CASE ~Finished(Judge(ok))
    <3>1. lat' \in LatType /\ lat'.tests = Judge(ok).tests
          /\ lat'.missed = Judge(ok).missed
      BY <2>3, <2>5, <2>7, LatHigh
    <3>2. ~Finished(lat')
      BY <2>7, <3>1 DEF Finished
    <3> QED
      BY <1>3, <2>1, <2>2, <3>1, <3>2
  <2> QED
    BY <2>6, <2>7
<1>7. ASSUME NEW b \in Board, LatencyExit(b)
      PROVE  LatInv'
  <2>1. m \in plan.load[b] /\ lat' = FreshLat
    BY <1>1, <1>7, LoadedPlanned DEF LatencyExit, Leave
  <2>2. FreshLat \in LatType /\ ~Finished(FreshLat)
        /\ FreshLat.tests = 0 /\ FreshLat.missed = 0
    BY ToolsAssumption DEF FreshLat, LatType, Finished
  <2> QED
    BY <1>3, <2>1, <2>2
<1> QED
  BY <1>2, <1>4, <1>5, <1>6, <1>7 DEF OwnStep, LatencyStep

-----------------------------------------------------------------------------
(* The test of two nodes *)

NodeType == [due : 0..2, polling : BOOLEAN, seen : BOOLEAN, passes : 0..MaxTestCount]

\* Another pass may be counted: the first one is, whatever test_count says.
MorePasses == node.passes = 0 \/ node.passes < MaxCount

\* Node 1 polls while its timer does not run, and does either only while passes
\* are left; a module that is not loaded has none.
NodeInv ==
  /\ node \in NodeType
  /\ node.polling => MorePasses
  /\ \A b \in Board : "node1" \in armed[b] => MorePasses /\ ~node.polling
  /\ \A b \in Board : "node1" \in plan.load[b] /\ ~Loaded(b, "node1") => node.passes = 0

LEMMA NodePulsed ==
  ASSUME NEW d \in NodeType
  PROVE  /\ [d EXCEPT !.polling = TRUE, !.seen = FALSE] \in NodeType
         /\ [d EXCEPT !.polling = TRUE, !.seen = FALSE].passes = d.passes
BY DEF NodeType

\* What the end of a poll leaves of the record, in two strokes.
Counted(d, n) == [d EXCEPT !.due = 2, !.passes = n]
Unpolled(d)   == [d EXCEPT !.polling = FALSE, !.seen = FALSE]

LEMMA NodeUnpolled ==
  ASSUME NEW d \in NodeType
  PROVE  Unpolled(d) \in NodeType /\ Unpolled(d).polling = FALSE
<1>1. Unpolled(d) \in NodeType
  BY DEF NodeType, Unpolled
<1>2. Unpolled(d).polling = FALSE
  BY DEF NodeType, Unpolled
<1> QED
  BY <1>1, <1>2

LEMMA NodeCounted ==
  ASSUME NEW d \in NodeType, NEW n \in 0..MaxTestCount
  PROVE  Counted(d, n) \in NodeType /\ Counted(d, n).passes = n
         /\ Counted(d, n).polling = d.polling
<1>1. [d EXCEPT !.due = 2] \in NodeType
  BY DEF NodeType
<1>2. Counted(d, n) = [[d EXCEPT !.due = 2] EXCEPT !.passes = n]
  BY DEF Counted
<1>3. \A f \in NodeType : [f EXCEPT !.passes = n] \in NodeType
  BY DEF NodeType
<1>4. Counted(d, n) \in NodeType
  BY <1>1, <1>2, <1>3
<1>5. Counted(d, n).passes = n
  BY DEF NodeType, Counted
<1>6. Counted(d, n).polling = d.polling
  BY DEF NodeType, Counted
<1> QED
  BY <1>4, <1>5, <1>6

LEMMA NodePolled ==
  ASSUME NEW d \in NodeType, NEW n \in 0..MaxTestCount
  PROVE  LET e == [d EXCEPT !.polling = FALSE, !.seen = FALSE, !.due = 2, !.passes = n]
         IN  e \in NodeType /\ e.passes = n /\ e.polling = FALSE
<1> DEFINE e == [d EXCEPT !.polling = FALSE, !.seen = FALSE, !.due = 2, !.passes = n]
<1>1. e = Counted(Unpolled(d), n)
  BY DEF Counted, Unpolled
<1>2. e \in NodeType /\ e.passes = n /\ e.polling = FALSE
  <2> HIDE DEF e
  <2>1. Unpolled(d) \in NodeType /\ Unpolled(d).polling = FALSE
    BY NodeUnpolled
  <2> DEFINE f == Unpolled(d)
  <2> HIDE DEF f
  <2>2. \A g \in NodeType : Counted(g, n) \in NodeType /\ Counted(g, n).passes = n
                            /\ Counted(g, n).polling = g.polling
    BY NodeCounted
  <2>3. f \in NodeType /\ f.polling = FALSE /\ e = Counted(f, n)
    BY <1>1, <2>1 DEF f
  <2> QED
    BY <2>2, <2>3
<1> HIDE DEF e
<1> QED
  BY <1>2 DEF e

LEMMA NodeSaw ==
  ASSUME NEW d \in NodeType, NEW seen \in BOOLEAN
  PROVE  LET e == [d EXCEPT !.seen = seen]
         IN  e \in NodeType /\ e.passes = d.passes /\ e.polling = d.polling
BY DEF NodeType

LEMMA NodeWaited ==
  ASSUME NEW d \in NodeType, NEW due \in 0..2
  PROVE  LET e == [d EXCEPT !.due = due]
         IN  e \in NodeType /\ e.passes = d.passes /\ e.polling = d.polling
BY DEF NodeType

LEMMA NodeSteps ==
  ASSUME [BoardNext]_boardVars
  PROVE  node' = node \/ \E b \in Board : NodeStep(b)
<1>1. CASE \E b \in Board, m \in Module : Insmod(b, m) \/ InsmodRefused(b, m)
  BY <1>1 DEF Insmod, InsmodRefused, nodeVars
<1>2. CASE OutsideSignal \/ UnlockEdits \/ UnlockRefuses \/ UnlockBacksOff
             \/ UNCHANGED boardVars
  BY <1>2 DEF OutsideSignal, UnlockEdits, UnlockRefuses, UnlockBacksOff, boardVars,
              nodeVars
<1>3. CASE \E b \in Board : LogStep(b) \/ RecorderStep(b)
  BY <1>3 DEF LogStep, LogTimer, LogIrq, LogIrqRefused, Age, LogExitTimer, LogExit,
              RecorderStep, RecordIrq, RecordExit, TimelineIrq, TimelineExit,
              EbbcharExit, nodeVars
<1>4. CASE \E b \in Board : LatencyStep(b)
  BY <1>4 DEF LatencyStep, LatencyIrq, LatencyTimer, LatencyExit, nodeVars
<1>5. CASE \E b \in Board : RadioStep(b)
  BY <1>5 DEF RadioStep, FlipOpen, FlipClose, FlipExit, UnlockIrq, UnlockReturns,
              UnlockExitTimer, UnlockExit, nodeVars
<1> QED
  BY <1>1, <1>2, <1>3, <1>4, <1>5 DEF BoardNext

LEMMA NodeStepKeeps ==
  ASSUME GpioInv, GpioInv', NodeInv, [BoardNext]_boardVars
  PROVE  NodeInv'
<1> DEFINE m == "node1"
<1>1. /\ m \in Module \ {"unlock_with_log"} /\ m \notin Unlockers /\ plan' = plan
      /\ Len(Program[m]) = 2
  BY PlanKept DEF Module, Unlockers, Program, Node1Init
<1>2. ASSUME node' \in NodeType, node'.passes = node.passes, node'.polling = node.polling,
             \A c \in Board : /\ stage'[c][m] = stage[c][m]
                              /\ m \in armed'[c] <=> m \in armed[c]
      PROVE  NodeInv'
  BY <1>1, <1>2 DEF NodeInv, MorePasses, Loaded
<1>3. ASSUME NEW b \in Board, m \in plan.load[b], node' \in NodeType,
             node'.polling => MorePasses',
             m \in armed'[b] => MorePasses' /\ ~node'.polling,
             stage'[b][m] # 2 => node'.passes = 0
      PROVE  NodeInv'
  <2>1. \A c \in Board : m \in plan.load[c] => c = b
    BY <1>1, <1>3, OnOneBoard
  <2>2. \A c \in Board : m \in armed'[c] => c = b
    BY <1>1, <1>3, ArmedThere
  <2> QED
    BY <1>1, <1>3, <2>1, <2>2 DEF NodeInv, Loaded
<1>4. CASE \A c \in Board : ~OwnStep(c, m)
  <2>1. node' = node
    BY <1>4, NodeSteps DEF OwnStep
  <2> QED
    BY <1>1, <1>2, <1>4, <2>1, OthersKeep DEF NodeInv
<1>5. ASSUME NEW b \in Board, Insmod(b, m) \/ InsmodRefused(b, m)
      PROVE  NodeInv'
  <2>1. m \in plan.load[b] /\ ~Loaded(b, m) /\ node' = node /\ ~node.polling
    BY <1>1, <1>5 DEF Insmod, InsmodRefused, LoadStep, RefuseStep, MayStep, Loaded,
                      Idle, nodeVars
  <2>2. node.passes = 0 /\ node \in NodeType
    BY <2>1 DEF NodeInv
  <2> QED
    BY <1>3, <2>1, <2>2 DEF MorePasses
<1>6. ASSUME NEW b \in Board, Node1Pulse(b)
      PROVE  NodeInv'
  <2>1. /\ m \in armed[b] /\ Loaded(b, m) /\ stage' = stage /\ m \in plan.load[b]
        /\ armed' = [armed EXCEPT ![b] = @ \ {m}]
        /\ node' = [node EXCEPT !.polling = TRUE, !.seen = FALSE]
    BY <1>1, <1>6, LoadedPlanned DEF Node1Pulse, GpioInv, ResourcesMatchLoads, Unlockers
  <2>2. node' \in NodeType /\ node'.passes = node.passes /\ MorePasses
    BY <2>1, NodePulsed DEF NodeInv
  <2>3. stage'[b][m] = 2 /\ m \notin armed'[b]
    BY <1>1, <2>1 DEF Loaded, GpioInv, GpioTypeOK
  <2> QED
    BY <1>3, <2>1, <2>2, <2>3 DEF MorePasses
<1>7. ASSUME NEW b \in Board, Node1PollEnds(b)
      PROVE  NodeInv'
  <2> DEFINE passes == IF node.seen THEN node.passes + 1 ELSE node.passes
             done   == node.seen /\ passes >= MaxCount
  <2>1. /\ Loaded(b, m) /\ node.polling /\ stage' = stage /\ m \in plan.load[b]
        /\ node' = [node EXCEPT !.polling = FALSE, !.seen = FALSE, !.due = 2,
                                !.passes = passes]
        /\ armed' = [armed EXCEPT ![b] = IF done THEN @ ELSE @ \cup {m}]
    BY <1>1, <1>7, LoadedPlanned DEF Node1PollEnds
  <2>2. /\ node \in NodeType /\ MorePasses /\ m \notin armed[b]
        /\ node.passes \in 0..MaxTestCount
    BY <2>1 DEF NodeInv, NodeType
  <2>3. MaxCount \in Nat /\ MaxCount <= MaxTestCount /\ MaxTestCount \in Nat \ {0}
    BY ToolsAssumption DEF MaxCount
  <2>4. passes \in 0..MaxTestCount
    BY <2>2, <2>3 DEF MorePasses
  <2>5. m \in armed'[b] <=> ~done
    BY <2>1, <2>2 DEF GpioInv, GpioTypeOK
  <2>6. ~done => passes = 0 \/ passes < MaxCount
    BY <2>2, <2>3, <2>4 DEF MorePasses
  <2> HIDE DEF passes, done
  <2>7. node' \in NodeType /\ node'.passes = passes /\ node'.polling = FALSE
    BY <2>1, <2>2, <2>4, NodePolled
  <2>8. stage'[b][m] = 2
    BY <1>1, <2>1 DEF Loaded
  <2>9. MaxCount' = MaxCount
    BY DEF MaxCount
  <2> QED
    BY <1>3, <2>1, <2>5, <2>6, <2>7, <2>8, <2>9 DEF MorePasses
<1>8. ASSUME NEW b \in Board, Node1Exit(b)
      PROVE  NodeInv'
  <2>1. m \in plan.load[b] /\ node' = FreshNode
    BY <1>1, <1>8, LoadedPlanned DEF Node1Exit, Leave
  <2>2. FreshNode \in NodeType /\ FreshNode.passes = 0 /\ FreshNode.polling = FALSE
    BY ToolsAssumption DEF FreshNode, NodeType
  <2> QED
    BY <1>3, <2>1, <2>2 DEF MorePasses
<1>9. ASSUME NEW b \in Board, Node2Irq(b) \/ Jiffy(b) \/ Node2Exit(b)
      PROVE  NodeInv'
  <2>1. \A c \in Board : /\ stage'[c][m] = stage[c][m]
                         /\ m \in armed'[c] <=> m \in armed[c]
    <3>1. CASE Node2Irq(b)
      BY <3>1 DEF Node2Irq, gpioVars
    <3>2. CASE Jiffy(b)
      BY <3>2 DEF Jiffy, gpioVars
    <3>3. CASE Node2Exit(b)
      BY <1>1, <3>3 DEF Node2Exit, Leave, GpioInv, GpioTypeOK
    <3> QED
      BY <1>9, <3>1, <3>2, <3>3
  <2>2. node \in NodeType
    BY DEF NodeInv
  <2>3. \/ node' = node
        \/ \E seen \in BOOLEAN : node' = [node EXCEPT !.seen = seen]
        \/ \E due \in 0..2 : node' = [node EXCEPT !.due = due]
    <3>1. CASE Node2Irq(b)
      <4>1. node.seen \in BOOLEAN
        BY <2>2 DEF NodeType
      <4>2. CASE node' # node
        <5>1. node' = [node EXCEPT !.seen = @ \/ (node.polling /\
                         \E c \in Board : Loaded(c, "node1") /\ <<b, c>> \in plan.wires)]
          BY <3>1, <4>2 DEF Node2Irq
        <5> QED
          BY <5>1
      <4> QED
        BY <4>2
    <3>2. CASE Jiffy(b)
      <4>1. m \in armed[b] => node.due - 1 \in 0..2
        BY <2>2, <3>2 DEF Jiffy, NodeType
      <4> QED
        BY <3>2, <4>1 DEF Jiffy
    <3>3. CASE Node2Exit(b)
      BY <3>3 DEF Node2Exit
    <3> QED
      BY <1>9, <3>1, <3>2, <3>3
  <2>4. node' \in NodeType /\ node'.passes = node.passes /\ node'.polling = node.polling
    <3>1. ASSUME NEW seen \in BOOLEAN, node' = [node EXCEPT !.seen = seen]
          PROVE  node' \in NodeType /\ node'.passes = node.passes
                 /\ node'.polling = node.polling
      BY <2>2, <3>1, NodeSaw
    <3>2. ASSUME NEW due \in 0..2, node' = [node EXCEPT !.due = due]
          PROVE  node' \in NodeType /\ node'.passes = node.passes
                 /\ node'.polling = node.polling
      BY <2>2, <3>2, NodeWaited
    <3> QED
      BY <2>2, <2>3, <3>1, <3>2
  <2> QED
    BY <1>2, <2>1, <2>4
<1> QED
  BY <1>4, <1>5, <1>6, <1>7, <1>8, <1>9 DEF OwnStep, NodeStep

-----------------------------------------------------------------------------
(* What is left of the state, and its type *)

RestInv ==
  /\ pend \subseteq Board
  /\ age \in [Board -> {"early", "ripe", "old"}]
  /\ records \in 0..RecordCount
  /\ gap \in 0..2 /\ turn \in Board

LEMMA EdgeKeeps ==
  ASSUME NEW kept \in SUBSET Board, NEW b \in Board, Edge(kept, b)
  PROVE  pend' \subseteq Board
BY DEF Edge

LEMMA RestStepKeeps ==
  ASSUME RestInv, [BoardNext]_boardVars
  PROVE  RestInv'
<1> DEFINE others == /\ age' = age /\ records' = records
                     /\ gap' = gap /\ turn' = turn
<1>1. ASSUME pend' \subseteq Board, others PROVE RestInv'
  BY <1>1 DEF RestInv
<1> USE DEF RestInv
<1>2. ASSUME NEW b \in Board, NEW m \in Module, Insmod(b, m) \/ InsmodRefused(b, m)
      PROVE  RestInv'
  BY <1>1, <1>2, EdgeKeeps DEF Insmod, InsmodRefused, logVars, nodeVars
<1>3. CASE OutsideSignal \/ UnlockEdits \/ UnlockRefuses \/ UnlockBacksOff
             \/ UNCHANGED boardVars
  BY <1>1, <1>3 DEF OutsideSignal, UnlockEdits, UnlockRefuses, UnlockBacksOff, boardVars,
                    logVars, nodeVars
<1>4. ASSUME NEW b \in Board, LogStep(b) PROVE RestInv'
  <2>1. CASE LogTimer(b)
    BY <1>1, <2>1, EdgeKeeps DEF LogTimer, Record, nodeVars
  <2>2. CASE LogIrq(b)
    <3>1. pend \ {b} \in SUBSET Board
      OBVIOUS
    <3>2. pend' \subseteq Board
      BY <2>2, <3>1, EdgeKeeps DEF LogIrq, Record
    <3> QED
      BY <2>2, <3>2 DEF LogIrq, nodeVars
  <2>3. CASE LogIrqRefused(b) \/ LogExitTimer(b)
    BY <1>1, <2>3 DEF LogIrqRefused, LogExitTimer, logVars, nodeVars
  <2>4. CASE Age(b) \/ LogExit(b)
    BY <2>4 DEF Age, LogExit, nodeVars
  <2> QED
    BY <1>4, <2>1, <2>2, <2>3, <2>4 DEF LogStep
<1>5. ASSUME NEW b \in Board, RecorderStep(b) PROVE RestInv'
  <2>1. CASE RecordIrq(b) \/ RecordExit(b)
    BY <2>1, ToolsAssumption DEF RecordIrq, RecordExit, logVars, nodeVars
  <2>2. CASE TimelineIrq(b) \/ TimelineExit(b) \/ EbbcharExit(b)
    BY <1>1, <2>2 DEF TimelineIrq, TimelineExit, EbbcharExit, logVars, nodeVars
  <2> QED
    BY <1>5, <2>1, <2>2 DEF RecorderStep
<1>6. ASSUME NEW b \in Board, LatencyStep(b) PROVE RestInv'
  BY <1>1, <1>6, EdgeKeeps DEF LatencyStep, LatencyIrq, LatencyTimer, LatencyExit,
                               logVars, nodeVars
<1>7. ASSUME NEW b \in Board, NodeStep(b) PROVE RestInv'
  <2>1. CASE Node1Pulse(b) \/ Node1PollEnds(b) \/ Node1Exit(b)
    BY <1>1, <2>1, EdgeKeeps DEF Node1Pulse, Node1PollEnds, Node1Exit, logVars
  <2>2. CASE Node2Irq(b)
    <3>1. pend \ {b} \in SUBSET Board
      OBVIOUS
    <3>2. pend' \subseteq Board
      BY <2>2, <3>1, EdgeKeeps DEF Node2Irq
    <3> QED
      BY <2>2, <3>2 DEF Node2Irq, logVars
  <2>3. CASE Node2Exit(b) \/ Jiffy(b)
    BY <2>3 DEF Node2Exit, Jiffy, logVars
  <2> QED
    BY <1>7, <2>1, <2>2, <2>3 DEF NodeStep
<1>8. ASSUME NEW b \in Board, RadioStep(b) PROVE RestInv'
  BY <1>1, <1>8 DEF RadioStep, FlipOpen, FlipClose, FlipExit, UnlockIrq, UnlockReturns,
                    UnlockExitTimer, UnlockExit, logVars, nodeVars
<1> QED
  BY <1>2, <1>3, <1>4, <1>5, <1>6, <1>7, <1>8 DEF BoardNext

\* The windows are edited by the handler of unlock.ko alone, as the
\* specification of the edit has it.
LEMMA EditSteps ==
  ASSUME [BoardNext]_boardVars
  PROVE  [Next]_vars
<1>1. CASE \E b \in Board, m \in Module : Insmod(b, m) \/ InsmodRefused(b, m)
  BY <1>1 DEF Insmod, InsmodRefused, editVars
<1>2. CASE OutsideSignal \/ UnlockEdits \/ UnlockRefuses \/ UnlockBacksOff
             \/ UNCHANGED boardVars
  BY <1>2 DEF OutsideSignal, UnlockEdits, UnlockRefuses, UnlockBacksOff, boardVars,
              editVars, Next
<1>3. CASE \E b \in Board : LogStep(b) \/ RecorderStep(b)
  BY <1>3 DEF LogStep, LogTimer, LogIrq, LogIrqRefused, Age, LogExitTimer, LogExit,
              RecorderStep, RecordIrq, RecordExit, TimelineIrq, TimelineExit,
              EbbcharExit, editVars
<1>4. CASE \E b \in Board : LatencyStep(b) \/ NodeStep(b)
  BY <1>4 DEF LatencyStep, LatencyIrq, LatencyTimer, LatencyExit, NodeStep, Node1Pulse,
              Node1PollEnds, Node1Exit, Node2Irq, Node2Exit, Jiffy, editVars
<1>5. CASE \E b \in Board : RadioStep(b)
  BY <1>5 DEF RadioStep, FlipOpen, FlipClose, FlipExit, UnlockIrq, UnlockReturns,
              UnlockExitTimer, UnlockExit, editVars, Next
<1> QED
  BY <1>1, <1>2, <1>3, <1>4, <1>5 DEF BoardNext

\* Beside the other modules of the board, the handler of unlock.ko edits the
\* contention window as it does alone (unlock.c:117-180, 276-285).
THEOREM BoardEdits == BoardSpec => Spec
<1>1. BoardInit => Init
  BY DEF BoardInit
<1>2. [BoardNext]_boardVars => [Next]_vars
  BY EditSteps
<1> QED
  BY <1>1, <1>2, PTL DEF BoardSpec, Spec

\* No step takes the modules of kernel-module/ out of their types: no log,
\* recorder or test counts past its end, whatever the boards, their modules
\* and the cables between them.
THEOREM BoardTyped == BoardSpec => []BoardTypeOK
<1>1. BoardInit => LogInv /\ LatInv /\ NodeInv /\ RestInv
  <2> SUFFICES ASSUME BoardInit PROVE LogInv /\ LatInv /\ NodeInv /\ RestInv
    OBVIOUS
  <2>1. LogInv
    BY LogInvInit
  <2>2. \A b \in Board : armed[b] = {}
    BY DEF BoardInit, GpioInit
  <2>3. LatInv
    BY <2>2, ToolsAssumption DEF BoardInit, LatInv, LatType, FreshLat, Finished
  <2>4. NodeInv
    BY <2>2, ToolsAssumption DEF BoardInit, NodeInv, NodeType, FreshNode
  <2>5. RestInv
    BY ToolsAssumption DEF BoardInit, RestInv
  <2> QED
    BY <2>1, <2>3, <2>4, <2>5
<1>2. GpioInv /\ GpioInv' /\ LogInv /\ LatInv /\ NodeInv /\ RestInv /\ [BoardNext]_boardVars
      => (LogInv /\ LatInv /\ NodeInv /\ RestInv)'
  BY LogStepKeeps, LatStepKeeps, NodeStepKeeps, RestStepKeeps
<1>3. BoardSpec => [](LogInv /\ LatInv /\ NodeInv /\ RestInv)
  BY <1>1, <1>2, GpioAndRadio, PTL DEF BoardSpec
<1>4. BoardSpec => []IInv
  BY BoardEdits, InitIInv, NextIInv, PTL DEF Spec
<1>5. GpioInv /\ RadioInv /\ LogInv /\ LatInv /\ NodeInv /\ RestInv /\ IInv => BoardTypeOK
  BY DEF GpioInv, RadioInv, LogInv, LatInv, LatType, NodeInv, NodeType, RestInv, IInv,
         BoardTypeOK
<1> QED
  BY <1>3, <1>4, <1>5, GpioAndRadio, PTL
=============================================================================
