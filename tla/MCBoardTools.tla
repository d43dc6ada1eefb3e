---------------------------- MODULE MCBoardTools ----------------------------
(***************************************************************************)
(* Two boards and the ways the repository uses the modules on them, one    *)
(* plan each.  For the edit of the contention window: the counts at both   *)
(* ends of every rung of the ladder, up to the 80 buffers of the pool, ten *)
(* DCUs, eight of them edited; the registers start with the chip's 15/1023 *)
(* default and AIFS 2.                                                     *)
(***************************************************************************)
EXTENDS BoardTools, TLC

CONSTANTS a, b

Plan(onA, onB, wires, lossy) ==
  [load |-> (a :> onA @@ b :> onB), wires |-> wires, lossy |-> lossy]

MCBufSizes == {0, 5, 6, 10, 11, 20, 21, 40, 41, 50, 51, 60, 61, 65, 66, 70, 71, 80}
MCDcu      == 0..9
MCEdited   == 8
MCResetIfs == (0..3) \cup (10..19) \cup {21}

\* The bit patterns are those of the numbers in the source.
ASSUME OnesOfWindows == \A cw \in CwValues : cw = 2^Ones[cw] - 1

MCPlans == {
  \* the radio of one board
  Plan({"unlock", "flip"}, {}, {<<Outside, a>>}, FALSE),
  \* the latency test with its jumper cable, which may be loose
  Plan({"latency"}, {}, {<<a, a>>}, TRUE),
  \* the test of two nodes, with a cable in each direction
  Plan({"node1"}, {"node2"}, {<<a, b>>, <<b, a>>}, FALSE),
  \* two boards that unlock each other and log it
  Plan({"unlock_with_log"}, {"unlock_with_log"}, {<<a, b>>, <<b, a>>}, TRUE),
  \* every module that wants the same pins, and the device
  Plan({"gpio_timeline", "record_gpio_event", "node1", "node2", "latency", "ebbchar"},
       {}, {<<Outside, a>>}, FALSE)}

\* One logging board that nobody signals.
MCLogPlans == {Plan({"unlock_with_log"}, {}, {}, FALSE)}
=============================================================================
