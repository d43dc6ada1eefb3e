---------------------------- MODULE MCAth9kDevice ----------------------------
EXTENDS Ath9kDevice, TLC

\* Neither the driver nor the properties tell interfaces or networks apart.
Symmetry == Permutations(Vif) \cup Permutations(Bss)

\* Bound: interfaces come to a device that has neither a DFS detector nor an
\* EEPROM file, which they have nothing to do with; they do so between the
\* registration and the next step, or once the device is up; and when the
\* driver goes, the bus turns to the device at once.
PlainDevice ==
  nvifs > 0 =>
    /\ held["dfs"] = 0 /\ held["eeprom"] = 0
    /\ stage # "debug"
    /\ driver = "loaded" \/ (driver = "exiting" /\ stage = "unregistering")
=============================================================================
