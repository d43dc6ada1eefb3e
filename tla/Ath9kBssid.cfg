CONSTANTS
  Vif = {v1, v2}
  Bss = {b1}
  Types = {"STATION", "MESH_POINT"}
  None = None
SPECIFICATION DeviceSpec
SYMMETRY Symmetry
CONSTRAINT PlainDevice
INVARIANTS BssidFollowsPrimary
