CONSTANTS
  Vif = {v1, v2, v3}
  Bss = {b1, b2}
  Types = {"STATION", "AP", "ADHOC"}
  None = None
SPECIFICATION DeviceSpec
SYMMETRY Symmetry
CONSTRAINT PlainDevice
INVARIANTS DeviceTypeOK DeviceUnwound InterfacesAgree
