CONSTANTS
  Devices = {ptr, kbd}
  Pointer = ptr
  Clients = {a, b}
  Depth = 2
  MaxEvents = 3
  None = None
SPECIFICATION Spec
INVARIANT PressesKeepOrder
