CONSTANTS
  u1 = u1
  u2 = u2
  d1 = d1
  d2 = d2
  h1 = h1
  h2 = h2
  NoHandle = NoHandle
  Uart = {u1, u2}
  Device = {d1, d2}
  DeviceOf <- TwoDevices
  Handle = {h1, h2}
  Requests <- MCRequests
  PowerOn <- PoweredOn
  PowerOnTimeouts <- NoTimeouts
  DwordSize = 8
SPECIFICATION Spec
SYMMETRY Symmetry
CONSTRAINT NotStrayed
INVARIANTS
  UartInv
  HandleOwnUntilClosed
  HandlesAccounted
  MembersTellWhatIsInForce
