CONSTANTS
  u1 = u1
  u2 = u2
  d1 = d1
  f1 = f1
  f2 = f2
  f3 = f3
  NoHandle = NoHandle
  Uart = {u1}
  Device = {d1}
  DeviceOf <- OneDevice
  Descriptor = {f1}
  Requests <- AllRequests
  Unsupported <- NoOddParity
  PowerOn <- PoweredOn
  QueueSize = 1
SPECIFICATION Spec
INVARIANTS
  UartInv
  OutOfSyncReported
PROPERTY TimeoutInForce
