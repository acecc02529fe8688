CONSTANTS
  u1 = u1
  u2 = u2
  d1 = d1
  f1 = f1
  f2 = f2
  f3 = f3
  NoHandle = NoHandle
  Uart = {u1, u2}
  Device = {d1}
  DeviceOf <- OneDevice
  Descriptor = {f1, f2, f3}
  Requests <- LineRequests
  Unsupported <- NoHighSpeed
  PowerOn <- PoweredOn
  QueueSize = 0
SPECIFICATION Spec
SYMMETRY Symmetry
INVARIANTS
  HandleIsOwn
  DescriptorsAccounted
  ConfigurationStands
PROPERTIES
  ForeignUntouched
