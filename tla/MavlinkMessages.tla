---------------------------- MODULE MavlinkMessages ----------------------------
(***************************************************************************)
(* The messages of mavlink/payloads: for each struct its MessageId and the  *)
(* fields boost::pfr walks, in declaration order.  Only what reaches the    *)
(* wire is kept of a field: its width, and the width of its elements, by    *)
(* which MAVLink orders the fields of a message.                            *)
(***************************************************************************)
EXTENDS Naturals, Sequences

\* Signed, unsigned and floating point fields of a width look alike on the wire.
U8  == [width |-> 1, unit |-> 1]
U16 == [width |-> 2, unit |-> 2]
U32 == [width |-> 4, unit |-> 4]
U64 == [width |-> 8, unit |-> 8]
Bytes(n) == [width |-> n, unit |-> 1]

Times(n, field) == [i \in 1..n |-> field]

\* Bug: the fields in the order of the message's definition instead of the wire's.
BugDefinitionOrder == [id |-> 22, fields |-> <<Bytes(16), U32, U8>> \o Times(2, U16)]

Heartbeat == [id |-> 0, fields |-> <<U32>> \o Times(5, U8)]
SysStatus == [id |-> 1, fields |-> Times(3, U32) \o Times(9, U16) \o <<U8>>]
SystemTime == [id |-> 2, fields |-> <<U64>> \o <<U32>>]
ChangeOperatorControl == [id |-> 5, fields |-> Times(3, U8) \o <<Bytes(25)>>]
ChangeOperatorControlAck == [id |-> 6, fields |-> Times(3, U8)]
AuthKey == [id |-> 7, fields |-> <<Bytes(32)>>]
ParamRequestRead == [id |-> 20, fields |-> <<U16>> \o Times(2, U8) \o <<Bytes(16)>>]
ParamRequestList == [id |-> 21, fields |-> Times(2, U8)]
ParamValue == [id |-> 22, fields |-> <<U32>> \o Times(2, U16) \o <<Bytes(16)>> \o <<U8>>]
ParamSet == [id |-> 23, fields |-> <<U32>> \o Times(2, U8) \o <<Bytes(16)>> \o <<U8>>]
GpsRawInt == [id |-> 24, fields |-> <<U64>> \o Times(8, U32) \o Times(5, U16) \o Times(2, U8)]
GpsStatus == [id |-> 25, fields |-> <<U8>> \o Times(5, Bytes(20))]
ScaledImu == [id |-> 26, fields |-> <<U32>> \o Times(9, U16)]
RawImu == [id |-> 27, fields |-> <<U64>> \o Times(9, U16)]
RawPressure == [id |-> 28, fields |-> <<U64>> \o Times(4, U16)]
ScaledPressure == [id |-> 29, fields |-> Times(3, U32) \o <<U16>>]
Attitude == [id |-> 30, fields |-> Times(7, U32)]
AttitudeQuaternion == [id |-> 31, fields |-> Times(8, U32)]
LocalPositionNed == [id |-> 32, fields |-> Times(7, U32)]
GlobalPositionInt == [id |-> 33, fields |-> Times(5, U32) \o Times(4, U16)]
RcChannelsScaled == [id |-> 34, fields |-> <<U32>> \o Times(8, U16) \o Times(2, U8)]
RcChannelsRaw == [id |-> 35, fields |-> <<U32>> \o Times(8, U16) \o Times(2, U8)]
VfrHud == [id |-> 74, fields |-> Times(4, U32) \o Times(2, U16)]
CommandInt == [id |-> 75, fields |-> Times(7, U32) \o <<U16>> \o Times(5, U8)]
CommandLong == [id |-> 76, fields |-> Times(7, U32) \o <<U16>> \o Times(3, U8)]
CommandAck == [id |-> 77, fields |-> <<U16>> \o <<U8>>]
AutopilotVersion ==
  [id |-> 148, fields |-> Times(2, U64) \o Times(4, U32) \o Times(2, U16) \o Times(3, Bytes(8)) \o <<Bytes(18)>>]

\* Every message of the library.
Payloads ==
  {Heartbeat, SysStatus, SystemTime, ChangeOperatorControl,
   ChangeOperatorControlAck, AuthKey, ParamRequestRead, ParamRequestList,
   ParamValue, ParamSet, GpsRawInt, GpsStatus, ScaledImu, RawImu, RawPressure,
   ScaledPressure, Attitude, AttitudeQuaternion, LocalPositionNed,
   GlobalPositionInt, RcChannelsScaled, RcChannelsRaw, VfrHud, CommandInt,
   CommandLong, CommandAck, AutopilotVersion}
===============================================================================
