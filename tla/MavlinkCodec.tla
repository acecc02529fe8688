----------------------------- MODULE MavlinkCodec ------------------------------
(***************************************************************************)
(* mavlink/serializer.hpp, deserializer.hpp and the CRC of checksum.hpp: a  *)
(* message and the bytes of its frame.  A field's value is its bytes as they *)
(* lie in the memory of a little-endian host.                               *)
(***************************************************************************)
EXTENDS Octets, MavlinkMessages, SequencesExt

CONSTANT CrcExtra  \* CrcExtra() of each message, by MessageId

-------------------------------------------------------------------------------
(* The X.25 checksum *)

\* a ^ b on uint16_t.
Xor16(a, b) == 256 * XorOctet(a \div 256, b \div 256) + XorOctet(a % 256, b % 256)

\* Bug: the shifted byte is not narrowed to uint8_t.
BugWideShift(data, crc) ==
  LET t == XorOctet(data, crc % 256)
      tmp == 256 * (t \div 16) + XorOctet(t, (t * 16) % 256)
  IN  XorOctet(crc \div 256, (tmp * 8) % 256) + 256 * tmp + tmp \div 16

\* One byte through the table-free update of the register.
crc_accumulate(data, crc) ==
  LET t == XorOctet(data, crc % 256)
      tmp == XorOctet(t, (t * 16) % 256)
  IN  Xor16(Xor16(crc \div 256, tmp * 256), Xor16(tmp * 8, tmp \div 16))

\* The register after one step for each byte.
Register(step, first, bytes) ==
  LET after[n \in 0..Len(bytes)] == IF n = 0 THEN first ELSE step[after[n - 1]][bytes[n]]
  IN  after[Len(bytes)]

crc_accumulate_buffer(crc, bytes) ==
  Register([acc \in Nat |-> [b \in Octet |-> crc_accumulate(b, acc)]], crc, bytes)

\* What it is meant to compute: the register shifts right one bit at a time, and the
\* polynomial 16#8408 is added whenever the bit that leaves it differs from the data's.
X25Shift(crc, bit) == IF crc % 2 = bit THEN crc \div 2 ELSE Xor16(crc \div 2, 33800)

X25Byte(crc, d) ==
  LET shift(reg, i) == X25Shift(reg, BitOf(d, i))
  IN  shift(shift(shift(shift(shift(shift(shift(shift(crc, 0), 1), 2), 3), 4), 5), 6), 7)

X25(bytes) == Register([crc \in Nat |-> [b \in Octet |-> X25Byte(crc, b)]], 65535, bytes)

-------------------------------------------------------------------------------
(* serialize() *)

MaxPacket == 280

FullPayload(values) == FlattenSeq(values)

\* Bug: the payload is cut at its first zero byte.
BugCutsAtFirstZero(payload) ==
  LET zeros == {i \in 1..Len(payload) : payload[i] = 0}
  IN  IF zeros = {} THEN payload ELSE SubSeq(payload, 1, Max({1, Min(zeros) - 1}))

\* Zero truncation: trailing zero bytes are dropped, down to one byte.
ZeroTruncated(payload) ==
  SubSeq(payload, 1, Max({1} \union {i \in 1..Len(payload) : payload[i] # 0}))

\* Bug: the flags are forgotten and the header moves up.
BugHeaderMovesUp(m, len, seq, sysid, compid) ==
  <<len % 256, seq, sysid, compid, m.id % 256, (m.id \div 256) % 256, m.id \div (256 * 256), 0, 0>>

\* The header behind its start marker.
Header(m, len, seq, sysid, compid) ==
  <<len % 256, 0, 0, seq, sysid, compid,
    m.id % 256, (m.id \div 256) % 256, (m.id \div (256 * 256)) % 256>>

FrameCrc(header, payload, extra) ==
  crc_accumulate(extra,
    crc_accumulate_buffer(crc_accumulate_buffer(65535, header), payload))

\* The bytes written to a buffer of the given size, or the error for one that is too small.
serialize(m, values, sysid, compid, seq, size) ==
  LET payload == ZeroTruncated(FullPayload(values))
      header == Header(m, Len(payload), seq, sysid, compid)
      crc == FrameCrc(header, payload, CrcExtra[m.id])
  IN  IF size < MaxPacket
      THEN [kind |-> "overrun"]
      ELSE [kind |-> "frame",
            bytes |-> <<253>> \o header \o payload \o <<crc % 256, crc \div 256>>]

-------------------------------------------------------------------------------
(* deserialize() *)

MsgId(view) == view.msgid.low + 256 * view.msgid.mid + 256 * 256 * view.msgid.high

\* Where field k begins in a payload that was not truncated.
Offset(m, k) ==
  LET upTo[n \in 0..Len(m.fields)] == IF n = 0 THEN 0 ELSE upTo[n - 1] + m.fields[n].width
  IN  upTo[k - 1]

\* Bug: a field that was cut by truncation is taken for missing.
BugDropsPartialField(m, k, payload) ==
  [j \in 1..m.fields[k].width |->
    IF Offset(m, k) + m.fields[k].width <= Len(payload) THEN payload[Offset(m, k) + j] ELSE 0]

\* The bytes of the field that were received, and zeros for the rest of it.
FieldValue(m, k, payload) ==
  [j \in 1..m.fields[k].width |->
    IF Offset(m, k) + j <= Len(payload) THEN payload[Offset(m, k) + j] ELSE 0]

deserialize(m, view) ==
  IF MsgId(view) # m.id
  THEN [kind |-> "parse_error"]
  ELSE [kind |-> "message", msg |-> m,
        values |-> [k \in 1..Len(m.fields) |-> FieldValue(m, k, view.payload)]]
===============================================================================
