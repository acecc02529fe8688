------------------------------ MODULE MavlinkLink ------------------------------
(***************************************************************************)
(* One direction of a MAVLink connection: serialize(), a serial line that   *)
(* may damage what it carries, the framer and deserialize().  The framer is *)
(* taken at its specification MavlinkFrame, which MavlinkFramer implements. *)
(*                                                                          *)
(* The next frame is put on the line when the last has left it; the framer  *)
(* sees one stream of bytes either way.                                     *)
(***************************************************************************)
EXTENDS MavlinkCodec

CONSTANTS RxSize,      \* size of the framer's buffer
          SigLen,      \* bytes of a signature
          Known,       \* the messages the receiving application handles
          Scenario,    \* what happens on the link in one run, and for each scenario:
          Sends,       \* the messages sent, their values and the size of serialize()'s buffer
          MaxFrames,   \* bound: how many calls of serialize() there are
          MaxFaults,   \* bound: how many bytes of frames the line loses or changes
          Garbage,     \* what a byte on the line may be turned into
          Noise        \* bytes the line makes up between frames

ASSUME SizeAssumption == RxSize \in Nat /\ SigLen \in Nat
ASSUME NoiseAssumption ==
  Noise \in [Scenario -> SUBSET (Octet \ {253, 254})] /\ Garbage \subseteq Octet

\* A message is its type with the bytes of its fields, as many as the length of a frame can tell.
ASSUME SendAssumption ==
  \A s \in Scenario : \A x \in Sends[s] :
    /\ x.msg \in Known /\ x.msg.id \in Nat /\ x.msg.id < 256 * 256 * 256
    /\ Len(x.values) = Len(x.msg.fields)
    /\ x.values \in Seq(Seq(Octet))
    /\ \A k \in 1..Len(x.values) : Len(x.values[k]) = x.msg.fields[k].width
    /\ Len(FullPayload(x.values)) \in 1..255
ASSUME KnownAssumption ==
  /\ \A m, n \in Known : m.id = n.id => m = n
  /\ \A m \in Known : CrcExtra[m.id] \in Octet
ASSUME BoundAssumption == MaxFrames \in [Scenario -> Nat] /\ MaxFaults \in [Scenario -> Nat]

VARIABLES
  scenario,
  line,     \* bytes on their way
  frame,    \* what the framer has of the current frame
  report,   \* its answer to the last byte
  sent,     \* the message last put on the line
  got,      \* what the receiving application made of the bytes since then
  count,    \* history: how many calls of serialize() there were
  plain,    \* history: no frame so far had a start marker behind its first byte
  faults,   \* history: how many bytes were lost, and how many changed
  since,    \* history: frames put on the line after the last fault, 2 for 2 and more
  damaged   \* history: the framer could not read the frame on the line as it was sent

vars == <<scenario, line, frame, report, sent, got, count, plain, faults, since, damaged>>

Receiver == INSTANCE MavlinkFrame WITH BufferSize <- RxSize

Sys == 1
Comp == 2
Seqno == 3

Nothing == [kind |-> "nothing"]

TypeOK ==
  /\ line \in Seq(Octet) /\ frame \in Seq(Octet)
  /\ Len(line) <= MaxPacket /\ Len(frame) < 10 + 255 + 2 + SigLen
  /\ got.kind \in {"nothing", "message", "parse_error", "overrun"}
  /\ faults \in [lost : 0..MaxFaults[scenario], changed : 0..MaxFaults[scenario]]
  /\ count \in 0..MaxFrames[scenario] /\ since \in 0..2 /\ damaged \in BOOLEAN /\ plain \in BOOLEAN

Init ==
  /\ scenario \in Scenario
  /\ line = <<>> /\ frame = <<>> /\ report = Receiver!Silence
  /\ sent = Nothing /\ got = Nothing /\ count = 0 /\ plain = TRUE
  /\ faults = [lost |-> 0, changed |-> 0] /\ since = 0 /\ damaged = FALSE

-------------------------------------------------------------------------------
\* The sender serializes a message and writes the bytes to the line.
Send(s) ==
  LET out == serialize(s.msg, s.values, Sys, Comp, Seqno, s.size)
  IN  /\ line = <<>> /\ count < MaxFrames[scenario]
      /\ count' = count + 1
      /\ out.kind = "frame"
      /\ line' = out.bytes
      /\ sent' = [kind |-> "message", msg |-> s.msg, values |-> s.values]
      /\ got' = Nothing
      /\ since' = IF since = 2 THEN 2 ELSE since + 1
      /\ damaged' = (frame # <<>>)
      /\ plain' = (plain /\ \A i \in 2..Len(out.bytes) : out.bytes[i] \notin {253, 254})
      /\ UNCHANGED <<scenario, frame, report, faults>>

\* A buffer smaller than the longest packet is refused, and nothing is sent.
SendFails(s) ==
  /\ line = <<>> /\ count < MaxFrames[scenario]
  /\ count' = count + 1
  /\ serialize(s.msg, s.values, Sys, Comp, Seqno, s.size).kind = "overrun"
  /\ sent' = Nothing /\ got' = Nothing
  /\ UNCHANGED <<scenario, line, frame, report, plain, faults, since, damaged>>

\* The application deserializes the message that a view names, if it knows it; history:
\* whether the checksum of the frame was that of the message's definition.
Application(f, view) ==
  LET known == {m \in Known : m.id = MsgId(view)}
      m == CHOOSE x \in known : TRUE
      end == Receiver!PayloadEnd(f)
      crc == X25(SubSeq(f, 2, end) \o <<CrcExtra[m.id]>>)
  IN  IF known = {} THEN Nothing
      ELSE [kind |-> deserialize(m, view).kind, message |-> deserialize(m, view),
            valid |-> f[end + 1] = crc % 256 /\ f[end + 2] = crc \div 256]

\* push_byte(), and what the application does with its answer.
PushByte(c) ==
  /\ Receiver!Skip(c) \/ Receiver!Begin(c) \/ Receiver!Continue(c)
  /\ got' = CASE report'.kind = "view" -> Application(Append(frame, c), report'.view)
              [] report'.kind = "overrun" -> [kind |-> "overrun"]
              [] OTHER -> got

Deliver ==
  /\ line # <<>>
  /\ PushByte(Head(line))
  /\ line' = Tail(line)
  /\ UNCHANGED <<scenario, sent, count, plain, faults, since, damaged>>

\* External: the line.
Lose ==
  /\ line # <<>> /\ faults.lost + faults.changed < MaxFaults[scenario]
  /\ line' = Tail(line)
  /\ faults' = [faults EXCEPT !.lost = @ + 1]
  /\ since' = 0 /\ damaged' = TRUE
  /\ UNCHANGED <<scenario, frame, report, sent, got, count, plain>>

Change(c) ==
  /\ line # <<>> /\ c # Head(line) /\ faults.lost + faults.changed < MaxFaults[scenario]
  /\ PushByte(c)
  /\ line' = Tail(line)
  /\ faults' = [faults EXCEPT !.changed = @ + 1]
  /\ since' = 0 /\ damaged' = TRUE
  /\ UNCHANGED <<scenario, sent, count, plain>>

MakeUp(c) ==
  /\ line = <<>>
  /\ PushByte(c)
  /\ UNCHANGED <<scenario, line, sent, count, plain, faults, since, damaged>>

Next ==
  \/ \E s \in Sends[scenario] : Send(s) \/ SendFails(s)
  \/ Deliver
  \/ Lose
  \/ \E c \in Garbage : Change(c)
  \/ \E c \in Noise[scenario] : MakeUp(c)

Spec == Init /\ [][Next]_vars

-------------------------------------------------------------------------------
(* Properties *)

\* The message sent, out of a frame whose checksum is that of its definition.
Intact == [kind |-> "message", message |-> sent, valid |-> TRUE]

\* A message whose frame arrives as it was sent, and finds the framer between frames, comes
\* out of deserialize() with the fields it went into serialize() with, whatever zeros its
\* payload ends in and wherever they were cut; its checksum is the X.25 one, with the extra
\* byte of its definition.
IntactDelivered == line = <<>> /\ sent # Nothing /\ ~damaged => got = Intact

\* Nothing comes out of a frame before its last byte is in, and a line that has not damaged
\* anything delivers nothing that was not sent, noise between the frames included.
NothingInvented ==
  got # Nothing /\ faults.lost = 0 /\ faults.changed = 0 =>
    line = <<>> /\ got = Intact

\* A lost byte costs the frame it belongs to and at most the next one: the framer, which has
\* no timeout, takes bytes of the next frame for the rest of the damaged one and then finds
\* the start of the frame after it.  Only a frame with the value of a
\* start marker in its payload or its checksum can mislead it longer.
LossCostsTwoFrames ==
  plain /\ faults.lost = 1 /\ faults.changed = 0 /\ since = 2 => ~damaged

\* The widths of the elements of a message's fields never increase, which is the order MAVLink
\* puts them on the wire in and the serializer relies on the declarations for.
WireOrder ==
  sent # Nothing =>
    \A k \in 2..Len(sent.msg.fields) : sent.msg.fields[k].unit <= sent.msg.fields[k - 1].unit

\* What deserialize() returns carried the checksum that binds it to the message's definition
\* (code-analysis.md, Protocol Integrity).
DefinitionConsistent == got.kind = "message" => got.valid
===============================================================================
