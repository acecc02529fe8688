---------------------------- MODULE MavlinkFramer -----------------------------
(***************************************************************************)
(* The MAVLink framer, mavlink/framer.hpp, create_framer().  One action per *)
(* co_await of the coroutine; a step is one push_byte(), see InputAwaiter.  *)
(* Versions 1 and 2 share the coroutine: version 2 adds two flag bytes and  *)
(* two message id bytes to the header and, when the first flag bit is set,  *)
(* a signature to the end.                                                  *)
(*                                                                          *)
(* Only the payload and the signature are checked against the size of the   *)
(* buffer.  A header or checksum byte that does not fit is written all the  *)
(* same, outside the span: here it is lost, and buffer_idx records that it  *)
(* was written.  Reading outside the span yields any byte.                  *)
(***************************************************************************)
EXTENDS Octets, Sequences

CONSTANTS BufferSize,  \* active_buffer_ptr->size()
          MaxLen,      \* largest payload length that arrives, 255 in a real stream
          SigLen,      \* 13 in the code
          Arrives      \* the bytes that may arrive at each co_await

Location == {"stx", "len", "inc", "cmp", "seq", "sys", "comp", "id0", "id1", "id2",
             "payload", "crc1", "crc2", "signature"}

ASSUME SizeAssumption == BufferSize \in Nat /\ MaxLen \in 0..255 /\ SigLen \in Nat \ {0}
ASSUME ArrivesAssumption ==
  /\ \A l \in Location : Arrives[l] \subseteq Octet
  /\ Arrives["len"] \subseteq 0..MaxLen

VARIABLES
  pc,          \* the co_await the coroutine is suspended in
  buffer,      \* the bytes of *active_buffer_ptr written for this frame
  idx,
  magic,
  len,
  view,
  count,       \* iterations done by the payload or signature loop
  output,      \* what the last push_byte() returned
  frame        \* history: the bytes since the start marker, <<>> between frames

vars == <<pc, buffer, idx, magic, len, view, count, output, frame>>

STX1 == 254
STX2 == 253
IsV2 == magic = STX2

\* A message view: the payload is a std::span into the buffer, and the message id is kept
\* as the three bytes its value is made of.
NoPayload == [start |-> 0, len |-> 0]
NoId == [low |-> 0, mid |-> 0, high |-> 0]
NoMessage == [seq |-> 0, sysid |-> 0, compid |-> 0, msgid |-> NoId, payload |-> NoPayload]
Span == [start : 0..10, len : 0..MaxLen]
MsgId == [low : Octet, mid : Octet, high : Octet]
MessageView == [seq : Octet, sysid : Octet, compid : Octet, msgid : MsgId, payload : Span]

Silence == [kind |-> "none"]
OverrunReport == [kind |-> "overrun"]
Output == {Silence, OverrunReport} \union [kind : {"view"}, view : MessageView]

TypeOK ==
  /\ pc \in Location
  /\ buffer \in Seq(Octet) /\ Len(buffer) <= BufferSize
  /\ idx \in 0..12 + MaxLen + SigLen
  /\ magic \in Octet /\ len \in 0..MaxLen
  /\ view \in MessageView
  /\ count \in Nat
  /\ output \in Output
  /\ frame \in Seq(Octet)

Init ==
  /\ pc = "stx"
  /\ buffer = <<>> /\ idx = 0 /\ magic = 0 /\ len = 0 /\ count = 0
  /\ view = NoMessage
  /\ output = Silence /\ frame = <<>>

-------------------------------------------------------------------------------
Await(location) == pc' = location /\ output' = Silence

\* (*active_buffer_ptr)[idx++] = c, without a bounds check.
Store(c) ==
  /\ buffer' = IF idx < BufferSize THEN Append(buffer, c) ELSE buffer
  /\ idx' = idx + 1

Read(c) == frame' = Append(frame, c)

\* Bug: idx is declared outside the loop, and goes on from the last frame.
BugKeepsIndex(c) ==
  /\ pc = "stx" /\ c \in {STX1, STX2}
  /\ view' = NoMessage /\ len' = 0 /\ count' = 0 /\ magic' = c
  /\ Store(c)
  /\ Await("len") /\ frame' = <<c>>

\* 1. Wait for STX; the locals of the loop body are fresh for every frame.
ReadStx(c) ==
  /\ pc = "stx"
  /\ view' = NoMessage /\ len' = 0 /\ count' = 0
  /\ magic' = c
  /\ IF c \in {STX1, STX2}
     THEN /\ buffer' = IF BufferSize > 0 THEN <<c>> ELSE <<>>
          /\ idx' = 1
          /\ Await("len") /\ frame' = <<c>>
     ELSE /\ idx' = 0
          /\ Await("stx") /\ UNCHANGED <<buffer, frame>>

\* 2. Payload length.
ReadLen(c) ==
  /\ pc = "len"
  /\ len' = c /\ Store(c) /\ Read(c)
  /\ Await(IF IsV2 THEN "inc" ELSE "seq")
  /\ UNCHANGED <<magic, view, count>>

\* 3. Header fields: the two flag bytes of version 2 are only stored.
ReadFlags(c) ==
  /\ pc \in {"inc", "cmp"}
  /\ Store(c) /\ Read(c)
  /\ Await(IF pc = "inc" THEN "cmp" ELSE "seq")
  /\ UNCHANGED <<magic, len, view, count>>

ReadSeq(c) ==
  /\ pc = "seq"
  /\ view' = [view EXCEPT !.seq = c] /\ Store(c) /\ Read(c)
  /\ Await("sys")
  /\ UNCHANGED <<magic, len, count>>

ReadSys(c) ==
  /\ pc = "sys"
  /\ view' = [view EXCEPT !.sysid = c] /\ Store(c) /\ Read(c)
  /\ Await("comp")
  /\ UNCHANGED <<magic, len, count>>

ReadComp(c) ==
  /\ pc = "comp"
  /\ view' = [view EXCEPT !.compid = c] /\ Store(c) /\ Read(c)
  /\ Await("id0")
  /\ UNCHANGED <<magic, len, count>>

\* Bug: the payload begins with the last byte of the header.
BugPayloadTooEarly(v) ==
  /\ view' = [v EXCEPT !.payload = [start |-> idx, len |-> len]]
  /\ count' = 0
  /\ Await(IF len = 0 THEN "crc1" ELSE "payload")

\* The header is complete: the payload span starts here and is as long as announced.  A
\* payload without bytes has no co_await of its own.
EndHeader(v) ==
  /\ view' = [v EXCEPT !.payload = [start |-> idx + 1, len |-> len]]
  /\ count' = 0
  /\ Await(IF len = 0 THEN "crc1" ELSE "payload")

ReadId0(c) ==
  /\ pc = "id0"
  /\ Store(c) /\ Read(c)
  /\ IF IsV2
     THEN view' = [view EXCEPT !.msgid.low = c] /\ Await("id1") /\ UNCHANGED count
     ELSE EndHeader([view EXCEPT !.msgid.low = c])
  /\ UNCHANGED <<magic, len>>

\* The two higher bytes of a version 2 message id, little endian.
ReadId1(c) ==
  /\ pc = "id1"
  /\ view' = [view EXCEPT !.msgid.mid = c] /\ Store(c) /\ Read(c)
  /\ Await("id2")
  /\ UNCHANGED <<magic, len, count>>

ReadId2(c) ==
  /\ pc = "id2"
  /\ Store(c) /\ Read(c)
  /\ EndHeader([view EXCEPT !.msgid.high = c])
  /\ UNCHANGED <<magic, len>>

\* The bounds check, and a bug: off by one.
BugOneByteMore == idx <= BufferSize
Fits == idx < BufferSize

\* Bug: the overrun is reported, but the loop goes on.
BugReadsOn ==
  /\ ~Fits
  /\ output' = OverrunReport
  /\ UNCHANGED <<pc, frame, buffer, idx, magic, len, view, count>>

\* A byte that does not fit is reported, and the frame abandoned.
YieldOverrun ==
  /\ ~Fits
  /\ pc' = "stx" /\ output' = OverrunReport /\ frame' = <<>>
  /\ UNCHANGED <<buffer, idx, magic, len, view, count>>

\* The frame is complete.
YieldView ==
  /\ pc' = "stx" /\ output' = [kind |-> "view", view |-> view] /\ frame' = <<>>

\* 4. Payload, bounds checked.
ReadPayload(c) ==
  /\ pc = "payload"
  /\ \/ YieldOverrun
     \/ /\ Fits
        /\ Store(c) /\ Read(c)
        /\ count' = count + 1
        /\ Await(IF count + 1 = len THEN "crc1" ELSE "payload")
        /\ UNCHANGED <<magic, len, view>>

\* 5. Checksum: stored, never validated.
ReadCrc1(c) ==
  /\ pc = "crc1"
  /\ Store(c) /\ Read(c)
  /\ Await("crc2")
  /\ UNCHANGED <<magic, len, view, count>>

\* What (*active_buffer_ptr)[2] may read.
IncFlags == IF BufferSize > 2 THEN {buffer[3]} ELSE Octet

\* Bug: the third byte of a version 1 frame is taken for flags.
BugFlagsOfAnyVersion(c) ==
  /\ pc = "crc2"
  /\ Store(c)
  /\ count' = 0
  /\ \E flags \in IncFlags :
       IF flags % 2 = 1 THEN Await("signature") /\ Read(c) ELSE YieldView
  /\ UNCHANGED <<magic, len, view>>

ReadCrc2(c) ==
  /\ pc = "crc2"
  /\ Store(c)
  /\ count' = 0
  /\ \/ /\ IsV2 /\ \E flags \in IncFlags : flags % 2 = 1
        /\ Await("signature") /\ Read(c)
     \/ /\ IsV2 => \E flags \in IncFlags : flags % 2 = 0
        /\ YieldView
  /\ UNCHANGED <<magic, len, view>>

\* 6. Signature, bounds checked.
ReadSignature(c) ==
  /\ pc = "signature"
  /\ \/ YieldOverrun
     \/ /\ Fits
        /\ Store(c)
        /\ count' = count + 1
        /\ IF count + 1 = SigLen THEN YieldView ELSE Await("signature") /\ Read(c)
        /\ UNCHANGED <<magic, len, view>>

push_byte(c) ==
  \/ ReadStx(c) \/ ReadLen(c) \/ ReadFlags(c)
  \/ ReadSeq(c) \/ ReadSys(c) \/ ReadComp(c)
  \/ ReadId0(c) \/ ReadId1(c) \/ ReadId2(c)
  \/ ReadPayload(c) \/ ReadCrc1(c) \/ ReadCrc2(c) \/ ReadSignature(c)

Next == \E c \in Arrives[pc] : push_byte(c)

Spec == Init /\ [][Next]_vars

\* A receiver that keeps pushing the bytes that arrive.
FairSpec == Spec /\ WF_vars(Next)

-------------------------------------------------------------------------------
(* Properties *)

\* No byte of a frame is written outside the buffer.  The code does not check this for the
\* header and the checksum: it holds if the buffer has room for the longest frame.
NoStrayWrite == idx <= BufferSize

\* The bytes of the payload span of a view that push_byte() returns lie inside the buffer,
\* among the bytes written for the frame that has just been received, even when parts of
\* the frame did not fit.
PayloadReceived ==
  output.kind = "view" =>
    LET p == output.view.payload IN p.len > 0 => p.start + p.len <= Len(buffer)

\* No input leaves the framer inside a frame for ever: as long as bytes arrive, whatever the
\* length byte announced, it comes back to looking for a start marker.
AlwaysResynchronises == pc # "stx" ~> pc = "stx"

-------------------------------------------------------------------------------
(* The inductive invariant behind them: at every co_await the index is the position of the *)
(* awaited byte in the frame.                                                               *)

HeaderLen == IF IsV2 THEN 10 ELSE 6
FixedPart == IF IsV2 THEN 4 ELSE 2

Position ==
  /\ pc = "len"       => idx = 1
  /\ pc = "inc"       => idx = 2 /\ IsV2
  /\ pc = "cmp"       => idx = 3 /\ IsV2
  /\ pc = "seq"       => idx = FixedPart
  /\ pc = "sys"       => idx = FixedPart + 1
  /\ pc = "comp"      => idx = FixedPart + 2
  /\ pc = "id0"       => idx = FixedPart + 3
  /\ pc = "id1"       => idx = 8 /\ IsV2
  /\ pc = "id2"       => idx = 9 /\ IsV2
  /\ pc = "payload"   => idx = HeaderLen + count /\ count < len
  /\ pc = "crc1"      => idx = HeaderLen + len
  /\ pc = "crc2"      => idx = HeaderLen + len + 1
  /\ pc = "signature" => idx = HeaderLen + len + 2 + count /\ count < SigLen /\ IsV2

\* From the end of the header on, the view's payload is the announced part of the frame.
PayloadInv ==
  pc \in {"payload", "crc1", "crc2", "signature"} =>
    view.payload = [start |-> HeaderLen, len |-> len]

\* Every byte that fitted is in the buffer.
BufferInv == Len(buffer) = IF idx < BufferSize THEN idx ELSE BufferSize

\* What lets the payload span of a frame be readable at its end: it was bounds checked.
PayloadFits ==
  /\ pc = "payload" /\ count > 0 => HeaderLen + count <= BufferSize
  /\ pc \in {"crc1", "crc2", "signature"} /\ len > 0 => HeaderLen + len <= BufferSize

FramerInv == TypeOK /\ Position /\ PayloadInv /\ (pc # "stx" => BufferInv)
===============================================================================
