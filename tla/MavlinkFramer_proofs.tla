------------------------ MODULE MavlinkFramer_proofs --------------------------
(***************************************************************************)
(* The MAVLink framer for every buffer size, payload limit and signature    *)
(* length.  Its memory safety: what the code checks itself (payloads lie in *)
(* the buffer), and what it leaves to its caller (with room for the longest *)
(* frame, no byte is written outside).  And what it answers: reading field  *)
(* by field, it finds the frames MavlinkFrame describes.                    *)
(***************************************************************************)
EXTENDS MavlinkFramerRefinement, SequenceTheorems, TLAPS

\* The values pc and output take.
LEMMA Members ==
  /\ "stx" \in Location /\ "len" \in Location /\ "inc" \in Location /\ "cmp" \in Location
  /\ "seq" \in Location /\ "sys" \in Location /\ "comp" \in Location
  /\ "id0" \in Location /\ "id1" \in Location /\ "id2" \in Location
  /\ "payload" \in Location /\ "crc1" \in Location /\ "crc2" \in Location
  /\ "signature" \in Location
  /\ Silence \in Output /\ OverrunReport \in Output
  /\ \A v \in MessageView : [kind |-> "view", view |-> v] \in Output
BY DEF Location, Output

\* create_framer() before the first byte.
LEMMA InitFramer == Init => FramerInv
<1> SUFFICES ASSUME Init PROVE FramerInv
  OBVIOUS
<1> USE SizeAssumption DEF Init
<1>1. view \in MessageView
  BY DEF NoMessage, NoPayload, NoId, MessageView, MsgId, Span, Octet
<1>2. buffer \in Seq(Octet) /\ Len(buffer) = 0 /\ frame \in Seq(Octet)
  BY EmptySeq
<1>3. TypeOK
  <2>1. 0 \in Octet
    BY DEF Octet
  <2> QED
    BY <1>1, <1>2, <2>1, Members DEF TypeOK
<1>4. Position /\ PayloadInv
  BY DEF Position, PayloadInv
<1> QED
  BY <1>3, <1>4 DEF FramerInv

\* Storing a byte keeps the buffer within its size, whether it fits or not.
LEMMA StoreBuffer ==
  ASSUME TypeOK, BufferInv, NEW c \in Octet, Store(c)
  PROVE  /\ buffer' \in Seq(Octet) /\ Len(buffer') <= BufferSize
         /\ idx' = idx + 1 /\ BufferInv'
<1>1. Append(buffer, c) \in Seq(Octet) /\ Len(Append(buffer, c)) = Len(buffer) + 1
  BY AppendProperties DEF TypeOK
<1>2. CASE idx < BufferSize
  BY <1>1, <1>2, SizeAssumption DEF Store, TypeOK, BufferInv
<1>3. CASE ~(idx < BufferSize)
  BY <1>3, SizeAssumption DEF Store, TypeOK, BufferInv
<1> QED
  BY <1>2, <1>3

LEMMA ReadFrame ==
  ASSUME TypeOK, NEW c \in Octet, Read(c)
  PROVE  frame' \in Seq(Octet)
BY AppendProperties DEF TypeOK, Read

\* FramerInv is inductive: at every co_await of either version the index is where the
\* layout of the frame puts it.
LEMMA NextFramer == FramerInv /\ [Next]_vars => FramerInv'
<1> SUFFICES ASSUME FramerInv, [Next]_vars PROVE FramerInv'
  OBVIOUS
<1> USE SizeAssumption
<1>0. TypeOK /\ Position /\ PayloadInv /\ (pc # "stx" => BufferInv)
  BY DEF FramerInv
<1>1. ASSUME NEW c \in Octet, ReadStx(c) PROVE FramerInv'
  <2>1. view' \in MessageView
    BY <1>1 DEF ReadStx, NoMessage, NoPayload, NoId, MessageView, MsgId, Span, Octet
  <2>2. CASE c \in {STX1, STX2}
    <3>1. buffer' \in Seq(Octet) /\ Len(buffer') <= BufferSize /\ BufferInv'
      <4>1. CASE BufferSize > 0
        <5>1. buffer' = <<c>> /\ idx' = 1
          BY <1>1, <2>2, <4>1 DEF ReadStx
        <5>2. <<c>> \in Seq(Octet) /\ Len(<<c>>) = 1
          OBVIOUS
        <5> QED
          BY <4>1, <5>1, <5>2 DEF BufferInv
      <4>2. CASE BufferSize = 0
        BY <1>1, <2>2, <4>2, EmptySeq DEF ReadStx, BufferInv
      <4> QED
        BY <4>1, <4>2
    <3>2. frame' \in Seq(Octet)
      <4>1. frame' = <<c>>
        BY <1>1, <2>2 DEF ReadStx
      <4>2. <<c>> \in Seq(Octet)
        OBVIOUS
      <4> QED
        BY <4>1, <4>2
    <3>3. TypeOK'
      BY <1>0, <1>1, <2>1, <2>2, <3>1, <3>2, Members DEF ReadStx, TypeOK, Await
    <3>4. Position' /\ PayloadInv'
      BY <1>1, <2>2 DEF ReadStx, Await, Position, PayloadInv
    <3> QED
      BY <3>1, <3>3, <3>4 DEF FramerInv
  <2>3. CASE c \notin {STX1, STX2}
    <3>1. TypeOK'
      BY <1>0, <1>1, <2>1, <2>3, Members DEF ReadStx, TypeOK, Await
    <3>2. Position' /\ PayloadInv' /\ pc' = "stx"
      BY <1>1, <2>3 DEF ReadStx, Await, Position, PayloadInv
    <3> QED
      BY <3>1, <3>2 DEF FramerInv
  <2> QED
    BY <2>2, <2>3
<1>2. ASSUME NEW c \in 0..MaxLen, ReadLen(c) PROVE FramerInv'
  <2>1. c \in Octet
    BY DEF Octet
  <2>2. pc = "len" /\ BufferInv /\ idx = 1
    BY <1>0, <1>2 DEF ReadLen, Position
  <2>3. buffer' \in Seq(Octet) /\ Len(buffer') <= BufferSize /\ idx' = 2 /\ BufferInv'
    BY <1>0, <1>2, <2>1, <2>2, StoreBuffer DEF ReadLen
  <2>4. TypeOK'
    BY <1>0, <1>2, <2>1, <2>3, ReadFrame, Members DEF ReadLen, TypeOK, Await
  <2>5. Position' /\ PayloadInv'
    BY <1>2, <2>3 DEF ReadLen, Await, Position, PayloadInv, FixedPart, IsV2
  <2> QED
    BY <2>3, <2>4, <2>5 DEF FramerInv
<1>3. ASSUME NEW c \in Octet, ReadFlags(c) PROVE FramerInv'
  <2>1. pc \in {"inc", "cmp"} /\ BufferInv /\ IsV2 /\ idx = IF pc = "inc" THEN 2 ELSE 3
    BY <1>0, <1>3 DEF ReadFlags, Position
  <2>2. buffer' \in Seq(Octet) /\ Len(buffer') <= BufferSize /\ idx' = idx + 1 /\ BufferInv'
    BY <1>0, <1>3, <2>1, StoreBuffer DEF ReadFlags
  <2>3. TypeOK'
    BY <1>0, <1>3, <2>1, <2>2, ReadFrame, Members DEF ReadFlags, TypeOK, Await
  <2>4. Position' /\ PayloadInv'
    BY <1>3, <2>1, <2>2 DEF ReadFlags, Await, Position, PayloadInv, FixedPart, IsV2
  <2> QED
    BY <2>2, <2>3, <2>4 DEF FramerInv
<1>4. ASSUME NEW c \in Octet, ReadSeq(c) \/ ReadSys(c) \/ ReadComp(c) PROVE FramerInv'
  <2>1. pc \in {"seq", "sys", "comp"} /\ BufferInv /\ idx \in 2..6
    BY <1>0, <1>4 DEF ReadSeq, ReadSys, ReadComp, Position, FixedPart
  <2>2. buffer' \in Seq(Octet) /\ Len(buffer') <= BufferSize /\ idx' = idx + 1 /\ BufferInv'
    BY <1>0, <1>4, <2>1, StoreBuffer DEF ReadSeq, ReadSys, ReadComp
  <2>3. view' \in MessageView /\ frame' \in Seq(Octet)
    <3>1. frame' \in Seq(Octet)
      BY <1>0, <1>4, ReadFrame DEF ReadSeq, ReadSys, ReadComp
    <3>2. view' \in MessageView
      <4>1. view \in MessageView
        BY <1>0 DEF TypeOK
      <4>2. \/ view' = [view EXCEPT !.seq = c]
            \/ view' = [view EXCEPT !.sysid = c]
            \/ view' = [view EXCEPT !.compid = c]
        BY <1>4 DEF ReadSeq, ReadSys, ReadComp
      <4> QED
        BY <4>1, <4>2 DEF MessageView
    <3> QED
      BY <3>1, <3>2
  <2>4. TypeOK'
    <3>1. pc' \in Location /\ output' \in Output /\ UNCHANGED <<magic, len, count>>
      BY <1>4, Members DEF ReadSeq, ReadSys, ReadComp, Await
    <3>2. idx' \in 0..12 + MaxLen + SigLen
      BY <2>1, <2>2
    <3> QED
      BY <1>0, <2>2, <2>3, <3>1, <3>2 DEF TypeOK
  <2>5. Position' /\ PayloadInv'
    BY <1>0, <1>4, <2>1, <2>2
    DEF ReadSeq, ReadSys, ReadComp, Await, Position, PayloadInv, FixedPart, IsV2
  <2> QED
    BY <2>2, <2>4, <2>5 DEF FramerInv
<1>5. ASSUME NEW v \in MessageView, NEW c \in Octet, Store(c), Read(c), EndHeader(v),
             pc # "stx", idx + 1 = HeaderLen, UNCHANGED <<magic, len>>
      PROVE  FramerInv'
  <2>1. buffer' \in Seq(Octet) /\ Len(buffer') <= BufferSize /\ idx' = HeaderLen /\ BufferInv'
    BY <1>0, <1>5, StoreBuffer
  <2>2. HeaderLen \in {6, 10} /\ HeaderLen' = HeaderLen
    BY <1>5 DEF HeaderLen, IsV2
  <2>3. view' = [v EXCEPT !.payload = [start |-> HeaderLen, len |-> len]] /\ count' = 0
    BY <1>5 DEF EndHeader
  <2>4. view' \in MessageView /\ view'.payload = [start |-> HeaderLen, len |-> len]
    <3>1. [start |-> HeaderLen, len |-> len] \in Span
      BY <1>0, <2>2 DEF Span, TypeOK
    <3> QED
      BY <2>3, <3>1 DEF MessageView
  <2>5. TypeOK'
    <3>1. pc' \in Location /\ output' \in Output /\ count' = 0
      BY <1>5, Members DEF EndHeader, Await
    <3>2. idx' \in 0..12 + MaxLen + SigLen
      BY <2>1, <2>2
    <3>3. frame' \in Seq(Octet)
      BY <1>0, <1>5, ReadFrame
    <3>4. magic' \in Octet /\ len' \in 0..MaxLen
      BY <1>0, <1>5 DEF TypeOK
    <3> QED
      BY <2>1, <2>4, <3>1, <3>2, <3>3, <3>4 DEF TypeOK
  <2>6. Position' /\ PayloadInv'
    BY <1>0, <1>5, <2>1, <2>2, <2>3, <2>4
    DEF EndHeader, Await, Position, PayloadInv, TypeOK
  <2> QED
    BY <2>1, <2>5, <2>6 DEF FramerInv
<1>6. ASSUME NEW c \in Octet, ReadId0(c) PROVE FramerInv'
  <2>1. pc = "id0" /\ BufferInv /\ idx = FixedPart + 3
    BY <1>0, <1>6 DEF ReadId0, Position
  <2>2. [view EXCEPT !.msgid.low = c] \in MessageView
    BY <1>0 DEF TypeOK, MessageView, MsgId
  <2>3. CASE ~IsV2
    BY <1>5, <1>6, <2>1, <2>2, <2>3 DEF ReadId0, HeaderLen, FixedPart
  <2>4. CASE IsV2
    <3>1. buffer' \in Seq(Octet) /\ Len(buffer') <= BufferSize /\ idx' = 8 /\ BufferInv'
      BY <1>0, <1>6, <2>1, <2>4, StoreBuffer DEF ReadId0, FixedPart
    <3>2. view' = [view EXCEPT !.msgid.low = c] /\ pc' = "id1" /\ UNCHANGED magic
      BY <1>6, <2>4 DEF ReadId0, Await
    <3>3. TypeOK'
      <4>1. pc' \in Location /\ output' \in Output /\ UNCHANGED <<magic, len, count>>
        BY <1>6, <2>4, Members DEF ReadId0, Await
      <4>2. frame' \in Seq(Octet)
        BY <1>0, <1>6, ReadFrame DEF ReadId0
      <4>3. idx' \in 0..12 + MaxLen + SigLen
        BY <3>1
      <4> QED
        BY <1>0, <2>2, <3>1, <3>2, <4>1, <4>2, <4>3 DEF TypeOK
    <3>4. Position' /\ PayloadInv'
      BY <2>4, <3>1, <3>2 DEF Position, PayloadInv, IsV2
    <3> QED
      BY <3>1, <3>3, <3>4 DEF FramerInv
  <2> QED
    BY <2>3, <2>4
<1>7. ASSUME NEW c \in Octet, ReadId1(c) PROVE FramerInv'
  <2>1. pc = "id1" /\ BufferInv /\ idx = 8 /\ IsV2
    BY <1>0, <1>7 DEF ReadId1, Position
  <2>2. buffer' \in Seq(Octet) /\ Len(buffer') <= BufferSize /\ idx' = 9 /\ BufferInv'
    BY <1>0, <1>7, <2>1, StoreBuffer DEF ReadId1
  <2>3. view' \in MessageView
    BY <1>0, <1>7 DEF ReadId1, TypeOK, MessageView, MsgId
  <2>4. TypeOK'
    <3>1. pc' \in Location /\ output' \in Output /\ UNCHANGED <<magic, len, count>>
      BY <1>7, Members DEF ReadId1, Await
    <3>2. frame' \in Seq(Octet)
      BY <1>0, <1>7, ReadFrame DEF ReadId1
    <3>3. idx' \in 0..12 + MaxLen + SigLen
      BY <2>2
    <3> QED
      BY <1>0, <2>2, <2>3, <3>1, <3>2, <3>3 DEF TypeOK
  <2>5. Position' /\ PayloadInv'
    BY <1>7, <2>1, <2>2, <2>3 DEF ReadId1, Await, Position, PayloadInv, IsV2
  <2> QED
    BY <2>2, <2>4, <2>5 DEF FramerInv
<1>8. ASSUME NEW c \in Octet, ReadId2(c) PROVE FramerInv'
  <2>1. pc = "id2" /\ BufferInv /\ idx = 9 /\ IsV2
    BY <1>0, <1>8 DEF ReadId2, Position
  <2>2. [view EXCEPT !.msgid.high = c] \in MessageView
    BY <1>0 DEF TypeOK, MessageView, MsgId
  <2> QED
    BY <1>5, <1>8, <2>1, <2>2 DEF ReadId2, HeaderLen
<1>9. CASE YieldOverrun
  <2>1. TypeOK'
    BY <1>0, <1>9, Members DEF YieldOverrun, Fits, TypeOK
  <2>2. Position' /\ PayloadInv' /\ pc' = "stx"
    BY <1>9 DEF YieldOverrun, Fits, Position, PayloadInv
  <2> QED
    BY <2>1, <2>2 DEF FramerInv
<1>10. ASSUME NEW c \in Octet, ReadPayload(c), idx < BufferSize PROVE FramerInv'
  <2>1. pc = "payload" /\ BufferInv /\ idx = HeaderLen + count /\ count < len
    BY <1>0, <1>10 DEF ReadPayload, Position
  <2>2. /\ Store(c) /\ Read(c) /\ count' = count + 1
        /\ Await(IF count + 1 = len THEN "crc1" ELSE "payload")
        /\ UNCHANGED <<magic, len, view>>
    <3>1. ~YieldOverrun
      BY <1>0, <1>10, SizeAssumption DEF YieldOverrun, Fits, TypeOK
    <3> QED
      BY <1>10, <3>1 DEF ReadPayload, Fits
  <2>3. buffer' \in Seq(Octet) /\ Len(buffer') <= BufferSize /\ idx' = idx + 1 /\ BufferInv'
    BY <1>0, <2>1, <2>2, StoreBuffer
  <2>4. HeaderLen \in {6, 10} /\ HeaderLen' = HeaderLen
    BY <2>2 DEF HeaderLen, IsV2
  <2>5. TypeOK'
    BY <1>0, <2>1, <2>2, <2>3, <2>4, ReadFrame, Members DEF TypeOK, Await
  <2>6. Position'
    BY <1>0, <2>1, <2>2, <2>3, <2>4 DEF TypeOK, Await, Position
  <2>7. PayloadInv'
    BY <1>0, <2>1, <2>2, <2>4 DEF Await, PayloadInv
  <2> QED
    BY <2>3, <2>5, <2>6, <2>7 DEF FramerInv
<1>11. ASSUME NEW c \in Octet, ReadCrc1(c) PROVE FramerInv'
  <2>1. pc = "crc1" /\ BufferInv /\ idx = HeaderLen + len
    BY <1>0, <1>11 DEF ReadCrc1, Position
  <2>2. buffer' \in Seq(Octet) /\ Len(buffer') <= BufferSize /\ idx' = idx + 1 /\ BufferInv'
    BY <1>0, <1>11, <2>1, StoreBuffer DEF ReadCrc1
  <2>3. HeaderLen \in {6, 10} /\ HeaderLen' = HeaderLen
    BY <1>11 DEF ReadCrc1, HeaderLen, IsV2
  <2>4. TypeOK'
    BY <1>0, <1>11, <2>1, <2>2, <2>3, ReadFrame, Members
    DEF ReadCrc1, TypeOK, Await
  <2>5. Position' /\ PayloadInv'
    BY <1>0, <1>11, <2>1, <2>2, <2>3 DEF ReadCrc1, Await, Position, PayloadInv
  <2> QED
    BY <2>2, <2>4, <2>5 DEF FramerInv
<1>12. ASSUME NEW c \in Octet, ReadCrc2(c) PROVE FramerInv'
  <2>1. pc = "crc2" /\ BufferInv /\ idx = HeaderLen + len + 1
    BY <1>0, <1>12 DEF ReadCrc2, Position
  <2>2. /\ buffer' \in Seq(Octet) /\ Len(buffer') <= BufferSize /\ idx' = idx + 1 /\ BufferInv'
        /\ count' = 0 /\ UNCHANGED <<magic, len, view>>
    BY <1>0, <1>12, <2>1, StoreBuffer DEF ReadCrc2
  <2>3. HeaderLen \in {6, 10} /\ HeaderLen' = HeaderLen
    BY <2>2 DEF HeaderLen, IsV2
  <2>4. idx' \in 0..12 + MaxLen + SigLen
    BY <1>0, <2>1, <2>2, <2>3 DEF TypeOK
  <2>5. CASE IsV2 /\ Await("signature") /\ Read(c)
    <3>1. TypeOK'
      BY <1>0, <2>2, <2>4, <2>5, ReadFrame, Members DEF TypeOK, Await
    <3>2. Position'
      BY <1>0, <2>1, <2>2, <2>3, <2>5 DEF Await, Position, IsV2, TypeOK
    <3>3. PayloadInv'
      BY <1>0, <2>1, <2>2, <2>3 DEF PayloadInv
    <3> QED
      BY <2>2, <3>1, <3>2, <3>3 DEF FramerInv
  <2>6. CASE YieldView
    <3>1. TypeOK'
      BY <1>0, <2>2, <2>4, <2>6, Members DEF TypeOK, YieldView
    <3>2. Position' /\ PayloadInv' /\ pc' = "stx"
      BY <2>6 DEF YieldView, Position, PayloadInv
    <3> QED
      BY <3>1, <3>2 DEF FramerInv
  <2> QED
    BY <1>12, <2>5, <2>6 DEF ReadCrc2
<1>13. ASSUME NEW c \in Octet, ReadSignature(c), idx < BufferSize PROVE FramerInv'
  <2>1. /\ pc = "signature" /\ BufferInv /\ IsV2
        /\ idx = HeaderLen + len + 2 + count /\ count < SigLen
    BY <1>0, <1>13 DEF ReadSignature, Position
  <2>2. /\ Store(c) /\ count' = count + 1 /\ UNCHANGED <<magic, len, view>>
        /\ IF count + 1 = SigLen THEN YieldView ELSE Await("signature") /\ Read(c)
    <3>1. ~YieldOverrun
      BY <1>0, <1>13, SizeAssumption DEF YieldOverrun, Fits, TypeOK
    <3> QED
      BY <1>13, <3>1 DEF ReadSignature, Fits
  <2>3. buffer' \in Seq(Octet) /\ Len(buffer') <= BufferSize /\ idx' = idx + 1 /\ BufferInv'
    BY <1>0, <2>1, <2>2, StoreBuffer
  <2>4. HeaderLen = 10 /\ HeaderLen' = HeaderLen
    BY <2>1, <2>2 DEF HeaderLen, IsV2
  <2>5. idx' \in 0..12 + MaxLen + SigLen /\ count' \in Nat
    BY <1>0, <2>1, <2>2, <2>3, <2>4 DEF TypeOK
  <2>6. CASE count + 1 = SigLen
    <3>1. TypeOK'
      BY <1>0, <2>2, <2>3, <2>5, <2>6, Members DEF TypeOK, YieldView
    <3>2. Position' /\ PayloadInv' /\ pc' = "stx"
      BY <2>2, <2>6 DEF YieldView, Position, PayloadInv
    <3> QED
      BY <3>1, <3>2 DEF FramerInv
  <2>7. CASE count + 1 # SigLen
    <3>1. TypeOK'
      BY <1>0, <2>2, <2>3, <2>5, <2>7, ReadFrame, Members DEF TypeOK, Await
    <3>2. Position'
      BY <1>0, <2>1, <2>2, <2>3, <2>4, <2>7 DEF Await, Position, IsV2, TypeOK
    <3>3. PayloadInv'
      BY <1>0, <2>1, <2>2, <2>4 DEF PayloadInv
    <3> QED
      BY <2>3, <3>1, <3>2, <3>3 DEF FramerInv
  <2> QED
    BY <2>6, <2>7
<1>14. CASE UNCHANGED vars
  BY <1>0, <1>14 DEF vars, FramerInv, TypeOK, Position, PayloadInv, BufferInv, HeaderLen,
                     FixedPart, IsV2
<1>15. ASSUME NEW c \in Arrives[pc], push_byte(c) PROVE FramerInv'
  <2>1. c \in Octet /\ (pc = "len" => c \in 0..MaxLen)
    BY <1>0, <1>15, ArrivesAssumption DEF TypeOK
  <2>2. CASE ReadPayload(c) \/ ReadSignature(c)
    <3>1. YieldOverrun \/ idx < BufferSize
      BY <2>2 DEF ReadPayload, ReadSignature, Fits
    <3> QED
      BY <1>9, <1>10, <1>13, <2>1, <2>2, <3>1
  <2>3. CASE ReadLen(c)
    BY <1>2, <2>1, <2>3 DEF ReadLen
  <2> QED
    BY <1>1, <1>3, <1>4, <1>6, <1>7, <1>8, <1>11, <1>12, <1>15, <2>1, <2>2, <2>3 DEF push_byte
<1> QED
  BY <1>14, <1>15 DEF Next

\* At every step of every run, for both versions of the protocol, the index is the position
\* of the awaited byte and the payload span is the announced part of the frame.
THEOREM FramerInvariant == Spec => []FramerInv
  BY InitFramer, NextFramer, PTL DEF Spec

\* How a step moves the index: payload and signature bytes are checked first.
LEMMA IndexStep ==
  ASSUME NEW c, push_byte(c)
  PROVE  \/ idx' \in {0, 1, idx}
         \/ idx' = idx + 1 /\ pc # "stx" /\ (pc \in {"payload", "signature"} => Fits)
<1>1. CASE ReadStx(c)
  BY <1>1 DEF ReadStx
<1>2. CASE ReadPayload(c) \/ ReadSignature(c)
  BY <1>2 DEF ReadPayload, ReadSignature, YieldOverrun, Store
<1>3. CASE ReadLen(c) \/ ReadFlags(c) \/ ReadSeq(c) \/ ReadSys(c) \/ ReadComp(c)
  BY <1>3 DEF ReadLen, ReadFlags, ReadSeq, ReadSys, ReadComp, Store
<1>4. CASE ReadId0(c) \/ ReadId1(c) \/ ReadId2(c) \/ ReadCrc1(c) \/ ReadCrc2(c)
  BY <1>4 DEF ReadId0, ReadId1, ReadId2, ReadCrc1, ReadCrc2, Store
<1> QED
  BY <1>1, <1>2, <1>3, <1>4 DEF push_byte

\* A caller whose buffer has room for the longest header, payload and checksum that arrive
\* never has a byte written outside it: the signature is checked.
THEOREM StaysInBuffer ==
  ASSUME BufferSize >= 12 + MaxLen
  PROVE  Spec => []NoStrayWrite
<1>1. Init => NoStrayWrite
  BY SizeAssumption DEF Init, NoStrayWrite
<1>2. FramerInv /\ NoStrayWrite /\ [Next]_vars => NoStrayWrite'
  <2> SUFFICES ASSUME FramerInv, NoStrayWrite, [Next]_vars
               PROVE  NoStrayWrite'
    OBVIOUS
  <2>1. /\ pc \in Location /\ idx \in Nat /\ len \in 0..MaxLen /\ count \in Nat
        /\ idx <= BufferSize
        /\ BufferSize \in Nat /\ MaxLen \in 0..255
    BY SizeAssumption DEF FramerInv, TypeOK, NoStrayWrite
  <2>2. CASE pc \in Location \ {"stx", "payload", "signature"}
    <3>1. idx < 12 + MaxLen
      BY <2>1, <2>2 DEF FramerInv, Position, Location, HeaderLen, FixedPart
    <3>2. idx + 1 <= BufferSize
      BY <2>1, <3>1
    <3> QED
      BY <2>1, <3>2, IndexStep DEF Next, vars, NoStrayWrite
  <2>3. CASE pc \in {"stx", "payload", "signature"}
    BY <2>1, <2>3, IndexStep DEF Next, vars, NoStrayWrite, Fits
  <2> QED
    BY <2>1, <2>2, <2>3
<1> QED
  BY <1>1, <1>2, FramerInvariant, PTL DEF Spec

LEMMA InitPayload == Init => PayloadFits /\ PayloadReceived
BY DEF Init, PayloadFits, PayloadReceived, Silence

\* A frame is only answered with a view after its payload has passed the bounds check.
LEMMA NextPayload ==
  FramerInv /\ FramerInv' /\ PayloadFits /\ PayloadReceived /\ [Next]_vars
    => PayloadFits' /\ PayloadReceived'
<1> SUFFICES ASSUME FramerInv, FramerInv', PayloadFits, PayloadReceived, [Next]_vars
             PROVE  PayloadFits' /\ PayloadReceived'
  OBVIOUS
<1>0. TypeOK /\ Position /\ PayloadInv /\ (pc # "stx" => BufferInv)
  BY DEF FramerInv
<1>2. ASSUME NEW c \in Octet, ReadStx(c) \/ ReadLen(c) \/ ReadFlags(c) \/ ReadSeq(c)
                              \/ ReadSys(c) \/ ReadComp(c) \/ ReadId1(c)
      PROVE  PayloadFits' /\ PayloadReceived'
  <2>1. /\ pc' \notin {"payload", "crc1", "crc2", "signature"} /\ output' = Silence
    BY <1>2 DEF ReadStx, ReadLen, ReadFlags, ReadSeq, ReadSys, ReadComp, ReadId1, Await
  <2> QED
    BY <2>1 DEF PayloadFits, PayloadReceived, Silence
<1>3. ASSUME NEW v, EndHeader(v), UNCHANGED <<magic, len>>
      PROVE  PayloadFits' /\ PayloadReceived'
  <2>1. output' = Silence /\ count' = 0 /\ pc' = IF len = 0 THEN "crc1" ELSE "payload"
    BY <1>3 DEF EndHeader, Await
  <2> QED
    BY <1>0, <1>3, <2>1 DEF PayloadFits, PayloadReceived, Silence, TypeOK
<1>4. ASSUME NEW c \in Octet, ReadId0(c) PROVE PayloadFits' /\ PayloadReceived'
  <2>1. CASE IsV2
    BY <1>4, <2>1 DEF ReadId0, Await, PayloadFits, PayloadReceived, Silence
  <2>2. CASE ~IsV2
    BY <1>3, <1>4, <2>2 DEF ReadId0
  <2> QED
    BY <2>1, <2>2
<1>5. ASSUME NEW c \in Octet, ReadId2(c) PROVE PayloadFits' /\ PayloadReceived'
  BY <1>3, <1>5 DEF ReadId2
<1>6. CASE YieldOverrun
  BY <1>6 DEF YieldOverrun, Fits, PayloadFits, PayloadReceived, OverrunReport
<1>7. ASSUME NEW c \in Octet, ReadPayload(c), idx < BufferSize
      PROVE  PayloadFits' /\ PayloadReceived'
  <2>1. pc = "payload" /\ idx = HeaderLen + count /\ HeaderLen' = HeaderLen
    <3>1. ~YieldOverrun
      BY <1>0, <1>7, SizeAssumption DEF YieldOverrun, Fits, TypeOK
    <3> QED
      BY <1>0, <1>7, <3>1 DEF ReadPayload, Position, HeaderLen, IsV2
  <2>2. /\ output' = Silence /\ count' = count + 1 /\ len' = len
        /\ pc' = IF count + 1 = len THEN "crc1" ELSE "payload"
    BY <1>0, <1>7, SizeAssumption DEF ReadPayload, YieldOverrun, Fits, TypeOK, Await
  <2>3. HeaderLen + (count + 1) <= BufferSize
    BY <1>0, <1>7, <2>1, SizeAssumption DEF TypeOK, HeaderLen
  <2> QED
    BY <2>1, <2>2, <2>3 DEF PayloadFits, PayloadReceived, Silence
<1>8. ASSUME NEW c \in Octet, ReadCrc1(c) PROVE PayloadFits' /\ PayloadReceived'
  BY <1>8 DEF ReadCrc1, Await, PayloadFits, PayloadReceived, Silence, HeaderLen, IsV2
<1>9. ASSUME NEW c \in Octet, pc \in {"crc2", "signature"}, Store(c), YieldView,
             idx >= HeaderLen + len
      PROVE  PayloadFits' /\ PayloadReceived'
  <2>1. BufferInv' /\ idx' = idx + 1
    BY <1>0, <1>9, StoreBuffer
  <2>2. len > 0 => HeaderLen + len <= BufferSize
    BY <1>9 DEF PayloadFits
  <2>3. len > 0 => HeaderLen + len <= Len(buffer')
    BY <1>0, <1>9, <2>1, <2>2, SizeAssumption DEF BufferInv, TypeOK, HeaderLen
  <2>4. output' = [kind |-> "view", view |-> view]
    BY <1>9 DEF YieldView
  <2>5. view.payload = [start |-> HeaderLen, len |-> len]
    BY <1>0, <1>9 DEF PayloadInv
  <2>6. PayloadReceived'
    BY <2>3, <2>4, <2>5 DEF PayloadReceived
  <2>7. PayloadFits'
    BY <1>9 DEF YieldView, PayloadFits
  <2> QED
    BY <2>6, <2>7
<1>10. ASSUME NEW c \in Octet, ReadCrc2(c) PROVE PayloadFits' /\ PayloadReceived'
  <2>1. pc = "crc2" /\ Store(c) /\ idx >= HeaderLen + len /\ UNCHANGED <<magic, len>>
    BY <1>0, <1>10 DEF ReadCrc2, Position, TypeOK, HeaderLen
  <2>2. CASE Await("signature")
    BY <2>1, <2>2 DEF Await, PayloadFits, PayloadReceived, Silence, HeaderLen, IsV2
  <2> QED
    BY <1>9, <1>10, <2>1, <2>2 DEF ReadCrc2
<1>11. ASSUME NEW c \in Octet, ReadSignature(c), idx < BufferSize
       PROVE  PayloadFits' /\ PayloadReceived'
  <2>1. /\ pc = "signature" /\ Store(c) /\ UNCHANGED <<magic, len>>
        /\ YieldView \/ Await("signature")
    BY <1>0, <1>11, SizeAssumption DEF ReadSignature, YieldOverrun, Fits, TypeOK
  <2>2. idx >= HeaderLen + len
    BY <1>0, <2>1 DEF Position, TypeOK, HeaderLen
  <2>3. CASE Await("signature")
    BY <2>1, <2>3 DEF Await, PayloadFits, PayloadReceived, Silence, HeaderLen, IsV2
  <2> QED
    BY <1>9, <2>1, <2>2, <2>3
<1>12. CASE UNCHANGED vars
  BY <1>12 DEF vars, PayloadFits, PayloadReceived, HeaderLen, IsV2
<1>13. ASSUME NEW c \in Arrives[pc], push_byte(c) PROVE PayloadFits' /\ PayloadReceived'
  <2>1. c \in Octet
    BY <1>0, <1>13, ArrivesAssumption DEF TypeOK
  <2>2. CASE ReadPayload(c) \/ ReadSignature(c)
    <3>1. YieldOverrun \/ idx < BufferSize
      BY <2>2 DEF ReadPayload, ReadSignature, Fits
    <3> QED
      BY <1>6, <1>7, <1>11, <2>1, <2>2, <3>1
  <2> QED
    BY <1>2, <1>4, <1>5, <1>8, <1>10, <1>13, <2>1, <2>2 DEF push_byte
<1> QED
  BY <1>12, <1>13 DEF Next

\* The payload of every view that push_byte() returns can be read, whatever the size of the
\* buffer.
THEOREM ReturnedPayloadsReceived == Spec => []PayloadReceived
<1>1. Spec => [](PayloadFits /\ PayloadReceived)
  BY InitPayload, NextPayload, FramerInvariant, PTL DEF Spec
<1> QED
  BY <1>1, PTL

-------------------------------------------------------------------------------
(* The framer implements MavlinkFrame *)

\* The frame with the byte that has just been pushed, against what is stored of it.
LEMMA Grown ==
  ASSUME FramerInv, FrameInv, pc # "stx", NEW c \in Octet, Store(c)
  PROVE  LET f == Append(frame, c)
         IN  /\ f \in Seq(Octet) /\ f # <<>> /\ Len(f) = idx + 1
             /\ \A i \in 1..idx : f[i] = frame[i]
             /\ f[idx + 1] = c
             /\ \A i \in 1..Len(buffer') : buffer'[i] = f[i]
             /\ idx' = idx + 1
<1> DEFINE f == Append(frame, c)
<1>1. /\ frame \in Seq(Octet) /\ buffer \in Seq(Octet) /\ Len(frame) = idx /\ Stored(frame)
      /\ idx \in Nat /\ BufferInv /\ Len(buffer) \in Nat
  BY LenProperties DEF FramerInv, FrameInv, TypeOK
<1>2. /\ f \in Seq(Octet) /\ f # <<>> /\ Len(f) = idx + 1
      /\ \A i \in 1..idx : f[i] = frame[i]
      /\ f[idx + 1] = c
  BY <1>1, AppendProperties
<1>3. \A i \in 1..Len(buffer') : buffer'[i] = f[i]
  <2>1. CASE idx < BufferSize
    <3>1. buffer' = Append(buffer, c) /\ Len(buffer) = idx
      BY <1>1, <2>1 DEF Store, BufferInv
    <3>2. /\ Len(buffer') = idx + 1 /\ buffer'[idx + 1] = c
          /\ \A i \in 1..idx : buffer'[i] = buffer[i]
      BY <1>1, <3>1, AppendProperties
    <3> QED
      BY <1>1, <1>2, <3>1, <3>2 DEF Stored
  <2>2. CASE ~(idx < BufferSize)
    <3>1. buffer' = buffer /\ Len(buffer) <= idx
      BY <1>1, <2>2, SizeAssumption DEF Store, BufferInv
    <3> QED
      BY <1>1, <1>2, <3>1 DEF Stored
  <2> QED
    BY <2>1, <2>2
<1> QED
  BY <1>2, <1>3 DEF Store

\* What the layout of that frame says.
LEMMA Layout ==
  ASSUME FramerInv, FrameInv, pc # "stx", NEW c \in Octet
  PROVE  LET f == Append(frame, c)
         IN  /\ f[1] = magic /\ (Frame!IsV2(f) <=> IsV2)
             /\ Frame!HeaderLen(f) = HeaderLen /\ HeaderLen \in {6, 10}
             /\ (idx > 1 => f[2] = len /\ Frame!PayloadEnd(f) = HeaderLen + len)
             /\ (idx > 2 => f[3] = frame[3] /\ (Frame!Signed(f) <=> IsV2 /\ frame[3] % 2 = 1))
<1> DEFINE f == Append(frame, c)
<1>1. /\ frame \in Seq(Octet) /\ Len(frame) = idx /\ idx \in Nat /\ idx >= 1
      /\ frame[1] = magic /\ (idx > 1 => frame[2] = len)
  BY DEF FramerInv, FrameInv, TypeOK, Position, Location, HeaderLen, FixedPart
<1>2. \A i \in 1..idx : f[i] = frame[i]
  BY <1>1, AppendProperties
<1> HIDE DEF f
<1>3. f[1] = magic /\ (idx > 1 => f[2] = len) /\ (idx > 2 => f[3] = frame[3])
  BY <1>1, <1>2
<1>4. Frame!IsV2(f) <=> IsV2
  BY <1>3 DEF Frame!IsV2, IsV2, Frame!STX2, STX2
<1> QED
  BY <1>3, <1>4 DEF Frame!HeaderLen, HeaderLen, Frame!PayloadEnd, Frame!Signed, f

\* The answer that MavlinkFrame gives to a byte, in terms of where the framer awaits it.
LEMMA VerdictAt ==
  ASSUME FramerInv, FrameInv, pc # "stx", NEW c \in Octet
  PROVE  LET f == Append(frame, c)
         IN  /\ pc \notin {"payload", "crc2", "signature"} => Frame!Verdict(f) = Silence
             /\ pc = "payload" =>
                  Frame!Verdict(f) = IF Fits THEN Silence ELSE OverrunReport
             /\ pc = "crc2" =>
                  Frame!Verdict(f) = IF IsV2 /\ frame[3] % 2 = 1 THEN Silence
                                     ELSE [kind |-> "view", view |-> Frame!View(f)]
             /\ pc = "signature" =>
                  Frame!Verdict(f) = IF ~Fits THEN OverrunReport
                                     ELSE IF count + 1 = SigLen
                                          THEN [kind |-> "view", view |-> Frame!View(f)]
                                          ELSE Silence
<1> DEFINE f == Append(frame, c)
           n == idx + 1
           end == HeaderLen + len
<1> USE SizeAssumption
<1>1. /\ TypeOK /\ Position /\ Len(f) = n /\ n \in Nat /\ len \in Nat /\ count \in Nat
      /\ pc \in Location /\ idx \in Nat /\ (pc = "signature" => frame[3] % 2 = 1)
  <2>1. frame \in Seq(Octet) /\ Len(frame) = idx
    BY DEF FramerInv, FrameInv, TypeOK
  <2> QED
    BY <2>1, AppendProperties DEF FramerInv, FrameInv, TypeOK
<1>2. /\ Frame!HeaderLen(f) = HeaderLen /\ HeaderLen \in {6, 10}
      /\ (idx > 1 => Frame!PayloadEnd(f) = end)
      /\ (idx > 2 => (Frame!Signed(f) <=> IsV2 /\ frame[3] % 2 = 1))
  BY Layout
<1> HIDE DEF f
<1>3. ASSUME pc \notin {"payload", "crc1", "crc2", "signature"} PROVE Frame!Verdict(f) = Silence
  <2>1. n <= HeaderLen
    BY <1>1, <1>3 DEF Position, HeaderLen, FixedPart, Location
  <2>2. CASE ~Frame!HasHeader(f)
    BY <2>2 DEF Frame!Verdict, Frame!Overrun, Frame!Complete, Frame!Silence, Silence
  <2>3. CASE Frame!HasHeader(f)
    <3>1. n = HeaderLen /\ idx > 2
      BY <1>1, <1>2, <2>1, <2>3 DEF Frame!HasHeader
    <3>2. ~Frame!Overrun(f) /\ ~Frame!Complete(f)
      BY <1>1, <1>2, <3>1 DEF Frame!Overrun, Frame!Complete, Frame!FrameLen
    <3> QED
      BY <3>2 DEF Frame!Verdict, Frame!Silence, Silence
  <2> QED
    BY <2>2, <2>3
<1>4. ASSUME pc \in {"payload", "crc1", "crc2", "signature"}
      PROVE  /\ Frame!HasHeader(f) /\ Frame!PayloadEnd(f) = end /\ end \in Nat
             /\ Frame!FrameLen(f) = end + 2 + (IF IsV2 /\ frame[3] % 2 = 1 THEN SigLen ELSE 0)
  <2>1. idx > 2 /\ n > HeaderLen
    BY <1>1, <1>2, <1>4 DEF Position
  <2> QED
    BY <1>1, <1>2, <2>1 DEF Frame!HasHeader, Frame!FrameLen
<1>5. ASSUME pc = "payload"
      PROVE  Frame!Verdict(f) = IF Fits THEN Silence ELSE OverrunReport
  <2>1. n \in HeaderLen + 1..end
    BY <1>1, <1>2, <1>5 DEF Position
  <2>2. ~Frame!Complete(f)
    BY <1>1, <1>2, <1>4, <1>5, <2>1 DEF Frame!Complete
  <2>3. Frame!Overrun(f) <=> ~Fits
    BY <1>1, <1>2, <1>4, <1>5, <2>1 DEF Frame!Overrun, Fits
  <2> QED
    BY <2>2, <2>3 DEF Frame!Verdict, Frame!Silence, Silence, OverrunReport
<1>6. ASSUME pc = "crc1" PROVE Frame!Verdict(f) = Silence
  <2>1. n = end + 1
    BY <1>1, <1>6 DEF Position
  <2>2. ~Frame!Complete(f) /\ ~Frame!Overrun(f)
    BY <1>1, <1>2, <1>4, <1>6, <2>1 DEF Frame!Complete, Frame!Overrun
  <2> QED
    BY <2>2 DEF Frame!Verdict, Frame!Silence, Silence
<1>7. ASSUME pc = "crc2"
      PROVE  Frame!Verdict(f) = IF IsV2 /\ frame[3] % 2 = 1 THEN Silence
                                ELSE [kind |-> "view", view |-> Frame!View(f)]
  <2>1. n = end + 2
    BY <1>1, <1>7, <1>2 DEF Position
  <2>2. ~Frame!Overrun(f) /\ (Frame!Complete(f) <=> ~(IsV2 /\ frame[3] % 2 = 1))
    BY <1>1, <1>2, <1>4, <1>7, <2>1 DEF Frame!Complete, Frame!Overrun
  <2> QED
    BY <2>2 DEF Frame!Verdict, Frame!Silence, Silence
<1>8. ASSUME pc = "signature"
      PROVE  Frame!Verdict(f) = IF ~Fits THEN OverrunReport
                                ELSE IF count + 1 = SigLen
                                     THEN [kind |-> "view", view |-> Frame!View(f)]
                                     ELSE Silence
  <2>1. n = end + 2 + (count + 1) /\ IsV2 /\ frame[3] % 2 = 1
    BY <1>1, <1>2, <1>8 DEF Position
  <2>2. /\ Frame!Overrun(f) <=> ~Fits
        /\ Frame!Complete(f) <=> count + 1 = SigLen
    BY <1>1, <1>2, <1>4, <1>8, <2>1 DEF Frame!Complete, Frame!Overrun, Fits
  <2> QED
    BY <2>2 DEF Frame!Verdict, Frame!Silence, Silence, OverrunReport
<1> QED
  BY <1>1, <1>3, <1>5, <1>6, <1>7, <1>8 DEF f

\* A byte that is stored takes its field of the header with it.
LEMMA HeaderGrown ==
  ASSUME FramerInv, FrameInv, NEW c \in Octet,
         ReadLen(c) \/ ReadFlags(c) \/ ReadSeq(c) \/ ReadSys(c) \/ ReadComp(c)
           \/ ReadId0(c) \/ ReadId1(c) \/ ReadId2(c)
           \/ (pc \in {"payload", "crc1", "crc2", "signature"} /\ UNCHANGED view)
  PROVE  HeaderRead(Append(frame, c), view')
<1> DEFINE f == Append(frame, c)
<1>1. /\ frame \in Seq(Octet) /\ Len(frame) = idx /\ idx \in Nat /\ pc # "stx" /\ Position
      /\ HeaderRead(frame, view) /\ view \in MessageView /\ len \in Nat /\ count \in Nat
  BY DEF FramerInv, FrameInv, TypeOK, ReadLen, ReadFlags, ReadSeq, ReadSys, ReadComp,
         ReadId0, ReadId1, ReadId2
<1>2. /\ Len(f) = idx + 1 /\ f[idx + 1] = c
      /\ \A i \in 1..idx : f[i] = frame[i]
  BY <1>1, AppendProperties
<1> HIDE DEF f
<1>3. view = [seq |-> view.seq, sysid |-> view.sysid, compid |-> view.compid,
              msgid |-> view.msgid, payload |-> view.payload]
      /\ view.msgid = [low |-> view.msgid.low, mid |-> view.msgid.mid, high |-> view.msgid.high]
  BY <1>1 DEF MessageView, MsgId
<1>4. CASE ReadLen(c) \/ ReadFlags(c)
  <2>1. view' = view /\ idx + 1 <= FixedPart
    BY <1>1, <1>4 DEF ReadLen, ReadFlags, Position, FixedPart
  <2> QED
    BY <1>1, <1>2, <2>1 DEF HeaderRead, FixedPart, f
<1>5. CASE ReadSeq(c)
  BY <1>1, <1>2, <1>3, <1>5 DEF ReadSeq, Position, HeaderRead, FixedPart, f
<1>6. CASE ReadSys(c)
  BY <1>1, <1>2, <1>3, <1>6 DEF ReadSys, Position, HeaderRead, FixedPart, f
<1>7. CASE ReadComp(c)
  BY <1>1, <1>2, <1>3, <1>7 DEF ReadComp, Position, HeaderRead, FixedPart, f
<1>8. CASE ReadId0(c)
  <2>1. /\ view'.seq = view.seq /\ view'.sysid = view.sysid /\ view'.compid = view.compid
        /\ view'.msgid.mid = view.msgid.mid /\ view'.msgid.high = view.msgid.high
        /\ view'.msgid.low = c
    <3>1. CASE IsV2
      BY <1>3, <1>8, <3>1 DEF ReadId0
    <3>2. CASE ~IsV2
      BY <1>3, <1>8, <3>2 DEF ReadId0, EndHeader
    <3> QED
      BY <3>1, <3>2
  <2> QED
    BY <1>1, <1>2, <1>8, <2>1 DEF ReadId0, Position, HeaderRead, FixedPart, f
<1>9. CASE ReadId1(c)
  BY <1>1, <1>2, <1>3, <1>9 DEF ReadId1, Position, HeaderRead, FixedPart, f
<1>10. CASE ReadId2(c)
  BY <1>1, <1>2, <1>3, <1>10 DEF ReadId2, EndHeader, Position, HeaderRead, FixedPart, f
<1>11. CASE pc \in {"payload", "crc1", "crc2", "signature"} /\ UNCHANGED view
  <2>1. idx >= FixedPart + 4 /\ (IsV2 => idx >= 10)
    BY <1>1, <1>11 DEF Position, HeaderLen, FixedPart
  <2> QED
    BY <1>1, <1>2, <1>11, <2>1 DEF HeaderRead, FixedPart, f
<1> QED
  BY <1>4, <1>5, <1>6, <1>7, <1>8, <1>9, <1>10, <1>11

\* A byte after which the framer waits for the next one of the same frame.
LEMMA GoesOn ==
  ASSUME FramerInv, FrameInv, pc # "stx", NEW c \in Octet,
         Store(c), Read(c), output' = Silence, pc' # "stx", magic' = magic,
         len' = IF pc = "len" THEN c ELSE len,
         HeaderRead(Append(frame, c), view'),
         pc' = "signature" => frame[3] % 2 = 1 /\ pc \in {"crc2", "signature"},
         Frame!Verdict(Append(frame, c)) = Silence
  PROVE  FrameInv' /\ Frame!Continue(c)
<1> DEFINE f == Append(frame, c)
<1>1. frame' = f /\ Report' = Silence
  BY DEF Read, Report, Silence
<1>2. Frame!Continue(c)
  BY <1>1 DEF Frame!Continue, FrameInv, Silence, Frame!Silence
<1>3. /\ f \in Seq(Octet) /\ f # <<>> /\ Len(f) = idx' /\ idx' = idx + 1
      /\ \A i \in 1..idx : f[i] = frame[i]
      /\ f[idx + 1] = c
      /\ \A i \in 1..Len(buffer') : buffer'[i] = f[i]
  BY Grown
<1>4. /\ idx \in Nat /\ idx >= 1 /\ (pc = "len" <=> idx = 1) /\ magic \in {STX1, STX2}
      /\ (pc \in {"crc2", "signature"} => idx > 2) /\ frame[1] = magic
      /\ (idx > 1 => frame[2] = len)
  BY DEF FramerInv, FrameInv, TypeOK, Position, Location, HeaderLen, FixedPart
<1> HIDE DEF f
<1>5. f[1] = magic' /\ f[2] = len' /\ (pc' = "signature" => f[3] % 2 = 1)
  BY <1>3, <1>4
<1>6. HeaderRead(frame, view)'
  BY <1>1 DEF HeaderRead, IsV2, FixedPart, f
<1>7. FrameInv'
  BY <1>1, <1>3, <1>4, <1>5, <1>6 DEF FrameInv, Stored
<1> QED
  BY <1>2, <1>7

\* A view with another payload.
LEMMA WithPayload ==
  \A v \in MessageView : \A p :
    [v EXCEPT !.payload = p] = [seq |-> v.seq, sysid |-> v.sysid, compid |-> v.compid,
                                msgid |-> v.msgid, payload |-> p]
BY DEF MessageView

\* The last byte of a frame: the view holds the fields of the frame, and the payload span
\* denotes its payload.
LEMMA Delivered ==
  ASSUME FramerInv, FrameInv, PayloadFits, pc \in {"crc2", "signature"}, NEW c \in Octet,
         Store(c), HeaderRead(Append(frame, c), view),
         output' = [kind |-> "view", view |-> view]
  PROVE  Report' = [kind |-> "view", view |-> Frame!View(Append(frame, c))]
<1> DEFINE f == Append(frame, c)
           payload == SubSeq(buffer', HeaderLen + 1, HeaderLen + len)
<1> USE SizeAssumption
<1>1. /\ view.payload = [start |-> HeaderLen, len |-> len] /\ view \in MessageView
      /\ idx \in Nat /\ HeaderLen \in {6, 10} /\ idx >= HeaderLen + len + 1
      /\ (len > 0 => HeaderLen + len <= BufferSize) /\ TypeOK /\ BufferInv
  BY DEF FramerInv, TypeOK, Position, PayloadInv, PayloadFits, HeaderLen
<1>2. len \in Nat /\ (len = 0 \/ len > 0) /\ (IsV2 => HeaderLen = 10) /\ (~IsV2 => HeaderLen = 6)
  BY <1>1 DEF TypeOK, HeaderLen
<1>3. /\ f \in Seq(Octet) /\ Len(f) = idx + 1
      /\ \A i \in 1..Len(buffer') : buffer'[i] = f[i]
  BY Grown
<1>4. /\ Frame!IsV2(f) <=> IsV2
      /\ Frame!HeaderLen(f) = HeaderLen
      /\ Frame!PayloadEnd(f) = HeaderLen + len
  BY <1>1, <1>2, Layout
<1>5. buffer' \in Seq(Octet) /\ (len > 0 => HeaderLen + len <= Len(buffer'))
  <2>1. /\ buffer' \in Seq(Octet) /\ idx' = idx + 1
        /\ Len(buffer') = IF idx' < BufferSize THEN idx' ELSE BufferSize
    BY <1>1, StoreBuffer DEF BufferInv
  <2> QED
    BY <1>1, <1>2, <2>1
<1>6. HeaderRead(f, view)
  OBVIOUS
<1> HIDE DEF f
<1>7. payload = SubSeq(f, HeaderLen + 1, HeaderLen + len)
  <2>1. CASE len = 0
    <3>1. HeaderLen + len < HeaderLen + 1 /\ HeaderLen + 1 \in Int /\ HeaderLen + len \in Int
      BY <1>1, <2>1
    <3> QED
      BY <3>1, SubSeqEmpty
  <2>2. CASE len > 0
    BY <1>1, <1>2, <1>3, <1>5, <2>2
  <2> QED
    BY <1>2, <2>1, <2>2
<1>8. Report' = [kind |-> "view", view |-> [view EXCEPT !.payload = payload]]
  <2>1. output'.kind = "view" /\ output'.view = view
    OBVIOUS
  <2>2. output'.view.payload.start = HeaderLen /\ output'.view.payload.len = len
    BY <1>1, <2>1
  <2> QED
    BY <2>1, <2>2, Zenon DEF Report
<1> HIDE DEF payload
<1>9. [view EXCEPT !.payload = payload] =
        [seq |-> view.seq, sysid |-> view.sysid, compid |-> view.compid,
         msgid |-> view.msgid, payload |-> payload]
  BY <1>1, WithPayload
<1>10. view.msgid = [low |-> view.msgid.low, mid |-> view.msgid.mid, high |-> view.msgid.high]
  BY <1>1 DEF MessageView, MsgId
<1>11. [view EXCEPT !.payload = payload] = Frame!View(f)
  <2>1. CASE IsV2
    <3>1. /\ view.seq = f[5] /\ view.sysid = f[6] /\ view.compid = f[7]
          /\ view.msgid.low = f[8] /\ view.msgid.mid = f[9] /\ view.msgid.high = f[10]
      BY <1>1, <1>2, <1>3, <1>6, <2>1 DEF HeaderRead, FixedPart
    <3> QED
      BY <1>4, <1>7, <1>9, <1>10, <2>1, <3>1, Zenon DEF Frame!View
  <2>2. CASE ~IsV2
    <3>1. /\ view.seq = f[3] /\ view.sysid = f[4] /\ view.compid = f[5]
          /\ view.msgid.low = f[6] /\ view.msgid.mid = 0 /\ view.msgid.high = 0
      BY <1>1, <1>2, <1>3, <1>6, <2>2 DEF HeaderRead, FixedPart
    <3> QED
      BY <1>4, <1>7, <1>9, <1>10, <2>2, <3>1, Zenon DEF Frame!View
  <2> QED
    BY <2>1, <2>2
<1> QED
  BY <1>8, <1>11 DEF f

\* A byte that is answered ends the frame.
LEMMA Answered ==
  ASSUME FrameInv, pc # "stx", NEW c \in Octet, pc' = "stx", frame' = <<>>,
         Report' = Frame!Verdict(Append(frame, c)), Report' # Silence
  PROVE  FrameInv' /\ Frame!Continue(c)
BY DEF FrameInv, Frame!Continue, Silence, Frame!Silence

LEMMA InitFrame == Init => FrameInv /\ Frame!Init
BY DEF Init, FrameInv, Frame!Init, Frame!Silence, Silence, Report

\* A byte outside a frame.
LEMMA FirstByte ==
  ASSUME FramerInv, FrameInv, FramerInv', NEW c \in Octet, ReadStx(c)
  PROVE  FrameInv' /\ (Frame!Skip(c) \/ Frame!Begin(c))
<1> USE SizeAssumption
<1>1. pc = "stx" /\ frame = <<>> /\ Report' = Silence
  BY DEF ReadStx, Await, FrameInv, Report, Silence
<1>2. CASE c \in {STX1, STX2}
  <2>1. /\ pc' = "len" /\ frame' = <<c>> /\ idx' = 1 /\ magic' = c /\ len' = 0
        /\ buffer' = (IF BufferSize > 0 THEN <<c>> ELSE <<>>) /\ view' = NoMessage
    BY <1>2 DEF ReadStx, Await
  <2>2. Len(frame') = 1 /\ frame'[1] = c /\ frame' # <<>>
    BY <2>1
  <2>3. Stored(frame)'
    BY <2>1, <2>2 DEF Stored
  <2>4. HeaderRead(frame, view)'
    BY <2>1, <2>2 DEF HeaderRead, FixedPart, NoMessage, NoId
  <2>5. FrameInv'
    BY <1>2, <2>1, <2>2, <2>3, <2>4 DEF FrameInv
  <2>6. Frame!Begin(c)
    BY <1>1, <1>2, <2>1 DEF Frame!Begin, Frame!STX1, Frame!STX2, STX1, STX2, Frame!Silence, Silence
  <2> QED
    BY <2>5, <2>6
<1>3. CASE c \notin {STX1, STX2}
  <2>1. pc' = "stx" /\ frame' = <<>>
    BY <1>1, <1>3 DEF ReadStx, Await
  <2>2. FrameInv'
    BY <2>1 DEF FrameInv
  <2>3. Frame!Skip(c)
    BY <1>1, <1>3, <2>1 DEF Frame!Skip, Frame!STX1, Frame!STX2, STX1, STX2, Frame!Silence, Silence
  <2> QED
    BY <2>2, <2>3
<1> QED
  BY <1>2, <1>3

\* The bytes before the end of the frame.
LEMMA MiddleByte ==
  ASSUME FramerInv, FrameInv, NEW c \in Octet,
         \/ ReadLen(c) \/ ReadFlags(c) \/ ReadSeq(c) \/ ReadSys(c) \/ ReadComp(c)
         \/ ReadId0(c) \/ ReadId1(c) \/ ReadId2(c) \/ ReadCrc1(c)
  PROVE  FrameInv' /\ Frame!Continue(c)
<1>1. /\ pc # "stx" /\ pc \notin {"payload", "crc2", "signature"}
      /\ Store(c) /\ Read(c) /\ output' = Silence
      /\ pc' \notin {"stx", "signature"} /\ magic' = magic
      /\ len' = IF pc = "len" THEN c ELSE len
  BY DEF ReadLen, ReadFlags, ReadSeq, ReadSys, ReadComp, ReadId0, ReadId1, ReadId2, ReadCrc1,
         EndHeader, Await
<1>2. HeaderRead(Append(frame, c), view')
  BY HeaderGrown DEF ReadCrc1
<1>3. Frame!Verdict(Append(frame, c)) = Silence
  BY <1>1, VerdictAt
<1> QED
  BY <1>1, <1>2, <1>3, GoesOn

LEMMA PayloadByte ==
  ASSUME FramerInv, FrameInv, NEW c \in Octet, ReadPayload(c)
  PROVE  FrameInv' /\ Frame!Continue(c)
<1> DEFINE verdict == Frame!Verdict(Append(frame, c))
<1>1. pc = "payload" /\ pc # "stx" /\ verdict = IF Fits THEN Silence ELSE OverrunReport
  BY VerdictAt DEF ReadPayload
<1>2. CASE YieldOverrun
  <2>1. Report' = OverrunReport /\ verdict = OverrunReport
    BY <1>1, <1>2 DEF YieldOverrun, Report, OverrunReport
  <2> QED
    BY <1>1, <1>2, <2>1, Answered DEF YieldOverrun, Silence, OverrunReport
<1>3. CASE ~YieldOverrun
  <2>1. /\ Fits /\ Store(c) /\ Read(c) /\ output' = Silence
        /\ pc' \notin {"stx", "signature"} /\ magic' = magic /\ len' = len /\ UNCHANGED view
    BY <1>3 DEF ReadPayload, Await
  <2>2. HeaderRead(Append(frame, c), view')
    BY <1>1, <2>1, HeaderGrown
  <2> QED
    BY <1>1, <2>1, <2>2, GoesOn
<1> QED
  BY <1>2, <1>3

\* The last byte of the checksum: the flags it looks up are those of the frame.
LEMMA ChecksumByte ==
  ASSUME BufferSize > 2, FramerInv, FrameInv, PayloadFits, NEW c \in Octet, ReadCrc2(c)
  PROVE  FrameInv' /\ Frame!Continue(c)
<1> DEFINE f == Append(frame, c)
           signed == IsV2 /\ frame[3] % 2 = 1
<1>1. /\ pc = "crc2" /\ pc # "stx" /\ Store(c) /\ UNCHANGED <<magic, len, view>>
      /\ Frame!Verdict(f) = IF signed THEN Silence ELSE [kind |-> "view", view |-> Frame!View(f)]
  BY VerdictAt DEF ReadCrc2
<1>2. IncFlags = {frame[3]} /\ frame[3] \in Octet
  <2>1. /\ idx > 2 /\ idx \in Nat /\ BufferInv /\ Stored(frame) /\ Len(frame) = idx
        /\ frame \in Seq(Octet)
    BY <1>1, SizeAssumption DEF FramerInv, FrameInv, TypeOK, Position, HeaderLen
  <2>2. 3 \in 1..Len(buffer) /\ 3 \in 1..Len(frame)
    BY <2>1, SizeAssumption DEF BufferInv
  <2> QED
    BY <2>1, <2>2, ElementOfSeq DEF IncFlags, Stored
<1>3. HeaderRead(f, view')
  BY <1>1, HeaderGrown
<1>4. CASE IsV2 /\ frame[3] % 2 = 1
  <2>1. pc' = "signature" /\ output' = Silence /\ Read(c)
    BY <1>2, <1>4 DEF ReadCrc2, Await
  <2> QED
    BY <1>1, <1>3, <1>4, <2>1, GoesOn
<1>5. CASE ~(IsV2 /\ frame[3] % 2 = 1)
  <2>1. YieldView
    BY <1>2, <1>5 DEF ReadCrc2
  <2>2. Report' = [kind |-> "view", view |-> Frame!View(f)]
    BY <1>1, <1>3, <2>1, Delivered DEF YieldView
  <2> QED
    BY <1>1, <1>5, <2>1, <2>2, Answered DEF YieldView, Silence
<1> QED
  BY <1>4, <1>5

LEMMA SignatureByte ==
  ASSUME FramerInv, FrameInv, PayloadFits, NEW c \in Octet, ReadSignature(c)
  PROVE  FrameInv' /\ Frame!Continue(c)
<1> DEFINE f == Append(frame, c)
<1>1. /\ pc = "signature" /\ pc # "stx" /\ frame[3] % 2 = 1
      /\ Frame!Verdict(f) = IF ~Fits THEN OverrunReport
                            ELSE IF count + 1 = SigLen
                                 THEN [kind |-> "view", view |-> Frame!View(f)]
                                 ELSE Silence
  BY VerdictAt DEF ReadSignature, FrameInv
<1>2. CASE YieldOverrun
  <2>1. Report' = OverrunReport /\ Frame!Verdict(f) = OverrunReport
    BY <1>1, <1>2 DEF YieldOverrun, Report, OverrunReport
  <2> QED
    BY <1>1, <1>2, <2>1, Answered DEF YieldOverrun, Silence, OverrunReport
<1>3. CASE ~YieldOverrun
  <2>1. Fits /\ Store(c) /\ magic' = magic /\ len' = len /\ view' = view
    BY <1>3 DEF ReadSignature
  <2>2. HeaderRead(f, view')
    BY <1>1, <2>1, HeaderGrown
  <2>3. CASE count + 1 = SigLen
    <3>1. YieldView
      BY <1>3, <2>3 DEF ReadSignature
    <3>2. Report' = [kind |-> "view", view |-> Frame!View(f)]
      BY <1>1, <2>1, <2>2, <3>1, Delivered DEF YieldView
    <3> QED
      BY <1>1, <2>1, <2>3, <3>1, <3>2, Answered DEF YieldView, Silence
  <2>4. CASE count + 1 # SigLen
    <3>1. pc' = "signature" /\ output' = Silence /\ Read(c)
      BY <1>3, <2>4 DEF ReadSignature, Await
    <3> QED
      BY <1>1, <2>1, <2>2, <2>4, <3>1, GoesOn
  <2> QED
    BY <2>3, <2>4
<1> QED
  BY <1>2, <1>3

\* A step of the framer is a step of MavlinkFrame.
LEMMA NextFrame ==
  ASSUME BufferSize > 2
  PROVE  FramerInv /\ FramerInv' /\ PayloadFits /\ FrameInv /\ [Next]_vars
           => FrameInv' /\ [Frame!Next]_(Frame!vars)
<1> SUFFICES ASSUME FramerInv, FramerInv', PayloadFits, FrameInv, [Next]_vars
             PROVE  FrameInv' /\ [Frame!Next]_(Frame!vars)
  OBVIOUS
<1>1. CASE UNCHANGED vars
  <2>1. FrameInv'
    BY <1>1 DEF vars, FrameInv, Stored, HeaderRead, FixedPart, IsV2
  <2>2. UNCHANGED Frame!vars
    BY <1>1 DEF vars, Frame!vars, Report
  <2> QED
    BY <2>1, <2>2
<1>2. CASE Next
  <2>1. PICK c \in Octet : push_byte(c)
    <3>1. pc \in Location
      BY DEF FramerInv, TypeOK
    <3> QED
      BY <1>2, <3>1, ArrivesAssumption DEF Next
  <2>2. FrameInv' /\ (Frame!Skip(c) \/ Frame!Begin(c) \/ Frame!Continue(c))
    BY <2>1, FirstByte, MiddleByte, PayloadByte, ChecksumByte, SignatureByte DEF push_byte
  <2> QED
    BY <2>2 DEF Frame!Next, Frame!Octet, Octet
<1> QED
  BY <1>1, <1>2

\* Every answer of push_byte() is the one the bytes of the frame call for: the view of the
\* frame with its last byte, an overrun with the first byte that does not fit, nothing
\* otherwise; for any buffer in which the flags of a version 2 frame fit.
THEOREM ImplementsFrame ==
  ASSUME BufferSize > 2
  PROVE  Spec => DecodesFrames
<1>1. Spec => [](PayloadFits /\ PayloadReceived)
  BY InitPayload, NextPayload, FramerInvariant, PTL DEF Spec
<1> QED
  BY <1>1, InitFrame, NextFrame, FramerInvariant, PTL DEF Spec, DecodesFrames, Frame!Spec
===============================================================================
