----------------------------- MODULE MavlinkFrame -----------------------------
(***************************************************************************)
(* What the MAVLink framer makes of a stream of bytes, said of the frame as *)
(* a whole: the bytes from a start marker on are one frame, its header says *)
(* how long it is, and only its last byte is answered.                      *)
(***************************************************************************)
EXTENDS Octets, Sequences

CONSTANTS BufferSize,  \* how many bytes of a frame fit
          SigLen       \* bytes of a signature

VARIABLES frame,   \* the bytes of the frame being read, from its start marker on
          report   \* the answer to the last byte

vars == <<frame, report>>

STX1 == 254
STX2 == 253

-------------------------------------------------------------------------------
(* The layout of a frame, from its first bytes *)

IsV2(f) == f[1] = STX2
HeaderLen(f) == IF IsV2(f) THEN 10 ELSE 6
PayloadEnd(f) == HeaderLen(f) + f[2]
Signed(f) == IsV2(f) /\ f[3] % 2 = 1
FrameLen(f) == PayloadEnd(f) + 2 + (IF Signed(f) THEN SigLen ELSE 0)

\* The length and the flags are known once the header has been read.
HasHeader(f) == Len(f) >= 2 /\ Len(f) >= HeaderLen(f)

View(f) ==
  LET h == HeaderLen(f)
  IN  [seq |-> f[IF IsV2(f) THEN 5 ELSE 3],
       sysid |-> f[IF IsV2(f) THEN 6 ELSE 4],
       compid |-> f[IF IsV2(f) THEN 7 ELSE 5],
       msgid |-> IF IsV2(f) THEN [low |-> f[8], mid |-> f[9], high |-> f[10]]
                            ELSE [low |-> f[6], mid |-> 0, high |-> 0],
       payload |-> SubSeq(f, h + 1, PayloadEnd(f))]

Silence == [kind |-> "none"]

\* A byte of the payload or of the signature that does not fit ends the frame.
Overrun(f) ==
  /\ HasHeader(f) /\ Len(f) > BufferSize
  /\ \/ Len(f) \in HeaderLen(f) + 1..PayloadEnd(f)
     \/ Len(f) > PayloadEnd(f) + 2

Complete(f) == HasHeader(f) /\ Len(f) = FrameLen(f)

Verdict(f) ==
  CASE Overrun(f) -> [kind |-> "overrun"]
    [] ~Overrun(f) /\ Complete(f) -> [kind |-> "view", view |-> View(f)]
    [] OTHER -> Silence

-------------------------------------------------------------------------------
Init == frame = <<>> /\ report = Silence

Skip(c) == frame = <<>> /\ c \notin {STX1, STX2} /\ frame' = <<>> /\ report' = Silence

Begin(c) == frame = <<>> /\ c \in {STX1, STX2} /\ frame' = <<c>> /\ report' = Silence

Continue(c) ==
  LET f == Append(frame, c)
  IN  /\ frame # <<>>
      /\ frame' = IF Verdict(f) = Silence THEN f ELSE <<>>
      /\ report' = Verdict(f)

Next == \E c \in Octet : Skip(c) \/ Begin(c) \/ Continue(c)

Spec == Init /\ [][Next]_vars
===============================================================================
