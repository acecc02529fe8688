------------------------ MODULE MavlinkFramerRefinement -----------------------
(***************************************************************************)
(* The framer against the frame it reads: reading the header field by field *)
(* and counting loops down finds the frames that MavlinkFrame describes.    *)
(***************************************************************************)
EXTENDS MavlinkFramer

\* What push_byte() returned, with the bytes the payload span denotes.
Report ==
  IF output.kind = "view"
  THEN LET p == output.view.payload
       IN  [kind |-> "view",
            view |-> [output.view EXCEPT !.payload = SubSeq(buffer, p.start + 1, p.start + p.len)]]
  ELSE output

Frame == INSTANCE MavlinkFrame WITH frame <- frame, report <- Report

\* Every answer of push_byte() is the one the bytes of the frame call for: a view of the
\* header fields and the payload with the last byte of the frame and no earlier, for both
\* versions, signed or not; an overrun with the first byte that does not fit.
DecodesFrames == Frame!Spec

-------------------------------------------------------------------------------
(* The inductive invariant behind it: what the framer has of the frame it is reading. *)

\* The fields of the view are those of the frame as far as the frame goes, and zero beyond.
HeaderRead(f, v) ==
  LET n == Len(f)
      p == FixedPart
  IN  /\ n > p => v.seq = f[p + 1]
      /\ n > p + 1 => v.sysid = f[p + 2]
      /\ n > p + 2 => v.compid = f[p + 3]
      /\ v.msgid.low = IF n > p + 3 THEN f[p + 4] ELSE 0
      /\ v.msgid.mid = IF IsV2 /\ n > 8 THEN f[9] ELSE 0
      /\ v.msgid.high = IF IsV2 /\ n > 9 THEN f[10] ELSE 0

\* The buffer holds the beginning of the frame.
Stored(f) == \A i \in 1..Len(buffer) : buffer[i] = f[i]

FrameInv ==
  /\ pc = "stx" <=> frame = <<>>
  /\ pc # "stx" =>
       /\ Len(frame) = idx /\ Stored(frame)
       /\ magic \in {STX1, STX2} /\ frame[1] = magic
       /\ idx > 1 => frame[2] = len
       /\ HeaderRead(frame, view)
  /\ pc = "signature" => frame[3] % 2 = 1
===============================================================================
