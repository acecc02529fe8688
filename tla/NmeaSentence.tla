----------------------------- MODULE NmeaSentence -----------------------------
(***************************************************************************)
(* What the NMEA 0183 framer makes of a stream of bytes, said without its   *)
(* buffer, its indices or its control flow: the bytes since the last start  *)
(* delimiter are the text of one sentence, and the answer to its last byte  *)
(* is a function of that text.                                              *)
(***************************************************************************)
EXTENDS Octets, SequencesExt

CONSTANTS Char,        \* the bytes that may arrive
          BufferSize,  \* how many payload bytes fit
          MaxFields,   \* MessageView::MaxFields
          TalkerLen,   \* characters of the talker in the address field
          TypeLen      \* characters of the message type in the address field

VARIABLES text,    \* the bytes of the sentence being read, from its start delimiter on
          report   \* the answer to the last byte

vars == <<text, report>>

-------------------------------------------------------------------------------
(* The shape of a sentence *)

\* The payload ends at a '*', at a stray newline, or with the byte that does not fit.
PayloadEnds(t) == {p \in 2..Len(t) : t[p] \in {STAR, LF} \/ p = BufferSize + 2}
PayloadEnd(t) == Min(PayloadEnds(t))
Payload(t) == SubSeq(t, 2, PayloadEnd(t) - 1)

Checksum(payload) == XorOf(payload)

\* Bug: the checksum is not compared.
BugAcceptsAnyChecksum(payload, high, low) == TRUE
ChecksumMatches(payload, high, low) == Checksum(payload) = 16 * HexValue(high) + HexValue(low)

\* The separators of a text, in their order.
Cuts(t) ==
  LET upTo[n \in 0..Len(t)] ==
        IF n = 0 THEN <<>>
        ELSE IF t[n] \in {COMMA, STAR, LF} THEN Append(upTo[n - 1], n) ELSE upTo[n - 1]
  IN  upTo[Len(t)]

\* The tokens of the payload: what lies between separators.  A payload cut short by
\* the end of the buffer loses its last, unfinished token.
Tokens(t) ==
  LET cuts == Cuts(SubSeq(t, 1, PayloadEnd(t)))
      first(k) == IF k = 1 THEN 2 ELSE cuts[k - 1] + 1
  IN  [k \in 1..Len(cuts) |-> SubSeq(t, first(k), cuts[k] - 1)]

\* The first token is the address, the others are the fields, as many as there is room for.
View(t) ==
  LET tokens == Tokens(t)
      address == IF tokens = <<>> THEN <<>> ELSE Head(tokens)
      fields == IF tokens = <<>> THEN <<>> ELSE Tail(tokens)
      named == Len(address) >= TalkerLen + TypeLen
  IN  [talker_id    |-> IF named THEN SubSeq(address, 1, TalkerLen) ELSE <<>>,
       message_type |-> IF named THEN SubSeq(address, TalkerLen + 1, TalkerLen + TypeLen) ELSE <<>>,
       fields       |-> SubSeq(fields, 1, Min({MaxFields, Len(fields)}))]

\* delimiter, payload, '*', two hexadecimal digits that are its checksum, CR, LF.
WellFormed(t) ==
  \E n \in 0..BufferSize :
    /\ Len(t) = n + 6
    /\ t[1] \in StartDelimiter
    /\ \A i \in 2..n + 1 : t[i] \notin {STAR, LF}
    /\ t[n + 2] = STAR
    /\ t[n + 3] \in HexDigit /\ t[n + 4] \in HexDigit
    /\ ChecksumMatches(SubSeq(t, 2, n + 1), t[n + 3], t[n + 4])
    /\ t[n + 5] = CR /\ t[n + 6] = LF

-------------------------------------------------------------------------------
(* The answer to the last byte of a text *)

Silence == [kind |-> "none"]
Error(e) == [kind |-> e]

\* The four bytes after the payload are always read as two digits, CR and LF, also when
\* it was not a '*' that ended the payload.
Verdict(t) ==
  LET e == PayloadEnd(t)
      ended == PayloadEnds(t) # {}
      digits == {t[e + 1], t[e + 2]} \subseteq HexDigit
  IN  CASE ended /\ Len(t) = e /\ t[e] = LF -> Error("newline")
        [] ended /\ Len(t) = e /\ t[e] \notin {LF, STAR} -> Error("overrun")
        [] ended /\ Len(t) = e + 3 /\ t[e + 3] # CR -> Error("badcrlf")
        [] ended /\ Len(t) = e + 4 /\ t[e + 4] # LF -> Error("badcrlf")
        [] ended /\ Len(t) = e + 4 /\ t[e + 4] = LF ->
             IF ~digits THEN Error("badhex")
             ELSE IF ChecksumMatches(Payload(t), t[e + 1], t[e + 2])
                  THEN [kind |-> "view", view |-> View(t)]
                  ELSE Error("mismatch")
        [] OTHER -> Silence

\* The sentence is over with the first report after its payload.
Over(t, verdict) == verdict # Silence /\ Len(t) >= PayloadEnd(t) + 3

-------------------------------------------------------------------------------
Init == text = <<>> /\ report = Silence

Skip(c) == text = <<>> /\ c \notin StartDelimiter /\ text' = <<>> /\ report' = Silence

Begin(c) == text = <<>> /\ c \in StartDelimiter /\ text' = <<c>> /\ report' = Silence

Continue(c) ==
  LET t == Append(text, c)
      verdict == Verdict(t)
  IN  /\ text # <<>>
      /\ text' = IF Over(t, verdict) THEN <<>> ELSE t
      /\ report' = verdict

Next == \E c \in Char : Skip(c) \/ Begin(c) \/ Continue(c)

Spec == Init /\ [][Next]_vars
===============================================================================
