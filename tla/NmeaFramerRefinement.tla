------------------------- MODULE NmeaFramerRefinement -------------------------
(***************************************************************************)
(* The framer against the sentence it reads: its indices, running checksum  *)
(* and incremental field cutting compute what NmeaSentence says of the text *)
(* as a whole.                                                              *)
(***************************************************************************)
EXTENDS NmeaFramer, Integers

\* What push_byte() returned, with the characters the views denote instead of their offsets.
Report ==
  IF output.kind = "view" THEN [kind |-> "view", view |-> MessageText(output.view)] ELSE output

Sentence == INSTANCE NmeaSentence WITH text <- sentence, report <- Report

\* Every answer of push_byte() is the one the text of the sentence calls for: the same
\* error at the same byte, and on success the talker, type and fields of the payload.
DecodesSentences == Sentence!Spec

\* The payload was ended by a '*': no error has been reported for this sentence.
PayloadComplete ==
  /\ Sentence!PayloadEnds(sentence) # {}
  /\ sentence[Sentence!PayloadEnd(sentence)] = STAR

\* A sentence without an earlier error is accepted exactly if it is well formed: the right
\* checksum in two hexadecimal digits, then CR and LF.
AcceptsWellFormed ==
  [][pc = "lf" /\ PayloadComplete /\ output'.kind # "badcrlf" =>
       (output'.kind = "view" <=> Sentence!WellFormed(Append(sentence, LF)))]_vars

\* The checksum the framer has computed is that of the characters it has stored, also while
\* the digits are read.
RunningChecksum ==
  pc # "start" =>
    calculated_checksum = Sentence!Checksum([i \in 1..buffer_idx |-> buffer[i - 1]])

-------------------------------------------------------------------------------
(* The inductive invariant behind them: the state, read off the text of the sentence. *)

\* The buffer holds the payload as far as it has come, and the bytes after it are awaited
\* one by one.
TextInv ==
  LET e == buffer_idx + 2
      n == Len(sentence)
  IN  /\ sentence[1] \in StartDelimiter
      /\ \A p \in 2..e - 1 : buffer[p - 2] = sentence[p] /\ sentence[p] \notin {STAR, LF}
      /\ n = e + CASE pc = "payload" -> -1 [] pc = "hex1" -> 0 [] pc = "hex2" -> 1
                   [] pc = "cr" -> 2 [] pc = "lf" -> 3
      /\ n >= e => sentence[e] \in {STAR, LF} \/ e = BufferSize + 2
      /\ n > e => sentence[e + 1] = hex1
      /\ n > e + 1 => sentence[e + 2] = hex2
      /\ n > e + 2 => sentence[e + 3] = CR

\* The separators seen so far, the one that ended the payload included.
Seen == Sentence!Cuts(IF pc = "payload" THEN sentence ELSE SubSeq(sentence, 1, buffer_idx + 2))

\* The address is the token before the first separator, a field the token between two.
AddressInv(cuts) ==
  LET named == cuts # <<>> /\ cuts[1] - 2 >= TalkerLen + TypeLen
  IN  /\ view.talker_id = IF named THEN [start |-> 0, len |-> TalkerLen] ELSE EmptyView
      /\ view.message_type = IF named THEN [start |-> TalkerLen, len |-> TypeLen] ELSE EmptyView

FieldCount(n) == IF n = 0 THEN 0 ELSE IF n - 1 < MaxFields THEN n - 1 ELSE MaxFields

FieldsInv(cuts) ==
  /\ Len(view.fields) = FieldCount(Len(cuts))
  /\ \A k \in 1..Len(view.fields) :
       view.fields[k] = [start |-> cuts[k] - 1, len |-> cuts[k + 1] - cuts[k] - 1]

CutsInv(cuts) ==
  /\ \A k \in 1..Len(cuts) : cuts[k] \in 2..Len(sentence) /\ cuts[k] <= buffer_idx + 2
  /\ \A k \in 2..Len(cuts) : cuts[k - 1] < cuts[k]
  /\ is_first_field <=> cuts = <<>>
  /\ pc = "payload" => field_start_idx = IF cuts = <<>> THEN 0 ELSE cuts[Len(cuts)] - 1

SentenceInv ==
  pc # "start" => TextInv /\ CutsInv(Seen) /\ AddressInv(Seen) /\ FieldsInv(Seen)
===============================================================================
