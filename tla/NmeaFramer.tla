------------------------------ MODULE NmeaFramer ------------------------------
(***************************************************************************)
(* The NMEA 0183 framer, nmea0183/framer.hpp, create_framer().  One action  *)
(* per co_await of the coroutine; a step is one push_byte(), which module   *)
(* InputAwaiter shows to be atomic: it takes the byte, runs the body up to  *)
(* its next co_await and returns what the body yielded on the way.          *)
(*                                                                          *)
(* The message view is zero-copy: every string_view is an offset and a      *)
(* length in the caller's buffer, which is reused for the next sentence.    *)
(***************************************************************************)
EXTENDS Octets, Sequences

CONSTANTS Char,        \* the bytes the caller may push
          BufferSize,  \* active_buffer_ptr->size()
          MaxFields,   \* MessageView::MaxFields, 32 in the code
          TalkerLen,   \* 2 in the code
          TypeLen      \* 3 in the code

ASSUME CharAssumption == Char \subseteq Octet
ASSUME SizeAssumption == BufferSize \in Nat /\ MaxFields \in Nat
ASSUME AddressAssumption == TalkerLen \in Nat /\ TypeLen \in Nat

VARIABLES
  pc,                   \* the co_await the coroutine is suspended in
  buffer,               \* the bytes of *active_buffer_ptr
  buffer_idx,
  calculated_checksum,
  view,
  field_start_idx,
  is_first_field,
  hex1, hex2,
  output,               \* what the last push_byte() returned
  sentence,             \* history: the bytes since the start delimiter, <<>> between sentences
  held                  \* history: the last view returned and its text at that time,
                        \* until the buffer is written to again

locals == <<buffer_idx, calculated_checksum, view, field_start_idx, is_first_field, hex1, hex2>>
vars == <<pc, buffer, locals, output, sentence, held>>

Slot == 0..BufferSize - 1

\* std::string_view into the buffer, and the characters it denotes.
StringView == [start : 0..BufferSize + 1, len : 0..BufferSize]
EmptyView == [start |-> 0, len |-> 0]
CharAt(i) == IF i \in Slot THEN buffer[i] ELSE 0   \* outside the span: not ours to read
Text(v) == [i \in 1..v.len |-> CharAt(v.start + i - 1)]

NoMessage == [talker_id |-> EmptyView, message_type |-> EmptyView, fields |-> <<>>]
MessageView == [talker_id : StringView, message_type : StringView, fields : Seq(StringView)]
MessageText(m) ==
  [talker_id    |-> Text(m.talker_id),
   message_type |-> Text(m.message_type),
   fields       |-> [k \in 1..Len(m.fields) |-> Text(m.fields[k])]]

ErrorKind == {"overrun", "newline", "badcrlf", "badhex", "mismatch"}
Silence == [kind |-> "none"]
Nothing == [kind |-> "nothing"]

TypeOK ==
  /\ pc \in {"start", "payload", "hex1", "hex2", "cr", "lf"}
  /\ buffer \in [Slot -> Octet]
  /\ buffer_idx \in 0..BufferSize
  /\ calculated_checksum \in Octet
  /\ view \in MessageView
  /\ field_start_idx \in 0..BufferSize + 1
  /\ is_first_field \in BOOLEAN
  /\ hex1 \in Octet /\ hex2 \in Octet
  /\ output \in [kind : ErrorKind \union {"none"}] \union [kind : {"view"}, view : MessageView]

Init ==
  /\ pc = "start"
  /\ buffer = [i \in Slot |-> 0]
  /\ buffer_idx = 0 /\ calculated_checksum = 0
  /\ view = NoMessage /\ field_start_idx = 0 /\ is_first_field = TRUE
  /\ hex1 = 0 /\ hex2 = 0
  /\ output = Silence
  /\ sentence = <<>> /\ held = Nothing

-------------------------------------------------------------------------------
\* How a step leaves the body: suspended in the next co_await, with or without a report.
Await(location) == pc' = location /\ output' = Silence
YieldError(e, location) == pc' = location /\ output' = [kind |-> e]

\* The sentence goes on, or is over.
Read(c) == sentence' = Append(sentence, c)
SentenceOver == sentence' = <<>>

\* Bug: the checksum of the last sentence is kept.
BugKeepsChecksum ==
  /\ buffer_idx' = 0 /\ view' = NoMessage /\ field_start_idx' = 0 /\ is_first_field' = TRUE
  /\ UNCHANGED calculated_checksum

\* A delimiter resets the parser.
Reset ==
  /\ buffer_idx' = 0 /\ calculated_checksum' = 0
  /\ view' = NoMessage /\ field_start_idx' = 0 /\ is_first_field' = TRUE

\* Bug: the delimiter is kept in the buffer, over a view that may still be held.
BugStoresDelimiter(c) ==
  /\ pc = "start" /\ c \in StartDelimiter /\ BufferSize > 0
  /\ Reset /\ Await("payload") /\ Read(c)
  /\ buffer' = [buffer EXCEPT ![0] = c]
  /\ UNCHANGED <<hex1, hex2, held>>

\* STATE 1: everything up to '$' or '!' is skipped.
SearchStart(c) ==
  /\ pc = "start"
  /\ IF c \in StartDelimiter
     THEN Reset /\ Await("payload") /\ Read(c)
     ELSE /\ Await("start")
          /\ UNCHANGED <<buffer_idx, calculated_checksum, view, field_start_idx, is_first_field,
                         sentence>>
  /\ hex1' = 0 /\ hex2' = 0
  /\ UNCHANGED <<buffer, held>>

\* Bug: the separator is counted as part of the token.
BugFieldWithSeparator == [start |-> field_start_idx, len |-> buffer_idx + 1 - field_start_idx]

\* STATE 2, at a separator: the token before it is the address or the next field.
CurrentField == [start |-> field_start_idx, len |-> buffer_idx - field_start_idx]

\* Bug: one field too many.
BugOneFieldMore ==
  IF is_first_field \/ Len(view.fields) > MaxFields
  THEN view
  ELSE [view EXCEPT !.fields = Append(@, CurrentField)]

ViewWithCurrentField ==
  IF is_first_field
  THEN IF CurrentField.len >= TalkerLen + TypeLen
       THEN [view EXCEPT
              !.talker_id    = [start |-> field_start_idx, len |-> TalkerLen],
              !.message_type = [start |-> field_start_idx + TalkerLen, len |-> TypeLen]]
       ELSE view
  ELSE IF Len(view.fields) < MaxFields
       THEN [view EXCEPT !.fields = Append(@, CurrentField)]
       ELSE view

\* Bug: the next token starts at the separator.
BugStartsAtSeparator(c) ==
  IF c \in {STAR, LF, COMMA}
  THEN /\ view' = ViewWithCurrentField
       /\ is_first_field' = FALSE
       /\ field_start_idx' = buffer_idx
  ELSE UNCHANGED <<view, is_first_field, field_start_idx>>

CutField(c) ==
  IF c \in {STAR, LF, COMMA}
  THEN /\ view' = ViewWithCurrentField
       /\ is_first_field' = FALSE
       /\ field_start_idx' = buffer_idx + 1
  ELSE UNCHANGED <<view, is_first_field, field_start_idx>>

\* STATE 2, any other byte is stored and added to the checksum.
StoreChar(c) ==
  /\ calculated_checksum' = XorOctet(calculated_checksum, c)
  /\ buffer' = [buffer EXCEPT ![buffer_idx] = c]
  /\ buffer_idx' = buffer_idx + 1
  /\ held' = Nothing

BugOneByteMore == buffer_idx <= BufferSize
Fits == buffer_idx < BufferSize

\* Bug: what does not fit is dropped, and the payload goes on.
BugDropsExcess(c) == Await("payload") /\ Read(c)
Overrun(c) == YieldError("overrun", "hex1") /\ Read(c)

ReadPayload(c) ==
  /\ pc = "payload"
  /\ CutField(c)
  /\ \/ /\ c = STAR
        /\ Await("hex1") /\ Read(c)
        /\ UNCHANGED <<calculated_checksum, buffer, buffer_idx, held>>
     \/ /\ c = LF
        /\ YieldError("newline", "hex1") /\ Read(c)
        /\ UNCHANGED <<calculated_checksum, buffer, buffer_idx, held>>
     \/ /\ c \notin {STAR, LF} /\ ~Fits
        /\ Overrun(c)
        /\ UNCHANGED <<calculated_checksum, buffer, buffer_idx, held>>
     \/ /\ c \notin {STAR, LF} /\ Fits
        /\ StoreChar(c)
        /\ Await("payload") /\ Read(c)
  /\ UNCHANGED <<hex1, hex2>>

\* STATE 3: the two checksum digits.
ReadHex1(c) ==
  /\ pc = "hex1"
  /\ hex1' = c
  /\ Await("hex2") /\ Read(c)
  /\ UNCHANGED <<buffer, buffer_idx, calculated_checksum, view, field_start_idx, is_first_field,
                 hex2, held>>

ReadHex2(c) ==
  /\ pc = "hex2"
  /\ hex2' = c
  /\ Await("cr") /\ Read(c)
  /\ UNCHANGED <<buffer, buffer_idx, calculated_checksum, view, field_start_idx, is_first_field,
                 hex1, held>>

\* STATE 4: CR and LF.
ReadCR(c) ==
  /\ pc = "cr"
  /\ IF c = CR THEN Await("lf") /\ Read(c)
               ELSE YieldError("badcrlf", "start") /\ SentenceOver
  /\ UNCHANGED <<buffer, locals, held>>

\* STATE 5: std::from_chars wants two digits, and their value is compared.
ValidDigits == {hex1, hex2} \subseteq HexDigit
BugSwappedDigits == 16 * HexValue(hex2) + HexValue(hex1)
ReceivedChecksum == 16 * HexValue(hex1) + HexValue(hex2)

ReadLF(c) ==
  /\ pc = "lf"
  /\ \/ /\ c # LF
        /\ YieldError("badcrlf", "start") /\ UNCHANGED held
     \/ /\ c = LF /\ ~ValidDigits
        /\ YieldError("badhex", "start") /\ UNCHANGED held
     \/ /\ c = LF /\ ValidDigits /\ ReceivedChecksum # calculated_checksum
        /\ YieldError("mismatch", "start") /\ UNCHANGED held
     \/ /\ c = LF /\ ValidDigits /\ ReceivedChecksum = calculated_checksum
        /\ pc' = "start"
        /\ output' = [kind |-> "view", view |-> view]
        /\ held' = [kind |-> "held", view |-> view, text |-> MessageText(view)]
  /\ SentenceOver
  /\ UNCHANGED <<buffer, locals>>

push_byte(c) ==
  \/ SearchStart(c)
  \/ ReadPayload(c)
  \/ ReadHex1(c)
  \/ ReadHex2(c)
  \/ ReadCR(c)
  \/ ReadLF(c)

Next == \E c \in Char : push_byte(c)

Spec == Init /\ [][Next]_vars

-------------------------------------------------------------------------------
(* Properties *)

\* Every string_view of a message.
Views(m) == {m.talker_id, m.message_type} \union {m.fields[k] : k \in 1..Len(m.fields)}

\* A view that push_byte() returns, and that its caller still holds, never reaches outside
\* the buffer, whatever the sentence and however small the buffer.
ViewsInBounds ==
  /\ output.kind = "view" =>
       \A v \in Views(output.view) : v.start + v.len <= BufferSize
  /\ held.kind = "held" =>
       \A v \in Views(held.view) : v.start + v.len <= BufferSize

\* The fields of a message tile its payload: each begins one separator after the end of the
\* one before, so no byte belongs to two fields and none but separators to no field.
FieldsTile ==
  \A k \in 2..Len(view.fields) :
    view.fields[k].start = view.fields[k - 1].start + view.fields[k - 1].len + 1

\* The zero-copy contract: a view the caller has been given reads the same until the first
\* payload byte of the next sentence is pushed, noise and start delimiters included.
HeldViewReadable == held.kind = "held" => MessageText(held.view) = held.text

\* No input keeps the framer inside a sentence for long, a payload without an end included:
\* from a start delimiter on there are at most the payload that fits, the byte that ends it,
\* two digits, CR and LF, and with the last of them the framer is back at its start.
ResynchronisesInTime ==
  /\ pc = "start" <=> sentence = <<>>
  /\ Len(sentence) <= BufferSize + 5

\* framer.hpp:180 says the goto behind an error inside the payload restarts the search for
\* a sentence.
ErrorRestarts == output.kind \in {"newline", "overrun"} => pc = "start"

-------------------------------------------------------------------------------
(* The inductive invariant behind ViewsInBounds: how far the views reach while they are *)
(* being cut.                                                                            *)

ViewWithin(v, end) == v.start + v.len <= end

SpanInv ==
  /\ pc = "payload" => field_start_idx <= buffer_idx
  /\ \A v \in Views(view) : ViewWithin(v, buffer_idx)
  /\ output.kind = "view" => \A v \in Views(output.view) : ViewWithin(v, BufferSize)
  /\ held.kind = "held" => held.view \in MessageView /\ \A v \in Views(held.view) : ViewWithin(v, BufferSize)

FramerInv == TypeOK /\ SpanInv

\* The inductive invariant behind ResynchronisesInTime: where the framer waits tells how
\* much of the sentence it has seen.
ProgressInv ==
  /\ sentence \in Seq(Octet)
  /\ pc = "start" <=> sentence = <<>>
  /\ pc = "payload" => Len(sentence) = buffer_idx + 1
  /\ pc = "hex1" => Len(sentence) <= BufferSize + 2
  /\ pc = "hex2" => Len(sentence) <= BufferSize + 3
  /\ pc = "cr" => Len(sentence) <= BufferSize + 4
  /\ pc = "lf" => Len(sentence) <= BufferSize + 5
===============================================================================
