------------------------------- MODULE NmeaCodec -------------------------------
(***************************************************************************)
(* nmea0183/serializer.hpp, deserializer.hpp and the field types of         *)
(* types.hpp: values, the sentence they are written to, and the values that *)
(* are read back from the tokens of a sentence.                             *)
(*                                                                          *)
(* A std::optional is None or Some(value), and every value is a sequence:   *)
(* the characters of a string, one character, or one number.  A floating    *)
(* point number counts tenths of the last decimal that its field shows, one *)
(* more than is written; numbers half-way between two decimals, which go    *)
(* either way, and exponents do not occur.                                  *)
(***************************************************************************)
EXTENDS Octets, NmeaMessages, SequencesExt, Integers

MINUS == 45
POINT == 46
Digit == 48..57

None == [kind |-> "none", value |-> <<>>]
Some(v) == [kind |-> "some", value |-> v]
ParseError == [kind |-> "parse_error", value |-> <<>>]

Abs(n) == IF n < 0 THEN -n ELSE n

-------------------------------------------------------------------------------
(* Numbers and their digits *)

\* Bug: a digit keeps those before it.
BugKeepsHigherDigits(n, width) ==
  LET len == Min({k \in 1..9 : k >= width /\ n < 10^k})
  IN  [i \in 1..len |-> 48 + n \div 10^(len - i)]

\* n in decimal, with leading zeros up to the width.
Decimal(n, width) ==
  LET len == Min({k \in 1..9 : k >= width /\ n < 10^k})
  IN  [i \in 1..len |-> 48 + ((n \div 10^(len - i)) % 10)]

\* What a run of digits stands for.
DigitsValue(digits) ==
  LET upTo[n \in 0..Len(digits)] == IF n = 0 THEN 0 ELSE 10 * upTo[n - 1] + (digits[n] - 48)
  IN  upTo[Len(digits)]

\* The longest run of digits in t from position i on.
DigitsFrom(t, i) ==
  LET ends == {k \in i - 1..Len(t) : \A j \in i..k : t[j] \in Digit}
  IN  SubSeq(t, i, Max(ends))

-------------------------------------------------------------------------------
(* serialize() *)

Sign(n) == IF n < 0 THEN <<MINUS>> ELSE <<>>

\* "{:0{}d}" and "{}": the sign counts for the width.
FormatInt(n, width) == Sign(n) \o Decimal(Abs(n), Max({1, width - Len(Sign(n))}))

\* Bug: the decimals are cut off.
BugTruncates(n) == Abs(n) \div 10
Rounded(n) == (Abs(n) + 5) \div 10

\* "{:0{}.{}f}" and "{:.{}f}".
FormatFloat(n, precision, width) ==
  LET whole == Rounded(n) \div 10^precision
      decimals == Rounded(n) % 10^precision
  IN  Sign(n) \o Decimal(whole, Max({1, width - precision - 1 - Len(Sign(n))}))
        \o <<POINT>> \o Decimal(decimals, precision)

\* std::formatter of OptionalWrapper: an absent value writes nothing.
Format(field, opt) ==
  IF opt.kind = "none" THEN <<>>
  ELSE CASE field.type = "float" -> FormatFloat(opt.value[1], field.precision, field.width)
         [] field.type = "int" -> FormatInt(opt.value[1], field.width)
         [] OTHER -> opt.value

\* "{:02X}"
Hex(n) == LET digit(d) == IF d < 10 THEN 48 + d ELSE 55 + d
          IN  <<digit(n \div 16), digit(n % 16)>>

\* Over what stands behind the start delimiter.
Checksum(body) == XorOf(Tail(body))

\* Bug: the sentence is left without an end of line.
BugForgetsLineEnd(body) == <<STAR>> \o Hex(Checksum(body))
Footer(body) == <<STAR>> \o Hex(Checksum(body)) \o <<CR, LF>>

\* The start delimiter, talker, message type and fields.
Body(talker, m, values) ==
  LET tokens == [k \in 1..Len(m.fields) |-> <<COMMA>> \o Format(m.fields[k], values[k])]
  IN  <<DOLLAR>> \o (talker \o m.id \o FlattenSeq(tokens))

Sentence(talker, m, values) ==
  LET body == Body(talker, m, values) IN body \o Footer(body)

\* The body as far as it fits, then the footer as far as it fits; the checksum is that of
\* what was written.  The buffer has at least one byte.
serialize(talker, m, values, size) ==
  LET fits(s) == SubSeq(s, 1, Min({size, Len(s)}))
      body == fits(Body(talker, m, values))
  IN  fits(body \o Footer(body))

-------------------------------------------------------------------------------
(* RxField::value() *)

\* std::from_chars of an integer: what follows the digits is ignored.
ParseInt(token) ==
  LET first == IF token[1] = MINUS THEN 2 ELSE 1
      digits == DigitsFrom(token, first)
      n == DigitsValue(digits)
  IN  IF digits = <<>> THEN ParseError ELSE Some(<<IF first = 2 THEN -n ELSE n>>)

\* std::from_chars of a floating point number.
ParseFloat(token, precision) ==
  LET first == IF token[1] = MINUS THEN 2 ELSE 1
      whole == DigitsFrom(token, first)
      point == first + Len(whole)
      decimals == IF point <= Len(token) /\ token[point] = POINT
                  THEN DigitsFrom(token, point + 1) ELSE <<>>
      kept == [i \in 1..precision + 1 |-> IF i <= Len(decimals) THEN decimals[i] ELSE 48]
      n == DigitsValue(whole \o kept)
  IN  IF whole \o decimals = <<>> THEN ParseError ELSE Some(<<IF first = 2 THEN -n ELSE n>>)

value(field, token) ==
  CASE token = <<>> -> None
    [] token # <<>> /\ field.type = "float" -> ParseFloat(token, field.precision)
    [] token # <<>> /\ field.type = "int" -> ParseInt(token)
    [] token # <<>> /\ field.type = "char" -> Some(<<token[1]>>)
    [] token # <<>> /\ field.type = "text" -> Some(token)

-------------------------------------------------------------------------------
(* bind() and dispatch() *)

\* Fields of the struct beyond those of the sentence are empty, and fields of the sentence
\* beyond those of the struct are ignored; here every field is read.
bind(m, view) ==
  [k \in 1..Len(m.fields) |->
    value(m.fields[k], IF k <= Len(view.fields) THEN view.fields[k] ELSE <<>>)]

Matching(handlers, type) == SelectSeq(handlers, LAMBDA m : m.id = type)

\* The first handler for the type of the sentence is called, whoever the talker is.
dispatch(handlers, view) ==
  LET matching == Matching(handlers, view.message_type)
  IN  IF matching = <<>>
      THEN [kind |-> "unhandled"]
      ELSE [kind |-> "message", msg |-> Head(matching), values |-> bind(Head(matching), view)]
===============================================================================
