------------------------------ MODULE MC_NmeaLink ------------------------------
EXTENDS NmeaLink

GP == <<71, 80>>

\* A value for a field: characters, or a number with as many digits as the field has or fewer.
Letters == [type \in {"char", "text"} |-> IF type = "char" THEN <<65>> ELSE <<87, 56, 52>>]
Full(f) ==
  CASE f.type = "float" -> <<IF f.width = 0 THEN 10^f.precision * 234 + 56
                             ELSE 10^(f.width - 1) + 56>>
    [] f.type = "int" -> <<10^f.width - 3>>
    [] OTHER -> Letters[f.type]
Little(f) ==
  CASE f.type = "float" -> <<7>>
    [] f.type = "int" -> <<5>>
    [] OTHER -> Letters[f.type]
Negative(f) ==
  CASE f.type = "float" -> <<-10^f.precision * 34 - 7>>
    [] f.type = "int" -> <<-5>>
    [] f.type = "char" -> <<66>>
    [] f.type = "text" -> <<>>

\* The fields of m for which Set holds have a value and the rest are absent.
Partly(m, F(_), Set(_)) ==
  [k \in 1..Len(m.fields) |-> IF Set(k) THEN Some(F(m.fields[k])) ELSE None]

\* The first fields, the last field, or one field out of two have a value.
Forms(m, F(_)) ==
  {Partly(m, F, LAMBDA k : k <= n) : n \in 0..Len(m.fields)}
    \union {Partly(m, F, LAMBDA k : k = Len(m.fields)), Partly(m, F, LAMBDA k : k % 2 = 0)}

Of(m, values, sizes) ==
  {[talker |-> GP, msg |-> m, values |-> v, fix |-> NoFix, size |-> n] : v \in values, n \in sizes}

\* Each sentence with each of these values on an undamaged line.
EverySentence ==
  UNION {Of(m, Forms(m, Full) \union Forms(m, Little) \union Forms(m, Negative), {100}) :
         m \in Payloads}

\* Sentences of two fields on a line that damages one byte.
ShortSentences ==
  UNION {Of(m, {Partly(m, Full, LAMBDA k : TRUE), Partly(m, Little, LAMBDA k : k = 1)}, {100}) :
         m \in {HDT, ROT}}

\* The same in buffers that are too small for the last field, the checksum or the end of line.
CutSentences ==
  UNION {Of(m, {Partly(m, Full, LAMBDA k : TRUE)}, (1..20) \union {100}) : m \in {HDT, ROT}}

\* Fixes: a time and a position each.  The turn of a year and of a century, the day after a
\* leap day and the end of one; the corners of the earth, the equator and the meridian,
\* minutes that are rounded up to a degree, and directions lost in rounding.
Fix(date, second, tick, latitude, longitude) ==
  [kind |-> "fix", time |-> [day |-> sys_days(date), second |-> second, tick |-> tick],
   latitude |-> latitude, longitude |-> longitude]
YMD(y, m, d) == [year |-> y, month |-> m, day |-> d]
Fixes ==
  {Fix(YMD(1999, 12, 31), 86399, 0, 90 * Degree, 180 * Degree),
   Fix(YMD(2000, 1, 1), 0, 0, -90 * Degree, -180 * Degree),
   Fix(YMD(2000, 2, 29), 3600, 0, 0, 0),
   Fix(YMD(2023, 10, 15), 37845, 0, -3, -7),
   Fix(YMD(2024, 2, 29), 86399, 0, 48 * Degree + 703812, 11 * Degree + 3145922),
   Fix(YMD(2024, 3, 1), 59, 0, -(33 * Degree + 5999996), -(151 * Degree + 5999996)),
   Fix(YMD(2099, 12, 31), 43200, 0, 59 * Minute, -(99 * Degree + 599)),
   Fix(YMD(2100, 3, 1), 86340, 0, 7, -44)}

\* Every payload with a time or a position.
SentFixes(fixes) ==
  {[talker |-> GP, msg |-> m, values |-> [k \in 1..Len(m.fields) |-> None], fix |-> f, size |-> 100] :
   m \in {RMC, ZDA, GGA, GNS, GLL, GBS, GST}, f \in fixes}

MCSends ==
  [s \in Scenario |-> CASE s = "all" -> EverySentence
                        [] s = "damaged" -> ShortSentences
                        [] s = "cut" -> CutSentences
                        [] s = "fixes" -> SentFixes(Fixes)]
MCMaxSentences == [s \in Scenario |-> IF s \in {"damaged", "cut"} THEN 3 ELSE 1]
MCMaxFaults == [s \in Scenario |-> IF s = "damaged" THEN 1 ELSE 0]
MCNoise == [s \in Scenario |-> IF s = "all" THEN {LF, STAR} ELSE {}]

\* Delimiters, separators, digits and letters, hexadecimal and not.
MCGarbage == {BANG, DOLLAR, STAR, COMMA, CR, LF, 48, 57, 65, 71, 97}

\* One more handler for a sentence of another length behind the one that is meant.
MCHandlers == <<DTM, GBS, GGA, GLL, GNS, GSA, GST, HDT, RMC, ROT, VTG, ZDA,
                [ROT EXCEPT !.fields = <<String>>]>>

ASSUME DetectableAssumption == Detectable
===============================================================================
