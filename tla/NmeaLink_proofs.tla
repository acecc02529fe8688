--------------------------- MODULE NmeaLink_proofs ----------------------------
(***************************************************************************)
(* The NMEA 0183 link for any sentences, any line and buffers of any size:  *)
(* the framer finds its way back behind every damage; what nothing happened *)
(* to arrives as it was sent, number by number and text by text; a lost or  *)
(* changed byte makes nothing else of a sentence; and the times and         *)
(* positions that utilities.hpp puts into payloads come out of them at the  *)
(* other end: every second of the calendar, and every angle to half of the  *)
(* last decimal of its field.                                               *)
(***************************************************************************)
EXTENDS NmeaLink, Octets_proofs

-------------------------------------------------------------------------------
(* Angles *)

\* Quotient and remainder.
LEMMA Division ==
  ASSUME NEW n \in Nat, NEW d \in Nat \ {0}
  PROVE  n \div d \in Nat /\ n % d \in Nat /\ n % d < d /\ n = d * (n \div d) + (n % d)
OBVIOUS

\* The units of angles in payloads.
LEMMA Units == Minute = 100000 /\ 100 * Minute = 10000000 /\ Degree = 6000000
BY SMT DEF Minute, Degree

\* The magnitude that is written splits into whole degrees and less than sixty minutes.
LEMMA DegreesAndMinutes ==
  ASSUME NEW a \in Int
  PROVE  \E degrees \in Nat, minutes \in Nat :
           /\ minutes < Degree
           /\ Abs(a) = Degree * degrees + minutes
           /\ from_decimal(a) = 100 * Minute * degrees + minutes
<1>1. Abs(a) \in Nat /\ Degree \in Nat \ {0}
  BY Units DEF Abs
<1>2. /\ Abs(a) \div Degree \in Nat /\ Abs(a) % Degree \in Nat /\ Abs(a) % Degree < Degree
      /\ Abs(a) = Degree * (Abs(a) \div Degree) + (Abs(a) % Degree)
  BY <1>1, Division
<1>3. from_decimal(a) = 100 * Minute * (Abs(a) \div Degree) + (Abs(a) % Degree)
  BY DEF from_decimal
<1> QED
  BY <1>2, <1>3

\* What to_decimal() makes of degrees and up to sixty minutes, sixty included.
LEMMA Magnitude ==
  ASSUME NEW degrees \in Nat, NEW minutes \in Nat, minutes <= Degree, NEW dir
  PROVE  to_decimal(100 * Minute * degrees + minutes, dir) =
           IF dir \in {South, West} THEN -(Degree * degrees + minutes)
           ELSE Degree * degrees + minutes
<1>1. minutes <= 6000000
  BY SMT, Units
<1>2. /\ (10000000 * degrees + minutes) \div 10000000 = degrees
      /\ (10000000 * degrees + minutes) % 10000000 = minutes
  BY SMT, <1>1
<1>3. /\ (100 * Minute * degrees + minutes) \div (100 * Minute) = degrees
      /\ (100 * Minute * degrees + minutes) % (100 * Minute) = minutes
  BY SMT, <1>2, Units
<1>4. degrees * Degree = Degree * degrees
  BY SMT, Units
<1> QED
  BY SMT, <1>3, <1>4 DEF to_decimal

\* In a payload that has not been sent an angle is what it was: the sign is in the direction,
\* and degrees and minutes are taken apart where they were put together.
THEOREM AnglesExact ==
  ASSUME NEW a \in Int
  PROVE  /\ to_decimal(from_decimal(a), IF a >= 0 THEN North ELSE South) = a
         /\ to_decimal(from_decimal(a), IF a >= 0 THEN East ELSE West) = a
<1>1. PICK degrees \in Nat, minutes \in Nat :
        /\ minutes < Degree
        /\ Abs(a) = Degree * degrees + minutes
        /\ from_decimal(a) = 100 * Minute * degrees + minutes
  BY DegreesAndMinutes
<1>2. minutes <= Degree
  BY SMT, <1>1, Units
<1>3. \A dir : to_decimal(from_decimal(a), dir) =
                 IF dir \in {South, West} THEN -Abs(a) ELSE Abs(a)
  BY SMT, <1>1, <1>2, Magnitude
<1> QED
  BY SMT, <1>3 DEF Abs, North, South, East, West

\* An angle whose number was written with the decimals of its field comes back within half of
\* the last of them, whatever it is: minutes that are rounded up to sixty are the next degree.
THEOREM AnglesRounded ==
  ASSUME NEW a \in Int, NEW written \in Int, written = 10 * Rounded(from_decimal(a))
  PROVE  /\ Abs(to_decimal(written, IF a >= 0 THEN North ELSE South) - a) <= 5
         /\ Abs(to_decimal(written, IF a >= 0 THEN East ELSE West) - a) <= 5
<1>1. PICK degrees \in Nat, minutes \in Nat :
        /\ minutes < Degree
        /\ Abs(a) = Degree * degrees + minutes
        /\ from_decimal(a) = 100 * Minute * degrees + minutes
  BY DegreesAndMinutes
<1> DEFINE rounded == 10 * ((minutes + 5) \div 10)
<1>2. minutes < 6000000
  BY SMT, <1>1, Units
<1>3. rounded \in Nat /\ rounded <= 6000000 /\ rounded - minutes <= 5 /\ minutes - rounded <= 5
  BY SMT, <1>2
<1>4. written = 100 * Minute * degrees + rounded
  <2>1. from_decimal(a) = 10000000 * degrees + minutes
    BY SMT, <1>1, Units
  <2>2. Rounded(from_decimal(a)) = (10000000 * degrees + minutes + 5) \div 10
    BY SMT, <2>1, <1>2 DEF Rounded, Abs
  <2>3. (10000000 * degrees + minutes + 5) \div 10 = 1000000 * degrees + ((minutes + 5) \div 10)
    BY SMT, <1>2
  <2>4. (minutes + 5) \div 10 \in Nat
    BY SMT, <1>2
  <2> QED
    BY SMT, <2>2, <2>3, <2>4, Units
<1> HIDE DEF rounded
<1>5. rounded \in Nat /\ rounded <= Degree
  BY SMT, <1>3, Units
<1>6. \A dir : to_decimal(written, dir) =
                 IF dir \in {South, West} THEN -(Degree * degrees + rounded)
                 ELSE Degree * degrees + rounded
  BY SMT, <1>4, <1>5, Magnitude
<1>7. Degree * degrees \in Int /\ minutes \in Int /\ rounded \in Int
  BY SMT, <1>2, <1>3, Units
<1> QED
  BY SMT, <1>1, <1>3, <1>6, <1>7 DEF Abs, North, South, East, West

-------------------------------------------------------------------------------
(* What serialize() writes *)

\* The bytes of a sentence behind its start delimiter.
Inner == Octet \ StartDelimiter

\* The powers that Decimal() compares with.
LEMMA PowersOfTen ==
  /\ 10^0 = 1 /\ 10^1 = 10 /\ 10^2 = 100 /\ 10^3 = 1000 /\ 10^4 = 10000 /\ 10^5 = 100000
  /\ 10^6 = 1000000 /\ 10^7 = 10000000 /\ 10^8 = 100000000 /\ 10^9 = 1000000000
OBVIOUS

\* None of them is zero.
LEMMA PowerPositive == \A k \in 0..9 : 10^k \in Nat \ {0}
<1> SUFFICES ASSUME NEW k \in 0..9 PROVE 10^k \in Nat \ {0}
  OBVIOUS
<1>1. k = 0 \/ k = 1 \/ k = 2 \/ k = 3 \/ k = 4 \/ k = 5 \/ k = 6 \/ k = 7 \/ k = 8 \/ k = 9
  OBVIOUS
<1>2. /\ 10^0 \in Nat \ {0} /\ 10^1 \in Nat \ {0} /\ 10^2 \in Nat \ {0} /\ 10^3 \in Nat \ {0}
      /\ 10^4 \in Nat \ {0} /\ 10^5 \in Nat \ {0} /\ 10^6 \in Nat \ {0} /\ 10^7 \in Nat \ {0}
      /\ 10^8 \in Nat \ {0} /\ 10^9 \in Nat \ {0}
  BY PowersOfTen
<1> QED
  BY <1>1, <1>2, Zenon

\* A number of up to nine digits is written in digits.
LEMMA DecimalType ==
  ASSUME NEW n \in Nat, n < 10^9, NEW width \in Int, width <= 9
  PROVE  Decimal(n, width) \in Seq(Digit)
<1> DEFINE K == {k \in 1..9 : k >= width /\ n < 10^k}
           len == Min(K)
<1>1. 9 \in K
  OBVIOUS
<1>2. \E k \in K : \A j \in K : k <= j
  <2>1. K \in SUBSET Nat
    OBVIOUS
  <2> HIDE DEF K
  <2> QED
    BY <1>1, <2>1, LeastNatural
<1>3. len \in K
  <2> HIDE DEF K
  <2> QED
    BY <1>2 DEF Min
<1>4. len \in 1..9
  <2> HIDE DEF len
  <2> QED
    BY <1>3
<1> HIDE DEF K, len
<1>5. ASSUME NEW i \in 1..len PROVE 48 + ((n \div 10^(len - i)) % 10) \in Digit
  <2>1. len - i \in 0..9
    BY <1>4
  <2>2. 10^(len - i) \in Nat \ {0}
    BY <2>1, PowerPositive
  <2> DEFINE q == n \div 10^(len - i)
  <2>3. q \in Nat
    BY <2>2, Division
  <2> HIDE DEF q
  <2>4. 48 + (q % 10) \in Digit
    BY <2>3 DEF Digit
  <2> QED
    BY <2>4 DEF q
<1>6. [i \in 1..len |-> 48 + ((n \div 10^(len - i)) % 10)] \in Seq(Digit)
  BY <1>4, <1>5
<1> QED
  BY <1>6 DEF Decimal, K, len

\* The greater of one and what the sign leaves of a width.
LEMMA MaxOfTwo ==
  ASSUME NEW a \in Int, NEW b \in Int
  PROVE  Max({a, b}) = IF a >= b THEN a ELSE b
<1> DEFINE e == IF a >= b THEN a ELSE b
<1>1. \A x \in {a, b} : (\A y \in {a, b} : x >= y) <=> x = e
  OBVIOUS
<1>2. e \in {a, b}
  OBVIOUS
<1> QED
  BY <1>1, <1>2 DEF Max

\* The bytes of a text that fit in a buffer.
LEMMA MinOfTwo ==
  ASSUME NEW a \in Int, NEW b \in Int
  PROVE  Min({a, b}) = IF a <= b THEN a ELSE b
<1> DEFINE e == IF a <= b THEN a ELSE b
<1>1. \A x \in {a, b} : (\A y \in {a, b} : x <= y) <=> x = e
  OBVIOUS
<1>2. e \in {a, b}
  OBVIOUS
<1> QED
  BY <1>1, <1>2 DEF Min

\* A minus sign or nothing.
LEMMA SignType ==
  ASSUME NEW n \in Int
  PROVE  Sign(n) \in Seq(Plain) /\ Len(Sign(n)) \in 0..1 /\ Abs(n) \in Nat
<1>1. MINUS \in Plain
  BY DEF MINUS, Plain, Octet, COMMA, STAR, CR, LF, StartDelimiter, DOLLAR, BANG
<1>2. <<MINUS>> \in Seq(Plain) /\ <<>> \in Seq(Plain) /\ Len(<<MINUS>>) = 1 /\ Len(<<>>) = 0
  BY <1>1
<1> QED
  BY <1>2 DEF Sign, Abs

\* Digits and the point have no meaning in a sentence.
LEMMA DigitsPlain == Digit \subseteq Plain /\ POINT \in Plain
BY DEF Digit, POINT, Plain, Octet, COMMA, STAR, CR, LF, StartDelimiter, DOLLAR, BANG

\* What the senders' numbers and texts are.
LEMMA ShownNumber ==
  ASSUME NEW field, NEW opt, Shown(field, opt)
  PROVE  /\ field.type \in {"float", "int", "char", "text"} /\ opt = Some(opt.value)
         /\ field.type = "float" =>
              /\ field.precision \in 1..9 /\ field.width \in 0..9 + field.precision
              /\ opt.value = <<opt.value[1]>> /\ opt.value[1] \in Int /\ opt.value[1] % 10 # 5
              /\ Rounded(opt.value[1]) \div 10^field.precision < 10^9
         /\ field.type = "int" =>
              /\ field.width \in 0..9
              /\ opt.value = <<opt.value[1]>> /\ opt.value[1] \in Int /\ Abs(opt.value[1]) < 10^9
         /\ field.type \in {"char", "text"} => opt.value \in Seq(Plain)
         /\ field.type = "char" => Len(opt.value) = 1
<1> DEFINE t == field.type
           F == /\ field.precision \in 1..9 /\ field.width \in 0..9 + field.precision
                /\ opt.value = <<opt.value[1]>> /\ opt.value[1] \in Int /\ opt.value[1] % 10 # 5
                /\ Rounded(opt.value[1]) \div 10^field.precision < 10^9
           I == /\ field.width \in 0..9
                /\ opt.value = <<opt.value[1]>> /\ opt.value[1] \in Int /\ Abs(opt.value[1]) < 10^9
           C == opt.value \in Seq(Plain) /\ Len(opt.value) = 1
           T == opt.value \in Seq(Plain)
<1>1. /\ opt = Some(opt.value)
      /\ CASE t = "float" -> F [] t = "int" -> I [] t = "char" -> C [] t = "text" -> T
           [] OTHER -> FALSE
  BY DEF Shown
<1> HIDE DEF t, F, I, C, T
<1>2. CASE t = "float"
  <2>1. F
    BY <1>1, <1>2
  <2> QED
    BY <1>1, <1>2, <2>1 DEF t, F
<1>3. CASE t = "int"
  <2>1. I
    BY <1>1, <1>3
  <2> QED
    BY <1>1, <1>3, <2>1 DEF t, I
<1>4. CASE t = "char"
  <2>1. C
    BY <1>1, <1>4
  <2> QED
    BY <1>1, <1>4, <2>1 DEF t, C
<1>5. CASE t = "text"
  <2>1. T
    BY <1>1, <1>5
  <2> QED
    BY <1>1, <1>5, <2>1 DEF t, T
<1> QED
  BY <1>1, <1>2, <1>3, <1>4, <1>5

\* Neither delimiters nor separators come out of std::format.
LEMMA FormatType ==
  ASSUME NEW field, NEW opt, opt = None \/ Shown(field, opt)
  PROVE  Format(field, opt) \in Seq(Plain)
<1> DEFINE n == opt.value[1]
           p == field.precision
           w == field.width
           sign == Len(Sign(n))
<1>0. \A s : s \in Seq(Digit) => s \in Seq(Plain)
  BY DigitsPlain
<1>1. CASE opt.kind = "none"
  BY <1>1 DEF Format
<1>4. ASSUME opt.kind # "none" PROVE Shown(field, opt)
  BY <1>4 DEF None
<1>2. CASE opt.kind # "none" /\ field.type \in {"float", "int"}
  <2>1. n \in Int
    BY <1>2, <1>4, ShownNumber
  <2>2. Sign(n) \in Seq(Plain) /\ sign \in 0..1 /\ Abs(n) \in Nat
    BY <2>1, SignType
  <2>3. CASE field.type = "int"
    <3>1. w \in 0..9 /\ Abs(n) < 10^9
      BY <1>2, <1>4, <2>3, ShownNumber
    <3> HIDE DEF n, p, w, sign
    <3> DEFINE width == Max({1, w - sign})
    <3>2. width \in Int /\ width <= 9
      BY <2>1, <2>2, <3>1, MaxOfTwo
    <3> HIDE DEF width
    <3>3. Decimal(Abs(n), width) \in Seq(Plain)
      BY <1>0, <2>2, <3>1, <3>2, DecimalType
    <3>4. FormatInt(n, w) = Sign(n) \o Decimal(Abs(n), width)
      BY DEF FormatInt, width, sign
    <3>5. Format(field, opt) = FormatInt(n, w)
      BY <1>2, <2>3, Zenon DEF Format, n, w
    <3> QED
      BY <2>2, <3>3, <3>4, <3>5
  <2>4. CASE field.type = "float"
    <3> DEFINE r == Rounded(n)
               d == 10^p
    <3>1. r \div d < 10^9 /\ p \in 1..9 /\ w \in 0..9 + p
      BY <1>2, <1>4, <2>4, ShownNumber
    <3>2. r \in Nat
      BY <2>2 DEF Rounded
    <3>3. d \in Nat \ {0} /\ d <= 10^9
      <4> HIDE DEF n, p, w, sign
      <4>1. \/ p = 0 \/ p = 1 \/ p = 2 \/ p = 3 \/ p = 4
            \/ p = 5 \/ p = 6 \/ p = 7 \/ p = 8 \/ p = 9
        BY <3>1
      <4>2. /\ 10^0 <= 10^9 /\ 10^1 <= 10^9 /\ 10^2 <= 10^9 /\ 10^3 <= 10^9 /\ 10^4 <= 10^9
            /\ 10^5 <= 10^9 /\ 10^6 <= 10^9 /\ 10^7 <= 10^9 /\ 10^8 <= 10^9 /\ 10^9 <= 10^9
        BY PowersOfTen
      <4>3. d <= 10^9
        BY <4>1, <4>2, Zenon
      <4>4. p \in 0..9
        BY <3>1
      <4>5. d \in Nat \ {0}
        BY <4>4, PowerPositive, Zenon
      <4> QED
        BY <4>3, <4>5
    <3> HIDE DEF n, p, w, sign, r
    <3> DEFINE width == Max({1, w - p - 1 - sign})
    <3>4. width \in Int /\ width <= 9
      BY <2>2, <3>1, MaxOfTwo
    <3> HIDE DEF width, d
    <3>5. r \div d \in Nat /\ r % d \in Nat /\ r % d < d
      BY <3>2, <3>3, Division
    <3>6. r % d < 10^9
      BY <3>3, <3>5, PowersOfTen
    <3>7. Decimal(r \div d, width) \in Seq(Plain) /\ Decimal(r % d, p) \in Seq(Plain)
      <4>1. Decimal(r \div d, width) \in Seq(Digit)
        BY <3>1, <3>4, <3>5, DecimalType
      <4>2. p \in Int /\ p <= 9
        BY <3>1
      <4>3. Decimal(r % d, p) \in Seq(Digit)
        BY <3>5, <3>6, <4>2, DecimalType
      <4> QED
        BY <1>0, <4>1, <4>3
    <3>8. FormatFloat(n, p, w) =
            Sign(n) \o Decimal(r \div d, width) \o <<POINT>> \o Decimal(r % d, p)
      BY DEF FormatFloat, width, sign, r, d
    <3>9. Format(field, opt) = FormatFloat(n, p, w)
      BY <1>2, <2>4, Zenon DEF Format, n, p, w
    <3>10. <<POINT>> \in Seq(Plain)
      BY DigitsPlain
    <3> QED
      BY <2>2, <3>7, <3>8, <3>9, <3>10
  <2> QED
    BY <1>2, <2>3, <2>4
<1>3. CASE opt.kind # "none" /\ field.type \notin {"float", "int"}
  <2>1. opt.value \in Seq(Plain)
    BY <1>3, <1>4, ShownNumber
  <2> QED
    BY <1>3, <2>1 DEF Format
<1> QED
  BY <1>1, <1>2, <1>3

\* Behind its start delimiter the body of a sentence has none.
LEMMA BodyType ==
  ASSUME scenario \in Scenario, NEW s \in Sends[scenario]
  PROVE  \E rest \in Seq(Inner) : Body(s.talker, s.msg, Payload(s)) = <<DOLLAR>> \o rest
<1> DEFINE values == Payload(s)
           tokens == [k \in 1..Len(s.msg.fields) |->
                        <<COMMA>> \o Format(s.msg.fields[k], values[k])]
           rest == s.talker \o s.msg.id \o FlattenSeq(tokens)
<1>1. /\ s.talker \in Seq(Plain) /\ s.msg.id \in Seq(Plain) /\ Len(s.msg.fields) \in Nat
      /\ \A k \in 1..Len(s.msg.fields) :
           values[k] = None \/ Shown(s.msg.fields[k], values[k])
  BY SendAssumption
<1> HIDE DEF values
<1>2. Plain \subseteq Inner /\ COMMA \in Inner
  BY DEF Plain, Inner, Octet, COMMA, StartDelimiter, DOLLAR, BANG
<1>3. \A t : t \in Seq(Plain) => t \in Seq(Inner)
  BY <1>2
<1>4. ASSUME NEW k \in 1..Len(s.msg.fields)
      PROVE  <<COMMA>> \o Format(s.msg.fields[k], values[k]) \in Seq(Inner)
  <2>1. Format(s.msg.fields[k], values[k]) \in Seq(Inner)
    BY <1>1, <1>3, FormatType
  <2>2. <<COMMA>> \in Seq(Inner)
    BY <1>2
  <2> QED
    BY <2>1, <2>2
<1>5. tokens \in Seq(Seq(Inner))
  BY <1>1, <1>4
<1> HIDE DEF tokens
<1>6. FlattenSeq(tokens) \in Seq(Inner)
  BY <1>5, FlattenProperties
<1>7. s.talker \in Seq(Inner) /\ s.msg.id \in Seq(Inner)
  BY <1>1, <1>3
<1>8. rest \in Seq(Inner)
  <2>1. s.talker \o s.msg.id \in Seq(Inner)
    BY <1>7, ConcatProperties, Zenon
  <2> QED
    BY <1>6, <2>1, ConcatProperties, Zenon
<1> QED
  BY <1>8 DEF Body, tokens, values

\* The values of the hexadecimal digits.
LEMMA HexValues ==
  /\ \A c \in 48..57 : HexValue(c) = c - 48
  /\ \A c \in 65..70 : HexValue(c) = c - 55
<1>1. ASSUME NEW c \in 48..57 PROVE HexValue(c) = c - 48
  <2>1. c \in 48..57 /\ c \notin 65..70 /\ c \notin 97..102
    OBVIOUS
  <2> QED
    BY <2>1, Zenon DEF HexValue
<1>2. ASSUME NEW c \in 65..70 PROVE HexValue(c) = c - 55
  <2>1. c \notin 48..57 /\ c \in 65..70 /\ c \notin 97..102
    OBVIOUS
  <2> QED
    BY <2>1, Zenon DEF HexValue
<1> QED
  BY <1>1, <1>2

\* The footer: the digits of the checksum can be read again.
LEMMA FooterReads ==
  ASSUME NEW body \in Seq(Octet), body # <<>>
  PROVE  LET f == Footer(body)
         IN  /\ f \in Seq(Octet) /\ Len(f) = 5 /\ f[1] = STAR /\ f[4] = CR /\ f[5] = LF
             /\ f[2] \in HexDigit /\ f[3] \in HexDigit
             /\ 16 * HexValue(f[2]) + HexValue(f[3]) = Checksum(body)
<1> DEFINE x == XorOf(Tail(body))
           digit(n) == IF n < 10 THEN 48 + n ELSE 55 + n
           high == digit(x \div 16)
           low == digit(x % 16)
           f == Footer(body)
           a == <<STAR>>
           b == <<high, low>>
           c == <<CR, LF>>
<1>1. x \in Octet
  <2>1. 0 \in Octet /\ Tail(body) \in Seq(Octet)
    BY HeadTailProperties DEF Octet
  <2> QED
    BY <2>1, XorOfAppend
<1>2. Hex(x) = b
  BY DEF Hex
<1>3. /\ high \in HexDigit /\ low \in HexDigit
      /\ 16 * HexValue(high) + HexValue(low) = x
      /\ high \in Octet /\ low \in Octet
  <2>1. \A n \in 0..15 : digit(n) \in HexDigit /\ HexValue(digit(n)) = n /\ digit(n) \in Octet
    <3> SUFFICES ASSUME NEW n \in 0..15
                 PROVE  digit(n) \in HexDigit /\ HexValue(digit(n)) = n /\ digit(n) \in Octet
      OBVIOUS
    <3>1. CASE n < 10
      <4>1. /\ digit(n) = 48 + n /\ 48 + n \in 48..57 /\ 48 + n \in 0..255
            /\ (48 + n) - 48 = n
        BY <3>1
      <4> HIDE DEF digit
      <4>2. HexValue(digit(n)) = (48 + n) - 48
        BY <4>1, HexValues
      <4> QED
        BY <4>1, <4>2 DEF HexDigit, Octet
    <3>2. CASE ~(n < 10)
      <4>1. /\ digit(n) = 55 + n /\ 55 + n \in 65..70 /\ 55 + n \in 0..255
            /\ (55 + n) - 55 = n
        BY <3>2
      <4> HIDE DEF digit
      <4>2. HexValue(digit(n)) = (55 + n) - 55
        BY <4>1, HexValues
      <4> QED
        BY <4>1, <4>2 DEF HexDigit, Octet
    <3> QED
      BY <3>1, <3>2
  <2> HIDE DEF x, digit
  <2>2. x \div 16 \in 0..15 /\ x % 16 \in 0..15 /\ 16 * (x \div 16) + (x % 16) = x
    BY <1>1 DEF Octet
  <2> QED
    BY <2>1, <2>2
<1>4. f = (a \o b) \o c
  BY <1>2, Zenon DEF Footer, Checksum
<1>5. Checksum(body) = x
  BY DEF Checksum
<1> HIDE DEF x, high, low, f
<1>6. /\ a \in Seq(Octet) /\ Len(a) = 1 /\ a[1] = STAR
      /\ b \in Seq(Octet) /\ Len(b) = 2 /\ b[1] = high /\ b[2] = low
      /\ c \in Seq(Octet) /\ Len(c) = 2 /\ c[1] = CR /\ c[2] = LF
  BY <1>3 DEF Octet, STAR, CR, LF
<1> DEFINE d == a \o b
<1> HIDE DEF a, b, c
<1>7. d \in Seq(Octet) /\ Len(d) = 3 /\ d[1] = a[1] /\ d[2] = b[1] /\ d[3] = b[2]
  <2>1. /\ d \in Seq(Octet) /\ Len(d) = Len(a) + Len(b)
        /\ \A i \in 1..Len(a) : d[i] = a[i]
        /\ \A i \in 1..Len(b) : d[Len(a) + i] = b[i]
    BY <1>6, Joined
  <2> QED
    BY <1>6, <2>1
<1> HIDE DEF d
<1>8. /\ f \in Seq(Octet) /\ Len(f) = 5 /\ f[1] = d[1] /\ f[2] = d[2] /\ f[3] = d[3]
      /\ f[4] = c[1] /\ f[5] = c[2]
  <2>1. f = d \o c
    BY <1>4 DEF d
  <2>2. /\ f \in Seq(Octet) /\ Len(f) = Len(d) + Len(c)
        /\ \A i \in 1..Len(d) : f[i] = d[i]
        /\ \A i \in 1..Len(c) : f[Len(d) + i] = c[i]
    BY <1>6, <1>7, <2>1, Joined
  <2> QED
    BY <1>6, <1>7, <2>2
<1> QED
  BY <1>3, <1>5, <1>6, <1>7, <1>8 DEF f

\* Its characters, none of which begins a sentence.
LEMMA FooterType ==
  ASSUME NEW body \in Seq(Octet), body # <<>>
  PROVE  /\ Footer(body) \in Seq(Octet) /\ Len(Footer(body)) = 5 /\ Footer(body)[1] = STAR
         /\ \A i \in 1..5 : Footer(body)[i] \notin StartDelimiter
<1> DEFINE f == Footer(body)
<1>1. /\ f \in Seq(Octet) /\ Len(f) = 5 /\ f[1] = STAR /\ f[4] = CR /\ f[5] = LF
      /\ f[2] \in HexDigit /\ f[3] \in HexDigit
  BY FooterReads
<1> HIDE DEF f
<1>2. HexDigit \intersect StartDelimiter = {} /\ {STAR, CR, LF} \intersect StartDelimiter = {}
  BY DEF STAR, CR, LF, HexDigit, StartDelimiter, DOLLAR, BANG
<1>3. \A i \in 1..5 : f[i] \in HexDigit \/ f[i] \in {STAR, CR, LF}
  BY <1>1
<1>4. \A i \in 1..5 : f[i] \notin StartDelimiter
  BY <1>2, <1>3
<1> QED
  BY <1>1, <1>4 DEF f

\* A sentence begins where its first byte is and nowhere else, and its payload ends five bytes
\* before its end.
Sentenced(w) ==
  /\ w \in Seq(Octet) /\ Len(w) >= 6 /\ w[Len(w) - 4] = STAR
  /\ \A i \in 2..Len(w) : w[i] \notin StartDelimiter

\* What serialize() writes into a buffer that is large enough is a sentence.
LEMMA WholeSentence ==
  ASSUME scenario \in Scenario, NEW s \in Sends[scenario]
  PROVE  Sentenced(Sentence(s.talker, s.msg, Payload(s)))
<1> DEFINE w == Sentence(s.talker, s.msg, Payload(s))
           b == Body(s.talker, s.msg, Payload(s))
           f == Footer(b)
<1>1. PICK rest \in Seq(Inner) : b = <<DOLLAR>> \o rest
  BY BodyType
<1> DEFINE d == <<DOLLAR>>
           n == Len(rest)
<1>2. rest \in Seq(Octet) /\ d \in Seq(Octet) /\ Len(d) = 1
  BY DEF Inner, Octet, DOLLAR
<1>3. b = d \o rest /\ w = b \o f
  BY <1>1 DEF Sentence
<1>6. n \in Nat /\ \A i \in 1..n : rest[i] \notin StartDelimiter
  BY LenProperties, ElementOfSeq DEF Inner
<1> HIDE DEF d, b, w, n
<1>7. /\ b \in Seq(Octet) /\ Len(b) = 1 + n
      /\ \A i \in 1..n : b[1 + i] = rest[i]
  <2>1. /\ b \in Seq(Octet) /\ Len(b) = Len(d) + Len(rest)
        /\ \A i \in 1..Len(rest) : b[Len(d) + i] = rest[i]
    BY <1>2, <1>3, Joined
  <2> QED
    BY <1>2, <2>1 DEF n
<1>5. /\ f \in Seq(Octet) /\ Len(f) = 5 /\ f[1] = STAR
      /\ \A i \in 1..5 : f[i] \notin StartDelimiter
  <2>1. b # <<>>
    BY <1>6, <1>7, EmptySeq
  <2> QED
    BY <1>7, <2>1, FooterType
<1> HIDE DEF f
<1>a. /\ w \in Seq(Octet) /\ Len(w) = 1 + n + 5
      /\ \A i \in 1..1 + n : w[i] = b[i]
      /\ \A i \in 1..5 : w[1 + n + i] = f[i]
  <2>1. b \in Seq(Octet) /\ f \in Seq(Octet) /\ w = b \o f
    BY <1>3, <1>5, <1>7
  <2>2. /\ w \in Seq(Octet) /\ Len(w) = Len(b) + Len(f)
        /\ \A i \in 1..Len(b) : w[i] = b[i]
        /\ \A i \in 1..Len(f) : w[Len(b) + i] = f[i]
    BY <2>1, Joined
  <2> QED
    BY <1>5, <1>7, <2>2
<1>9. ASSUME NEW i \in 2..Len(w) PROVE w[i] \notin StartDelimiter
  <2>1. CASE i <= 1 + n
    <3>1. w[i] = b[i] /\ i - 1 \in 1..n /\ 1 + (i - 1) = i
      BY <1>6, <1>a, <2>1
    <3>2. b[1 + (i - 1)] = rest[i - 1]
      BY <1>7, <3>1
    <3> QED
      BY <1>6, <3>1, <3>2
  <2>2. CASE ~(i <= 1 + n)
    <3>1. i - (1 + n) \in 1..5 /\ 1 + n + (i - (1 + n)) = i
      BY <1>6, <1>a, <2>2
    <3>2. w[1 + n + (i - (1 + n))] = f[i - (1 + n)]
      BY <1>a, <3>1
    <3> QED
      BY <1>5, <3>1, <3>2
  <2> QED
    BY <2>1, <2>2
<1>10. Len(w) - 4 = 2 + n /\ w[2 + n] = f[1]
  <2>1. 1 + n + 1 = 2 + n /\ Len(w) - 4 = 2 + n
    BY <1>6, <1>a
  <2>2. w[1 + n + 1] = f[1]
    BY <1>a
  <2> QED
    BY <2>1, <2>2
<1> QED
  BY <1>5, <1>6, <1>a, <1>9, <1>10 DEF Sentenced, w

\* What serialize() leaves in a buffer of any size is bytes.
LEMMA WrittenType ==
  ASSUME scenario \in Scenario, NEW s \in Sends[scenario]
  PROVE  serialize(s.talker, s.msg, Payload(s), s.size) \in Seq(Octet)
<1> DEFINE full == Body(s.talker, s.msg, Payload(s))
           size == s.size
           fits(t) == SubSeq(t, 1, Min({size, Len(t)}))
           body == fits(full)
<1>1. PICK rest \in Seq(Inner) : full = <<DOLLAR>> \o rest
  BY BodyType
<1>2. full \in Seq(Octet) /\ full # <<>> /\ Len(full) >= 1 /\ Len(full) \in Nat
  <2> DEFINE d == <<DOLLAR>>
  <2>1. d \in Seq(Octet) /\ rest \in Seq(Octet) /\ Len(d) = 1
    BY DEF Inner, Octet, DOLLAR
  <2>2. full = d \o rest
    BY <1>1
  <2> HIDE DEF d, full
  <2>3. full \in Seq(Octet) /\ Len(full) = Len(d) + Len(rest)
    BY <2>1, <2>2, ConcatProperties, Zenon
  <2>4. Len(full) \in Nat /\ Len(rest) \in Nat
    BY <2>3, LenProperties
  <2>5. Len(full) >= 1
    BY <2>1, <2>3, <2>4
  <2> QED
    BY <2>3, <2>4, <2>5, EmptySeq
<1>3. size \in Nat \ {0}
  BY SendAssumption
<1> HIDE DEF full, size
<1>4. ASSUME NEW t \in Seq(Octet), Len(t) >= 1
      PROVE  fits(t) \in Seq(Octet) /\ Len(fits(t)) >= 1
  <2> DEFINE k == Min({size, Len(t)})
  <2>1. k \in 1..Len(t) /\ Len(t) \in Nat
    BY <1>3, <1>4, MinOfTwo, LenProperties
  <2> HIDE DEF k
  <2>2. SubSeq(t, 1, k) \in Seq(Octet) /\ Len(SubSeq(t, 1, k)) = k
    <3>1. \A i \in 1..k : t[i] \in Octet
      BY <2>1, ElementOfSeq
    <3> QED
      BY <2>1, <3>1, SubSeqProperties
  <2>3. fits(t) = SubSeq(t, 1, k)
    BY DEF k
  <2> HIDE DEF fits
  <2> QED
    BY <2>1, <2>2, <2>3
<1>5. body \in Seq(Octet) /\ Len(body) >= 1
  BY <1>2, <1>4
<1> HIDE DEF body
<1>7. Footer(body) \in Seq(Octet)
  <2>1. body # <<>>
    BY <1>5, EmptySeq
  <2> QED
    BY <1>5, <2>1, FooterType
<1>8. body \o Footer(body) \in Seq(Octet) /\ Len(body \o Footer(body)) >= 1
  <2> DEFINE f == Footer(body)
  <2>1. f \in Seq(Octet)
    BY <1>7
  <2> HIDE DEF f
  <2>2. body \o f \in Seq(Octet) /\ Len(body \o f) = Len(body) + Len(f) /\ Len(f) \in Nat
    BY <1>5, <2>1, ConcatProperties, LenProperties
  <2> QED
    BY <1>5, <2>2, LenProperties DEF f
<1>9. fits(body \o Footer(body)) \in Seq(Octet)
  BY <1>4, <1>8
<1> QED
  BY <1>9, Zenon DEF serialize, body, full, size

-------------------------------------------------------------------------------
(* The framer in the middle of a sentence *)

\* The payload of the sentence has ended, so many bytes ago.
Ended(t) == Receiver!PayloadEnds(t) # {}
Behind(t) == Len(t) - Receiver!PayloadEnd(t)

\* What the framer may have of a sentence: once its payload has ended, at most three bytes.
Held(t) == Ended(t) => Behind(t) \in 0..3

\* The payload ends at the first byte that may end it.
LEMMA PayloadEndIs ==
  ASSUME NEW t \in Seq(Octet), Ended(t)
  PROVE  /\ Receiver!PayloadEnd(t) \in Receiver!PayloadEnds(t)
         /\ Receiver!PayloadEnd(t) \in 2..Len(t) /\ Len(t) \in Nat
         /\ \A p \in Receiver!PayloadEnds(t) : Receiver!PayloadEnd(t) <= p
<1> DEFINE S == Receiver!PayloadEnds(t)
           e == Receiver!PayloadEnd(t)
<1>1. S \in SUBSET Nat /\ S \subseteq 2..Len(t) /\ Len(t) \in Nat
  BY LenProperties DEF Receiver!PayloadEnds
<1>2. S # {}
  BY DEF Ended
<1>3. e = Receiver!Min(S)
  BY DEF Receiver!PayloadEnd
<1> HIDE DEF S, e
<1>4. \E k \in S : \A j \in S : k <= j
  BY <1>1, <1>2, LeastNatural
<1>5. e \in S /\ \A p \in S : e <= p
  BY <1>3, <1>4 DEF Receiver!Min
<1> QED
  BY <1>1, <1>5, Zenon DEF S, e

\* A byte ends the payload, or the payload ends where it did.
LEMMA EndsGrow ==
  ASSUME NEW t \in Seq(Octet), t # <<>>, NEW c \in Octet
  PROVE  LET u == Append(t, c)
         IN  /\ Ended(t) => Ended(u) /\ Receiver!PayloadEnd(u) = Receiver!PayloadEnd(t)
             /\ ~Ended(t) => \/ ~Ended(u) /\ c # STAR
                             \/ Ended(u) /\ Receiver!PayloadEnd(u) = Len(u)
<1> DEFINE u == Append(t, c)
           n == Len(t)
           S == Receiver!PayloadEnds(t)
           U == Receiver!PayloadEnds(u)
<1>1. /\ u \in Seq(Octet) /\ Len(u) = n + 1 /\ n \in Nat /\ n >= 1
      /\ \A i \in 1..n : u[i] = t[i]
      /\ u[n + 1] = c
  <2>1. n \in Nat /\ n # 0
    BY LenProperties, EmptySeq
  <2> QED
    BY <2>1, AppendProperties
<1>2. /\ \A p : p \in S <=> p \in 2..n /\ (t[p] \in {STAR, LF} \/ p = RxSize + 2)
      /\ \A p : p \in U <=> p \in 2..Len(u) /\ (u[p] \in {STAR, LF} \/ p = RxSize + 2)
  BY DEF Receiver!PayloadEnds, Receiver!STAR, Receiver!LF, STAR, LF
<1> HIDE DEF u, n, S, U
<1>3. \A p : p \in U <=> p \in S \/ (p = n + 1 /\ (c \in {STAR, LF} \/ p = RxSize + 2))
  <2>1. ASSUME NEW p \in 2..n PROVE p \in U <=> p \in S
    <3>1. p \in 1..n /\ p \in 2..Len(u)
      BY <1>1
    <3>2. u[p] = t[p]
      BY <1>1, <3>1
    <3> QED
      BY <1>2, <3>1, <3>2
  <2>2. n + 1 \in U <=> (c \in {STAR, LF} \/ n + 1 = RxSize + 2)
    BY <1>1, <1>2
  <2>3. \A p : p \in S => p \in 2..n
    BY <1>2
  <2>4. \A p : p \in U => p \in 2..n \/ p = n + 1
    BY <1>1, <1>2
  <2> QED
    BY <2>1, <2>2, <2>3, <2>4
<1>4. ASSUME Ended(t) PROVE Ended(u) /\ Receiver!PayloadEnd(u) = Receiver!PayloadEnd(t)
  <2> DEFINE d == Receiver!PayloadEnd(t)
             e == Receiver!PayloadEnd(u)
  <2>1. d \in S /\ d \in 2..n /\ \A p \in S : d <= p
    BY <1>4, PayloadEndIs DEF S, n
  <2>2. Ended(u)
    BY <1>3, <2>1 DEF Ended, U
  <2>3. e \in U /\ e \in 2..n + 1 /\ \A p \in U : e <= p
    BY <1>1, <2>2, PayloadEndIs DEF U
  <2> HIDE DEF d, e
  <2>4. d \in U /\ (e \in S \/ e = n + 1)
    BY <1>3, <2>1, <2>3
  <2>5. e <= d /\ (e \in S => d <= e)
    BY <2>1, <2>3, <2>4
  <2>6. d = e
    BY <1>1, <2>1, <2>3, <2>4, <2>5
  <2> QED
    BY <2>2, <2>6 DEF d, e
<1>5. ASSUME ~Ended(t), Ended(u) PROVE Receiver!PayloadEnd(u) = Len(u)
  <2>1. S = {}
    BY <1>5 DEF Ended, S
  <2>2. Receiver!PayloadEnd(u) \in U
    BY <1>1, <1>5, PayloadEndIs DEF U
  <2> QED
    BY <1>1, <1>3, <2>1, <2>2
<1>6. ASSUME ~Ended(t), ~Ended(u) PROVE c # STAR
  <2>1. U = {}
    BY <1>6 DEF Ended, U
  <2> QED
    BY <1>3, <2>1
<1> QED
  BY <1>4, <1>5, <1>6, Zenon DEF u

\* The next byte of a sentence: it ends the sentence, or is one more of the payload, or the
\* one that ends it, or one more behind it, of which there are four.
LEMMA Continued ==
  ASSUME text \in Seq(Octet), text # <<>>, Held(text), NEW c \in Octet, Receiver!Continue(c)
  PROVE  \/ text' = <<>>
         \/ /\ text' = Append(text, c) /\ Held(text') /\ text' # <<>>
            /\ Ended(text) => Ended(text') /\ Behind(text') = Behind(text) + 1
            /\ ~Ended(text) => \/ ~Ended(text') /\ c # STAR
                               \/ Ended(text') /\ Behind(text') = 0
<1> DEFINE t == Append(text, c)
           v == Receiver!Verdict(t)
           e == Receiver!PayloadEnd(t)
<1>1. text' = IF Receiver!Over(t, v) THEN <<>> ELSE t
  BY DEF Receiver!Continue
<1>2. t \in Seq(Octet) /\ Len(t) = Len(text) + 1 /\ Len(text) \in Nat
  BY AppendProperties, LenProperties
<1>3. /\ Ended(text) => Ended(t) /\ e = Receiver!PayloadEnd(text)
      /\ ~Ended(text) => \/ ~Ended(t) /\ c # STAR
                         \/ Ended(t) /\ e = Len(t)
  BY EndsGrow
<1>4. t # <<>>
  BY <1>2, EmptySeq
<1>5. Ended(t) => e \in 2..Len(t)
  BY <1>2, PayloadEndIs
<1>6. Len(t) = e + 4 /\ Ended(t) => v # Receiver!Silence /\ Len(t) >= e + 3
  <2> SUFFICES ASSUME Len(t) = e + 4, Ended(t) PROVE v # Receiver!Silence /\ Len(t) >= e + 3
    OBVIOUS
  <2>1. e \in Nat /\ Receiver!PayloadEnds(t) # {}
    BY <1>2, <1>5 DEF Ended
  <2>2. Len(t) # e /\ Len(t) # e + 3 /\ Len(t) >= e + 3
    BY <2>1
  <2> HIDE DEF t, e
  <2>3. v # Receiver!Silence
    BY <2>1, <2>2 DEF Receiver!Verdict, Receiver!Silence, Receiver!Error, e
  <2> QED
    BY <2>2, <2>3
<1>7. ASSUME text' # <<>> PROVE text' = t /\ ~(Ended(t) /\ Len(t) = e + 4)
  BY <1>1, <1>6, <1>7 DEF Receiver!Over
<1>8. ASSUME text' # <<>>, Ended(text)
      PROVE  Ended(t) /\ Behind(t) = Behind(text) + 1 /\ Behind(t) \in 0..3
  <2>1. Behind(text) \in 0..3 /\ Len(text) = Receiver!PayloadEnd(text) + Behind(text)
    <3>1. Receiver!PayloadEnd(text) \in Nat
      BY <1>8, PayloadEndIs
    <3> QED
      BY <1>2, <1>8, <3>1 DEF Held, Behind
  <2>2. Ended(t) /\ e = Receiver!PayloadEnd(text) /\ e \in Nat
    BY <1>2, <1>3, <1>5, <1>8
  <2>3. Behind(t) = Len(t) - e
    BY DEF Behind
  <2>4. Len(t) # e + 4
    BY <1>7, <1>8, <2>2
  <2> HIDE DEF t, e
  <2>5. /\ Len(t) = Len(text) + 1 /\ Len(text) = e + Behind(text) /\ Len(text) \in Nat
        /\ e \in Nat /\ Behind(text) \in 0..3
    BY <1>2, <2>1, <2>2
  <2>6. Behind(t) = Behind(text) + 1
    BY <2>3, <2>5
  <2>7. Behind(text) # 3
    BY <2>4, <2>5
  <2> QED
    BY <2>2, <2>5, <2>6, <2>7
<1>9. ASSUME ~Ended(text), Ended(t) PROVE Behind(t) = 0
  BY <1>2, <1>3, <1>5, <1>9 DEF Behind
<1>10. CASE text' = <<>>
  BY <1>10
<1>11. CASE text' # <<>> /\ Ended(text)
  <2>1. text' = t
    BY <1>7, <1>11
  <2>2. Ended(t) /\ Behind(t) = Behind(text) + 1 /\ Behind(t) \in 0..3
    BY <1>8, <1>11
  <2> QED
    BY <1>4, <1>11, <2>1, <2>2, Zenon DEF Held
<1>12. CASE text' # <<>> /\ ~Ended(text)
  <2>1. text' = t
    BY <1>7, <1>12
  <2>2. (~Ended(t) /\ c # STAR) \/ (Ended(t) /\ Behind(t) = 0)
    BY <1>3, <1>9, <1>12
  <2>3. Held(t)
    BY <2>2 DEF Held
  <2> QED
    BY <1>4, <1>12, <2>1, <2>2, <2>3, Zenon
<1> QED
  BY <1>10, <1>11, <1>12

\* The text in the framer is bounded by its buffer.
LEMMA HeldLength ==
  ASSUME NEW t \in Seq(Octet), Held(t)
  PROVE  Len(t) <= RxSize + 5
<1>1. Len(t) \in Nat /\ RxSize \in Nat
  BY LenProperties, SizeAssumption
<1>2. CASE Len(t) <= RxSize + 1
  BY <1>1, <1>2
<1>3. CASE ~(Len(t) <= RxSize + 1)
  <2> DEFINE e == Receiver!PayloadEnd(t)
  <2>1. RxSize + 2 \in 2..Len(t)
    BY <1>1, <1>3
  <2>2. RxSize + 2 \in Receiver!PayloadEnds(t)
    BY <2>1 DEF Receiver!PayloadEnds
  <2>3. Ended(t)
    BY <2>2 DEF Ended
  <2>4. e \in 2..Len(t) /\ e <= RxSize + 2
    BY <2>2, <2>3, PayloadEndIs
  <2>5. Len(t) - e \in 0..3
    BY <2>3 DEF Held, Behind
  <2> HIDE DEF e
  <2> QED
    BY <1>1, <2>4, <2>5
<1> QED
  BY <1>2, <1>3

\* A framer without text is at no sentence.
LEMMA NothingHeld == Held(<<>>) /\ ~Ended(<<>>)
<1>1. Len(<<>>) = 0
  BY EmptySeq
<1> QED
  BY <1>1 DEF Held, Ended, Receiver!PayloadEnds

\* A start delimiter ends nothing.
LEMMA DelimiterHeld ==
  ASSUME NEW c \in Octet
  PROVE  /\ <<c>> \in Seq(Octet) /\ <<c>> # <<>> /\ Held(<<c>>) /\ ~Ended(<<c>>)
<1>1. <<c>> \in Seq(Octet) /\ Len(<<c>>) = 1
  OBVIOUS
<1>2. ~Ended(<<c>>)
  <2> DEFINE t == <<c>>
  <2>1. Len(t) = 1
    BY <1>1
  <2> HIDE DEF t
  <2>2. 2..Len(t) = {}
    BY <2>1
  <2>3. ~Ended(t)
    BY <2>2 DEF Ended, Receiver!PayloadEnds
  <2> QED
    BY <2>3 DEF t
<1> QED
  BY <1>1, <1>2, EmptySeq DEF Held

\* What push_byte() does with a byte, in the cases of the text it is added to.
LEMMA TextStep ==
  ASSUME text \in Seq(Octet), Held(text), NEW c \in Octet, PushByte(c)
  PROVE  /\ text' \in Seq(Octet) /\ Held(text')
         /\ text = <<>> => text' = <<>> \/ (text' = <<c>> /\ c \in StartDelimiter)
         /\ text # <<>> => Receiver!Continue(c)
<1>1. CASE Receiver!Skip(c)
  <2>1. text = <<>> /\ text' = <<>>
    BY <1>1 DEF Receiver!Skip
  <2> QED
    BY <2>1, NothingHeld
<1>2. CASE Receiver!Begin(c)
  <2>1. text = <<>> /\ text' = <<c>> /\ c \in StartDelimiter
    BY <1>2 DEF Receiver!Begin, Receiver!StartDelimiter, StartDelimiter, Receiver!DOLLAR,
                Receiver!BANG, DOLLAR, BANG
  <2> QED
    BY <2>1, DelimiterHeld
<1>3. CASE Receiver!Continue(c)
  <2>1. text # <<>>
    BY <1>3 DEF Receiver!Continue
  <2>2. text' = <<>> \/ (text' = Append(text, c) /\ Held(text'))
    BY <1>3, <2>1, Continued
  <2>3. Append(text, c) \in Seq(Octet)
    BY AppendProperties
  <2>4. text' \in Seq(Octet) /\ Held(text')
    <3>1. CASE text' = <<>>
      <4>1. <<>> \in Seq(Octet)
        OBVIOUS
      <4>2. Held(<<>>)
        BY NothingHeld
      <4> QED
        BY <3>1, <4>1, <4>2, Zenon
    <3>2. CASE text' = Append(text, c) /\ Held(text')
      BY <2>3, <3>2, Zenon
    <3> QED
      BY <2>2, <3>1, <3>2, Zenon
  <2> QED
    BY <1>3, <2>1, <2>4, Zenon
<1> QED
  BY <1>1, <1>2, <1>3 DEF PushByte

-------------------------------------------------------------------------------
(* Type correctness *)

Kinds == {"nothing", "message", "unhandled"}
Typed == TypeOK /\ scenario \in Scenario /\ Held(text)
         /\ faults \in [lost : Nat, changed : Nat, cut : Nat]

\* What dispatch() may return.
LEMMA GotStep ==
  ASSUME got.kind \in Kinds, NEW c, PushByte(c)
  PROVE  got'.kind \in Kinds
<1>1. \A view : dispatch(Handlers, view).kind \in Kinds
  BY DEF dispatch, Kinds
<1>2. got' = dispatch(Handlers, report'.view) \/ got' = got
  BY DEF PushByte
<1> QED
  BY <1>1, <1>2, Zenon

\* The first state.
LEMMA TypedInit == Init => Typed
<1> SUFFICES ASSUME Init PROVE Typed
  OBVIOUS
<1>1. MaxSentences[scenario] \in Nat /\ MaxFaults[scenario] \in Nat /\ RxSize \in Nat
  BY BoundAssumption, SizeAssumption DEF Init
<1>2. faults = [lost |-> 0, changed |-> 0, cut |-> 0] /\ count = 0 /\ since = 0
  BY DEF Init
<1>3. text = <<>> /\ line = <<>> /\ got = Nothing /\ damaged = FALSE /\ scenario \in Scenario
  BY DEF Init
<1>4. /\ faults \in [lost : Nat, changed : Nat, cut : Nat] /\ faults.cut <= count
      /\ faults.lost + faults.changed <= MaxFaults[scenario]
      /\ count \in 0..MaxSentences[scenario] /\ since \in 0..2
  BY <1>1, <1>2
<1>5. text \in Seq(Octet) /\ Len(text) <= RxSize + 5 /\ line \in Seq(Octet) /\ Held(text)
  <2>1. <<>> \in Seq(Octet) /\ Len(<<>>) = 0
    BY EmptySeq
  <2> QED
    BY <1>1, <1>3, <2>1, NothingHeld
<1>6. got.kind \in {"nothing", "message", "unhandled"} /\ damaged \in BOOLEAN
  BY <1>3 DEF Nothing
<1> QED
  BY <1>3, <1>4, <1>5, <1>6, Zenon DEF Typed, TypeOK

\* What is put on the line: a whole sentence, or one that serialize() has cut.
LEMMA Sending ==
  ASSUME scenario \in Scenario, NEW s \in Sends[scenario], Send(s)
  PROVE  /\ line = <<>> /\ line' \in Seq(Octet) /\ text' = text /\ scenario' = scenario
         /\ count < MaxSentences[scenario] /\ count' = count + 1 /\ got' = Nothing
         /\ \/ /\ Sentenced(line') /\ faults' = faults /\ damaged' = (text # <<>>)
               /\ since' = IF since = 2 THEN 2 ELSE since + 1
            \/ /\ faults' = [faults EXCEPT !.cut = @ + 1] /\ damaged' = TRUE
               /\ since' = 0
<1> DEFINE out == serialize(s.talker, s.msg, Payload(s), s.size)
           all == Sentence(s.talker, s.msg, Payload(s))
           whole == out = all
<1>1. /\ line = <<>> /\ count < MaxSentences[scenario] /\ count' = count + 1
      /\ line' = out /\ got' = Nothing /\ text' = text /\ scenario' = scenario
      /\ since' = (IF ~whole THEN 0 ELSE IF since = 2 THEN 2 ELSE since + 1)
      /\ faults' = (IF whole THEN faults ELSE [faults EXCEPT !.cut = @ + 1])
      /\ damaged' = (~whole \/ text # <<>>)
  BY Zenon DEF Send
<1>2. out \in Seq(Octet) /\ Sentenced(all)
  BY WrittenType, WholeSentence
<1> HIDE DEF out, all
<1>3. CASE whole
  BY <1>1, <1>2, <1>3
<1>4. CASE ~whole
  BY <1>1, <1>2, <1>4
<1> QED
  BY <1>3, <1>4

\* Every step.
LEMMA TypedStep == Typed /\ [Next]_vars => Typed'
<1> SUFFICES ASSUME Typed, [Next]_vars PROVE Typed'
  OBVIOUS
<1> DEFINE Faults == [lost : Nat, changed : Nat, cut : Nat]
<1>0. MaxFaults[scenario] \in Nat /\ MaxSentences[scenario] \in Nat /\ scenario \in Scenario
  BY BoundAssumption DEF Typed
<1>a. /\ line \in Seq(Octet) /\ text \in Seq(Octet) /\ Held(text) /\ got.kind \in Kinds
      /\ faults \in Faults /\ faults.lost + faults.changed <= MaxFaults[scenario]
      /\ faults.cut <= count /\ count \in 0..MaxSentences[scenario] /\ since \in 0..2
      /\ damaged \in BOOLEAN
  BY DEF Typed, TypeOK, Kinds
<1>b. ASSUME scenario' = scenario, line' \in Seq(Octet), text' \in Seq(Octet), Held(text'),
             got'.kind \in Kinds, faults' \in Faults,
             faults'.lost + faults'.changed <= MaxFaults[scenario], faults'.cut <= count',
             count' \in 0..MaxSentences[scenario], since' \in 0..2, damaged' \in BOOLEAN
      PROVE  Typed'
  <2>1. Len(text') <= RxSize + 5
    BY <1>b, HeldLength
  <2>2. Held(text)' <=> Held(text')
    BY DEF Held, Ended, Behind, Receiver!PayloadEnds, Receiver!PayloadEnd
  <2> QED
    BY <1>0, <1>b, <2>1, <2>2 DEF Typed, TypeOK, Kinds
<1>c. ASSUME NEW c \in Octet, PushByte(c)
      PROVE  text' \in Seq(Octet) /\ Held(text') /\ got'.kind \in Kinds
  BY <1>a, <1>c, TextStep, GotStep
<1>d. ASSUME line # <<>>, line' = Tail(line)
      PROVE  line' \in Seq(Octet) /\ Head(line) \in Octet
  BY <1>a, <1>d, HeadTailProperties
<1>e. ASSUME MayFail
      PROVE  /\ line # <<>>
             /\ \A f \in {[faults EXCEPT !.lost = @ + 1], [faults EXCEPT !.changed = @ + 1]} :
                  /\ f \in Faults /\ f.lost + f.changed <= MaxFaults[scenario]
                  /\ f.cut <= count
  <2>1. line # <<>> /\ faults.lost + faults.changed < MaxFaults[scenario]
    BY <1>e DEF MayFail
  <2>2. /\ faults \in Faults /\ faults.cut <= count /\ faults.lost \in Nat
        /\ faults.changed \in Nat
    BY <1>a
  <2>3. /\ (faults.lost + 1) + faults.changed <= MaxFaults[scenario]
        /\ faults.lost + (faults.changed + 1) <= MaxFaults[scenario]
    BY <1>0, <2>1, <2>2
  <2>4. ASSUME NEW f, f = [faults EXCEPT !.lost = @ + 1]
        PROVE  /\ f \in Faults /\ f.lost + f.changed <= MaxFaults[scenario]
               /\ f.cut <= count
    BY <2>2, <2>3, <2>4
  <2>5. ASSUME NEW f, f = [faults EXCEPT !.changed = @ + 1]
        PROVE  /\ f \in Faults /\ f.lost + f.changed <= MaxFaults[scenario]
               /\ f.cut <= count
    BY <2>2, <2>3, <2>5
  <2> QED
    BY <2>1, <2>4, <2>5
<1>1. ASSUME NEW s \in Sends[scenario], Send(s) PROVE Typed'
  <2>1. /\ line' \in Seq(Octet) /\ text' = text /\ scenario' = scenario
        /\ count < MaxSentences[scenario] /\ count' = count + 1 /\ got' = Nothing
        /\ \/ /\ faults' = faults /\ damaged' = (text # <<>>)
              /\ since' = IF since = 2 THEN 2 ELSE since + 1
           \/ /\ faults' = [faults EXCEPT !.cut = @ + 1] /\ damaged' = TRUE
              /\ since' = 0
    BY <1>0, <1>1, Sending
  <2>2. got'.kind \in Kinds /\ damaged' \in BOOLEAN
    BY <2>1 DEF Nothing, Kinds
  <2>3. count' \in 0..MaxSentences[scenario] /\ since' \in 0..2
    <3>1. count \in Nat /\ count < MaxSentences[scenario] /\ count' = count + 1
      BY <1>a, <2>1
    <3>2. since \in 0..2 /\ (since' = 0 \/ since' = IF since = 2 THEN 2 ELSE since + 1)
      BY <1>a, <2>1
    <3>3. count' \in 0..MaxSentences[scenario]
      BY <1>0, <3>1
    <3>4. since' \in 0..2
      BY <3>2
    <3> QED
      BY <3>3, <3>4
  <2>4. /\ faults' \in Faults /\ faults'.lost + faults'.changed <= MaxFaults[scenario]
        /\ faults'.cut <= count'
    <3>1. CASE faults' = faults
      BY <1>a, <2>1, <3>1
    <3>2. CASE faults' = [faults EXCEPT !.cut = @ + 1]
      <4>1. /\ faults \in Faults /\ faults.cut <= count /\ count \in Nat
            /\ faults.lost + faults.changed <= MaxFaults[scenario] /\ count' = count + 1
        BY <1>a, <2>1
      <4>2. /\ faults'.cut = faults.cut + 1 /\ faults'.lost = faults.lost
            /\ faults'.changed = faults.changed /\ faults' \in Faults
        BY <3>2, <4>1
      <4>3. faults.cut \in Nat
        BY <4>1
      <4>4. faults'.cut <= count'
        BY <4>1, <4>2, <4>3
      <4> QED
        BY <4>1, <4>2, <4>4
    <3> QED
      BY <2>1, <3>1, <3>2
  <2> QED
    BY <1>a, <1>b, <2>1, <2>2, <2>3, <2>4, Zenon
<1>3. CASE Deliver
  BY <1>a, <1>b, <1>c, <1>d, <1>3 DEF Deliver
<1>4. CASE Lose
  <2>1. /\ UNCHANGED <<scenario, text, report, sent, got, count>> /\ MayFail
        /\ line' = Tail(line) /\ faults' = [faults EXCEPT !.lost = @ + 1]
        /\ since' = 0 /\ damaged' = TRUE
    BY <1>4 DEF Lose
  <2>2. /\ line # <<>> /\ faults' \in Faults /\ faults'.lost + faults'.changed <= MaxFaults[scenario]
        /\ faults'.cut <= count'
    BY <1>e, <2>1
  <2>3. since' \in 0..2 /\ damaged' \in BOOLEAN
    BY <2>1
  <2> QED
    BY <1>a, <1>b, <1>d, <2>1, <2>2, <2>3, Zenon
<1>5. ASSUME NEW c \in Garbage, Change(c) PROVE Typed'
  <2>1. /\ UNCHANGED <<scenario, sent, count>> /\ MayFail /\ PushByte(c) /\ c \in Octet
        /\ line' = Tail(line) /\ faults' = [faults EXCEPT !.changed = @ + 1]
        /\ since' = 0 /\ damaged' = TRUE
    BY <1>5, NoiseAssumption DEF Change
  <2>2. /\ line # <<>> /\ faults' \in Faults /\ faults'.lost + faults'.changed <= MaxFaults[scenario]
        /\ faults'.cut <= count'
    BY <1>e, <2>1
  <2>3. since' \in 0..2 /\ damaged' \in BOOLEAN
    BY <2>1
  <2> QED
    BY <1>a, <1>b, <1>c, <1>d, <2>1, <2>2, <2>3, Zenon
<1>6. ASSUME NEW c \in Noise[scenario], MakeUp(c) PROVE Typed'
  <2>1. /\ UNCHANGED <<scenario, line, sent, count, faults, since, damaged>> /\ PushByte(c)
        /\ c \in Octet
    BY <1>0, <1>6, NoiseAssumption DEF MakeUp
  <2> QED
    BY <1>a, <1>b, <1>c, <2>1, Zenon
<1>7. CASE UNCHANGED vars
  BY <1>a, <1>b, <1>7 DEF vars
<1> QED
  BY <1>1, <1>3, <1>4, <1>5, <1>6, <1>7 DEF Next

\* Only bytes are written and read, and the framer never holds more than its buffer and the
\* delimiter and footer around it, whatever is sent, into buffers of whatever size, and
\* whatever the line does.
THEOREM TypeCorrect == Spec => []TypeOK
<1>1. Typed => TypeOK
  BY DEF Typed
<1> QED
  BY <1>1, TypedInit, TypedStep, PTL DEF Spec

-------------------------------------------------------------------------------
(* The framer finds its way back *)

\* The rest of a sentence behind a text in the framer: it brings no new sentence, and enough
\* bytes to end the one that has begun.
Following(t, l) ==
  /\ \A i \in 2..Len(l) : l[i] \notin StartDelimiter
  /\ \/ t = <<>> /\ (l = <<>> \/ l[1] \notin StartDelimiter)
     \/ t = <<>> /\ Len(l) >= 6 /\ l[Len(l) - 4] = STAR
     \/ t # <<>> /\ ~Ended(t) /\ Len(l) >= 5 /\ l[Len(l) - 4] = STAR
     \/ Ended(t) /\ Len(l) >= 4 - Behind(t)

InStep == Typed /\ (since # 0 => Following(text, line)) /\ (since = 2 => ~damaged)

\* After the last byte nothing is left of the sentence.
LEMMA NothingFollows ==
  ASSUME NEW t \in Seq(Octet), Held(t), Following(t, <<>>)
  PROVE  t = <<>>
<1>1. Len(<<>>) = 0
  BY EmptySeq
<1>2. ASSUME Ended(t), Len(<<>>) >= 4 - Behind(t) PROVE FALSE
  <2>1. Behind(t) \in 0..3
    BY <1>2 DEF Held
  <2> QED
    BY <1>1, <1>2, <2>1
<1> QED
  BY <1>1, <1>2 DEF Following

\* A whole sentence ends whatever it finds in the framer.
LEMMA SentenceFollows ==
  ASSUME NEW t \in Seq(Octet), Held(t), NEW l, Sentenced(l)
  PROVE  Following(t, l)
<1>1. Len(l) \in Nat /\ Len(l) >= 6
  BY LenProperties DEF Sentenced
<1>2. CASE Ended(t)
  <2>1. Behind(t) \in 0..3
    BY <1>2 DEF Held
  <2>2. Len(l) >= 4 - Behind(t)
    BY <1>1, <2>1
  <2> QED
    BY <1>2, <2>2, Zenon DEF Following, Sentenced
<1>3. CASE ~Ended(t)
  <2>1. Len(l) >= 5
    BY <1>1
  <2> QED
    BY <1>1, <1>3, <2>1, Zenon DEF Following, Sentenced
<1> QED
  BY <1>2, <1>3

\* The next byte of the rest.
LEMMA FollowingStep ==
  ASSUME text \in Seq(Octet), line \in Seq(Octet), Held(text), Following(text, line),
         line # <<>>, line' = Tail(line), PushByte(Head(line))
  PROVE  Following(text', line')
<1> DEFINE c == Head(line)
           m == Len(line)
<1>1. /\ c \in Octet /\ c = line[1] /\ line' \in Seq(Octet) /\ m \in Nat /\ m >= 1
      /\ Len(line') = m - 1
      /\ \A i \in 1..m - 1 : line'[i] = line[i + 1]
  BY HeadTailProperties, LenProperties, EmptySeq
<1>2. /\ text' \in Seq(Octet) /\ Held(text')
      /\ text = <<>> => text' = <<>> \/ (text' = <<c>> /\ c \in StartDelimiter)
      /\ text # <<>> => Receiver!Continue(c)
  BY <1>1, TextStep
<1> HIDE DEF c, m
<1>3. \A i \in 1..Len(line') : line'[i] \notin StartDelimiter
  <2> SUFFICES ASSUME NEW i \in 1..m - 1 PROVE line[i + 1] \notin StartDelimiter
    BY <1>1
  <2>1. i + 1 \in 2..m
    BY <1>1
  <2> QED
    BY <2>1 DEF Following, m
<1>4. \A i \in 2..Len(line') : line'[i] \notin StartDelimiter
  BY <1>1, <1>3
<1>5. CASE text' = <<>>
  <2>1. line' = <<>> \/ line'[1] \notin StartDelimiter
    <3>1. CASE Len(line') = 0
      BY <1>1, <3>1, EmptySeq
    <3>2. CASE Len(line') # 0
      <4>1. 1 \in 1..Len(line')
        BY <1>1, <3>2
      <4> QED
        BY <1>3, <4>1
    <3> QED
      BY <3>1, <3>2
  <2> QED
    BY <1>4, <1>5, <2>1, Zenon DEF Following
<1>6. ASSUME m >= 6, line[m - 4] = STAR
      PROVE  Len(line') >= 5 /\ line'[Len(line') - 4] = STAR
  <2>1. Len(line') >= 5 /\ Len(line') - 4 \in 1..m - 1 /\ Len(line') - 4 + 1 = m - 4
    BY <1>1, <1>6
  <2> QED
    BY <1>1, <1>6, <2>1
<1>7. CASE text' # <<>> /\ text = <<>>
  <2>1. text' = <<c>> /\ c \in StartDelimiter
    BY <1>2, <1>7
  <2>2. ~Ended(text')
    BY <1>1, <2>1, DelimiterHeld, Zenon
  <2>3. m >= 6 /\ line[m - 4] = STAR
    <3>1. ~Ended(text)
      BY <1>7, NothingHeld
    <3> QED
      BY <1>1, <1>7, <2>1, <3>1 DEF Following, m
  <2> QED
    BY <1>4, <1>6, <1>7, <2>2, <2>3, Zenon DEF Following
<1>8. CASE text' # <<>> /\ text # <<>>
  <2>1. /\ Ended(text) => Ended(text') /\ Behind(text') = Behind(text) + 1
        /\ ~Ended(text) => \/ ~Ended(text') /\ c # STAR
                           \/ Ended(text') /\ Behind(text') = 0
    BY <1>1, <1>2, <1>8, Continued
  <2>2. CASE Ended(text)
    <3>1. m >= 4 - Behind(text) /\ Behind(text) \in 0..3
      BY <1>8, <2>2 DEF Following, Held, m
    <3>2. Ended(text') /\ Behind(text') = Behind(text) + 1
      BY <2>1, <2>2
    <3>3. Len(line') >= 4 - Behind(text')
      BY <1>1, <3>1, <3>2
    <3> QED
      BY <1>4, <3>2, <3>3, Zenon DEF Following
  <2>3. CASE ~Ended(text)
    <3>1. m >= 5 /\ line[m - 4] = STAR
      BY <1>8, <2>3 DEF Following, m
    <3>2. CASE ~Ended(text') /\ c # STAR
      <4>1. m # 5
        BY <1>1, <3>1, <3>2
      <4>2. m >= 6
        BY <1>1, <3>1, <4>1
      <4> QED
        BY <1>4, <1>6, <1>8, <3>1, <3>2, <4>2, Zenon DEF Following
    <3>3. CASE Ended(text') /\ Behind(text') = 0
      <4>1. Len(line') >= 4 - Behind(text')
        BY <1>1, <3>1, <3>3
      <4> QED
        BY <1>4, <3>3, <4>1, Zenon DEF Following
    <3> QED
      BY <2>1, <2>3, <3>2, <3>3
  <2> QED
    BY <2>2, <2>3
<1> QED
  BY <1>5, <1>7, <1>8

\* The first state.
LEMMA InStepInit == Init => InStep
<1> SUFFICES ASSUME Init PROVE InStep
  OBVIOUS
<1>1. since = 0 /\ Typed
  BY TypedInit DEF Init
<1> QED
  BY <1>1 DEF InStep

\* Every step.
LEMMA InStepStep == InStep /\ [Next]_vars => InStep'
<1> SUFFICES ASSUME InStep, [Next]_vars PROVE InStep'
  OBVIOUS
<1>a. /\ line \in Seq(Octet) /\ text \in Seq(Octet) /\ Held(text) /\ scenario \in Scenario
      /\ since \in 0..2 /\ (since # 0 => Following(text, line)) /\ (since = 2 => ~damaged)
  BY DEF InStep, Typed, TypeOK
<1>b. ASSUME since' # 0 => Following(text', line'), since' = 2 => ~damaged'
      PROVE  InStep'
  <2>1. Typed'
    BY TypedStep DEF InStep
  <2>2. Following(text, line)' <=> Following(text', line')
    BY DEF Following, Ended, Behind, Receiver!PayloadEnds, Receiver!PayloadEnd
  <2>3. since' = 2 => (~damaged)'
    BY <1>b
  <2> QED
    BY <1>b, <2>1, <2>2, <2>3, Zenon DEF InStep
<1>1. ASSUME NEW s \in Sends[scenario], Send(s) PROVE InStep'
  <2>1. /\ line = <<>> /\ text' = text
        /\ \/ /\ Sentenced(line') /\ damaged' = (text # <<>>)
              /\ since' = IF since = 2 THEN 2 ELSE since + 1
           \/ since' = 0
    BY <1>a, <1>1, Sending
  <2>2. CASE since' = 0
    BY <1>b, <2>2
  <2>3. CASE since' # 0
    <3>1. /\ Sentenced(line') /\ damaged' = (text # <<>>)
          /\ since' = IF since = 2 THEN 2 ELSE since + 1
      BY <2>1, <2>3
    <3>2. Following(text', line')
      BY <1>a, <2>1, <3>1, SentenceFollows
    <3>3. ASSUME since' = 2 PROVE ~damaged'
      <4>1. since # 0
        BY <1>a, <3>1, <3>3
      <4>2. Following(text, <<>>)
        BY <1>a, <2>1, <4>1
      <4>3. text = <<>>
        BY <1>a, <4>2, NothingFollows
      <4> QED
        BY <3>1, <4>3
    <3> QED
      BY <1>b, <3>2, <3>3
  <2> QED
    BY <2>2, <2>3
<1>2. CASE Deliver
  <2>1. /\ line # <<>> /\ line' = Tail(line) /\ PushByte(Head(line))
        /\ since' = since /\ damaged' = damaged
    BY <1>2 DEF Deliver
  <2>2. since' # 0 => Following(text', line')
    BY <1>a, <2>1, FollowingStep
  <2> QED
    BY <1>a, <1>b, <2>1, <2>2
<1>3. CASE Lose
  <2>1. since' = 0
    BY <1>3 DEF Lose
  <2> QED
    BY <1>b, <2>1
<1>4. ASSUME NEW c \in Garbage, Change(c) PROVE InStep'
  <2>1. since' = 0
    BY <1>4 DEF Change
  <2> QED
    BY <1>b, <2>1
<1>5. ASSUME NEW c \in Noise[scenario], MakeUp(c) PROVE InStep'
  <2>1. /\ line = <<>> /\ line' = line /\ PushByte(c) /\ since' = since /\ damaged' = damaged
        /\ c \in Octet /\ c \notin StartDelimiter
    BY <1>a, <1>5, NoiseAssumption DEF MakeUp
  <2>2. ASSUME since' # 0 PROVE Following(text', line')
    <3>1. text = <<>>
      BY <1>a, <2>1, <2>2, NothingFollows
    <3>2. text' = <<>>
      BY <1>a, <2>1, <3>1, TextStep
    <3> QED
      BY <1>a, <2>1, <2>2, <3>1, <3>2
  <2> QED
    BY <1>a, <1>b, <2>1, <2>2
<1>6. CASE UNCHANGED vars
  <2>1. text' = text /\ line' = line /\ since' = since /\ damaged' = damaged
    BY <1>6 DEF vars
  <2> QED
    BY <1>a, <1>b, <2>1
<1> QED
  BY <1>1, <1>2, <1>3, <1>4, <1>5, <1>6 DEF Next

\* After any number of lost and changed bytes and of sentences cut short by serialize(), the
\* second whole sentence finds the framer at its beginning, whatever the buffers.
THEOREM TwoSentencesLost == Spec => []LossCostsTwoSentences
<1>1. InStep => LossCostsTwoSentences
  BY DEF InStep, LossCostsTwoSentences
<1> QED
  BY <1>1, InStepInit, InStepStep, PTL DEF Spec

-------------------------------------------------------------------------------
(* What from_chars() makes of the digits that std::format writes *)

\* The value of digits by its steps.
LEMMA DigitsSteps ==
  ASSUME NEW s \in Seq(Digit)
  PROVE  \E f : /\ f[0] = 0 /\ \A n \in 0..Len(s) : f[n] \in Nat
                /\ \A n \in 1..Len(s) : f[n] = 10 * f[n - 1] + (s[n] - 48)
                /\ DigitsValue(s) = f[Len(s)]
<1> DEFINE N == Len(s)
           d == [n \in Nat |-> IF n \in 1..N THEN s[n] - 48 ELSE 0]
           next == [a \in Nat |-> [n \in Nat |-> 10 * a + d[n]]]
           Upto(f) == f = [n \in 0..N |-> IF n = 0 THEN 0 ELSE 10 * f[n - 1] + (s[n] - 48)]
           upTo == CHOOSE f : Upto(f)
<1>1. N \in Nat /\ \A n \in 1..N : s[n] \in 48..57
  BY LenProperties, ElementOfSeq DEF Digit
<1>2. \A n \in Nat : d[n] \in Nat /\ (n \in 1..N => d[n] = s[n] - 48)
  <2> HIDE DEF N
  <2> QED
    BY <1>1
<1> HIDE DEF d
<1>3. next \in [Nat -> [Nat -> Nat]]
  <2>1. \A a \in Nat : [n \in Nat |-> 10 * a + d[n]] \in [Nat -> Nat]
    BY <1>2
  <2> QED
    BY <2>1, Zenon
<1>4. \A a \in Nat, n \in Nat : next[a][n] = 10 * a + d[n]
  <2> SUFFICES ASSUME NEW a \in Nat, NEW n \in Nat PROVE next[a][n] = 10 * a + d[n]
    OBVIOUS
  <2>1. next[a] = [m \in Nat |-> 10 * a + d[m]]
    BY Zenon
  <2> QED
    BY <2>1, Zenon
<1> HIDE DEF next
<1>5. PICK f \in [0..N -> Nat] : Recursive(f, 0, next, N)
  <2>1. 0 \in Nat /\ N \in Nat
    BY <1>1
  <2> HIDE DEF N
  <2> QED
    BY <2>1, <1>3, RecursionExists
<1> HIDE DEF N
<1>6. ASSUME NEW n \in 0..N
      PROVE  f[n] \in Nat /\ f[n] = IF n = 0 THEN 0 ELSE 10 * f[n - 1] + (s[n] - 48)
  <2>1. f[n] = IF n = 0 THEN 0 ELSE next[f[n - 1]][n]
    BY <1>5 DEF Recursive
  <2>2. CASE n # 0
    <3>1. n \in Nat /\ n \in 1..N /\ n - 1 \in 0..N
      BY <1>1, <2>2
    <3>2. f[n - 1] \in Nat /\ f[n] \in Nat
      BY <1>5, <3>1
    <3>3. next[f[n - 1]][n] = 10 * f[n - 1] + d[n]
      BY <1>4, <3>1, <3>2, Zenon
    <3>4. d[n] = s[n] - 48
      BY <1>2, <3>1
    <3> QED
      BY <2>1, <2>2, <3>2, <3>3, <3>4
  <2> QED
    BY <2>1, <2>2
<1>7. Upto(f)
  <2>1. f = [n \in 0..N |-> f[n]]
    BY <1>5
  <2> QED
    BY <1>6, <2>1
<1>8. Upto(upTo)
  <2> HIDE DEF Upto
  <2> QED
    BY <1>7
<1>9. DigitsValue(s) = upTo[N]
  BY DEF DigitsValue, N
<1> HIDE DEF upTo
<1>10. \A n \in 0..N : upTo[n] = IF n = 0 THEN 0 ELSE 10 * upTo[n - 1] + (s[n] - 48)
  BY <1>8
<1>11. \A n \in 0..N : upTo[n] = f[n]
  <2> DEFINE P == {n \in Nat : n \in 0..N => upTo[n] = f[n]}
  <2>1. 0 \in P
    BY <1>1, <1>6, <1>10
  <2>2. ASSUME NEW n \in Nat, n \in P PROVE n + 1 \in P
    <3>1. CASE n + 1 \in 0..N
      <4>1. n \in 0..N /\ n + 1 # 0 /\ (n + 1) - 1 = n
        BY <1>1, <3>1
      <4>2. upTo[n + 1] = 10 * upTo[n] + (s[n + 1] - 48)
        BY <1>10, <3>1, <4>1
      <4>3. f[n + 1] = 10 * f[n] + (s[n + 1] - 48)
        BY <1>6, <3>1, <4>1
      <4> QED
        BY <2>2, <4>1, <4>2, <4>3
    <3> QED
      BY <3>1
  <2>3. Nat \subseteq P
    <3> HIDE DEF P
    <3> QED
      BY <2>1, <2>2, Induction
  <2> QED
    BY <1>1, <2>3
<1>12. /\ f[0] = 0 /\ \A n \in 0..N : f[n] \in Nat
       /\ \A n \in 1..N : f[n] = 10 * f[n - 1] + (s[n] - 48)
  BY <1>1, <1>6
<1>13. DigitsValue(s) = f[N]
  BY <1>1, <1>9, <1>11
<1> QED
  BY <1>12, <1>13, Zenon DEF N

\* The digits of a number: as many as needed, and each step takes in the next.
DigitsOf(s, n) ==
  /\ s \in Seq(Digit) /\ Len(s) \in 1..9 /\ n < 10^Len(s)
  /\ \A i \in 1..Len(s) : s[i] - 48 = (n \div 10^(Len(s) - i)) % 10

\* std::format writes them, filled up with zeros to the width.
LEMMA DecimalDigits ==
  ASSUME NEW n \in Nat, n < 10^9, NEW width \in Int, width <= 9
  PROVE  /\ DigitsOf(Decimal(n, width), n)
         /\ width \in 1..9 /\ n < 10^width => Len(Decimal(n, width)) = width
<1> DEFINE K == {k \in 1..9 : k >= width /\ n < 10^k}
           len == Min(K)
           D == Decimal(n, width)
<1>1. 9 \in K
  OBVIOUS
<1>2. \E k \in K : \A j \in K : k <= j
  <2>1. K \in SUBSET Nat
    OBVIOUS
  <2> HIDE DEF K
  <2> QED
    BY <1>1, <2>1, LeastNatural
<1>3. len \in K /\ \A j \in K : len <= j
  <2> HIDE DEF K
  <2> QED
    BY <1>2 DEF Min
<1>4. len \in 1..9 /\ len >= width /\ n < 10^len
  <2> HIDE DEF len
  <2> QED
    BY <1>3
<1>5. ASSUME width \in 1..9, n < 10^width PROVE len = width
  <2> HIDE DEF len
  <2>1. width \in K
    BY <1>5
  <2> QED
    BY <1>3, <1>4, <1>5, <2>1
<1>6. D = [i \in 1..len |-> 48 + ((n \div 10^(len - i)) % 10)]
  BY DEF Decimal
<1>7. D \in Seq(Digit)
  BY DecimalType
<1> HIDE DEF D, K, len
<1>8. Len(D) = len
  <2>1. 1..Len(D) = 1..len /\ Len(D) \in Nat
    BY <1>6, <1>7, LenProperties
  <2>2. len \in 1..Len(D)
    BY <1>4, <2>1
  <2>3. Len(D) \in 1..len
    <3>1. Len(D) \in 1..Len(D)
      BY <2>1, <2>2
    <3> QED
      BY <2>1, <3>1
  <2> QED
    BY <1>4, <2>1, <2>2, <2>3
<1>9. ASSUME NEW i \in 1..Len(D) PROVE D[i] - 48 = (n \div 10^(Len(D) - i)) % 10
  <2> DEFINE q == n \div 10^(len - i)
  <2>1. q \in Nat
    <3>1. len - i \in 0..9
      BY <1>4, <1>8
    <3>2. 10^(len - i) \in Nat \ {0}
      BY <3>1, PowerPositive
    <3> QED
      BY <3>2, Division
  <2>2. D[i] = 48 + (q % 10)
    BY <1>6, <1>8
  <2> HIDE DEF q
  <2>3. D[i] - 48 = q % 10
    BY <2>1, <2>2
  <2> QED
    BY <1>8, <2>3 DEF q
<1> QED
  BY <1>4, <1>5, <1>7, <1>8, <1>9 DEF D, DigitsOf

\* Each power of ten is ten times the one before.
LEMMA NextPower == \A j \in 0..8 : 10^(j + 1) = 10 * 10^j /\ 10^j \in Nat \ {0}
<1> SUFFICES ASSUME NEW j \in 0..8 PROVE 10^(j + 1) = 10 * 10^j /\ 10^j \in Nat \ {0}
  OBVIOUS
<1>1. j = 0 \/ j = 1 \/ j = 2 \/ j = 3 \/ j = 4 \/ j = 5 \/ j = 6 \/ j = 7 \/ j = 8
  OBVIOUS
<1>2. /\ 10^(0 + 1) = 10 * 10^0 /\ 10^(1 + 1) = 10 * 10^1 /\ 10^(2 + 1) = 10 * 10^2
      /\ 10^(3 + 1) = 10 * 10^3 /\ 10^(4 + 1) = 10 * 10^4 /\ 10^(5 + 1) = 10 * 10^5
      /\ 10^(6 + 1) = 10 * 10^6 /\ 10^(7 + 1) = 10 * 10^7 /\ 10^(8 + 1) = 10 * 10^8
  BY PowersOfTen
<1>3. 10^(j + 1) = 10 * 10^j
  BY <1>1, <1>2, Zenon
<1>4. j \in 0..9
  OBVIOUS
<1>5. 10^j \in Nat \ {0}
  BY <1>4, PowerPositive, Zenon
<1> QED
  BY <1>3, <1>5

\* One digit more, for numbers and powers that are at most nine digits long.
LEMMA DigitStep ==
  ASSUME NEW n \in Nat, NEW k \in 0..8
  PROVE  n \div 10^k = 10 * (n \div 10^(k + 1)) + ((n \div 10^k) % 10)
<1>1. \A d \in Nat \ {0} : n \div (10 * d) = (n \div d) \div 10
  <2> SUFFICES ASSUME NEW d \in Nat \ {0} PROVE n \div (10 * d) = (n \div d) \div 10
    OBVIOUS
  <2> DEFINE q == n \div d
             r == n % d
             p == q \div 10
             t == q % 10
  <2>1. q \in Nat /\ r \in Nat /\ r < d /\ n = d * q + r
    BY Division
  <2>2. p \in Nat /\ t \in Nat /\ t < 10 /\ q = 10 * p + t
    BY <2>1, Division
  <2> HIDE DEF q, r, p, t
  <2> DEFINE e == 10 * d
  <2>a. e \in Nat \ {0} /\ e = 9 * d + d
    OBVIOUS
  <2> DEFINE m == n \div e
             u == n % e
  <2>b. d * (10 * p) = e * p
    BY <2>2
  <2> HIDE DEF e
  <2>3. e \in Nat \ {0} /\ m \in Nat /\ u \in Nat /\ u < e /\ n = e * m + u
    BY <2>a, Division
  <2>4. n = e * p + (d * t + r) /\ d * t + r \in Nat /\ d * t + r < e
    <3>1. d * q = d * (10 * p) + d * t
      BY <2>2
    <3>3. d * t <= 9 * d
      BY <2>2
    <3> DEFINE x == d * t
               y == e * p
               z == d * q
    <3>4. x \in Nat /\ y \in Nat
      BY <2>2, <2>a
    <3>5. z = y + x /\ n = z + r /\ x <= 9 * d
      BY <2>1, <2>b, <3>1, <3>3
    <3> HIDE DEF x, y, z
    <3>6. n = y + (x + r) /\ x + r \in Nat /\ x + r < e
      BY <2>1, <2>a, <3>4, <3>5
    <3> QED
      BY <3>6 DEF x, y
  <2> HIDE DEF m, u
  <2>5. m = p
    <3> DEFINE v == d * t + r
    <3>1. v \in Nat /\ v < e /\ e * m + u = e * p + v
      BY <2>3, <2>4
    <3> HIDE DEF v
    <3>2. ~(m < p)
      <4> SUFFICES ASSUME m < p PROVE FALSE
        OBVIOUS
      <4>1. e * (m + 1) <= e * p
        BY <2>2, <2>3
      <4>2. e * (m + 1) = e * m + e
        BY <2>3
      <4>3. e * m \in Nat /\ e * p \in Nat
        BY <2>2, <2>3
      <4> QED
        BY <2>3, <3>1, <4>1, <4>2, <4>3
    <3>3. ~(p < m)
      <4> SUFFICES ASSUME p < m PROVE FALSE
        OBVIOUS
      <4>1. e * (p + 1) <= e * m
        BY <2>2, <2>3
      <4>2. e * (p + 1) = e * p + e
        BY <2>2, <2>3
      <4>3. e * m \in Nat /\ e * p \in Nat
        BY <2>2, <2>3
      <4> QED
        BY <2>3, <3>1, <4>1, <4>2, <4>3
    <3> QED
      BY <2>2, <2>3, <3>2, <3>3
  <2> QED
    BY <2>5 DEF m, p, e, q
<1>2. 10^(k + 1) = 10 * 10^k /\ 10^k \in Nat \ {0}
  BY NextPower
<1> DEFINE q == n \div 10^k
<1>3. q \in Nat
  BY <1>2, Division
<1>4. n \div 10^(k + 1) = q \div 10
  BY <1>1, <1>2, Zenon
<1> HIDE DEF q
<1>5. q = 10 * (q \div 10) + (q % 10)
  BY <1>3
<1> QED
  BY <1>4, <1>5 DEF q

\* From a on the L steps of f take in the digits of n.
TakesIn(f, a, L, n) ==
  /\ n < 10^L
  /\ \A i \in 0..L : f[a + i] \in Nat
  /\ \A i \in 0..L - 1 : f[a + i + 1] = 10 * f[a + i] + ((n \div 10^(L - (i + 1))) % 10)

TookIn(f, a, L, n) == f[a + L] = f[a] * 10^L + n

\* Reading the digits of n behind others.
LEMMA RunOn ==
  ASSUME NEW f, NEW a \in Nat, NEW L \in 1..9, NEW n \in Nat, TakesIn(f, a, L, n)
  PROVE  TookIn(f, a, L, n)
<1> DEFINE g(i) == f[a] * 10^i + (n \div 10^(L - i))
           P == {i \in Nat : i \in 0..L => f[a + i] = g(i)}
<1>a. /\ n < 10^L
      /\ \A i \in 0..L : f[a + i] \in Nat
      /\ \A i \in 0..L - 1 : f[a + i + 1] = 10 * f[a + i] + ((n \div 10^(L - (i + 1))) % 10)
  BY DEF TakesIn
<1>0. f[a] \in Nat
  <2>1. 0 \in 0..L /\ a + 0 = a
    OBVIOUS
  <2>2. f[a + 0] \in Nat
    BY <1>a, <2>1
  <2> QED
    BY <2>1, <2>2
<1>1. 0 \in P
  <2>1. a + 0 = a /\ L - 0 = L
    OBVIOUS
  <2>2. n \div 10^L = 0
    <3> DEFINE d == 10^L
    <3>1. d \in Nat \ {0} /\ n < d
      <4>1. L \in 0..9
        OBVIOUS
      <4> QED
        BY <1>a, <4>1, PowerPositive, Zenon
    <3> HIDE DEF d
    <3>2. n \div d = 0
      <4> DEFINE q == n \div d
      <4>1. q \in Nat /\ n % d \in Nat /\ n = d * q + (n % d)
        BY <3>1, Division
      <4> HIDE DEF q
      <4>2. q >= 1 => d * q >= d
        BY <3>1, <4>1
      <4>3. d * q \in Nat
        BY <3>1, <4>1
      <4> DEFINE p == d * q
                 r == n % d
      <4>4. p \in Nat /\ r \in Nat /\ n = p + r /\ (q >= 1 => p >= d)
        BY <4>1, <4>2, <4>3
      <4> HIDE DEF p, r
      <4>5. q = 0
        BY <3>1, <4>1, <4>4
      <4> QED
        BY <4>5 DEF q
    <3> QED
      BY <3>2 DEF d
  <2>3. f[a] * 10^0 = f[a]
    BY <1>0, PowersOfTen
  <2>4. f[a] * 10^0 + (n \div 10^L) = f[a]
    BY <1>0, <2>2, <2>3
  <2>5. f[a + 0] = f[a] * 10^0 + (n \div 10^(L - 0))
    BY <2>1, <2>4, Zenon
  <2> QED
    BY <2>5
<1>2. ASSUME NEW i \in Nat, i \in P PROVE i + 1 \in P
  <2> SUFFICES ASSUME i + 1 \in 0..L PROVE f[a + (i + 1)] = g(i + 1)
    OBVIOUS
  <2> DEFINE k == L - (i + 1)
  <2>1. k \in 0..8 /\ i \in 0..L /\ i \in 0..L - 1 /\ i \in 0..8 /\ L - i = k + 1
        /\ a + (i + 1) = a + i + 1
    OBVIOUS
  <2>2. f[a + i] = f[a] * 10^i + (n \div 10^(k + 1))
    BY <1>2, <2>1, Zenon
  <2>3. f[a + i + 1] = 10 * f[a + i] + ((n \div 10^k) % 10)
    BY <1>a, <2>1
  <2> HIDE DEF k
  <2>4. n \div 10^k = 10 * (n \div 10^(k + 1)) + ((n \div 10^k) % 10)
    BY <2>1, DigitStep
  <2>5. 10^(i + 1) = 10 * 10^i /\ 10^i \in Nat
    BY <2>1, NextPower
  <2>6. f[a] * 10^(i + 1) = 10 * (f[a] * 10^i) /\ f[a] * 10^i \in Nat
    <3> DEFINE d == 10^i
               e == 10^(i + 1)
               b == f[a]
    <3>1. d \in Nat /\ e = 10 * d /\ b \in Nat
      BY <1>0, <2>5
    <3> HIDE DEF d, e, b
    <3>2. b * e = 10 * (b * d) /\ b * d \in Nat
      BY <3>1
    <3> QED
      BY <3>2 DEF d, e, b
  <2>7. n \div 10^(k + 1) \in Nat /\ n \div 10^k \in Nat
    <3>1. k \in 0..9 /\ k + 1 \in 0..9
      BY <2>1
    <3>2. 10^k \in Nat \ {0} /\ 10^(k + 1) \in Nat \ {0}
      BY <3>1, PowerPositive, Zenon
    <3> QED
      BY <3>2, Division
  <2> DEFINE x == n \div 10^k
             y == n \div 10^(k + 1)
             z == f[a] * 10^i
             r == (n \div 10^k) % 10
  <2>8. x \in Nat /\ y \in Nat /\ z \in Nat /\ r \in Int
    BY <2>6, <2>7
  <2>9. f[a + i] = z + y /\ f[a + i + 1] = 10 * f[a + i] + r /\ x = 10 * y + r
    BY <2>2, <2>3, <2>4
  <2> HIDE DEF x, y, z, r
  <2>10. f[a + i + 1] = 10 * z + x
    BY <2>8, <2>9
  <2>11. f[a + (i + 1)] = f[a] * 10^(i + 1) + (n \div 10^k)
    BY <2>1, <2>6, <2>10 DEF x, z
  <2> QED
    BY <2>11 DEF k
<1>3. Nat \subseteq P
  <2> HIDE DEF P
  <2> QED
    BY <1>1, <1>2, Induction
<1>4. f[a + L] = f[a] * 10^L + (n \div 10^(L - L))
  <2>1. L \in Nat /\ L \in 0..L
    OBVIOUS
  <2>2. L \in P
    BY <1>3, <2>1, Zenon
  <2> QED
    BY <2>1, <2>2, Zenon
<1>5. n \div 10^(L - L) = n
  <2>1. L - L = 0
    OBVIOUS
  <2>2. n \div 1 = n
    OBVIOUS
  <2> QED
    BY <2>1, <2>2, PowersOfTen
<1> QED
  BY <1>4, <1>5 DEF TookIn

\* The value of the digits of a number is the number.
LEMMA DigitsBack ==
  ASSUME NEW s, NEW n \in Nat, DigitsOf(s, n)
  PROVE  DigitsValue(s) = n
<1> DEFINE L == Len(s)
<1>1. s \in Seq(Digit) /\ L \in 1..9 /\ n < 10^L
      /\ \A i \in 1..L : s[i] - 48 = (n \div 10^(L - i)) % 10
  BY DEF DigitsOf
<1>2. PICK f : /\ f[0] = 0 /\ \A i \in 0..L : f[i] \in Nat
               /\ \A i \in 1..L : f[i] = 10 * f[i - 1] + (s[i] - 48)
               /\ DigitsValue(s) = f[L]
  BY <1>1, DigitsSteps
<1> HIDE DEF L
<1>a. PICK a \in Nat : a = 0
  OBVIOUS
<1>3. \A i \in 0..L : f[a + i] \in Nat
  <2> SUFFICES ASSUME NEW i \in 0..L PROVE f[a + i] \in Nat
    OBVIOUS
  <2>1. a + i = i
    BY <1>1, <1>a
  <2> QED
    BY <1>2, <2>1
<1>4. \A i \in 0..L - 1 : f[a + i + 1] = 10 * f[a + i] + ((n \div 10^(L - (i + 1))) % 10)
  <2> SUFFICES ASSUME NEW i \in 0..L - 1
               PROVE  f[a + i + 1] = 10 * f[a + i] + ((n \div 10^(L - (i + 1))) % 10)
    OBVIOUS
  <2>1. a + i = i /\ a + i + 1 = i + 1 /\ i + 1 \in 1..L /\ (i + 1) - 1 = i
    BY <1>1, <1>a
  <2>2. f[i + 1] = 10 * f[i] + (s[i + 1] - 48)
    BY <1>2, <2>1
  <2>3. s[i + 1] - 48 = (n \div 10^(L - (i + 1))) % 10
    BY <1>1, <2>1
  <2> QED
    BY <2>1, <2>2, <2>3
<1>5. f[a + L] = f[a] * 10^L + n
  <2>1. n < 10^L /\ L \in 1..9 /\ a \in Nat
    BY <1>1, <1>a
  <2>2. TakesIn(f, a, L, n)
    BY <1>3, <1>4, <2>1, Zenon DEF TakesIn
  <2>3. TookIn(f, a, L, n)
    BY <2>1, <2>2, RunOn, Zenon
  <2> QED
    BY <2>3 DEF TookIn
<1>6. a + L = L /\ 0 * 10^L = 0 /\ f[a] = 0
  <2>1. L \in 0..9
    BY <1>1
  <2>2. 10^L \in Nat
    BY <2>1, PowerPositive
  <2> QED
    BY <1>1, <1>2, <1>a, <2>2
<1> QED
  BY <1>2, <1>5, <1>6

\* From position i on t reads s, and then no further digit.
RunAt(t, i, s) ==
  /\ t \in Seq(Octet) /\ s \in Seq(Digit) /\ i \in Nat \ {0} /\ i - 1 + Len(s) <= Len(t)
  /\ \A j \in 1..Len(s) : t[i - 1 + j] = s[j]
  /\ i + Len(s) <= Len(t) => t[i + Len(s)] \notin Digit

\* The reader finds them, and where they end.
LEMMA DigitsFound ==
  ASSUME NEW t, NEW i, NEW s, RunAt(t, i, s)
  PROVE  DigitsFrom(t, i) = s
<1> DEFINE n == Len(t)
           l == Len(s)
           e == i - 1 + l
           S == {k \in i - 1..n : \A j \in i..k : t[j] \in Digit}
           r == SubSeq(t, i, e)
<1>1. /\ t \in Seq(Octet) /\ s \in Seq(Digit) /\ i \in Nat \ {0} /\ e <= n
      /\ \A j \in 1..l : t[i - 1 + j] = s[j]
      /\ i + l <= n => t[i + l] \notin Digit
  BY DEF RunAt
<1>2. n \in Nat /\ l \in Nat /\ \A j \in 1..l : s[j] \in Digit
  BY <1>1, LenProperties, ElementOfSeq
<1> HIDE DEF n, l
<1>3. e \in Nat /\ e \in i - 1..n
  BY <1>1, <1>2
<1>4. ASSUME NEW j \in i..e PROVE t[j] = s[j - i + 1] /\ t[j] \in Digit
  <2>1. j - i + 1 \in 1..l /\ i - 1 + (j - i + 1) = j
    BY <1>1, <1>2
  <2>2. t[i - 1 + (j - i + 1)] = s[j - i + 1]
    BY <1>1, <2>1
  <2> QED
    BY <1>2, <2>1, <2>2
<1>5. e \in S
  BY <1>3, <1>4
<1>6. ASSUME NEW k \in S PROVE k <= e
  <2> SUFFICES ASSUME k > e PROVE FALSE
    BY <1>1, <1>3
  <2>1. k \in Int /\ k <= n /\ \A j \in i..k : t[j] \in Digit
    BY <1>1, <1>2
  <2>2. i + l \in i..k /\ i + l <= n
    BY <1>1, <1>2, <2>1
  <2> QED
    BY <1>1, <2>1, <2>2
<1>7. S \in SUBSET Nat /\ S # {}
  <2>1. \A k \in i - 1..n : k \in Nat
    BY <1>1, <1>2
  <2> QED
    BY <1>5, <2>1
<1>8. Max(S) = e
  <2>1. Max(S) \in S /\ \A x \in S : x <= Max(S)
    <3> HIDE DEF S, e
    <3> QED
      BY <1>3, <1>6, <1>7, GreatestNatural
  <2> HIDE DEF S, e
  <2>2. Max(S) <= e /\ e <= Max(S) /\ Max(S) \in Nat
    BY <1>5, <1>6, <1>7, <2>1
  <2> QED
    BY <1>3, <2>2
<1>9. DigitsFrom(t, i) = r
  BY <1>8, Zenon DEF DigitsFrom, n
<1>10. r \in Seq(Digit) /\ Len(r) = l /\ \A j \in 1..l : r[j] = s[j]
  <2>1. i \in Int /\ e \in Int /\ e - i + 1 = l /\ \A j \in i..e : t[j] \in Digit
    BY <1>1, <1>2, <1>3, <1>4
  <2> HIDE DEF e
  <2>2. /\ r \in Seq(Digit)
        /\ Len(r) = IF i <= e THEN e - i + 1 ELSE 0
        /\ \A j \in 1..e - i + 1 : r[j] = t[i + j - 1]
    BY <2>1, SubSeqProperties
  <2> HIDE DEF r
  <2>3. Len(r) = l
    BY <1>2, <2>1, <2>2
  <2>4. ASSUME NEW j \in 1..l PROVE r[j] = s[j]
    <3>1. i + j - 1 = i - 1 + j /\ r[j] = t[i + j - 1]
      BY <1>1, <2>1, <2>2
    <3>2. t[i - 1 + j] = s[j]
      BY <1>1
    <3> QED
      BY <3>1, <3>2
  <2> QED
    BY <2>2, <2>3, <2>4
<1> HIDE DEF r
<1>11. r = s
  BY <1>1, <1>10, SeqEqual DEF l
<1> QED
  BY <1>9, <1>11

\* The sign takes one character or none.
LEMMA SignIs ==
  ASSUME NEW n \in Int
  PROVE  /\ Sign(n) \in Seq(Octet) /\ Len(Sign(n)) = IF n < 0 THEN 1 ELSE 0
         /\ n < 0 => Sign(n)[1] = MINUS
<1>1. CASE n < 0
  <2>1. Sign(n) = <<MINUS>>
    BY <1>1 DEF Sign
  <2>2. <<MINUS>> \in Seq(Octet) /\ Len(<<MINUS>>) = 1 /\ <<MINUS>>[1] = MINUS
    BY DEF MINUS, Octet
  <2> QED
    BY <1>1, <2>1, <2>2
<1>2. CASE ~(n < 0)
  <2>1. Sign(n) = <<>>
    BY <1>2 DEF Sign
  <2>2. <<>> \in Seq(Octet) /\ Len(<<>>) = 0
    BY EmptySeq
  <2> QED
    BY <1>2, <2>1, <2>2
<1> QED
  BY <1>1, <1>2

\* Digits are characters.
LEMMA DigitOctets == \A s : s \in Seq(Digit) => s \in Seq(Octet)
BY DEF Digit, Octet

\* A number without decimals comes back as it was, with its sign and leading zeros.
LEMMA IntBack ==
  ASSUME NEW n \in Int, Abs(n) < 10^9, NEW w \in 0..9
  PROVE  FormatInt(n, w) # <<>> /\ ParseInt(FormatInt(n, w)) = Some(<<n>>)
<1> DEFINE g == Len(Sign(n))
           width == Max({1, w - g})
           m == Abs(n)
           D == Decimal(m, width)
           t == Sign(n) \o D
           l == Len(D)
<1>1. FormatInt(n, w) = t
  BY DEF FormatInt
<1>2. Sign(n) \in Seq(Octet) /\ g = (IF n < 0 THEN 1 ELSE 0) /\ (n < 0 => Sign(n)[1] = MINUS)
  BY SignIs
<1>3. m \in Nat /\ n = IF n < 0 THEN -m ELSE m
  BY DEF Abs
<1> HIDE DEF g
<1>4. width \in Int /\ width <= 9
  BY <1>2, MaxOfTwo
<1>a. m < 10^9
  OBVIOUS
<1> HIDE DEF width, m
<1>5. DigitsOf(D, m)
  BY <1>3, <1>4, <1>a, DecimalDigits
<1> HIDE DEF D
<1>6. D \in Seq(Digit) /\ D \in Seq(Octet) /\ l \in 1..9 /\ \A j \in 1..l : D[j] \in 48..57
  BY <1>5, DigitOctets, ElementOfSeq DEF DigitsOf, Digit
<1>7. /\ t \in Seq(Octet) /\ Len(t) = g + l
      /\ \A j \in 1..g : t[j] = Sign(n)[j]
      /\ \A j \in 1..l : t[g + j] = D[j]
  BY <1>2, <1>6, Joined DEF g
<1> HIDE DEF t, l
<1>8. Len(t) >= 1 /\ t # <<>>
  BY <1>2, <1>6, <1>7, EmptySeq
<1>9. (IF t[1] = MINUS THEN 2 ELSE 1) = g + 1
  <2>1. CASE n < 0
    <3>1. g = 1 /\ t[1] = MINUS
      BY <1>2, <1>7, <2>1
    <3> QED
      BY <3>1
  <2>2. CASE ~(n < 0)
    <3>1. g = 0 /\ 1 \in 1..l /\ g + 1 = 1
      BY <1>2, <1>6, <2>2
    <3>2. t[1] = D[1] /\ D[1] \in 48..57
      BY <1>6, <1>7, <3>1
    <3> QED
      BY <3>1, <3>2 DEF MINUS
  <2> QED
    BY <2>1, <2>2
<1>10. DigitsFrom(t, g + 1) = D
  <2>1. RunAt(t, g + 1, D)
    <3>1. g + 1 \in Nat \ {0} /\ (g + 1) - 1 + l <= Len(t) /\ ~(g + 1 + l <= Len(t))
      BY <1>2, <1>6, <1>7
    <3>2. \A j \in 1..l : t[(g + 1) - 1 + j] = D[j]
      BY <1>2, <1>6, <1>7
    <3> QED
      BY <1>6, <1>7, <3>1, <3>2 DEF RunAt, l
  <2> QED
    BY <2>1, DigitsFound
<1>11. DigitsValue(D) = m
  BY <1>3, <1>5, DigitsBack
<1>12. D # <<>>
  <2>a. l # 0
    BY <1>6
  <2>1. Len(D) # 0
    BY <2>a DEF l
  <2> QED
    BY <2>1, EmptySeq
<1>13. ParseInt(t) = Some(<<IF g + 1 = 2 THEN -m ELSE m>>)
  <2> DEFINE first == IF t[1] = MINUS THEN 2 ELSE 1
             digits == DigitsFrom(t, first)
             v == DigitsValue(digits)
  <2>1. ParseInt(t) =
          IF digits = <<>> THEN ParseError ELSE Some(<<IF first = 2 THEN -v ELSE v>>)
    BY DEF ParseInt
  <2>2. first = g + 1
    BY <1>9
  <2>3. digits = D
    BY <1>10, <2>2
  <2>4. v = m
    BY <1>11, <2>3
  <2> HIDE DEF first, digits, v
  <2> QED
    BY <1>12, <2>1, <2>2, <2>3, <2>4
<1>14. (IF g + 1 = 2 THEN -m ELSE m) = n
  BY <1>2, <1>3
<1> QED
  BY <1>1, <1>8, <1>13, <1>14

\* Where the parts of a number with decimals are.
Pieces(t, a, b, d) ==
  LET g == Len(a)
      l == Len(b)
      p == Len(d)
  IN  /\ t \in Seq(Octet) /\ Len(t) = g + l + 1 + p
      /\ \A j \in 1..g : t[j] = a[j]
      /\ \A j \in 1..l : t[g + j] = b[j]
      /\ t[g + l + 1] = POINT
      /\ \A j \in 1..p : t[g + l + 1 + j] = d[j]

\* They stand one behind the other.
LEMMA PointBetween ==
  ASSUME NEW a \in Seq(Octet), NEW b \in Seq(Octet), NEW d \in Seq(Octet)
  PROVE  Pieces(a \o b \o <<POINT>> \o d, a, b, d)
<1> DEFINE c == <<POINT>>
           u == a \o b
           v == u \o c
           t == v \o d
           g == Len(a)
           l == Len(b)
           p == Len(d)
<1>1. c \in Seq(Octet) /\ Len(c) = 1 /\ c[1] = POINT /\ g \in Nat /\ l \in Nat /\ p \in Nat
  BY LenProperties DEF POINT, Octet
<1> HIDE DEF c
<1>2. /\ u \in Seq(Octet) /\ Len(u) = g + l
      /\ \A j \in 1..g : u[j] = a[j]
      /\ \A j \in 1..l : u[g + j] = b[j]
  BY Joined
<1> HIDE DEF u
<1>3. /\ v \in Seq(Octet) /\ Len(v) = Len(u) + Len(c)
      /\ \A j \in 1..Len(u) : v[j] = u[j]
      /\ \A j \in 1..Len(c) : v[Len(u) + j] = c[j]
  BY <1>1, <1>2, Joined
<1> HIDE DEF v
<1>4. /\ t \in Seq(Octet) /\ Len(t) = Len(v) + Len(d)
      /\ \A j \in 1..Len(v) : t[j] = v[j]
      /\ \A j \in 1..Len(d) : t[Len(v) + j] = d[j]
  BY <1>3, Joined
<1> HIDE DEF t, g, l, p
<1>5. Len(v) = g + l + 1 /\ Len(u) = g + l /\ Len(t) = g + l + 1 + p
  BY <1>1, <1>2, <1>3, <1>4 DEF p
<1>6. ASSUME NEW j \in 1..g PROVE t[j] = a[j]
  <2>1. j \in 1..Len(u) /\ j \in 1..Len(v)
    BY <1>1, <1>5
  <2> QED
    BY <1>2, <1>3, <1>4, <2>1
<1>7. ASSUME NEW j \in 1..l PROVE t[g + j] = b[j]
  <2>1. g + j \in 1..Len(u) /\ g + j \in 1..Len(v)
    BY <1>1, <1>5
  <2> QED
    BY <1>2, <1>3, <1>4, <2>1
<1>8. t[g + l + 1] = POINT
  <2>1. v[Len(u) + 1] = c[1] /\ Len(u) + 1 = g + l + 1 /\ g + l + 1 \in 1..Len(v)
    BY <1>1, <1>3, <1>5
  <2> QED
    BY <1>1, <1>4, <2>1
<1>9. \A j \in 1..p : t[g + l + 1 + j] = d[j]
  BY <1>4, <1>5 DEF p
<1>10. Pieces(t, a, b, d)
  BY <1>4, <1>5, <1>6, <1>7, <1>8, <1>9 DEF Pieces, g, l, p
<1> QED
  BY <1>10 DEF t, v, u, c

\* The decimals that are kept: one more than are written, zero if there is none.
Kept(d, p) == [i \in 1..p + 1 |-> IF i <= Len(d) THEN d[i] ELSE 48]

KeptReads(W, D, q, r, p) == DigitsValue(W \o Kept(D, p)) = 10 * (q * 10^p + r)

\* The digits before the point and behind it, and the one more that is kept.
LEMMA KeptValue ==
  ASSUME NEW W, NEW D, NEW q \in Nat, NEW r \in Nat, NEW p \in 1..9,
         DigitsOf(W, q), DigitsOf(D, r), Len(D) = p
  PROVE  KeptReads(W, D, q, r, p)
<1> DEFINE K == Kept(D, p)
           s == W \o K
           l == Len(W)
<1>1. /\ W \in Seq(Digit) /\ l \in 1..9 /\ q < 10^l
      /\ \A i \in 1..l : W[i] - 48 = (q \div 10^(l - i)) % 10
  BY DEF DigitsOf
<1>2. /\ D \in Seq(Digit) /\ r < 10^p
      /\ \A i \in 1..p : D[i] - 48 = (r \div 10^(p - i)) % 10
  BY DEF DigitsOf
<1>3. /\ K \in Seq(Digit) /\ Len(K) = p + 1 /\ K[p + 1] = 48
      /\ \A i \in 1..p : K[i] = D[i]
  <2>1. 48 \in Digit /\ \A i \in 1..p : D[i] \in Digit
    BY <1>2, ElementOfSeq DEF Digit
  <2>2. ASSUME NEW i \in 1..p + 1 PROVE (IF i <= Len(D) THEN D[i] ELSE 48) \in Digit
    <3>1. CASE i <= p
      BY <2>1, <3>1
    <3>2. CASE ~(i <= p)
      BY <2>1, <3>2
    <3> QED
      BY <3>1, <3>2
  <2>3. p + 1 \in Nat
    OBVIOUS
  <2>4. K \in Seq(Digit) /\ Len(K) = p + 1
    BY <2>2, <2>3 DEF Kept
  <2>5. \A i \in 1..p + 1 : K[i] = IF i <= p THEN D[i] ELSE 48
    BY DEF Kept
  <2> HIDE DEF K
  <2> QED
    BY <2>4, <2>5
<1> HIDE DEF K, l
<1>4. W \in Seq(Octet) /\ K \in Seq(Octet)
  BY <1>1, <1>3, DigitOctets
<1>5. /\ Len(s) = l + (p + 1)
      /\ \A i \in 1..l : s[i] = W[i]
      /\ \A i \in 1..p + 1 : s[l + i] = K[i]
  <2>1. /\ Len(s) = Len(W) + Len(K)
        /\ \A i \in 1..Len(W) : s[i] = W[i]
        /\ \A i \in 1..Len(K) : s[Len(W) + i] = K[i]
    BY <1>4, Joined
  <2> QED
    BY <1>3, <2>1 DEF l
<1>6. s \in Seq(Digit)
  BY <1>1, <1>3, ConcatProperties
<1> HIDE DEF s
<1>7. PICK f : /\ f[0] = 0 /\ \A i \in 0..Len(s) : f[i] \in Nat
               /\ \A i \in 1..Len(s) : f[i] = 10 * f[i - 1] + (s[i] - 48)
               /\ DigitsValue(s) = f[Len(s)]
  BY <1>6, DigitsSteps
<1>8. PICK a \in Nat : a = 0
  OBVIOUS
<1>9. TakesIn(f, a, l, q)
  <2>1. ASSUME NEW i \in 0..l PROVE f[a + i] \in Nat
    <3>1. a + i = i /\ i \in 0..Len(s)
      BY <1>1, <1>5, <1>8
    <3> QED
      BY <1>7, <3>1
  <2>2. ASSUME NEW i \in 0..l - 1
        PROVE  f[a + i + 1] = 10 * f[a + i] + ((q \div 10^(l - (i + 1))) % 10)
    <3>1. /\ a + i = i /\ a + i + 1 = i + 1 /\ i + 1 \in 1..l /\ i + 1 \in 1..Len(s)
          /\ (i + 1) - 1 = i
      BY <1>1, <1>5, <1>8
    <3>2. f[i + 1] = 10 * f[i] + (s[i + 1] - 48)
      BY <1>7, <3>1
    <3>3. s[i + 1] - 48 = (q \div 10^(l - (i + 1))) % 10
      BY <1>1, <1>5, <3>1
    <3> QED
      BY <3>1, <3>2, <3>3
  <2> QED
    BY <1>1, <2>1, <2>2, Zenon DEF TakesIn
<1>10. TakesIn(f, l, p, r)
  <2>1. ASSUME NEW i \in 0..p PROVE f[l + i] \in Nat
    <3>1. l + i \in 0..Len(s)
      BY <1>1, <1>5
    <3> QED
      BY <1>7, <3>1
  <2>2. ASSUME NEW i \in 0..p - 1
        PROVE  f[l + i + 1] = 10 * f[l + i] + ((r \div 10^(p - (i + 1))) % 10)
    <3>1. /\ l + i + 1 \in 1..Len(s) /\ i + 1 \in 1..p /\ i + 1 \in 1..p + 1
          /\ (l + i + 1) - 1 = l + i /\ l + i + 1 = l + (i + 1)
      BY <1>1, <1>5
    <3>2. f[l + i + 1] = 10 * f[l + i] + (s[l + i + 1] - 48)
      BY <1>7, <3>1
    <3>3. s[l + (i + 1)] = D[i + 1]
      BY <1>3, <1>5, <3>1
    <3>4. D[i + 1] - 48 = (r \div 10^(p - (i + 1))) % 10
      BY <1>2, <3>1
    <3> QED
      BY <3>1, <3>2, <3>3, <3>4
  <2> QED
    BY <1>2, <2>1, <2>2, Zenon DEF TakesIn
<1>11. f[l] = q
  <2>1. TookIn(f, a, l, q)
    BY <1>1, <1>8, <1>9, RunOn, Zenon
  <2>2. a + l = l /\ f[a] = 0 /\ 0 * 10^l = 0
    <3>1. l \in 0..9
      BY <1>1
    <3>2. 10^l \in Nat
      BY <3>1, PowerPositive
    <3> QED
      BY <1>1, <1>7, <1>8, <3>2
  <2> QED
    BY <2>1, <2>2 DEF TookIn
<1>12. f[l + p] = q * 10^p + r
  <2>1. l \in Nat
    BY <1>1
  <2>2. TookIn(f, l, p, r)
    BY <1>10, <2>1, RunOn, Zenon
  <2> QED
    BY <1>11, <2>2 DEF TookIn
<1>13. f[l + p + 1] = 10 * f[l + p]
  <2>1. l + p + 1 \in 1..Len(s) /\ (l + p + 1) - 1 = l + p /\ p + 1 \in 1..p + 1
        /\ l + p + 1 = l + (p + 1) /\ l + p \in 0..Len(s)
    BY <1>1, <1>5
  <2>2. f[l + p + 1] = 10 * f[l + p] + (s[l + p + 1] - 48) /\ f[l + p] \in Nat
    BY <1>7, <2>1
  <2>3. s[l + (p + 1)] = 48
    BY <1>3, <1>5, <2>1
  <2> QED
    BY <2>1, <2>2, <2>3
<1>14. Len(s) = l + p + 1
  BY <1>1, <1>5
<1> QED
  BY <1>7, <1>12, <1>13, <1>14 DEF s, K, KeptReads

\* A number with decimals comes back rounded to them, with its sign: the digits are cut at the
\* point and put together again.
LEMMA FloatBack ==
  ASSUME NEW n \in Int, NEW p \in 1..9, NEW w \in 0..9 + p, Rounded(n) \div 10^p < 10^9
  PROVE  /\ FormatFloat(n, p, w) # <<>>
         /\ ParseFloat(FormatFloat(n, p, w), p) =
              Some(<<IF n < 0 THEN -(10 * Rounded(n)) ELSE 10 * Rounded(n)>>)
<1> DEFINE a == Sign(n)
           g == Len(a)
           m == Rounded(n)
           q == m \div 10^p
           r == m % 10^p
           width == Max({1, w - p - 1 - g})
           W == Decimal(q, width)
           D == Decimal(r, p)
           t == a \o W \o <<POINT>> \o D
           l == Len(W)
<1>1. FormatFloat(n, p, w) = t
  BY DEF FormatFloat
<1>2. a \in Seq(Octet) /\ g = (IF n < 0 THEN 1 ELSE 0) /\ (n < 0 => a[1] = MINUS)
  BY SignIs
<1>3. m \in Nat
  <2>1. Abs(n) \in Nat
    BY DEF Abs
  <2> QED
    BY <2>1 DEF Rounded
<1>4. 10^p \in Nat \ {0} /\ p \in 0..9 /\ p <= 9 /\ p \in Int
  <2>1. p \in 0..9 /\ p <= 9 /\ p \in Int
    OBVIOUS
  <2>2. 10^p \in Nat \ {0}
    BY <2>1, PowerPositive, Zenon
  <2> QED
    BY <2>1, <2>2
<1>a. q < 10^9
  OBVIOUS
<1> HIDE DEF m, g, a
<1>5. q \in Nat /\ r \in Nat /\ r < 10^p /\ m = 10^p * q + r
  BY <1>3, <1>4, Division
<1> HIDE DEF q, r
<1>6. width \in Int /\ width <= 9
  BY <1>2, MaxOfTwo
<1> HIDE DEF width
<1>7. DigitsOf(W, q)
  BY <1>5, <1>6, <1>a, DecimalDigits
<1>8. DigitsOf(D, r) /\ Len(D) = p
  <2>1. r < 10^9
    <3>1. 10^p <= 10^9
      <4>1. \/ p = 1 \/ p = 2 \/ p = 3 \/ p = 4
            \/ p = 5 \/ p = 6 \/ p = 7 \/ p = 8 \/ p = 9
        OBVIOUS
      <4>2. /\ 10^1 <= 10^9 /\ 10^2 <= 10^9 /\ 10^3 <= 10^9 /\ 10^4 <= 10^9
            /\ 10^5 <= 10^9 /\ 10^6 <= 10^9 /\ 10^7 <= 10^9 /\ 10^8 <= 10^9 /\ 10^9 <= 10^9
        BY PowersOfTen
      <4> QED
        BY <4>1, <4>2, Zenon
    <3> QED
      BY <1>4, <1>5, <3>1, PowersOfTen
  <2>2. p \in 1..9
    OBVIOUS
  <2> QED
    BY <1>4, <1>5, <2>1, <2>2, DecimalDigits
<1> HIDE DEF W, D
<1>9. /\ W \in Seq(Digit) /\ W \in Seq(Octet) /\ l \in 1..9 /\ \A j \in 1..l : W[j] \in 48..57
      /\ D \in Seq(Digit) /\ D \in Seq(Octet)
  BY <1>7, <1>8, DigitOctets, ElementOfSeq DEF DigitsOf, Digit
<1>10. Pieces(t, a, W, D)
  BY <1>2, <1>9, PointBetween
<1> HIDE DEF t, l
<1>11. /\ t \in Seq(Octet) /\ Len(t) = g + l + 1 + p
       /\ \A j \in 1..g : t[j] = a[j]
       /\ \A j \in 1..l : t[g + j] = W[j]
       /\ t[g + l + 1] = POINT
       /\ \A j \in 1..p : t[g + l + 1 + j] = D[j]
  BY <1>8, <1>10 DEF Pieces, g, l
<1>12. Len(t) >= 1 /\ t # <<>>
  BY <1>2, <1>9, <1>11, EmptySeq
<1>13. (IF t[1] = MINUS THEN 2 ELSE 1) = g + 1
  <2>1. CASE n < 0
    <3>1. g = 1 /\ t[1] = MINUS
      BY <1>2, <1>11, <2>1
    <3> QED
      BY <3>1
  <2>2. CASE ~(n < 0)
    <3>1. g = 0 /\ 1 \in 1..l /\ g + 1 = 1
      BY <1>2, <1>9, <2>2
    <3>2. t[1] = W[1] /\ W[1] \in 48..57
      BY <1>9, <1>11, <3>1
    <3> QED
      BY <3>1, <3>2 DEF MINUS
  <2> QED
    BY <2>1, <2>2
<1>14. DigitsFrom(t, g + 1) = W
  <2>1. RunAt(t, g + 1, W)
    <3>1. g + 1 \in Nat \ {0} /\ (g + 1) - 1 + l <= Len(t) /\ g + 1 + l = g + l + 1
      BY <1>2, <1>9, <1>11
    <3>2. \A j \in 1..l : t[(g + 1) - 1 + j] = W[j]
      BY <1>2, <1>9, <1>11
    <3>3. t[g + 1 + l] \notin Digit
      <4>1. t[g + 1 + l] = POINT
        BY <1>11, <3>1
      <4> QED
        BY <4>1 DEF POINT, Digit
    <3> QED
      BY <1>9, <1>11, <3>1, <3>2, <3>3 DEF RunAt, l
  <2> QED
    BY <2>1, DigitsFound
<1>15. DigitsFrom(t, (g + 1 + l) + 1) = D
  <2>1. RunAt(t, (g + 1 + l) + 1, D)
    <3>1. (g + 1 + l) + 1 \in Nat \ {0} /\ ((g + 1 + l) + 1) - 1 + p <= Len(t)
          /\ ~((g + 1 + l) + 1 + p <= Len(t))
      BY <1>2, <1>9, <1>11
    <3>2. \A j \in 1..p : t[((g + 1 + l) + 1) - 1 + j] = D[j]
      <4> SUFFICES ASSUME NEW j \in 1..p PROVE t[((g + 1 + l) + 1) - 1 + j] = D[j]
        OBVIOUS
      <4>1. ((g + 1 + l) + 1) - 1 + j = g + l + 1 + j
        BY <1>2, <1>9
      <4> QED
        BY <1>11, <4>1
    <3> QED
      BY <1>8, <1>9, <1>11, <3>1, <3>2 DEF RunAt
  <2> QED
    BY <2>1, DigitsFound
<1>16. DigitsValue(W \o Kept(D, p)) = 10 * m
  <2>1. KeptReads(W, D, q, r, p)
    <3>1. p \in 1..9 /\ q \in Nat /\ r \in Nat
      BY <1>5
    <3>2. DigitsOf(W, q) /\ DigitsOf(D, r) /\ Len(D) = p
      BY <1>7, <1>8
    <3> QED
      BY <3>1, <3>2, KeptValue, Zenon
  <2>2. q * 10^p = 10^p * q
    BY <1>4, <1>5
  <2> QED
    BY <1>5, <2>1, <2>2 DEF KeptReads
<1>17. W \o D # <<>>
  <2>1. Len(W \o D) = l + p
    BY <1>8, <1>9, Joined DEF l
  <2>2. Len(W \o D) # 0
    BY <1>9, <2>1
  <2> QED
    BY <2>2, EmptySeq
<1>18. ParseFloat(t, p) = Some(<<IF g + 1 = 2 THEN -(10 * m) ELSE 10 * m>>)
  <2> DEFINE first == IF t[1] = MINUS THEN 2 ELSE 1
             whole == DigitsFrom(t, first)
             point == first + Len(whole)
             decimals == IF point <= Len(t) /\ t[point] = POINT
                         THEN DigitsFrom(t, point + 1) ELSE <<>>
             kept == [i \in 1..p + 1 |-> IF i <= Len(decimals) THEN decimals[i] ELSE 48]
             v == DigitsValue(whole \o kept)
  <2>1. ParseFloat(t, p) =
          IF whole \o decimals = <<>> THEN ParseError ELSE Some(<<IF first = 2 THEN -v ELSE v>>)
    BY DEF ParseFloat
  <2>2. first = g + 1
    BY <1>13
  <2>3. whole = W
    BY <1>14, <2>2
  <2> HIDE DEF first, whole
  <2>4. point = g + 1 + l
    BY <2>2, <2>3 DEF l
  <2>5. point <= Len(t) /\ t[point] = POINT
    <3>1. g + 1 + l = g + l + 1 /\ g + 1 + l <= Len(t)
      BY <1>2, <1>9, <1>11
    <3> QED
      BY <1>11, <2>4, <3>1
  <2> HIDE DEF point
  <2>6. decimals = D
    BY <1>15, <2>4, <2>5
  <2> HIDE DEF decimals
  <2>7. kept = Kept(D, p)
    BY <2>6, Zenon DEF Kept
  <2> HIDE DEF kept
  <2>8. v = 10 * m
    BY <1>16, <2>3, <2>7
  <2> HIDE DEF v
  <2> QED
    BY <1>17, <2>1, <2>2, <2>3, <2>6, <2>8
<1>19. (IF g + 1 = 2 THEN -(10 * m) ELSE 10 * m) = IF n < 0 THEN -(10 * m) ELSE 10 * m
  BY <1>2
<1> QED
  BY <1>1, <1>12, <1>18, <1>19 DEF m

\* The multiple of ten nearest to n.
LEMMA NearestTen ==
  ASSUME NEW n \in Int, n % 10 # 5
  PROVE  (CHOOSE x \in {10 * r : r \in (n \div 10)..(n \div 10) + 1} : Abs(x - n) < 5)
           = IF n < 0 THEN -(10 * Rounded(n)) ELSE 10 * Rounded(n)
<1> DEFINE d == n \div 10
           e == n % 10
           m == Rounded(n)
           y == IF n < 0 THEN -(10 * m) ELSE 10 * m
           S == {10 * r : r \in (n \div 10)..(n \div 10) + 1}
<1>1. d \in Int /\ e \in 0..9 /\ n = 10 * d + e /\ e # 5
  OBVIOUS
<1>2. m = IF n < 0 THEN (5 - n) \div 10 ELSE (n + 5) \div 10
  BY DEF Rounded, Abs
<1>3. m = IF n < 0 THEN -(IF e < 5 THEN d ELSE d + 1) ELSE (IF e < 5 THEN d ELSE d + 1)
  BY <1>1, <1>2
<1> HIDE DEF m
<1>4. y = 10 * (IF e < 5 THEN d ELSE d + 1)
  BY <1>1, <1>3
<1>5. y \in S
  <2>1. \E r \in d..d + 1 : y = 10 * r
    <3>1. d \in d..d + 1 /\ d + 1 \in d..d + 1
      BY <1>1
    <3> QED
      BY <1>4, <3>1
  <2> QED
    BY <2>1
<1>6. Abs(y - n) < 5
  <2>1. y \in Int
    BY <1>1, <1>4
  <2>2. y - n < 5 /\ -(y - n) < 5
    BY <1>1, <1>4
  <2> QED
    BY <2>1, <2>2 DEF Abs
<1>7. ASSUME NEW x \in S, Abs(x - n) < 5 PROVE x = y
  <2>1. PICK r \in d..d + 1 : x = 10 * r
    OBVIOUS
  <2>2. x - n < 5 /\ -(x - n) < 5
    BY <1>1, <1>7, <2>1 DEF Abs
  <2> HIDE DEF y, d, e
  <2> QED
    BY <1>1, <1>4, <2>1, <2>2
<1> HIDE DEF y, S
<1>8. (CHOOSE x \in S : Abs(x - n) < 5) = y
  BY <1>5, <1>6, <1>7
<1> QED
  BY <1>8, Zenon DEF y, S, m

\* Every field comes back out of the characters it was written with: a number with the decimals
\* that were written, an absent one absent.
LEMMA FieldBack ==
  ASSUME NEW field, NEW opt, opt = None \/ Shown(field, opt)
  PROVE  value(field, Format(field, opt)) = Conveyed(field, opt)
<1>1. CASE opt = None
  <2>1. opt.kind = "none"
    BY <1>1 DEF None
  <2>2. Format(field, opt) = <<>>
    BY <2>1 DEF Format
  <2>3. value(field, <<>>) = None
    BY DEF value
  <2>4. Conveyed(field, opt) = None
    BY <2>1 DEF Conveyed
  <2> QED
    BY <2>2, <2>3, <2>4
<1>2. CASE Shown(field, opt)
  <2> DEFINE v == opt.value
             n == v[1]
  <2>1. opt = Some(v) /\ opt.kind = "some"
    BY <1>2 DEF Shown, Some
  <2>2. field.type \in {"float", "int", "char", "text"}
    BY <1>2 DEF Shown
  <2>3. CASE field.type = "float"
    <3>1. /\ field.precision \in 1..9 /\ field.width \in 0..9 + field.precision
          /\ v = <<n>> /\ n \in Int /\ n % 10 # 5
          /\ Rounded(n) \div 10^field.precision < 10^9
      BY <1>2, <2>3 DEF Shown
    <3> DEFINE t == FormatFloat(n, field.precision, field.width)
               z == IF n < 0 THEN -(10 * Rounded(n)) ELSE 10 * Rounded(n)
    <3>2. Format(field, opt) = t
      BY <2>1, <2>3 DEF Format
    <3>3. t # <<>> /\ ParseFloat(t, field.precision) = Some(<<z>>)
      BY <3>1, FloatBack
    <3> HIDE DEF t
    <3>4. value(field, t) = Some(<<z>>)
      BY <2>3, <3>3 DEF value
    <3>5. v # <<>>
      BY <3>1
    <3>6. Conveyed(field, opt) = Some(<<z>>)
      <4>1. Conveyed(field, opt) =
              Some(<<CHOOSE x \in {10 * r : r \in (n \div 10)..(n \div 10) + 1} : Abs(x - n) < 5>>)
        BY <2>1, <2>3, <3>5 DEF Conveyed
      <4> QED
        BY <3>1, <4>1, NearestTen
    <3> QED
      BY <3>2, <3>4, <3>6
  <2>4. CASE field.type = "int"
    <3>1. field.width \in 0..9 /\ v = <<n>> /\ n \in Int /\ Abs(n) < 10^9
      BY <1>2, <2>4 DEF Shown
    <3> DEFINE t == FormatInt(n, field.width)
    <3>2. Format(field, opt) = t
      BY <2>1, <2>4 DEF Format
    <3>3. t # <<>> /\ ParseInt(t) = Some(<<n>>)
      BY <3>1, IntBack
    <3> HIDE DEF t
    <3>4. value(field, t) = opt
      BY <2>1, <2>4, <3>1, <3>3 DEF value
    <3>5. v # <<>>
      BY <3>1
    <3>6. Conveyed(field, opt) = opt
      BY <2>1, <2>4, <3>5 DEF Conveyed
    <3> QED
      BY <3>2, <3>4, <3>6
  <2>5. CASE field.type \in {"char", "text"}
    <3>1. v \in Seq(Plain) /\ (field.type = "char" => Len(v) = 1)
      BY <1>2, <2>5 DEF Shown
    <3>2. Format(field, opt) = v
      BY <2>1, <2>5 DEF Format
    <3>3. CASE v = <<>>
      <4>1. value(field, v) = None
        BY <3>3 DEF value
      <4>2. Conveyed(field, opt) = None
        BY <2>1, <2>5, <3>3 DEF Conveyed
      <4> QED
        BY <3>2, <4>1, <4>2
    <3>4. CASE v # <<>>
      <4>1. Conveyed(field, opt) = opt
        BY <2>1, <2>5, <3>4 DEF Conveyed
      <4>2. CASE field.type = "char"
        <5>1. v = <<v[1]>>
          BY <3>1, <4>2
        <5>2. value(field, v) = Some(<<v[1]>>)
          BY <3>4, <4>2 DEF value
        <5> QED
          BY <2>1, <3>2, <4>1, <5>1, <5>2
      <4>3. CASE field.type = "text"
        <5>1. value(field, v) = Some(v)
          BY <3>4, <4>3 DEF value
        <5> QED
          BY <2>1, <3>2, <4>1, <5>1
      <4> QED
        BY <2>5, <4>2, <4>3
    <3> QED
      BY <3>3, <3>4
  <2> QED
    BY <2>2, <2>3, <2>4, <2>5
<1> QED
  BY <1>1, <1>2

-------------------------------------------------------------------------------
(* Where everything is in a sentence *)

\* The texts stand one behind the other, a comma before each and none in them: behind o[n - 1]
\* characters of F are the comma and the characters of the n-th text.
Laid(F, txt, o, N) ==
  /\ o \in [0..N -> Nat] /\ o[0] = 0
  /\ F \in Seq(Octet) /\ Len(F) = o[N]
  /\ \A n \in 1..N : /\ txt[n] \in Seq(Plain) /\ o[n] = o[n - 1] + 1 + Len(txt[n])
                     /\ o[n] <= o[N]
                     /\ F[o[n - 1] + 1] = COMMA
                     /\ \A j \in 1..Len(txt[n]) : F[o[n - 1] + 1 + j] = txt[n][j]
  /\ \A i \in 1..o[N] : F[i] \in Plain \/ \E n \in 1..N : i = o[n - 1] + 1

\* So stand the texts of any fields.
LEMMA TextsLaid ==
  ASSUME NEW N \in Nat, NEW txt, \A n \in 1..N : txt[n] \in Seq(Plain)
  PROVE  \E o : Laid(FlattenSeq([n \in 1..N |-> <<COMMA>> \o txt[n]]), txt, o, N)
<1> DEFINE tokens == [n \in 1..N |-> <<COMMA>> \o txt[n]]
           F == FlattenSeq(tokens)
<1>1. Plain \subseteq Octet /\ COMMA \in Octet
  BY DEF Plain, Octet, COMMA
<1>2. ASSUME NEW n \in 1..N
      PROVE  /\ tokens[n] \in Seq(Octet) /\ Len(tokens[n]) = 1 + Len(txt[n])
             /\ tokens[n][1] = COMMA /\ Len(txt[n]) \in Nat
             /\ \A j \in 1..Len(txt[n]) : tokens[n][1 + j] = txt[n][j]
  <2> DEFINE a == <<COMMA>>
             b == txt[n]
             s == a \o b
  <2>1. a \in Seq(Octet) /\ b \in Seq(Octet) /\ Len(a) = 1 /\ a[1] = COMMA
    BY <1>1
  <2>2. tokens[n] = s
    OBVIOUS
  <2> HIDE DEF a, b, tokens
  <2>3. /\ s \in Seq(Octet) /\ Len(s) = Len(a) + Len(b)
        /\ \A i \in 1..Len(a) : s[i] = a[i]
        /\ \A i \in 1..Len(b) : s[Len(a) + i] = b[i]
    BY <2>1, Joined
  <2>4. Len(b) \in Nat
    BY <2>1, LenProperties
  <2> HIDE DEF s
  <2>5. /\ s \in Seq(Octet) /\ Len(s) = 1 + Len(b) /\ s[1] = COMMA
        /\ \A i \in 1..Len(b) : s[1 + i] = b[i]
    BY <2>1, <2>3
  <2> QED
    BY <2>2, <2>4, <2>5 DEF b
<1>3. tokens \in Seq(Seq(Octet)) /\ Len(tokens) = N
  <2>1. \A n \in 1..N : tokens[n] \in Seq(Octet)
    BY <1>2
  <2> QED
    BY <2>1
<1> HIDE DEF tokens
<1>4. PICK o \in [0..N -> Nat] :
        /\ o[0] = 0
        /\ \A n \in 1..N : o[n] = o[n - 1] + Len(tokens[n])
        /\ Len(F) = o[N]
        /\ \A n \in 1..N : o[n] <= o[N]
        /\ \A n \in 1..N : \A i \in 1..Len(tokens[n]) : F[o[n - 1] + i] = tokens[n][i]
  <2> HIDE DEF F
  <2>1. \E o \in [0..Len(tokens) -> Nat] :
          /\ o[0] = 0
          /\ \A n \in 1..Len(tokens) : o[n] = o[n - 1] + Len(tokens[n])
          /\ Len(F) = o[Len(tokens)]
          /\ \A n \in 1..Len(tokens) : o[n] <= o[Len(tokens)]
          /\ \A n \in 1..Len(tokens) : \A i \in 1..Len(tokens[n]) :
               F[o[n - 1] + i] = tokens[n][i]
    <3>1. \E p \in [0..Len(tokens) -> Nat] :
            /\ p[0] = 0
            /\ \A n \in 1..Len(tokens) : p[n] = p[n - 1] + Len(tokens[n])
            /\ Len(FlattenSeq(tokens)) = p[Len(tokens)]
            /\ \A n \in 1..Len(tokens) : p[n] <= p[Len(tokens)]
            /\ \A n \in 1..Len(tokens) : \A i \in 1..Len(tokens[n]) :
                 FlattenSeq(tokens)[p[n - 1] + i] = tokens[n][i]
      <4>1. tokens \in Seq(Seq(Octet))
        BY <1>3
      <4> QED
        BY <4>1, FlattenProperties, ZenonT(40)
    <3>2. F = FlattenSeq(tokens)
      BY DEF F
    <3> QED
      BY <3>1, <3>2, Zenon
  <2>2. Len(tokens) = N
    BY <1>3
  <2> QED
    BY <2>1, <2>2, Zenon
<1>5. F \in Seq(Octet)
  BY <1>3, FlattenProperties
<1> HIDE DEF F
<1>6. ASSUME NEW n \in 1..N
      PROVE  /\ o[n - 1] \in Nat /\ o[n] \in Nat /\ Len(txt[n]) \in Nat
             /\ o[n] = o[n - 1] + 1 + Len(txt[n])
             /\ F[o[n - 1] + 1] = COMMA
             /\ \A j \in 1..Len(txt[n]) : F[o[n - 1] + 1 + j] = txt[n][j]
  <2>1. n - 1 \in 0..N /\ n \in 0..N
    OBVIOUS
  <2>2. o[n - 1] \in Nat /\ o[n] \in Nat /\ Len(txt[n]) \in Nat
    BY <1>2, <1>4, <2>1
  <2>3. o[n] = o[n - 1] + 1 + Len(txt[n])
    BY <1>2, <1>4, <2>2
  <2>4. F[o[n - 1] + 1] = COMMA
    <3>1. 1 \in 1..Len(tokens[n])
      <4>1. Len(tokens[n]) = 1 + Len(txt[n]) /\ Len(txt[n]) \in Nat
        BY <1>2, Zenon
      <4> QED
        BY <4>1
    <3>2. F[o[n - 1] + 1] = tokens[n][1]
      BY <1>4, <3>1
    <3> QED
      BY <1>2, <3>2
  <2>5. ASSUME NEW j \in 1..Len(txt[n]) PROVE F[o[n - 1] + 1 + j] = txt[n][j]
    <3>1. 1 + j \in 1..Len(tokens[n]) /\ o[n - 1] + 1 + j = o[n - 1] + (1 + j)
      BY <1>2, <2>2
    <3>2. F[o[n - 1] + (1 + j)] = tokens[n][1 + j]
      BY <1>4, <3>1
    <3>3. tokens[n][1 + j] = txt[n][j]
      BY <1>2
    <3> QED
      BY <3>1, <3>2, <3>3
  <2> QED
    BY <2>2, <2>3, <2>4, <2>5
<1>7. ASSUME NEW i \in 1..o[N] PROVE F[i] \in Plain \/ \E n \in 1..N : i = o[n - 1] + 1
  <2> DEFINE T == {n \in 0..N : i <= o[n]}
  <2>1. T \in SUBSET Nat /\ N \in T
    <3>1. N \in 0..N /\ o[N] \in Nat
      BY <1>4
    <3> QED
      BY <3>1
  <2>2. PICK n \in T : \A m \in T : n <= m
    <3> HIDE DEF T
    <3> QED
      BY <2>1, LeastNatural
  <2>3. n # 0
    BY <1>4
  <2>4. n \in 1..N /\ n - 1 \in 0..N /\ ~(n <= n - 1)
    BY <2>3
  <2>5. ~(i <= o[n - 1]) /\ i <= o[n]
    BY <2>2, <2>4
  <2>6. /\ o[n - 1] \in Nat /\ o[n] \in Nat /\ Len(txt[n]) \in Nat
        /\ o[n] = o[n - 1] + 1 + Len(txt[n])
        /\ \A j \in 1..Len(txt[n]) : F[o[n - 1] + 1 + j] = txt[n][j]
    BY <1>6, <2>4
  <2>7. CASE i = o[n - 1] + 1
    BY <2>4, <2>7
  <2>8. CASE i # o[n - 1] + 1
    <3> DEFINE j == i - o[n - 1] - 1
    <3>1. j \in 1..Len(txt[n]) /\ o[n - 1] + 1 + j = i
      <4> DEFINE p == o[n - 1]
                 q == o[n]
                 l == Len(txt[n])
      <4>1. /\ p \in Nat /\ q \in Nat /\ l \in Nat /\ q = p + 1 + l
            /\ ~(i <= p) /\ i <= q /\ i # p + 1 /\ i \in Int
        BY <2>5, <2>6, <2>8
      <4> HIDE DEF p, q, l
      <4>2. i - p - 1 \in 1..l /\ p + 1 + (i - p - 1) = i
        BY <4>1
      <4> QED
        BY <4>2 DEF p, l
    <3> HIDE DEF j
    <3>2. F[i] = txt[n][j]
      BY <2>6, <3>1
    <3>3. txt[n][j] \in Plain
      BY <2>4, <3>1, ElementOfSeq
    <3> QED
      BY <3>2, <3>3
  <2> QED
    BY <2>7, <2>8
<1>8. Laid(F, txt, o, N)
  BY <1>4, <1>5, <1>6, <1>7 DEF Laid
<1> QED
  BY <1>8, Zenon DEF F, tokens

\* Where everything is in a sentence: behind the delimiter the talker and the type, then the
\* fields F, then the footer with the checksum of what is between delimiter and star.
Standing(w, x, F) ==
  LET e == 7 + Len(F)
  IN  /\ w \in Seq(Octet) /\ Len(w) = e + 4 /\ w[1] = DOLLAR
      /\ \A i \in 1..2 : w[1 + i] = x.talker[i]
      /\ \A i \in 1..3 : w[3 + i] = x.msg.id[i]
      /\ \A i \in 1..Len(F) : w[6 + i] = F[i]
      /\ w[e] = STAR /\ w[e + 1] \in HexDigit /\ w[e + 2] \in HexDigit
      /\ 16 * HexValue(w[e + 1]) + HexValue(w[e + 2]) = XorOf(SubSeq(w, 2, e - 1))
      /\ w[e + 3] = CR /\ w[e + 4] = LF

\* The fields of a sentence, each behind a comma.
Fields(x) ==
  FlattenSeq([k \in 1..Len(x.msg.fields) |->
               <<COMMA>> \o Format(x.msg.fields[k], Payload(x)[k])])

\* The body of the sentence, by positions.
LEMMA BodyStands ==
  ASSUME NEW x, x.talker \in Seq(Octet), x.msg.id \in Seq(Octet), Len(x.talker) = 2,
         Len(x.msg.id) = 3, NEW F \in Seq(Octet), F = Fields(x)
  PROVE  LET b == Body(x.talker, x.msg, Payload(x))
         IN  /\ b \in Seq(Octet) /\ Len(b) = 6 + Len(F) /\ b[1] = DOLLAR
             /\ \A i \in 1..2 : b[1 + i] = x.talker[i]
             /\ \A i \in 1..3 : b[3 + i] = x.msg.id[i]
             /\ \A i \in 1..Len(F) : b[6 + i] = F[i]
<1> DEFINE b == Body(x.talker, x.msg, Payload(x))
           d == <<DOLLAR>>
           t == x.talker
           m == x.msg.id
           a == t \o m
           r == a \o F
           l == Len(F)
<1>1. b = d \o r
  BY Zenon DEF Body, Fields
<1>2. /\ d \in Seq(Octet) /\ Len(d) = 1 /\ d[1] = DOLLAR /\ l \in Nat
      /\ t \in Seq(Octet) /\ Len(t) = 2 /\ m \in Seq(Octet) /\ Len(m) = 3
  BY LenProperties DEF DOLLAR, Octet
<1> HIDE DEF b, d, t, m, l
<1>3. /\ a \in Seq(Octet) /\ Len(a) = 5
      /\ \A i \in 1..2 : a[i] = t[i]
      /\ \A i \in 1..3 : a[2 + i] = m[i]
  <2>1. /\ a \in Seq(Octet) /\ Len(a) = Len(t) + Len(m)
        /\ \A i \in 1..Len(t) : a[i] = t[i]
        /\ \A i \in 1..Len(m) : a[Len(t) + i] = m[i]
    BY <1>2, Joined
  <2> QED
    BY <1>2, <2>1
<1> HIDE DEF a
<1>4. /\ r \in Seq(Octet) /\ Len(r) = 5 + l
      /\ \A i \in 1..5 : r[i] = a[i]
      /\ \A i \in 1..l : r[5 + i] = F[i]
  <2>1. /\ r \in Seq(Octet) /\ Len(r) = Len(a) + Len(F)
        /\ \A i \in 1..Len(a) : r[i] = a[i]
        /\ \A i \in 1..Len(F) : r[Len(a) + i] = F[i]
    BY <1>3, Joined
  <2> QED
    BY <1>3, <2>1 DEF l
<1> HIDE DEF r
<1>5. /\ b \in Seq(Octet) /\ Len(b) = 1 + (5 + l) /\ b[1] = DOLLAR
      /\ \A i \in 1..5 + l : b[1 + i] = r[i]
  <2>1. /\ b \in Seq(Octet) /\ Len(b) = Len(d) + Len(r)
        /\ \A i \in 1..Len(d) : b[i] = d[i]
        /\ \A i \in 1..Len(r) : b[Len(d) + i] = r[i]
    <3>1. d \in Seq(Octet) /\ r \in Seq(Octet)
      BY <1>2, <1>4
    <3>2. /\ d \o r \in Seq(Octet) /\ Len(d \o r) = Len(d) + Len(r)
          /\ \A i \in 1..Len(d) : (d \o r)[i] = d[i]
          /\ \A i \in 1..Len(r) : (d \o r)[Len(d) + i] = r[i]
      BY <3>1, Joined, Zenon
    <3> QED
      BY <1>1, <3>2, Zenon
  <2> QED
    BY <1>2, <1>4, <2>1
<1>6. Len(b) = 6 + l
  BY <1>2, <1>5
<1>7. \A i \in 1..2 : b[1 + i] = t[i]
  <2> SUFFICES ASSUME NEW i \in 1..2 PROVE b[1 + i] = t[i]
    OBVIOUS
  <2>1. i \in 1..5 + l /\ i \in 1..5
    BY <1>2
  <2> QED
    BY <1>3, <1>4, <1>5, <2>1
<1>8. \A i \in 1..3 : b[3 + i] = m[i]
  <2> SUFFICES ASSUME NEW i \in 1..3 PROVE b[3 + i] = m[i]
    OBVIOUS
  <2>1. 2 + i \in 1..5 + l /\ 2 + i \in 1..5 /\ 1 + (2 + i) = 3 + i
    BY <1>2
  <2>2. b[1 + (2 + i)] = r[2 + i] /\ r[2 + i] = a[2 + i] /\ a[2 + i] = m[i]
    BY <1>3, <1>4, <1>5, <2>1
  <2> QED
    BY <2>1, <2>2
<1>9. \A i \in 1..l : b[6 + i] = F[i]
  <2> SUFFICES ASSUME NEW i \in 1..l PROVE b[6 + i] = F[i]
    OBVIOUS
  <2>1. 5 + i \in 1..5 + l /\ 1 + (5 + i) = 6 + i
    BY <1>2
  <2>2. b[1 + (5 + i)] = r[5 + i] /\ r[5 + i] = F[i]
    BY <1>4, <1>5, <2>1
  <2> QED
    BY <2>1, <2>2
<1> QED
  BY <1>5, <1>6, <1>7, <1>8, <1>9 DEF b, t, m, l

\* The sentence, by positions.
LEMMA SentenceStands ==
  ASSUME NEW x, x.talker \in Seq(Octet), x.msg.id \in Seq(Octet), Len(x.talker) = 2,
         Len(x.msg.id) = 3, NEW F \in Seq(Octet), F = Fields(x)
  PROVE  Standing(Sentence(x.talker, x.msg, Payload(x)), x, F)
<1> DEFINE b == Body(x.talker, x.msg, Payload(x))
           f == Footer(b)
           w == Sentence(x.talker, x.msg, Payload(x))
           l == Len(F)
           n == 6 + l
           e == 7 + l
<1>1. w = b \o f
  BY DEF Sentence
<1>2. /\ b \in Seq(Octet) /\ Len(b) = n /\ b[1] = DOLLAR
      /\ \A i \in 1..2 : b[1 + i] = x.talker[i]
      /\ \A i \in 1..3 : b[3 + i] = x.msg.id[i]
      /\ \A i \in 1..l : b[6 + i] = F[i]
  BY BodyStands
<1> HIDE DEF b
<1>3. l \in Nat /\ b # <<>>
  <2>1. l \in Nat
    BY LenProperties
  <2>2. Len(b) # 0
    BY <1>2, <2>1
  <2> QED
    BY <2>1, <2>2, EmptySeq
<1>4. /\ f \in Seq(Octet) /\ Len(f) = 5 /\ f[1] = STAR /\ f[4] = CR /\ f[5] = LF
      /\ f[2] \in HexDigit /\ f[3] \in HexDigit
      /\ 16 * HexValue(f[2]) + HexValue(f[3]) = Checksum(b)
  BY <1>2, <1>3, FooterReads
<1> HIDE DEF f, w, l
<1>5. /\ w \in Seq(Octet) /\ Len(w) = n + 5
      /\ \A i \in 1..n : w[i] = b[i]
      /\ \A i \in 1..5 : w[n + i] = f[i]
  <2>1. /\ w \in Seq(Octet) /\ Len(w) = Len(b) + Len(f)
        /\ \A i \in 1..Len(b) : w[i] = b[i]
        /\ \A i \in 1..Len(f) : w[Len(b) + i] = f[i]
    <3>1. b \in Seq(Octet) /\ f \in Seq(Octet)
      BY <1>2, <1>4
    <3>2. /\ b \o f \in Seq(Octet) /\ Len(b \o f) = Len(b) + Len(f)
          /\ \A i \in 1..Len(b) : (b \o f)[i] = b[i]
          /\ \A i \in 1..Len(f) : (b \o f)[Len(b) + i] = f[i]
      BY <3>1, Joined, Zenon
    <3> QED
      BY <1>1, <3>2, Zenon
  <2> QED
    BY <1>2, <1>4, <2>1
<1>6. SubSeq(w, 2, e - 1) = Tail(b)
  <2>1. /\ 2 \in 1..Len(b) /\ Len(b) \in 1..Len(b) /\ e - 1 = Len(b)
    BY <1>2, <1>3
  <2>2. SubSeq(b \o f, 2, Len(b)) = SubSeq(b, 2, Len(b))
    <3>1. b \in Seq(Octet) /\ f \in Seq(Octet) /\ 2 \in 1..Len(b) /\ Len(b) \in 1..Len(b)
      BY <1>2, <1>4, <2>1, Zenon
    <3> QED
      BY <3>1, SubSeqOfConcat1, Zenon
  <2>3. Tail(b) = SubSeq(b, 2, Len(b))
    BY <1>2, <1>3, TailIsSubSeq
  <2> QED
    BY <1>1, <2>1, <2>2, <2>3
<1>7. /\ n + 1 = e /\ n + 2 = e + 1 /\ n + 3 = e + 2 /\ n + 4 = e + 3 /\ n + 5 = e + 4
      /\ n \in Nat /\ e \in Nat
  BY <1>3
<1>8. /\ w[e] = f[1] /\ w[e + 1] = f[2] /\ w[e + 2] = f[3] /\ w[e + 3] = f[4]
      /\ w[e + 4] = f[5] /\ Len(w) = e + 4
  <2>1. /\ w[n + 1] = f[1] /\ w[n + 2] = f[2] /\ w[n + 3] = f[3] /\ w[n + 4] = f[4]
        /\ w[n + 5] = f[5]
    BY <1>5
  <2> QED
    BY <1>5, <1>7, <2>1
<1>9. w[1] = DOLLAR /\ (\A i \in 1..2 : w[1 + i] = b[1 + i]) /\ (\A i \in 1..3 : w[3 + i] = b[3 + i])
  BY <1>2, <1>3, <1>5
<1>10. \A i \in 1..l : w[6 + i] = b[6 + i]
  BY <1>3, <1>5
<1>11. 16 * HexValue(w[e + 1]) + HexValue(w[e + 2]) = XorOf(SubSeq(w, 2, e - 1))
  BY <1>4, <1>6, <1>8, Zenon DEF Checksum
<1>12. w[e + 1] \in HexDigit /\ w[e + 2] \in HexDigit /\ w[e] = STAR /\ w[e + 3] = CR /\ w[e + 4] = LF
  BY <1>4, <1>8
<1>13. /\ \A i \in 1..2 : w[1 + i] = x.talker[i]
       /\ \A i \in 1..3 : w[3 + i] = x.msg.id[i]
       /\ \A i \in 1..l : w[6 + i] = F[i]
  BY <1>2, <1>9, <1>10
<1>14. Standing(w, x, F)
  BY <1>5, <1>8, <1>9, <1>11, <1>12, <1>13, Zenon DEF Standing, l
<1> QED
  BY <1>14 DEF w

-------------------------------------------------------------------------------
(* The framer at a sentence that nothing happened to *)

\* A sentence that the framer takes: its payload ends at e, and fits.  What ends it may be a
\* newline: the framer says so and reads on.
Framed(w, e) ==
  /\ w \in Seq(Octet) /\ e \in 2..RxSize + 2 /\ Len(w) = e + 4 /\ w[1] \in StartDelimiter
  /\ \A i \in 2..e - 1 : w[i] \notin {STAR, LF}
  /\ w[e] \in {STAR, LF} /\ w[e + 1] \in HexDigit /\ w[e + 2] \in HexDigit
  /\ 16 * HexValue(w[e + 1]) + HexValue(w[e + 2]) = XorOf(SubSeq(w, 2, e - 1))
  /\ w[e + 3] = CR /\ w[e + 4] = LF

\* t is the beginning of w.
Begins(t, w) == t \in Seq(Octet) /\ Len(t) <= Len(w) /\ \A i \in 1..Len(t) : t[i] = w[i]

\* The end of the payload is found as soon as it is there, and not before.
LEMMA EndOfBeginning ==
  ASSUME NEW w, NEW e, Framed(w, e), NEW t, Begins(t, w)
  PROVE  /\ Len(t) \in Nat
         /\ Len(t) < e => Receiver!PayloadEnds(t) = {}
         /\ Len(t) >= e => Receiver!PayloadEnds(t) # {} /\ Receiver!PayloadEnd(t) = e
<1> DEFINE n == Len(t)
           S == Receiver!PayloadEnds(t)
<1>1. n \in Nat /\ n <= e + 4 /\ (\A i \in 1..n : t[i] = w[i]) /\ t \in Seq(Octet)
  BY LenProperties DEF Begins, Framed
<1>2. e \in 2..RxSize + 2 /\ (\A i \in 2..e - 1 : w[i] \notin {STAR, LF}) /\ w[e] \in {STAR, LF}
  BY DEF Framed
<1>3. \A p : p \in S <=> p \in 2..n /\ (t[p] \in {STAR, LF} \/ p = RxSize + 2)
  BY DEF Receiver!PayloadEnds, Receiver!STAR, Receiver!LF, STAR, LF
<1>4. RxSize \in Nat
  BY SizeAssumption
<1> HIDE DEF n, S
<1>5. ASSUME NEW p \in S PROVE p \in 2..n /\ p >= e
  <2>1. p \in 2..n /\ (t[p] \in {STAR, LF} \/ p = RxSize + 2) /\ p \in 1..n
    BY <1>1, <1>3
  <2>2. t[p] = w[p]
    BY <1>1, <2>1
  <2>3. p \notin 2..e - 1
    BY <1>2, <1>4, <2>1, <2>2
  <2> QED
    BY <1>2, <2>1, <2>3
<1>6. ASSUME n < e PROVE S = {}
  BY <1>1, <1>2, <1>5, <1>6
<1>7. ASSUME n >= e PROVE e \in S
  <2>1. e \in 1..n /\ e \in 2..n
    BY <1>1, <1>2, <1>7
  <2>2. t[e] \in {STAR, LF}
    BY <1>1, <1>2, <2>1
  <2> QED
    BY <1>3, <2>1, <2>2
<1>8. ASSUME n >= e PROVE Receiver!PayloadEnd(t) = e
  <2> DEFINE d == Receiver!PayloadEnd(t)
  <2>1. Ended(t)
    BY <1>7, <1>8 DEF Ended, S
  <2>2. d \in S /\ d \in 2..Len(t) /\ \A p \in S : d <= p
    BY <1>1, <2>1, PayloadEndIs DEF S
  <2> HIDE DEF d
  <2>3. d >= e /\ d <= e
    BY <1>5, <1>7, <1>8, <2>2
  <2>4. d = e
    BY <1>1, <1>2, <2>2, <2>3
  <2> QED
    BY <2>4 DEF d
<1> QED
  BY <1>1, <1>6, <1>7, <1>8 DEF n, S

\* Before the last byte the framer returns no view and stays in the sentence.
LEMMA StaysIn ==
  ASSUME NEW w, NEW e, Framed(w, e), NEW t, Begins(t, w), Len(t) < e + 4
  PROVE  /\ ~Receiver!Over(t, Receiver!Verdict(t))
         /\ Receiver!Verdict(t).kind # "view"
<1>1. /\ Len(t) \in Nat
      /\ Len(t) < e => Receiver!PayloadEnds(t) = {}
      /\ Len(t) >= e => Receiver!PayloadEnds(t) # {} /\ Receiver!PayloadEnd(t) = e
  BY EndOfBeginning
<1>2. e \in Nat /\ w[e + 3] = CR /\ e + 3 \in Nat
  BY DEF Framed
<1>3. CASE Len(t) < e
  <2>1. Receiver!PayloadEnds(t) = {}
    BY <1>1, <1>3
  <2>2. Receiver!Verdict(t) = Receiver!Silence
    BY <2>1, Zenon DEF Receiver!Verdict
  <2> QED
    BY <2>2 DEF Receiver!Over, Receiver!Silence
<1>4. CASE Len(t) >= e
  <2> DEFINE ended == Receiver!PayloadEnds(t) # {}
             v == Receiver!Verdict(t)
  <2>1. Receiver!PayloadEnd(t) = e /\ Len(t) # e + 4 /\ ended
    BY <1>1, <1>2, <1>4
  <2>2. Len(t) = e + 3 => t[e + 3] = CR /\ Len(t) # e
    <3> SUFFICES ASSUME Len(t) = e + 3 PROVE t[e + 3] = CR /\ Len(t) # e
      OBVIOUS
    <3>1. e + 3 \in 1..Len(t) /\ Len(t) # e
      BY <1>2
    <3> QED
      BY <1>2, <3>1 DEF Begins
  <2>3. Receiver!CR = CR
    BY DEF Receiver!CR, CR
  <2>4. v.kind # "view"
    BY <2>1, <2>2, <2>3 DEF Receiver!Verdict, Receiver!Silence, Receiver!Error
  <2>5. Len(t) = e + 3 => v = Receiver!Silence
    BY <2>1, <2>2, <2>3, Zenon DEF Receiver!Verdict
  <2>6. ~(Len(t) >= e + 3) \/ Len(t) = e + 3
    <3>1. Len(t) <= e + 3
      BY <1>1, <1>2
    <3> QED
      BY <1>1, <1>2, <3>1
  <2> HIDE DEF v
  <2> QED
    BY <2>1, <2>4, <2>5, <2>6, Zenon DEF Receiver!Over, v
<1> QED
  BY <1>1, <1>2, <1>3, <1>4

\* The exclusive or and the digits that the framer speaks of are those of the serializer.
LEMMA SameXor == \A s : Receiver!XorOf(s) = XorOf(s)
BY Zenon DEF Receiver!XorOf, XorOf, Receiver!XorOctet, XorOctet, Receiver!BitOf, BitOf

\* Nor is there a second meaning of a digit.
LEMMA SameHex == Receiver!HexDigit = HexDigit /\ \A c : Receiver!HexValue(c) = HexValue(c)
BY Zenon DEF Receiver!HexDigit, HexDigit, Receiver!HexValue, HexValue

\* With the last byte it returns what stands in the sentence.
LEMMA ViewAtEnd ==
  ASSUME NEW w, NEW e, Framed(w, e)
  PROVE  /\ Receiver!PayloadEnd(w) = e
         /\ Receiver!Verdict(w) = [kind |-> "view", view |-> Receiver!View(w)]
         /\ Receiver!Over(w, Receiver!Verdict(w))
<1>1. /\ w \in Seq(Octet) /\ e \in Nat /\ Len(w) = e + 4 /\ w[e + 3] = CR /\ w[e + 4] = LF
      /\ w[e + 1] \in HexDigit /\ w[e + 2] \in HexDigit
      /\ 16 * HexValue(w[e + 1]) + HexValue(w[e + 2]) = XorOf(SubSeq(w, 2, e - 1))
  BY DEF Framed
<1>2. Begins(w, w)
  <2>1. Len(w) <= Len(w)
    BY <1>1
  <2> QED
    BY <1>1, <2>1 DEF Begins
<1>3. Receiver!PayloadEnds(w) # {} /\ Receiver!PayloadEnd(w) = e
  <2>1. Len(w) >= e
    BY <1>1
  <2> QED
    BY <1>2, <2>1, EndOfBeginning
<1>4. Receiver!ChecksumMatches(Receiver!Payload(w), w[e + 1], w[e + 2])
  BY <1>1, <1>3, SameXor, SameHex, Zenon
  DEF Receiver!ChecksumMatches, Receiver!Payload, Receiver!Checksum
<1>5. {w[e + 1], w[e + 2]} \subseteq Receiver!HexDigit
  BY <1>1, SameHex
<1>6. w[e + 4] = Receiver!LF /\ Len(w) # e /\ Len(w) # e + 3 /\ Len(w) = e + 4
  BY <1>1 DEF Receiver!LF, LF
<1>7. Receiver!Verdict(w) = [kind |-> "view", view |-> Receiver!View(w)]
  BY <1>3, <1>4, <1>5, <1>6, Zenon DEF Receiver!Verdict
<1>8. Receiver!Over(w, Receiver!Verdict(w))
  <2>1. Len(w) >= e + 3
    BY <1>1
  <2>2. [kind |-> "view", view |-> Receiver!View(w)] # Receiver!Silence
    <3> DEFINE v == Receiver!View(w)
    <3> HIDE DEF v
    <3>1. [kind |-> "view", view |-> v].kind # [kind |-> "none"].kind
      OBVIOUS
    <3> QED
      BY <3>1 DEF Receiver!Silence, v
  <2> QED
    BY <1>3, <1>7, <2>1, <2>2 DEF Receiver!Over
<1> QED
  BY <1>3, <1>7, <1>8

\* The characters of the fields.
Texts(x) == [k \in 1..Len(x.msg.fields) |-> Format(x.msg.fields[k], Payload(x)[k])]

\* What may be sent, as the proofs need it.
LEMMA Sendable ==
  ASSUME Receivable, scenario \in Scenario, NEW x \in Sends[scenario]
  PROVE  /\ x.talker \in Seq(Plain) /\ Len(x.talker) = 2
         /\ x.msg.id \in Seq(Plain) /\ Len(x.msg.id) = 3
         /\ x.talker \in Seq(Octet) /\ x.msg.id \in Seq(Octet)
         /\ Len(x.msg.fields) \in 0..32
         /\ \A k \in 1..Len(x.msg.fields) : Texts(x)[k] \in Seq(Plain)
         /\ \E o : Laid(Fields(x), Texts(x), o, Len(x.msg.fields))
<1> DEFINE N == Len(x.msg.fields)
<1>1. /\ x.talker \in Seq(Plain) /\ Len(x.talker) = 2
      /\ x.msg.id \in Seq(Plain) /\ Len(x.msg.id) = 3
      /\ N \in Nat /\ N <= 32
      /\ \A k \in 1..N : Payload(x)[k] = None \/ Shown(x.msg.fields[k], Payload(x)[k])
  BY SendAssumption DEF Receivable
<1>2. x.talker \in Seq(Octet) /\ x.msg.id \in Seq(Octet)
  BY <1>1 DEF Plain
<1>3. ASSUME NEW k \in 1..N
      PROVE  /\ Texts(x)[k] = Format(x.msg.fields[k], Payload(x)[k])
             /\ Texts(x)[k] \in Seq(Plain)
  <2>1. Texts(x)[k] = Format(x.msg.fields[k], Payload(x)[k])
    BY DEF Texts
  <2>2. Format(x.msg.fields[k], Payload(x)[k]) \in Seq(Plain)
    BY <1>1, FormatType
  <2> QED
    BY <2>1, <2>2
<1>4. Fields(x) = FlattenSeq([k \in 1..N |-> <<COMMA>> \o Texts(x)[k]])
  <2> DEFINE f == [k \in 1..N |-> <<COMMA>> \o Format(x.msg.fields[k], Payload(x)[k])]
             g == [k \in 1..N |-> <<COMMA>> \o Texts(x)[k]]
  <2>1. ASSUME NEW k \in 1..N
        PROVE  <<COMMA>> \o Format(x.msg.fields[k], Payload(x)[k]) = <<COMMA>> \o Texts(x)[k]
    BY <1>3, Zenon
  <2>2. f = g
    BY <2>1, Zenon
  <2>3. Fields(x) = FlattenSeq(f)
    BY Zenon DEF Fields
  <2> QED
    BY <2>2, <2>3, Zenon
<1>5. \E o : Laid(Fields(x), Texts(x), o, N)
  <2>1. \A k \in 1..N : Texts(x)[k] \in Seq(Plain)
    BY <1>3
  <2>2. \E o : Laid(FlattenSeq([k \in 1..N |-> <<COMMA>> \o Texts(x)[k]]), Texts(x), o, N)
    BY <1>1, <2>1, TextsLaid, Zenon
  <2> QED
    BY <1>4, <2>2, Zenon
<1>6. N \in 0..32
  <2> HIDE DEF N
  <2> QED
    BY <1>1
<1> QED
  BY <1>1, <1>2, <1>3, <1>5, <1>6

\* Between the delimiter and the star are the characters of talker, type and texts, and commas
\* before the texts.
LEMMA InSentence ==
  ASSUME NEW x, NEW w, NEW F, NEW txt, NEW o, NEW N \in Nat,
         x.talker \in Seq(Plain), Len(x.talker) = 2, x.msg.id \in Seq(Plain),
         Len(x.msg.id) = 3, Standing(w, x, F), Laid(F, txt, o, N)
  PROVE  \A i \in 2..6 + o[N] : w[i] \in Plain \/ \E k \in 1..N : i = 7 + o[k - 1]
<1> SUFFICES ASSUME NEW i \in 2..6 + o[N]
             PROVE  w[i] \in Plain \/ \E k \in 1..N : i = 7 + o[k - 1]
  OBVIOUS
<1>1. /\ \A j \in 1..2 : w[1 + j] = x.talker[j]
      /\ \A j \in 1..3 : w[3 + j] = x.msg.id[j]
      /\ \A j \in 1..Len(F) : w[6 + j] = F[j]
  BY DEF Standing
<1>2. /\ o \in [0..N -> Nat] /\ Len(F) = o[N] /\ o[N] \in Nat
      /\ \A j \in 1..o[N] : F[j] \in Plain \/ \E n \in 1..N : j = o[n - 1] + 1
  BY DEF Laid
<1>3. CASE i \in 2..3
  <2>1. i - 1 \in 1..2 /\ 1 + (i - 1) = i
    BY <1>3
  <2>2. w[1 + (i - 1)] = x.talker[i - 1] /\ x.talker[i - 1] \in Plain
    BY <1>1, <2>1, ElementOfSeq
  <2> QED
    BY <2>1, <2>2
<1>4. CASE i \in 4..6
  <2>1. i - 3 \in 1..3 /\ 3 + (i - 3) = i
    BY <1>4
  <2>2. w[3 + (i - 3)] = x.msg.id[i - 3] /\ x.msg.id[i - 3] \in Plain
    BY <1>1, <2>1, ElementOfSeq
  <2> QED
    BY <2>1, <2>2
<1>5. CASE i > 6
  <2>1. i - 6 \in 1..o[N] /\ 6 + (i - 6) = i
    BY <1>2, <1>5
  <2>2. w[6 + (i - 6)] = F[i - 6]
    BY <1>1, <1>2, <2>1
  <2>3. CASE F[i - 6] \in Plain
    BY <2>1, <2>2, <2>3
  <2>4. ASSUME NEW n \in 1..N, i - 6 = o[n - 1] + 1 PROVE i = 7 + o[n - 1]
    <3>1. o[n - 1] \in Nat
      BY <1>2
    <3> QED
      BY <2>4, <3>1
  <2> QED
    BY <1>2, <2>1, <2>3, <2>4
<1> QED
  BY <1>3, <1>4, <1>5

\* The separators of a sentence up to its star are the commas and the star.
LEMMA SentenceCuts ==
  ASSUME NEW x, NEW w, NEW F, NEW txt, NEW o, NEW N \in Nat,
         x.talker \in Seq(Plain), Len(x.talker) = 2, x.msg.id \in Seq(Plain),
         Len(x.msg.id) = 3, Standing(w, x, F), Laid(F, txt, o, N)
  PROVE  CutsOf(SubSeq(w, 1, 7 + o[N])) = [k \in 1..N + 1 |-> 7 + o[k - 1]]
<1> DEFINE e == 7 + o[N]
           t == SubSeq(w, 1, e)
           c == [k \in 1..N + 1 |-> 7 + o[k - 1]]
<1>1. /\ w \in Seq(Octet) /\ Len(w) = 7 + Len(F) + 4 /\ w[7 + Len(F)] = STAR
      /\ \A j \in 1..Len(F) : w[6 + j] = F[j]
  BY DEF Standing
<1>2. /\ o \in [0..N -> Nat] /\ Len(F) = o[N] /\ o[N] \in Nat /\ o[0] = 0
      /\ \A n \in 1..N : /\ txt[n] \in Seq(Plain) /\ o[n] = o[n - 1] + 1 + Len(txt[n])
                         /\ o[n] <= o[N] /\ F[o[n - 1] + 1] = COMMA
  BY DEF Laid
<1>3. e \in Nat /\ e >= 7 /\ Len(w) = e + 4 /\ w[e] = STAR
  BY <1>1, <1>2
<1>4. \A i \in 2..6 + o[N] : w[i] \in Plain \/ \E k \in 1..N : i = 7 + o[k - 1]
  BY InSentence
<1>5. /\ t \in Seq(Octet) /\ Len(t) = e /\ \A i \in 1..e : t[i] = w[i]
  <2>1. \A i \in 1..e : w[i] \in Octet
    BY <1>1, <1>3, ElementOfSeq
  <2> HIDE DEF e
  <2>2. /\ t \in Seq(Octet) /\ Len(t) = IF 1 <= e THEN e - 1 + 1 ELSE 0
        /\ \A i \in 1..e - 1 + 1 : t[i] = w[1 + i - 1]
    BY <1>3, <2>1, SubSeqProperties
  <2> HIDE DEF t
  <2> QED
    BY <1>3, <2>2
<1>6. ASSUME NEW k \in 1..N + 1 PROVE 7 + o[k - 1] \in Nat
  BY <1>2
<1>7. /\ c \in Seq(Nat) /\ Len(c) = N + 1 /\ \A k \in 1..N + 1 : c[k] = 7 + o[k - 1]
  <2>1. N + 1 \in Nat
    OBVIOUS
  <2> QED
    BY <1>6, <2>1
<1> HIDE DEF c, t
<1>8. ASSUME NEW k \in 1..N
      PROVE  /\ o[k - 1] \in Nat /\ o[k] \in Nat /\ o[k - 1] < o[k] /\ o[k] <= o[N]
             /\ c[k] \in 1..e /\ t[c[k]] = COMMA /\ c[k] < c[k + 1]
  <2>1. k - 1 \in 0..N /\ k \in 0..N /\ k \in 1..N + 1 /\ k + 1 \in 1..N + 1 /\ (k + 1) - 1 = k
    OBVIOUS
  <2>2. /\ o[k - 1] \in Nat /\ o[k] \in Nat /\ Len(txt[k]) \in Nat
        /\ o[k] = o[k - 1] + 1 + Len(txt[k]) /\ o[k] <= o[N] /\ F[o[k - 1] + 1] = COMMA
    BY <1>2, <2>1, LenProperties
  <2>3. o[k - 1] < o[k]
    BY <2>2
  <2>4. c[k] = 7 + o[k - 1] /\ c[k + 1] = 7 + o[k]
    BY <1>7, <2>1
  <2>5. o[k - 1] + 1 \in 1..Len(F) /\ 6 + (o[k - 1] + 1) = c[k] /\ c[k] \in 1..e
    <3> DEFINE p == o[k - 1]
               r == o[N]
    <3>1. p \in Nat /\ r \in Nat /\ p < r /\ Len(F) = r /\ c[k] = 7 + p
      BY <1>2, <2>2, <2>3, <2>4
    <3> HIDE DEF p, r
    <3>2. p + 1 \in 1..Len(F) /\ 6 + (p + 1) = c[k] /\ c[k] \in 1..7 + r
      BY <3>1
    <3> QED
      BY <3>2 DEF p, r
  <2>6. w[6 + (o[k - 1] + 1)] = COMMA
    BY <1>1, <2>2, <2>5
  <2>7. t[c[k]] = COMMA
    BY <1>5, <2>5, <2>6
  <2>8. c[k] < c[k + 1]
    BY <2>2, <2>3, <2>4
  <2> QED
    BY <2>2, <2>3, <2>5, <2>7, <2>8, Zenon
<1>9. c[N + 1] = e /\ t[e] = STAR
  <2>1. N + 1 \in 1..N + 1 /\ (N + 1) - 1 = N /\ e \in 1..e
    BY <1>3
  <2>2. t[e] = w[e]
    BY <1>5, <2>1
  <2> QED
    BY <1>3, <1>7, <2>1, <2>2
<1>10. ASSUME NEW k \in 1..Len(c) PROVE c[k] \in 1..Len(t) /\ t[c[k]] \in Separator
  <2>1. CASE k \in 1..N
    BY <1>5, <1>8, <2>1 DEF Separator
  <2>2. CASE k = N + 1
    <3>1. e \in 1..e
      BY <1>3
    <3> QED
      BY <1>5, <1>9, <2>2, <3>1 DEF Separator
  <2> QED
    BY <1>7, <2>1, <2>2
<1>11. \A k \in 1..Len(c) - 1 : c[k] < c[k + 1]
  BY <1>7, <1>8
<1>12. ASSUME NEW i \in 1..Len(t), t[i] \in Separator PROVE \E k \in 1..Len(c) : i = c[k]
  <2>1. t[i] = w[i] /\ i \in 1..e
    BY <1>5
  <2>2. t[i] \notin Plain
    BY <1>12 DEF Separator, Plain
  <2>3. CASE i = e
    <3>1. N + 1 \in 1..Len(c)
      BY <1>7
    <3> QED
      BY <1>9, <2>3, <3>1
  <2>4. CASE i = 1
    <3>1. w[1] = DOLLAR
      BY DEF Standing
    <3> QED
      BY <1>12, <2>1, <2>4, <3>1 DEF Separator, DOLLAR, COMMA, STAR, LF
  <2>5. CASE i # e /\ i # 1
    <3>1. i \in 2..6 + o[N]
      BY <1>2, <2>1, <2>5
    <3>2. PICK k \in 1..N : i = 7 + o[k - 1]
      BY <1>4, <2>1, <2>2, <3>1
    <3>3. k \in 1..Len(c) /\ c[k] = i
      BY <1>7, <3>2
    <3> QED
      BY <3>3
  <2> QED
    BY <2>3, <2>4, <2>5
<1>13. Cut(t, c)
  BY <1>5, <1>7, <1>10, <1>11, <1>12 DEF Cut
<1>14. CutsOf(t) = c
  BY <1>13, CutsAre
<1> QED
  BY <1>14 DEF t, c

\* The separators that the framer looks for are those of this module.
LEMMA SameCuts == \A s : Receiver!Cuts(s) = CutsOf(s)
BY Zenon DEF Receiver!Cuts, CutsOf, Separator, Receiver!COMMA, COMMA, Receiver!STAR, STAR,
             Receiver!LF, LF

\* What stands between the separators of a sentence: the address, and the texts.
LEMMA SentenceTokens ==
  ASSUME NEW x, NEW w, NEW F, NEW txt, NEW o, NEW N \in Nat,
         x.talker \in Seq(Plain), Len(x.talker) = 2, x.msg.id \in Seq(Plain),
         Len(x.msg.id) = 3, Standing(w, x, F), Laid(F, txt, o, N),
         Receiver!PayloadEnd(w) = 7 + o[N]
  PROVE  Receiver!Tokens(w) =
           [k \in 1..N + 1 |-> IF k = 1 THEN SubSeq(w, 2, 6) ELSE txt[k - 1]]
<1> DEFINE e == 7 + o[N]
           c == [k \in 1..N + 1 |-> 7 + o[k - 1]]
           first(k) == IF k = 1 THEN 2 ELSE c[k - 1] + 1
           f == [k \in 1..N + 1 |-> SubSeq(w, first(k), c[k] - 1)]
           g == [k \in 1..N + 1 |-> IF k = 1 THEN SubSeq(w, 2, 6) ELSE txt[k - 1]]
<1>1. /\ o \in [0..N -> Nat] /\ Len(F) = o[N] /\ o[N] \in Nat /\ o[0] = 0
      /\ \A n \in 1..N : /\ txt[n] \in Seq(Plain) /\ o[n] = o[n - 1] + 1 + Len(txt[n])
                         /\ o[n] <= o[N]
                         /\ \A j \in 1..Len(txt[n]) : F[o[n - 1] + 1 + j] = txt[n][j]
  <2>1. /\ o \in [0..N -> Nat] /\ Len(F) = o[N] /\ o[0] = 0
        /\ \A n \in 1..N : /\ txt[n] \in Seq(Plain) /\ o[n] = o[n - 1] + 1 + Len(txt[n])
                           /\ o[n] <= o[N]
                           /\ \A j \in 1..Len(txt[n]) : F[o[n - 1] + 1 + j] = txt[n][j]
    BY Zenon DEF Laid
  <2>2. o[N] \in Nat
    BY <2>1
  <2> QED
    BY <2>1, <2>2, Zenon
<1>2. /\ w \in Seq(Octet) /\ Len(w) = 7 + o[N] + 4
      /\ \A j \in 1..o[N] : w[6 + j] = F[j]
  BY <1>1 DEF Standing
<1>3. Receiver!Cuts(SubSeq(w, 1, e)) = c
  BY SameCuts, SentenceCuts
<1>4. c \in Seq(Nat) /\ Len(c) = N + 1 /\ \A k \in 1..N + 1 : c[k] = 7 + o[k - 1]
  <2>1. ASSUME NEW k \in 1..N + 1 PROVE 7 + o[k - 1] \in Nat
    BY <1>1
  <2>2. N + 1 \in Nat
    OBVIOUS
  <2> QED
    BY <2>1, <2>2
<1> HIDE DEF c
<1>5. Receiver!Tokens(w) = f
  <2> DEFINE h(s, n) == [k \in 1..n |-> SubSeq(w, IF k = 1 THEN 2 ELSE s[k - 1] + 1, s[k] - 1)]
  <2>1. Receiver!Tokens(w) = h(Receiver!Cuts(SubSeq(w, 1, e)), Len(Receiver!Cuts(SubSeq(w, 1, e))))
    BY Zenon DEF Receiver!Tokens
  <2>2. h(c, N + 1) = f
    OBVIOUS
  <2> HIDE DEF h, f
  <2> QED
    BY <1>3, <1>4, <2>1, <2>2, Zenon
<1>6. ASSUME NEW k \in 1..N + 1
      PROVE  SubSeq(w, first(k), c[k] - 1) = IF k = 1 THEN SubSeq(w, 2, 6) ELSE txt[k - 1]
  <2>1. CASE k = 1
    <3>1. c[1] - 1 = 6
      BY <1>1, <1>4
    <3> QED
      BY <2>1, <3>1
  <2>2. CASE k # 1
    <3> DEFINE n == k - 1
               p == o[n - 1]
               q == o[n]
               l == Len(txt[n])
               r == SubSeq(w, first(k), c[k] - 1)
    <3>1. n \in 1..N /\ n \in 1..N + 1 /\ n - 1 \in 0..N /\ n \in 0..N /\ k = n + 1
      BY <2>2
    <3>2. /\ p \in Nat /\ q \in Nat /\ l \in Nat /\ q = p + 1 + l /\ q <= o[N]
          /\ txt[n] \in Seq(Plain) /\ \A j \in 1..l : F[p + 1 + j] = txt[n][j]
      BY <1>1, <3>1, LenProperties
    <3>3. c[n] = 7 + p /\ c[k] = 7 + q
      BY <1>4, <3>1
    <3>4. first(k) = 8 + p /\ c[k] - 1 = 6 + q
      <4>1. first(k) = c[n] + 1
        BY <2>2
      <4>2. p \in Nat /\ q \in Nat /\ c[n] = 7 + p /\ c[k] = 7 + q
        BY <3>2, <3>3
      <4> HIDE DEF p, q, n, first
      <4>3. c[n] + 1 = 8 + p
        BY <4>2
      <4>4. c[k] - 1 = 6 + q
        BY <4>2
      <4> QED
        BY <4>1, <4>3, <4>4, Zenon
    <3> HIDE DEF p, q, l, r, n
    <3>5. r = SubSeq(w, 8 + p, 6 + q)
      BY <3>4 DEF r
    <3>6. /\ 8 + p \in 1..Len(w) /\ 6 + q \in (8 + p) - 1..Len(w) /\ (6 + q) - (8 + p) + 1 = l
          /\ Len(w) \in Nat
      BY <1>1, <1>2, <3>2
    <3>7. /\ r \in Seq(Octet) /\ Len(r) = l
          /\ \A j \in 1..l : r[j] = w[(8 + p) - 1 + j]
      <4> DEFINE a == 8 + p
                 b == 6 + q
                 s == SubSeq(w, a, b)
      <4>1. a \in 1..Len(w) /\ b \in a - 1..Len(w) /\ b - a + 1 = l
        BY <3>6
      <4> HIDE DEF a, b
      <4>2. /\ s \in Seq(Octet) /\ Len(s) = b - a + 1
            /\ \A j \in 1..b - a + 1 : s[j] = w[a - 1 + j]
        BY <1>2, <4>1, Part
      <4>3. r = s
        BY <3>5 DEF a, b
      <4> HIDE DEF s
      <4>4. r \in Seq(Octet) /\ Len(r) = l /\ \A j \in 1..l : r[j] = w[a - 1 + j]
        BY <4>1, <4>2, <4>3
      <4> QED
        BY <4>4 DEF a
    <3>8. ASSUME NEW j \in 1..l PROVE r[j] = txt[n][j]
      <4>1. /\ (8 + p) - 1 + j = 6 + (p + 1 + j) /\ p + 1 + j \in 1..o[N]
        BY <1>1, <3>2
      <4>2. w[6 + (p + 1 + j)] = F[p + 1 + j]
        BY <1>2, <4>1
      <4> QED
        BY <3>2, <3>7, <4>1, <4>2
    <3>9. txt[n] \in Seq(Octet) /\ Len(txt[n]) = l
      BY <3>2 DEF Plain, l
    <3>10. r = txt[n]
      BY <3>7, <3>8, <3>9, SeqEqual
    <3> QED
      BY <2>2, <3>10 DEF r, n
  <2> QED
    BY <2>1, <2>2
<1>7. f = g
  BY <1>6, Zenon
<1> QED
  BY <1>5, <1>7, Zenon

\* The framer's view of a sentence is what was put into it.
LEMMA SentenceView ==
  ASSUME NEW x, NEW w, NEW F, NEW txt, NEW o, NEW N \in Nat, N <= 32,
         x.talker \in Seq(Plain), Len(x.talker) = 2, x.msg.id \in Seq(Plain),
         Len(x.msg.id) = 3, Standing(w, x, F), Laid(F, txt, o, N),
         DOMAIN txt = 1..N, txt = [k \in 1..N |-> txt[k]],
         Receiver!PayloadEnd(w) = 7 + o[N]
  PROVE  Receiver!View(w) = [talker_id |-> x.talker, message_type |-> x.msg.id, fields |-> txt]
<1> DEFINE T == [k \in 1..N + 1 |-> IF k = 1 THEN SubSeq(w, 2, 6) ELSE txt[k - 1]]
           A == SubSeq(w, 2, 6)
           R == Tail(T)
<1>0. N \in Nat /\ N <= 32
  OBVIOUS
<1>1. Receiver!Tokens(w) = T
  BY <1>0, SentenceTokens
<1>2. /\ w \in Seq(Octet) /\ Len(w) = 7 + Len(F) + 4 /\ Len(F) \in Nat
      /\ \A j \in 1..2 : w[1 + j] = x.talker[j]
      /\ \A j \in 1..3 : w[3 + j] = x.msg.id[j]
  <2>1. Len(F) \in Nat
    BY LenProperties DEF Laid
  <2> QED
    BY <2>1 DEF Standing
<1>3. A \in Seq(Octet) /\ Len(A) = 5 /\ \A j \in 1..5 : A[j] = w[1 + j]
  <2>1. 2 \in 1..Len(w) /\ 6 \in 2 - 1..Len(w)
    BY <1>2
  <2>2. /\ A \in Seq(Octet) /\ Len(A) = 6 - 2 + 1
        /\ \A j \in 1..6 - 2 + 1 : A[j] = w[2 - 1 + j]
    BY <1>2, <2>1, Part
  <2> HIDE DEF A
  <2> QED
    BY <2>2
<1>4. \A k \in 1..N : txt[k] \in Seq(Octet)
  BY DEF Laid, Plain
<1>5. T \in Seq(Seq(Octet)) /\ Len(T) = N + 1 /\ T[1] = A /\ \A k \in 1..N : T[k + 1] = txt[k]
  <2>1. ASSUME NEW k \in 1..N + 1
        PROVE  (IF k = 1 THEN SubSeq(w, 2, 6) ELSE txt[k - 1]) \in Seq(Octet)
    <3>1. CASE k = 1
      BY <1>3, <3>1
    <3>2. CASE k # 1
      <4>1. k - 1 \in 1..N
        BY <1>0, <3>2
      <4> QED
        BY <1>4, <3>2, <4>1
    <3> QED
      BY <3>1, <3>2
  <2>2. N + 1 \in Nat /\ 1 \in 1..N + 1
    BY <1>0
  <2>3. T \in Seq(Seq(Octet)) /\ Len(T) = N + 1
    <3> DEFINE B(k) == IF k = 1 THEN SubSeq(w, 2, 6) ELSE txt[k - 1]
    <3>1. T = [k \in 1..N + 1 |-> B(k)]
      OBVIOUS
    <3>2. \A k \in 1..N + 1 : B(k) \in Seq(Octet)
      BY <2>1
    <3> HIDE DEF B
    <3>3. T \in [1..N + 1 -> Seq(Octet)]
      BY <3>1, <3>2, Zenon
    <3> HIDE DEF T
    <3> QED
      BY <2>2, <3>3
  <2>4. T[1] = A
    BY <2>2
  <2>5. ASSUME NEW k \in 1..N PROVE T[k + 1] = txt[k]
    <3>1. k + 1 \in 1..N + 1 /\ k + 1 # 1 /\ (k + 1) - 1 = k
      BY <1>0
    <3> QED
      BY <3>1
  <2> QED
    BY <2>3, <2>4, <2>5
<1> HIDE DEF A, T
<1>6. T # <<>> /\ Head(T) = A
  <2>1. Len(T) # 0
    BY <1>0, <1>5
  <2>2. T # <<>>
    BY <2>1, EmptySeq
  <2> QED
    BY <1>5, <2>2
<1>7. /\ R \in Seq(Seq(Octet)) /\ Len(R) = N /\ \A k \in 1..N : R[k] = txt[k]
  <2>1. /\ R \in Seq(Seq(Octet)) /\ Len(R) = Len(T) - 1
        /\ \A k \in 1..Len(R) : R[k] = T[k + 1]
    BY <1>5, <1>6, HeadTailProperties
  <2> HIDE DEF R
  <2>2. Len(R) = N
    BY <1>0, <1>5, <2>1
  <2> QED
    BY <1>5, <2>1, <2>2
<1> HIDE DEF R
<1>8. R = txt
  <2>1. R = [k \in 1..N |-> R[k]]
    BY <1>7, LenProperties
  <2> QED
    BY <1>7, <2>1, Zenon
<1>9. SubSeq(R, 1, Receiver!Min({32, Len(R)})) = R
  <2>1. Receiver!Min({32, N}) = N
    BY <1>0 DEF Receiver!Min
  <2>2. SubSeq(R, 1, Len(R)) = R
    BY <1>7, SubSeqFull
  <2> QED
    BY <1>7, <2>1, <2>2
<1>10. SubSeq(A, 1, 2) = x.talker
  <2> DEFINE t == x.talker
  <2>1. t \in Seq(Octet) /\ Len(t) = 2
    BY DEF Plain
  <2>2. \A j \in 1..2 : A[j] = t[j]
    BY <1>2, <1>3
  <2> HIDE DEF t
  <2>3. \A j \in 1..Len(t) : A[1 - 1 + j] = t[j]
    BY <2>1, <2>2
  <2>4. 1 - 1 + Len(t) = 2 /\ 2 <= Len(A) /\ 1 <= Len(A) /\ 1 \in Nat \ {0} /\ 2 \in Nat
    BY <1>3, <2>1
  <2> QED
    BY <1>3, <2>1, <2>3, <2>4, PartIs DEF t
<1>11. SubSeq(A, 3, 5) = x.msg.id
  <2> DEFINE t == x.msg.id
  <2>1. t \in Seq(Octet) /\ Len(t) = 3
    BY DEF Plain
  <2>2. ASSUME NEW j \in 1..3 PROVE A[2 + j] = t[j]
    <3>1. 2 + j \in 1..5 /\ 1 + (2 + j) = 3 + j
      OBVIOUS
    <3>2. A[2 + j] = w[1 + (2 + j)]
      BY <1>3, <3>1
    <3> QED
      BY <1>2, <3>1, <3>2
  <2> HIDE DEF t
  <2>3. \A j \in 1..Len(t) : A[3 - 1 + j] = t[j]
    BY <2>1, <2>2
  <2>4. 3 - 1 + Len(t) = 5 /\ 5 <= Len(A) /\ 3 <= Len(A) /\ 3 \in Nat \ {0} /\ 5 \in Nat
    BY <1>3, <2>1
  <2> QED
    BY <1>3, <2>1, <2>3, <2>4, PartIs DEF t
<1>12. Len(A) >= 2 + 3 /\ 2 + 1 = 3 /\ 2 + 3 = 5
  BY <1>3
<1>13. Receiver!View(w) =
         [talker_id |-> SubSeq(A, 1, 2), message_type |-> SubSeq(A, 2 + 1, 2 + 3),
          fields |-> SubSeq(R, 1, Receiver!Min({32, Len(R)}))]
  BY <1>1, <1>6, <1>12, Zenon DEF Receiver!View, R
<1> QED
  BY <1>8, <1>9, <1>10, <1>11, <1>12, <1>13, Zenon

\* A sentence is framed where its star is, and has nothing but characters without a meaning and
\* commas before it.
LEMMA SentenceFramed ==
  ASSUME NEW x, NEW w, NEW F, NEW txt, NEW o, NEW N \in Nat,
         x.talker \in Seq(Plain), Len(x.talker) = 2, x.msg.id \in Seq(Plain),
         Len(x.msg.id) = 3, Standing(w, x, F), Laid(F, txt, o, N), 6 + o[N] <= RxSize + 1
  PROVE  /\ Framed(w, 7 + o[N]) /\ w[7 + o[N]] = STAR
         /\ \A i \in 2..6 + o[N] : w[i] \in Plain \union {COMMA}
<1> DEFINE e == 7 + o[N]
<1>1. /\ w \in Seq(Octet) /\ Len(w) = e + 4 /\ w[1] = DOLLAR
      /\ w[e] = STAR /\ w[e + 1] \in HexDigit /\ w[e + 2] \in HexDigit
      /\ 16 * HexValue(w[e + 1]) + HexValue(w[e + 2]) = XorOf(SubSeq(w, 2, e - 1))
      /\ w[e + 3] = CR /\ w[e + 4] = LF
  BY Zenon DEF Standing, Laid
<1>2. /\ o[N] \in Nat /\ \A n \in 1..N : o[n - 1] \in Nat /\ o[n - 1] + 1 <= Len(F) /\
        F[o[n - 1] + 1] = COMMA
      /\ Len(F) = o[N]
  <2>1. /\ o \in [0..N -> Nat] /\ Len(F) = o[N]
        /\ \A n \in 1..N : /\ txt[n] \in Seq(Plain) /\ o[n] = o[n - 1] + 1 + Len(txt[n])
                           /\ o[n] <= o[N] /\ F[o[n - 1] + 1] = COMMA
    BY DEF Laid
  <2>2. o[N] \in Nat
    BY <2>1
  <2>3. ASSUME NEW n \in 1..N PROVE o[n - 1] \in Nat /\ o[n - 1] + 1 <= o[N]
    <3> DEFINE p == o[n - 1]
               q == o[n]
               l == Len(txt[n])
    <3>1. n - 1 \in 0..N /\ n \in 0..N
      OBVIOUS
    <3>2. p \in Nat /\ q \in Nat /\ l \in Nat /\ q = p + 1 + l /\ q <= o[N]
      BY <2>1, <3>1, LenProperties
    <3> HIDE DEF p, q, l
    <3>3. p + 1 <= o[N]
      BY <2>2, <3>2
    <3> QED
      BY <3>2, <3>3 DEF p
  <2> QED
    BY <2>1, <2>2, <2>3
<1>3. RxSize \in Nat /\ e \in 2..RxSize + 2 /\ e \in Nat
  BY <1>2, SizeAssumption
<1>4. ASSUME NEW i \in 2..6 + o[N] PROVE w[i] \in Plain \union {COMMA}
  <2>2. w[i] \in Plain \/ \E k \in 1..N : i = 7 + o[k - 1]
    BY InSentence
  <2>4. ASSUME NEW k \in 1..N, i = 7 + o[k - 1] PROVE w[i] = COMMA
    <3>1. /\ o[k - 1] + 1 \in 1..Len(F) /\ 6 + (o[k - 1] + 1) = i
          /\ F[o[k - 1] + 1] = COMMA
      <4> DEFINE p == o[k - 1]
                 l == Len(F)
      <4>1. p \in Nat /\ l \in Nat /\ p + 1 <= l /\ F[p + 1] = COMMA /\ i = 7 + p
        BY <1>2, <2>4, Zenon
      <4> HIDE DEF p, l
      <4>2. p + 1 \in 1..l /\ 6 + (p + 1) = i
        BY <4>1
      <4> QED
        BY <4>1, <4>2, Zenon DEF p, l
    <3>2. w[6 + (o[k - 1] + 1)] = F[o[k - 1] + 1]
      BY <3>1 DEF Standing
    <3> QED
      BY <3>1, <3>2
  <2> QED
    BY <2>2, <2>4
<1>5. ASSUME NEW i \in 2..e - 1 PROVE w[i] \notin {STAR, LF}
  <2>1. i \in 2..6 + o[N]
    BY <1>2
  <2> QED
    BY <1>4, <2>1 DEF Plain, COMMA, STAR, LF
<1> HIDE DEF e
<1>6. Framed(w, e)
  BY <1>1, <1>3, <1>5, Zenon DEF Framed, StartDelimiter
<1> QED
  BY <1>1, <1>4, <1>6 DEF e

-------------------------------------------------------------------------------
(* A sentence arrives as it was sent *)

\* What a sentence is to the application that gets it.
Arrived(s) ==
  [kind |-> "message", msg |-> s.msg,
   values |-> [k \in DOMAIN Payload(s) |-> Conveyed(s.msg.fields[k], Payload(s)[k])]]

\* The fields of a sentence are bound to the values that were sent.
LEMMA FieldsArrive ==
  ASSUME Receivable, scenario \in Scenario, NEW s \in Sends[scenario],
         NEW view, view.message_type = s.msg.id, view.fields = Texts(s)
  PROVE  dispatch(Handlers, view) = Arrived(s)
<1> DEFINE N == Len(s.msg.fields)
           f == [k \in 1..N |-> value(s.msg.fields[k],
                                      IF k <= Len(view.fields) THEN view.fields[k] ELSE <<>>)]
           g == [k \in DOMAIN Payload(s) |-> Conveyed(s.msg.fields[k], Payload(s)[k])]
           H == Matching(Handlers, s.msg.id)
<1>1. /\ N \in Nat /\ DOMAIN Payload(s) = 1..N
      /\ \A k \in 1..N : Payload(s)[k] = None \/ Shown(s.msg.fields[k], Payload(s)[k])
  BY SendAssumption
<1>2. H # <<>> /\ Head(H) = s.msg
  BY DEF Receivable
<1>3. Len(Texts(s)) = N
  BY <1>1 DEF Texts
<1>4. ASSUME NEW k \in 1..N
      PROVE  value(s.msg.fields[k], IF k <= Len(view.fields) THEN view.fields[k] ELSE <<>>)
               = Conveyed(s.msg.fields[k], Payload(s)[k])
  <2>1. k <= Len(view.fields)
    BY <1>1, <1>3
  <2>2. view.fields[k] = Format(s.msg.fields[k], Payload(s)[k])
    BY DEF Texts
  <2>3. value(s.msg.fields[k], Format(s.msg.fields[k], Payload(s)[k]))
          = Conveyed(s.msg.fields[k], Payload(s)[k])
    BY <1>1, FieldBack
  <2> QED
    BY <2>1, <2>2, <2>3, Zenon
<1>5. f = g
  BY <1>1, <1>4, Zenon
<1>6. bind(s.msg, view) = f
  BY DEF bind
<1>7. dispatch(Handlers, view) = [kind |-> "message", msg |-> Head(H), values |-> bind(Head(H), view)]
  BY <1>2, Zenon DEF dispatch
<1> QED
  BY <1>2, <1>5, <1>6, <1>7, Zenon DEF Arrived

\* The bytes of a sentence.
Whole(s) == Sentence(s.talker, s.msg, Payload(s))

\* These bytes are s for the receiver.
Readable(z, s) == (\E e : Framed(z, e)) /\ dispatch(Handlers, Receiver!View(z)) = Arrived(s)

\* A sentence is read as it was written, whatever is in it.
LEMMA SentenceRead ==
  ASSUME Receivable, scenario \in Scenario, NEW s \in Sends[scenario]
  PROVE  Readable(Whole(s), s)
<1> DEFINE w == Sentence(s.talker, s.msg, Payload(s))
           F == Fields(s)
           txt == Texts(s)
           N == Len(s.msg.fields)
<1>1. /\ s.talker \in Seq(Plain) /\ Len(s.talker) = 2
      /\ s.msg.id \in Seq(Plain) /\ Len(s.msg.id) = 3
      /\ s.talker \in Seq(Octet) /\ s.msg.id \in Seq(Octet)
      /\ N \in 0..32
      /\ \A k \in 1..N : txt[k] \in Seq(Plain)
      /\ \E o : Laid(F, txt, o, N)
  BY Sendable, Zenon
<1>2. PICK o : Laid(F, txt, o, N)
  BY <1>1
<1>3. F \in Seq(Octet) /\ Len(F) = o[N]
  BY <1>2 DEF Laid
<1>4. DOMAIN txt = 1..N /\ txt = [k \in 1..N |-> txt[k]]
  BY Zenon DEF Texts
<1>5. Standing(w, s, F)
  BY <1>1, <1>3, SentenceStands
<1>6. 6 + o[N] <= RxSize + 1
  <2>1. Len(Body(s.talker, s.msg, Payload(s))) = 6 + Len(F)
    BY <1>1, <1>3, BodyStands
  <2>2. Len(Body(s.talker, s.msg, Payload(s))) <= RxSize + 1
    BY DEF Receivable
  <2> QED
    BY <1>3, <2>1, <2>2
<1> HIDE DEF w, F, txt, N
<1>7. N \in Nat /\ N <= 32
  BY <1>1
<1>8. Framed(w, 7 + o[N])
  BY <1>1, <1>2, <1>5, <1>6, <1>7, SentenceFramed
<1>9. Receiver!PayloadEnd(w) = 7 + o[N]
  BY <1>8, ViewAtEnd
<1>10. Receiver!View(w) = [talker_id |-> s.talker, message_type |-> s.msg.id, fields |-> txt]
  BY <1>1, <1>2, <1>4, <1>5, <1>7, <1>9, SentenceView
<1>11. Receiver!View(w).message_type = s.msg.id /\ Receiver!View(w).fields = txt
  BY <1>10
<1>12. dispatch(Handlers, Receiver!View(w)) = Arrived(s)
  BY <1>11, FieldsArrive DEF txt
<1> QED
  BY <1>8, <1>12, Zenon DEF w, Readable, Whole

\* Sentence s is on its way as w: l of it on the line and t of it in the framer, or nothing of
\* it any more and the application has it.
SentAs(m, s) == m = [kind |-> "message", msg |-> s.msg, values |-> Payload(s), fix |-> s.fix]
Carrying(w, s, m, l, t, g) ==
  /\ SentAs(m, s)
  /\ \/ Begins(t, w) /\ Len(t) < Len(w) /\ l = SubSeq(w, Len(t) + 1, Len(w)) /\ g = Nothing
     \/ l = <<>> /\ t = <<>> /\ g = Arrived(s)

\* While nothing is damaged the sentence that was sent last is on its way or delivered.
Carried ==
  sent # Nothing /\ ~damaged =>
    \E s \in Sends[scenario] :
      Carrying(Whole(s), s, sent, line, text, got)

\* The inductive invariant.
InCarriage == Typed /\ Carried

\* The next byte of a sentence on its way.
LEMMA CarryingStep ==
  ASSUME NEW w, NEW s, Readable(w, s), NEW l, l # <<>>,
         Carrying(w, s, sent, l, text, got), PushByte(Head(l))
  PROVE  Carrying(w, s, sent, Tail(l), text', got')
<1> DEFINE n == Len(text)
           m == Len(w)
           c == w[n + 1]
           t == Append(text, c)
<1>1. PICK e : Framed(w, e)
  BY DEF Readable
<1>2. /\ w \in Seq(Octet) /\ m = e + 4 /\ e \in Nat /\ e >= 2 /\ w[1] \in StartDelimiter
      /\ m \in Nat
  BY <1>1, SizeAssumption, LenProperties DEF Framed
<1>3. /\ SentAs(sent, s) /\ got = Nothing
      /\ Begins(text, w) /\ n < m /\ l = SubSeq(w, n + 1, m)
  BY DEF Carrying
<1>4. text \in Seq(Octet) /\ n \in Nat /\ \A i \in 1..n : text[i] = w[i]
  BY <1>3, LenProperties DEF Begins
<1> HIDE DEF n, m
<1>5. Head(l) = c /\ Tail(l) = SubSeq(w, n + 2, m) /\ c \in Octet
  <2>1. n + 1 \in 1..m /\ m \in n + 1..m /\ (n + 1) + 1 = n + 2
    BY <1>2, <1>3, <1>4
  <2>2. Head(SubSeq(w, n + 1, m)) = w[n + 1] /\ Tail(SubSeq(w, n + 1, m)) = SubSeq(w, (n + 1) + 1, m)
    BY <1>2, <2>1, HeadTailOfSubSeq DEF m
  <2>3. w[n + 1] \in Octet
    BY <1>2, <2>1, ElementOfSeq DEF m
  <2> QED
    BY <1>3, <2>1, <2>2, <2>3
<1>6. /\ t \in Seq(Octet) /\ Len(t) = n + 1 /\ Begins(t, w)
  <2>1. /\ t \in Seq(Octet) /\ Len(t) = n + 1 /\ t[n + 1] = c
        /\ \A i \in 1..n : t[i] = text[i]
    BY <1>4, <1>5, AppendProperties DEF n
  <2> HIDE DEF t, c
  <2>2. \A i \in 1..n + 1 : t[i] = w[i]
    BY <1>4, <2>1 DEF c
  <2>3. Len(t) <= m
    BY <1>2, <1>3, <1>4, <2>1
  <2> QED
    BY <2>1, <2>2, <2>3 DEF Begins, m
<1> HIDE DEF c
<1>7. CASE text = <<>>
  <2>1. n = 0 /\ c \in StartDelimiter
    <3>1. n = 0
      BY <1>7, EmptySeq DEF n
    <3> QED
      BY <1>2, <3>1 DEF c
  <2>2. Receiver!Begin(c)
    <3>1. Receiver!Skip(c) \/ Receiver!Begin(c) \/ Receiver!Continue(c)
      BY <1>5 DEF PushByte
    <3>2. ~Receiver!Skip(c)
      BY <2>1 DEF Receiver!Skip, Receiver!StartDelimiter, Receiver!DOLLAR, DOLLAR,
                  StartDelimiter, Receiver!BANG, BANG
    <3>3. ~Receiver!Continue(c)
      BY <1>7 DEF Receiver!Continue
    <3> QED
      BY <3>1, <3>2, <3>3
  <2>3. text' = <<c>> /\ got' = got
    <3>1. text' = <<c>> /\ report'.kind # "view"
      BY <2>2 DEF Receiver!Begin, Receiver!Silence
    <3> QED
      BY <1>5, <3>1 DEF PushByte
  <2>4. text' = t
    BY <1>7, <2>3
  <2>5. Len(text') < m /\ Begins(text', w) /\ Tail(l) = SubSeq(w, Len(text') + 1, m)
    <3>1. Len(text') = 1
      BY <1>6, <2>1, <2>4
    <3>2. 1 < m /\ n + 2 = 2 /\ Len(text') + 1 = 2
      BY <1>2, <2>1, <3>1
    <3> QED
      BY <1>5, <1>6, <2>4, <3>1, <3>2
  <2> QED
    BY <1>3, <2>3, <2>5 DEF Carrying, m
<1>8. CASE text # <<>> /\ n + 1 < m
  <2>1. Receiver!Continue(c)
    BY <1>5, <1>8 DEF PushByte, Receiver!Skip, Receiver!Begin
  <2>2. ~Receiver!Over(t, Receiver!Verdict(t)) /\ Receiver!Verdict(t).kind # "view"
    <3>1. Len(t) < e + 4
      BY <1>2, <1>6, <1>8
    <3> HIDE DEF t
    <3> QED
      BY <1>1, <1>6, <3>1, StaysIn
  <2>3. text' = t /\ got' = got
    <3>1. text' = t /\ report' = Receiver!Verdict(t)
      BY <2>1, <2>2, Zenon DEF Receiver!Continue
    <3> QED
      BY <1>5, <2>2, <3>1 DEF PushByte
  <2>4. Len(text') < m /\ Begins(text', w) /\ Tail(l) = SubSeq(w, Len(text') + 1, m)
    <3>1. Len(text') = n + 1 /\ (n + 1) + 1 = n + 2
      BY <1>4, <1>6, <2>3
    <3> QED
      BY <1>5, <1>6, <1>8, <2>3, <3>1
  <2> QED
    BY <1>3, <2>3, <2>4 DEF Carrying, m
<1>9. CASE text # <<>> /\ ~(n + 1 < m)
  <2>1. Receiver!Continue(c)
    BY <1>5, <1>9 DEF PushByte, Receiver!Skip, Receiver!Begin
  <2>2. n + 1 = m
    BY <1>2, <1>3, <1>4, <1>9
  <2>3. t = w
    <3>1. Len(t) = Len(w) /\ \A i \in 1..Len(t) : t[i] = w[i]
      BY <1>6, <2>2 DEF Begins, m
    <3> HIDE DEF t
    <3> QED
      BY <1>2, <1>6, <3>1, SeqEqual
  <2>4. /\ Receiver!Verdict(t) = [kind |-> "view", view |-> Receiver!View(w)]
        /\ Receiver!Over(t, Receiver!Verdict(t))
    BY <1>1, <2>3, ViewAtEnd
  <2>5. text' = <<>> /\ report' = [kind |-> "view", view |-> Receiver!View(w)]
    BY <2>1, <2>4, Zenon DEF Receiver!Continue
  <2>6. got' = dispatch(Handlers, Receiver!View(w))
    <3>1. got' = IF report'.kind = "view" THEN dispatch(Handlers, report'.view) ELSE got
      BY DEF PushByte
    <3>2. report'.kind = "view" /\ report'.view = Receiver!View(w)
      BY <2>5
    <3> QED
      BY <3>1, <3>2
  <2>7. got' = Arrived(s)
    BY <2>6 DEF Readable
  <2>8. Tail(l) = <<>>
    <3>1. m < n + 2 /\ m \in Int /\ n + 2 \in Int
      BY <1>2, <1>4, <2>2
    <3> QED
      BY <1>5, <3>1, SubSeqEmpty
  <2> QED
    BY <1>3, <2>5, <2>7, <2>8 DEF Carrying
<1> QED
  BY <1>7, <1>8, <1>9

\* While there is a rest in the framer there is one on the line.
LEMMA NothingLeft ==
  ASSUME NEW w, NEW s, Readable(w, s), Carrying(w, s, sent, <<>>, text, got)
  PROVE  text = <<>> /\ got = Arrived(s)
<1> DEFINE n == Len(text)
           m == Len(w)
<1>1. PICK e : Framed(w, e)
  BY DEF Readable
<1>2. w \in Seq(Octet) /\ m \in Nat
  BY <1>1, LenProperties DEF Framed
<1> SUFFICES ASSUME Begins(text, w), n < m, <<>> = SubSeq(w, n + 1, m) PROVE FALSE
  BY DEF Carrying
<1>3. n \in Nat
  BY LenProperties DEF Begins
<1> HIDE DEF n, m
<1>4. n + 1 \in 1..m /\ m \in (n + 1) - 1..m /\ m - (n + 1) + 1 = m - n
  BY <1>2, <1>3
<1>5. Len(SubSeq(w, n + 1, m)) = m - (n + 1) + 1
  BY <1>2, <1>4, Part DEF m
<1>6. Len(<<>>) = 0
  BY EmptySeq
<1> QED
  BY <1>2, <1>3, <1>4, <1>5, <1>6

\* A sentence that is put on the line while the framer is at none.
LEMMA SetOut ==
  ASSUME NEW w, NEW s, Readable(w, s), NEW m, SentAs(m, s)
  PROVE  Carrying(w, s, m, w, <<>>, Nothing)
<1>1. PICK e : Framed(w, e)
  BY DEF Readable
<1>2. w \in Seq(Octet) /\ Len(w) \in Nat /\ Len(w) > 0
  BY <1>1, SizeAssumption DEF Framed
<1>3. Begins(<<>>, w) /\ Len(<<>>) < Len(w)
  <2>1. Len(<<>>) = 0 /\ <<>> \in Seq(Octet)
    BY EmptySeq
  <2> QED
    BY <1>2, <2>1 DEF Begins
<1>4. w = SubSeq(w, Len(<<>>) + 1, Len(w))
  <2>1. Len(<<>>) + 1 = 1
    BY EmptySeq
  <2>2. SubSeq(w, 1, Len(w)) = w
    BY <1>2, SubSeqFull
  <2> QED
    BY <2>1, <2>2
<1> QED
  BY <1>3, <1>4, Zenon DEF Carrying

\* A framer that is at no sentence ignores what begins none.
LEMMA Skipped ==
  ASSUME text = <<>>, NEW c, c \notin StartDelimiter, PushByte(c)
  PROVE  text' = <<>> /\ got' = got
<1>1. Receiver!Skip(c)
  BY DEF PushByte, Receiver!Begin, Receiver!Continue, Receiver!StartDelimiter,
         StartDelimiter, Receiver!DOLLAR, DOLLAR, Receiver!BANG, BANG
<1>2. text' = <<>> /\ report'.kind = "none"
  BY <1>1 DEF Receiver!Skip, Receiver!Silence
<1> QED
  BY <1>2 DEF PushByte

\* The first state.
LEMMA InCarriageInit == Init => InCarriage
<1> SUFFICES ASSUME Init PROVE InCarriage
  OBVIOUS
<1>1. sent = Nothing /\ Typed
  BY TypedInit DEF Init
<1> QED
  BY <1>1 DEF InCarriage, Carried

\* Every step.
LEMMA InCarriageStep ==
  ASSUME Receivable
  PROVE  InCarriage /\ [Next]_vars => InCarriage'
<1> SUFFICES ASSUME InCarriage, [Next]_vars PROVE InCarriage'
  OBVIOUS
<1>a. /\ line \in Seq(Octet) /\ text \in Seq(Octet) /\ Held(text) /\ scenario \in Scenario
      /\ Carried
  BY DEF InCarriage, Typed, TypeOK
<1>b. ASSUME scenario' = scenario,
             sent' # Nothing /\ ~damaged' =>
               \E s \in Sends[scenario] : Carrying(Whole(s), s, sent', line', text', got')
      PROVE  InCarriage'
  <2>1. Typed'
    BY TypedStep DEF InCarriage
  <2>2. Nothing' = Nothing
    BY DEF Nothing
  <2> QED
    BY <1>b, <2>1, <2>2 DEF InCarriage, Carried
<1>1. ASSUME NEW s \in Sends[scenario], Send(s) PROVE InCarriage'
  <2> DEFINE out == serialize(s.talker, s.msg, Payload(s), s.size)
             w == Whole(s)
  <2>1. /\ line' = out /\ text' = text /\ scenario' = scenario
        /\ SentAs(sent', s) /\ got' = Nothing
        /\ damaged' = (~(out = w) \/ text # <<>>)
    BY <1>1, Zenon DEF Send, SentAs, Whole
  <2>2. ASSUME ~damaged' PROVE Carrying(w, s, sent', line', text', got')
    <3>1. line' = w /\ text' = <<>>
      BY <2>1, <2>2
    <3>2. Readable(w, s)
      BY <1>a, SentenceRead
    <3> HIDE DEF w, out
    <3> QED
      BY <2>1, <3>1, <3>2, SetOut, Zenon
  <2> QED
    BY <1>b, <2>1, <2>2
<1>2. CASE Deliver
  <2>1. /\ line # <<>> /\ line' = Tail(line) /\ PushByte(Head(line))
        /\ sent' = sent /\ damaged' = damaged /\ scenario' = scenario
    BY <1>2 DEF Deliver
  <2>2. ASSUME sent' # Nothing, ~damaged'
        PROVE  \E s \in Sends[scenario] : Carrying(Whole(s), s, sent', line', text', got')
    <3>1. PICK s \in Sends[scenario] : Carrying(Whole(s), s, sent, line, text, got)
      BY <1>a, <2>1, <2>2 DEF Carried
    <3>2. Carrying(Whole(s), s, sent, line', text', got')
      BY <1>a, <2>1, <3>1, SentenceRead, CarryingStep
    <3> QED
      BY <2>1, <3>2
  <2> QED
    BY <1>b, <2>1, <2>2
<1>3. CASE Lose
  <2>1. damaged' = TRUE /\ scenario' = scenario
    BY <1>3 DEF Lose
  <2> QED
    BY <1>b, <2>1
<1>4. ASSUME NEW c \in Garbage, Change(c) PROVE InCarriage'
  <2>1. damaged' = TRUE /\ scenario' = scenario
    BY <1>4 DEF Change
  <2> QED
    BY <1>b, <2>1
<1>5. ASSUME NEW c \in Noise[scenario], MakeUp(c) PROVE InCarriage'
  <2>1. /\ line = <<>> /\ line' = line /\ PushByte(c) /\ sent' = sent /\ damaged' = damaged
        /\ scenario' = scenario /\ c \in Octet /\ c \notin StartDelimiter
    BY <1>a, <1>5, NoiseAssumption DEF MakeUp
  <2>2. ASSUME sent' # Nothing, ~damaged'
        PROVE  \E s \in Sends[scenario] : Carrying(Whole(s), s, sent', line', text', got')
    <3>1. PICK s \in Sends[scenario] : Carrying(Whole(s), s, sent, line, text, got)
      BY <1>a, <2>1, <2>2 DEF Carried
    <3>2. text = <<>> /\ got = Arrived(s)
      BY <1>a, <2>1, <3>1, SentenceRead, NothingLeft
    <3>3. text' = <<>> /\ got' = got
      BY <2>1, <3>2, Skipped
    <3>4. Carrying(Whole(s), s, sent, line', text', got')
      BY <2>1, <3>1, <3>2, <3>3 DEF Carrying
    <3> QED
      BY <2>1, <3>4
  <2> QED
    BY <1>b, <2>1, <2>2
<1>6. CASE UNCHANGED vars
  <2>1. /\ text' = text /\ line' = line /\ sent' = sent /\ got' = got /\ damaged' = damaged
        /\ scenario' = scenario
    BY <1>6 DEF vars
  <2> QED
    BY <1>a, <1>b, <2>1 DEF Carried
<1> QED
  BY <1>1, <1>2, <1>3, <1>4, <1>5, <1>6 DEF Next

\* Whatever is sent, with fields absent, short, negative, padded or rounded, is what the
\* handler gets, if no byte of it was lost or changed, its buffer was large enough and the
\* framer was at no other sentence.
THEOREM IntactArrives ==
  ASSUME Receivable
  PROVE  Spec => []IntactDelivered
<1>1. InCarriage => IntactDelivered
  <2> SUFFICES ASSUME InCarriage, line = <<>>, sent # Nothing, ~damaged PROVE got = Meant
    BY DEF IntactDelivered
  <2>1. scenario \in Scenario /\ Carried
    BY DEF InCarriage, Typed
  <2>2. PICK s \in Sends[scenario] : Carrying(Whole(s), s, sent, line, text, got)
    BY <2>1 DEF Carried
  <2>3. got = Arrived(s)
    BY <2>1, <2>2, SentenceRead, NothingLeft
  <2>4. sent = [kind |-> "message", msg |-> s.msg, values |-> Payload(s), fix |-> s.fix]
    BY <2>2 DEF Carrying, SentAs
  <2>5. sent.msg = s.msg /\ sent.values = Payload(s)
    BY <2>4
  <2> QED
    BY <2>3, <2>5, Zenon DEF Meant, Arrived
<1> QED
  BY <1>1, InCarriageInit, InCarriageStep, PTL DEF Spec

-------------------------------------------------------------------------------
(* What may be answered with a view *)

\* A text that the framer may answer with a view, its payload ended by byte e: by a star, a
\* newline, or because it fits no longer.
Ends(u, e) ==
  /\ u \in Seq(Octet) /\ e \in 2..RxSize + 2 /\ Len(u) = e + 4
  /\ \A i \in 2..e - 1 : u[i] \notin {STAR, LF}
  /\ u[e] \in {STAR, LF} \/ e = RxSize + 2
  /\ u[e + 1] \in HexDigit /\ u[e + 2] \in HexDigit
  /\ 16 * HexValue(u[e + 1]) + HexValue(u[e + 2]) = XorOf(SubSeq(u, 2, e - 1))
  /\ u[e + 3] = CR /\ u[e + 4] = LF

\* One of them is the beginning of the other.
Agree(u, z) == \A i \in 1..Len(z) : i <= Len(u) => u[i] = z[i]

\* No text that begins like z is answered with a view, unless the bytes that follow z are
\* the rest of the footer.
Unreadable(z) == \A u, e : Ends(u, e) /\ Agree(u, z) => Len(z) \in e..e + 3

\* A view is the payload's.
LEMMA SameView ==
  ASSUME NEW w, NEW z, NEW e, Framed(w, e), Framed(z, e), \A i \in 2..e - 1 : z[i] = w[i]
  PROVE  Receiver!View(z) = Receiver!View(w)
<1> DEFINE cw == SubSeq(w, 1, e)
           cz == SubSeq(z, 1, e)
<1>1. /\ w \in Seq(Octet) /\ z \in Seq(Octet) /\ e \in Nat /\ e >= 2 /\ Len(w) = e + 4
      /\ Len(z) = e + 4 /\ w[1] \in StartDelimiter /\ z[1] \in StartDelimiter
      /\ w[e] \in {STAR, LF} /\ z[e] \in {STAR, LF}
  BY SizeAssumption DEF Framed
<1>2. /\ cw \in Seq(Octet) /\ Len(cw) = e /\ \A i \in 1..e : cw[i] = w[i]
      /\ cz \in Seq(Octet) /\ Len(cz) = e /\ \A i \in 1..e : cz[i] = z[i]
  <2>1. 1 \in 1..Len(w) /\ 1 \in 1..Len(z) /\ e \in 1 - 1..Len(w) /\ e \in 1 - 1..Len(z)
        /\ e - 1 + 1 = e /\ \A i \in 1..e : 1 - 1 + i = i
    BY <1>1
  <2>2. cw \in Seq(Octet) /\ Len(cw) = e /\ \A i \in 1..e : cw[i] = w[i]
    BY <1>1, <2>1, Part
  <2>3. cz \in Seq(Octet) /\ Len(cz) = e /\ \A i \in 1..e : cz[i] = z[i]
    BY <1>1, <2>1, Part
  <2> QED
    BY <2>2, <2>3
<1> HIDE DEF cw, cz
<1>3. ASSUME NEW i \in 1..e PROVE cw[i] \in Separator <=> cz[i] \in Separator
  <2>1. CASE i = 1
    <3>1. w[1] \notin Separator /\ z[1] \notin Separator
      BY <1>1 DEF StartDelimiter, Separator, DOLLAR, BANG, COMMA, STAR, LF
    <3> QED
      BY <1>2, <2>1, <3>1
  <2>2. CASE i = e
    <3>1. w[e] \in Separator /\ z[e] \in Separator
      BY <1>1 DEF Separator
    <3> QED
      BY <1>2, <2>2, <3>1
  <2>3. CASE i \in 2..e - 1
    BY <1>2, <2>3
  <2> QED
    BY <1>1, <2>1, <2>2, <2>3
<1>4. CutsOf(cw) = CutsOf(cz)
  BY <1>2, <1>3, SameSeparators
<1>5. Receiver!PayloadEnd(w) = e /\ Receiver!PayloadEnd(z) = e
  BY ViewAtEnd
<1> DEFINE c == CutsOf(cw)
           first(k) == IF k = 1 THEN 2 ELSE c[k - 1] + 1
<1>6. /\ Receiver!Tokens(w) = [k \in 1..Len(c) |-> SubSeq(w, first(k), c[k] - 1)]
      /\ Receiver!Tokens(z) = [k \in 1..Len(c) |-> SubSeq(z, first(k), c[k] - 1)]
  BY <1>4, <1>5, SameCuts, Zenon DEF Receiver!Tokens, cw, cz
<1>7. c \in Seq(1..e)
  BY <1>2, CutRange
<1> DEFINE K == Len(c)
<1>8. K \in Nat /\ \A k \in 1..K : c[k] \in 1..e
  BY <1>7, LenProperties, ElementOfSeq
<1> HIDE DEF c
<1>9. ASSUME NEW k \in 1..K PROVE first(k) \in Nat /\ first(k) >= 2
  <2>1. CASE k = 1
    BY <2>1
  <2>2. CASE k # 1
    <3>1. k - 1 \in 1..K
      BY <1>8, <2>2
    <3>2. c[k - 1] \in 1..e
      BY <1>8, <3>1
    <3> QED
      BY <1>1, <2>2, <3>2
  <2> QED
    BY <2>1, <2>2
<1> HIDE DEF first
<1>10. ASSUME NEW a \in Nat, a >= 2, NEW b \in 1..e PROVE SubSeq(z, a, b - 1) = SubSeq(w, a, b - 1)
  <2>1. b - 1 \in Int /\ a \in Int
    BY <1>1
  <2>2. \A i \in a..b - 1 : i \in 2..e - 1 /\ i \in 1..e + 4
    BY <1>1, <1>10
  <2>3. \A i \in a..b - 1 : z[i] = w[i] /\ z[i] \in Octet /\ w[i] \in Octet
    BY <1>1, <2>2, ElementOfSeq
  <2> DEFINE d == b - 1
             x == SubSeq(z, a, d)
             y == SubSeq(w, a, d)
  <2>4. d \in Int /\ \A i \in a..d : z[i] = w[i] /\ z[i] \in Octet /\ w[i] \in Octet
    BY <2>1, <2>3
  <2> HIDE DEF d
  <2>5. /\ x \in Seq(Octet) /\ Len(x) = IF a <= d THEN d - a + 1 ELSE 0
        /\ \A i \in 1..d - a + 1 : x[i] = z[a + i - 1]
    BY <2>1, <2>4, SubSeqProperties
  <2>6. /\ y \in Seq(Octet) /\ Len(y) = IF a <= d THEN d - a + 1 ELSE 0
        /\ \A i \in 1..d - a + 1 : y[i] = w[a + i - 1]
    BY <2>1, <2>4, SubSeqProperties
  <2> HIDE DEF x, y
  <2>7. \A i \in 1..Len(x) : i \in 1..d - a + 1 /\ a + i - 1 \in a..d
    BY <2>1, <2>4, <2>5
  <2>8. \A i \in 1..Len(x) : x[i] = y[i]
    BY <2>4, <2>5, <2>6, <2>7
  <2>9. x = y
    BY <2>5, <2>6, <2>8, SeqEqual
  <2> QED
    BY <2>9 DEF x, y, d
<1>11. \A k \in 1..K : SubSeq(z, first(k), c[k] - 1) = SubSeq(w, first(k), c[k] - 1)
  BY <1>8, <1>9, <1>10
<1>12. Receiver!Tokens(z) = Receiver!Tokens(w)
  BY <1>6, <1>11, Zenon
<1> QED
  BY <1>12, Zenon DEF Receiver!View

\* A changed byte is noticed: in the payload by the checksum, behind it by what is expected
\* there.  If the framer takes the sentence for one, then the payload is as it was.
LEMMA ChangeTold ==
  ASSUME NEW w, NEW e, Framed(w, e), w[e] = STAR, e <= RxSize + 1,
         NEW i \in 2..e + 4, NEW z \in Seq(Octet), Len(z) = Len(w), z[i] # w[i],
         \A j \in 1..Len(w) : j # i => z[j] = w[j]
  PROVE  \/ Framed(z, e) /\ \A j \in 2..e - 1 : z[j] = w[j]
         \/ Unreadable(z)
<1>1. /\ w \in Seq(Octet) /\ e \in Nat /\ e >= 2 /\ Len(w) = e + 4 /\ w[1] \in StartDelimiter
      /\ \A j \in 2..e - 1 : w[j] \notin {STAR, LF}
      /\ w[e + 1] \in HexDigit /\ w[e + 2] \in HexDigit /\ w[e + 3] = CR /\ w[e + 4] = LF
      /\ 16 * HexValue(w[e + 1]) + HexValue(w[e + 2]) = XorOf(SubSeq(w, 2, e - 1))
      /\ RxSize \in Nat
  BY SizeAssumption DEF Framed
<1>2. \A j \in 1..e + 4 : j # i => z[j] = w[j]
  BY <1>1
<1>3. ASSUME Framed(z, e), NEW k \in 2..e - 1, z[k] # w[k] PROVE FALSE
  <2> DEFINE x == SubSeq(w, 2, e - 1)
             y == SubSeq(z, 2, e - 1)
  <2>1. k = i /\ i \in 2..e - 1
    BY <1>1, <1>2, <1>3
  <2>2. XorOf(x) = XorOf(y)
    <3>1. 16 * HexValue(z[e + 1]) + HexValue(z[e + 2]) = XorOf(y)
      BY <1>3 DEF Framed
    <3>2. z[e + 1] = w[e + 1] /\ z[e + 2] = w[e + 2]
      <4>1. e + 1 \in 1..e + 4 /\ e + 1 # i /\ e + 2 \in 1..e + 4 /\ e + 2 # i
        <5>1. e \in Nat
          BY <1>1
        <5> QED
          BY <2>1, <5>1
      <4> QED
        BY <1>2, <4>1, Zenon
    <3> QED
      BY <1>1, <3>1, <3>2
  <2>3. /\ x \in Seq(Octet) /\ Len(x) = e - 2 /\ \A j \in 1..e - 2 : x[j] = w[1 + j]
        /\ y \in Seq(Octet) /\ Len(y) = e - 2 /\ \A j \in 1..e - 2 : y[j] = z[1 + j]
    <3>1. 2 \in 1..Len(w) /\ e - 1 \in 2 - 1..Len(w) /\ (e - 1) - 2 + 1 = e - 2
          /\ \A j \in 1..e - 2 : 2 - 1 + j = 1 + j
      BY <1>1
    <3>2. x \in Seq(Octet) /\ Len(x) = e - 2 /\ \A j \in 1..e - 2 : x[j] = w[1 + j]
      BY <1>1, <3>1, Part
    <3>3. y \in Seq(Octet) /\ Len(y) = e - 2 /\ \A j \in 1..e - 2 : y[j] = z[1 + j]
      BY <1>1, <3>1, Part
    <3> QED
      BY <3>2, <3>3
  <2> HIDE DEF x, y
  <2>4. i - 1 \in 1..Len(x) /\ 1 + (i - 1) = i
    BY <1>1, <2>1, <2>3
  <2>5. x[i - 1] # y[i - 1]
    BY <2>3, <2>4
  <2>6. ASSUME NEW j \in 1..Len(x), j # i - 1 PROVE x[j] = y[j]
    <3>1. 1 + j \in 1..e + 4 /\ 1 + j # i
      BY <1>1, <2>3, <2>6
    <3> QED
      BY <1>2, <2>3, <2>6, <3>1
  <2> QED
    BY <2>2, <2>3, <2>4, <2>5, <2>6, XorChanged
<1>4. SUFFICES ASSUME ~Framed(z, e), NEW u, NEW d, Ends(u, d), Agree(u, z)
               PROVE  Len(z) \in d..d + 3
  BY <1>3 DEF Unreadable
<1>5. /\ u \in Seq(Octet) /\ d \in 2..RxSize + 2 /\ d \in Nat /\ Len(u) = d + 4
      /\ \A j \in 2..d - 1 : u[j] \notin {STAR, LF}
      /\ u[d] \in {STAR, LF} \/ d = RxSize + 2
      /\ u[d + 4] = LF
  <2>1. /\ u \in Seq(Octet) /\ d \in 2..RxSize + 2 /\ Len(u) = d + 4
        /\ \A j \in 2..d - 1 : u[j] \notin {STAR, LF}
        /\ u[d] \in {STAR, LF} \/ d = RxSize + 2
        /\ u[d + 4] = LF
    BY <1>4, Zenon DEF Ends
  <2>2. d \in Nat
    BY <1>1, <2>1
  <2> QED
    BY <2>1, <2>2, Zenon
<1>6. \A j \in 1..e + 4 : j <= d + 4 => u[j] = z[j]
  BY <1>1, <1>4, <1>5 DEF Agree
<1>7. CASE d = e
  <2>1. u = z
    BY <1>1, <1>5, <1>6, <1>7, SeqEqual
  <2>2. z[e] \in {STAR, LF} /\ z[1] = w[1]
    BY <1>1, <1>2, <1>5, <1>7, <2>1
  <2>3. Ends(z, e)
    BY <1>4, <1>7, <2>1
  <2>4. Framed(z, e)
    BY <1>1, <2>2, <2>3, Zenon DEF Ends, Framed
  <2> QED
    BY <1>4, <2>4
<1>8. CASE d < e
  <2>1. d \in 1..e + 4 /\ d <= d + 4 /\ d \in 2..e - 1 /\ d # RxSize + 2
    BY <1>1, <1>5, <1>8
  <2>2. z[d] \in {STAR, LF} /\ w[d] \notin {STAR, LF}
    BY <1>1, <1>5, <1>6, <2>1
  <2>3. d = i
    BY <1>2, <2>1, <2>2
  <2>4. d + 4 \in 1..e + 4 /\ d + 4 # i /\ d + 4 <= d + 4 /\ d + 4 \in 2..e + 3
    BY <1>1, <1>5, <1>8, <2>3
  <2>5. w[d + 4] = LF
    BY <1>2, <1>5, <1>6, <2>4
  <2>6. ASSUME NEW j \in 2..e + 3 PROVE w[j] # LF
    <3>1. j \in 2..e - 1 \/ j = e \/ j = e + 1 \/ j = e + 2 \/ j = e + 3
      BY <1>1
    <3>2. LF \notin HexDigit
      BY DEF LF, HexDigit
    <3>3. STAR # LF /\ CR # LF
      BY DEF LF, STAR, CR
    <3> QED
      BY <1>1, <3>1, <3>2, <3>3, Zenon
  <2> QED
    BY <2>4, <2>5, <2>6
<1>9. CASE d > e
  <2>1. e \in 2..d - 1 /\ e \in 1..e + 4 /\ e <= d + 4 /\ e + 4 \in 1..e + 4 /\ e + 4 <= d + 4
    BY <1>1, <1>5, <1>9
  <2>2. z[e] \notin {STAR, LF}
    BY <1>5, <1>6, <2>1
  <2>3. e = i
    BY <1>2, <2>1, <2>2
  <2>4. u[e + 4] = LF
    BY <1>1, <1>2, <1>6, <2>1, <2>3
  <2>5. ~(e + 4 \in 2..d - 1)
    BY <1>5, <2>4
  <2> QED
    BY <1>1, <1>5, <1>9, <2>5
<1> QED
  BY <1>1, <1>5, <1>7, <1>8, <1>9

\* A lost byte is noticed, if it is not zero: then a shorter payload has the same checksum.
LEMMA LossTold ==
  ASSUME NEW w, NEW e, Framed(w, e), w[e] = STAR, e <= RxSize + 1,
         NEW i \in 2..e + 4, w[i] # 0, NEW z \in Seq(Octet), Len(z) = e + 3,
         \A j \in 1..e + 3 : z[j] = IF j < i THEN w[j] ELSE w[j + 1]
  PROVE  Unreadable(z)
<1> SUFFICES ASSUME NEW u, NEW d, Ends(u, d), Agree(u, z) PROVE Len(z) \in d..d + 3
  BY DEF Unreadable
<1>1. /\ w \in Seq(Octet) /\ e \in Nat /\ e >= 2 /\ Len(w) = e + 4
      /\ \A j \in 2..e - 1 : w[j] \notin {STAR, LF}
      /\ w[e + 4] = LF
      /\ 16 * HexValue(w[e + 1]) + HexValue(w[e + 2]) = XorOf(SubSeq(w, 2, e - 1))
      /\ RxSize \in Nat
  BY SizeAssumption DEF Framed
<1>2. /\ u \in Seq(Octet) /\ d \in 2..RxSize + 2 /\ d \in Nat /\ Len(u) = d + 4
      /\ \A j \in 2..d - 1 : u[j] \notin {STAR, LF}
      /\ u[d] \in {STAR, LF} \/ d = RxSize + 2
      /\ 16 * HexValue(u[d + 1]) + HexValue(u[d + 2]) = XorOf(SubSeq(u, 2, d - 1))
  <2>1. /\ u \in Seq(Octet) /\ d \in 2..RxSize + 2 /\ Len(u) = d + 4
        /\ \A j \in 2..d - 1 : u[j] \notin {STAR, LF}
        /\ u[d] \in {STAR, LF} \/ d = RxSize + 2
        /\ 16 * HexValue(u[d + 1]) + HexValue(u[d + 2]) = XorOf(SubSeq(u, 2, d - 1))
    BY Zenon DEF Ends
  <2>2. d \in Nat
    BY <1>1, <2>1
  <2> QED
    BY <2>1, <2>2, Zenon
<1>3. \A j \in 1..e + 3 : j <= d + 4 => u[j] = z[j]
  BY <1>1, <1>2 DEF Agree
<1>4. CASE i < e
  <2>1. e >= 3 /\ e - 1 \in 1..e + 3 /\ e - 1 >= 2 /\ ~(e - 1 < i) /\ (e - 1) + 1 = e
    BY <1>1, <1>4
  <2>2. z[e - 1] = STAR
    BY <1>1, <2>1
  <2>3. ASSUME d < e - 1 PROVE FALSE
    <3>1. d \in 1..e + 3 /\ d <= d + 4 /\ d # RxSize + 2 /\ d \in 2..e - 1 /\ d + 1 \in 2..e - 1
      BY <1>1, <1>2, <2>3
    <3>2. z[d] \notin {STAR, LF}
      BY <1>1, <3>1
    <3> QED
      BY <1>2, <1>3, <3>1, <3>2
  <2>4. ASSUME d > e - 1 PROVE FALSE
    <3>1. e - 1 \in 2..d - 1 /\ e - 1 <= d + 4
      BY <1>1, <1>2, <2>1, <2>4
    <3> QED
      BY <1>2, <1>3, <2>1, <2>2, <3>1
  <2>5. ASSUME d = e - 1 PROVE FALSE
    <3> DEFINE x == SubSeq(w, 2, e - 1)
               y == SubSeq(u, 2, d - 1)
    <3>1. \A j \in 1..e + 3 : u[j] = IF j < i THEN w[j] ELSE w[j + 1]
      <4>1. \A j \in 1..e + 3 : j <= d + 4
        BY <1>1, <2>5
      <4> QED
        BY <1>3, <4>1, Zenon
    <3>2. XorOf(x) = XorOf(y)
      <4>1. /\ d + 1 \in 1..e + 3 /\ d + 2 \in 1..e + 3 /\ ~(d + 1 < i) /\ ~(d + 2 < i)
            /\ (d + 1) + 1 = e + 1 /\ (d + 2) + 1 = e + 2
        BY <1>1, <1>2, <1>4, <2>5
      <4>2. u[d + 1] = w[e + 1] /\ u[d + 2] = w[e + 2]
        BY <3>1, <4>1
      <4> QED
        BY <1>1, <1>2, <4>2
    <3>3. /\ x \in Seq(Octet) /\ Len(x) = e - 2 /\ \A j \in 1..e - 2 : x[j] = w[1 + j]
      <4>1. 2 \in 1..Len(w) /\ e - 1 \in 2 - 1..Len(w) /\ (e - 1) - 2 + 1 = e - 2
            /\ \A j \in 1..e - 2 : 2 - 1 + j = 1 + j
        BY <1>1
      <4> QED
        BY <1>1, <4>1, Part
    <3>4. /\ y \in Seq(Octet) /\ Len(y) = e - 3 /\ \A j \in 1..e - 3 : y[j] = u[1 + j]
      <4>1. 2 \in 1..Len(u) /\ d - 1 \in 2 - 1..Len(u) /\ (d - 1) - 2 + 1 = e - 3
            /\ \A j \in 1..e - 3 : 2 - 1 + j = 1 + j
        BY <1>1, <1>2, <2>1, <2>5
      <4> QED
        BY <1>2, <4>1, Part
    <3> HIDE DEF x, y
    <3>5. i - 1 \in 1..Len(x) /\ 1 + (i - 1) = i /\ Len(x) = Len(y) + 1 /\ i - 1 \in 1..e - 2
      <4>1. Len(x) = e - 2 /\ Len(y) = e - 3
        BY <3>3, <3>4
      <4>2. i - 1 \in 1..e - 2 /\ 1 + (i - 1) = i /\ e - 2 = (e - 3) + 1
        BY <1>1, <1>4, <2>1
      <4> QED
        BY <4>1, <4>2
    <3>6. x[i - 1] # 0
      BY <3>3, <3>5
    <3>7. ASSUME NEW j \in 1..Len(y) PROVE y[j] = IF j < i - 1 THEN x[j] ELSE x[j + 1]
      <4>1. /\ j \in 1..e - 3 /\ j \in 1..e - 2 /\ j + 1 \in 1..e - 2 /\ 1 + j \in 1..e + 3
            /\ (1 + j) + 1 = 1 + (j + 1) /\ (1 + j < i <=> j < i - 1)
        BY <1>1, <2>1, <3>4, <3>7
      <4>2. y[j] = u[1 + j] /\ x[j] = w[1 + j] /\ x[j + 1] = w[1 + (j + 1)]
        BY <3>3, <3>4, <4>1
      <4> QED
        BY <3>1, <4>1, <4>2
    <3> QED
      BY <3>2, <3>3, <3>4, <3>5, <3>6, <3>7, XorLost
  <2> QED
    BY <1>1, <1>2, <2>3, <2>4, <2>5
<1>5. CASE i >= e
  <2>1. ASSUME d < e PROVE FALSE
    <3>1. d \in 1..e + 3 /\ d <= d + 4 /\ d # RxSize + 2 /\ d \in 2..e - 1 /\ d < i
      BY <1>1, <1>2, <1>5, <2>1
    <3>2. z[d] \notin {STAR, LF}
      BY <1>1, <3>1
    <3> QED
      BY <1>2, <1>3, <3>1, <3>2
  <2>2. ASSUME d > e + 3 PROVE FALSE
    <3>1. /\ e \in 2..d - 1 /\ e + 3 \in 2..d - 1 /\ e \in 1..e + 3 /\ e + 3 \in 1..e + 3
          /\ e <= d + 4 /\ e + 3 <= d + 4 /\ (e + 3) + 1 = e + 4
      BY <1>1, <1>2, <2>2
    <3>2. z[e] \notin {STAR, LF} /\ z[e + 3] \notin {STAR, LF}
      BY <1>2, <1>3, <3>1
    <3>3. CASE i = e + 4
      <4>1. e < i
        BY <1>1, <3>3
      <4> QED
        BY <3>1, <3>2, <4>1
    <3>4. CASE i < e + 4
      <4>1. ~(e + 3 < i)
        BY <1>1, <3>4
      <4>2. z[e + 3] = LF
        BY <1>1, <3>1, <4>1
      <4> QED
        BY <3>2, <4>2
    <3> QED
      BY <1>1, <3>3, <3>4
  <2> QED
    BY <1>1, <1>2, <2>1, <2>2
<1> QED
  BY <1>1, <1>4, <1>5

\* A text three bytes behind its payload has its CR.
Unbroken(t) == Ended(t) /\ Behind(t) = 3 => t[Len(t)] = CR

\* What the answer to a text can be, at its end and three bytes behind it.
LEMMA Answers ==
  ASSUME NEW t, Ended(t), Receiver!PayloadEnd(t) \in Nat,
         NEW e, e = Receiver!PayloadEnd(t)
  PROVE  /\ Len(t) = e + 3 /\ t[e + 3] # CR => Receiver!Over(t, Receiver!Verdict(t))
         /\ Receiver!Verdict(t).kind = "view" =>
              /\ Len(t) = e + 4 /\ t[e + 4] = LF /\ t[e + 1] \in HexDigit /\ t[e + 2] \in HexDigit
              /\ Receiver!ChecksumMatches(Receiver!Payload(t), t[e + 1], t[e + 2])
<1> DEFINE v == Receiver!Verdict(t)
<1>1. Receiver!PayloadEnds(t) # {}
  BY DEF Ended
<1>2. Receiver!CR = CR /\ Receiver!LF = LF
  BY DEF Receiver!CR, CR, Receiver!LF, LF
<1>3. ASSUME Len(t) = e + 3, t[e + 3] # CR PROVE Receiver!Over(t, v)
  <2>1. Len(t) # e /\ Len(t) # e + 4
    BY <1>3
  <2>2. v = Receiver!Error("badcrlf")
    BY <1>1, <1>2, <1>3, <2>1, Zenon DEF Receiver!Verdict
  <2>3. v # Receiver!Silence
    BY <2>2 DEF Receiver!Error, Receiver!Silence
  <2>4. Len(t) >= e + 3
    BY <1>3
  <2> QED
    BY <2>3, <2>4, Zenon DEF Receiver!Over
<1>4. ASSUME v.kind = "view"
      PROVE  /\ Len(t) = e + 4 /\ t[e + 4] = LF /\ t[e + 1] \in HexDigit /\ t[e + 2] \in HexDigit
             /\ Receiver!ChecksumMatches(Receiver!Payload(t), t[e + 1], t[e + 2])
  <2> DEFINE match == Receiver!ChecksumMatches(Receiver!Payload(t), t[e + 1], t[e + 2])
             digits == {t[e + 1], t[e + 2]} \subseteq Receiver!HexDigit
             view == Receiver!View(t)
  <2>1. v = CASE Len(t) = e /\ t[e] = Receiver!LF -> Receiver!Error("newline")
              [] Len(t) = e /\ t[e] \notin {Receiver!LF, Receiver!STAR} -> Receiver!Error("overrun")
              [] Len(t) = e + 3 /\ t[e + 3] # CR -> Receiver!Error("badcrlf")
              [] Len(t) = e + 4 /\ t[e + 4] # LF -> Receiver!Error("badcrlf")
              [] Len(t) = e + 4 /\ t[e + 4] = LF ->
                   IF ~digits THEN Receiver!Error("badhex")
                   ELSE IF match THEN [kind |-> "view", view |-> view]
                        ELSE Receiver!Error("mismatch")
              [] OTHER -> Receiver!Silence
    BY <1>1, <1>2, Zenon DEF Receiver!Verdict
  <2> HIDE DEF match, digits, view, v
  <2>2. Len(t) = e + 4 /\ t[e + 4] = LF /\ digits /\ match
    BY <1>4, <2>1 DEF Receiver!Error, Receiver!Silence
  <2>3. t[e + 1] \in HexDigit /\ t[e + 2] \in HexDigit
    BY <2>2, SameHex DEF digits
  <2> QED
    BY <2>2, <2>3 DEF match
<1> QED
  BY <1>3, <1>4

\* Every step of the framer.
LEMMA UnbrokenStep ==
  ASSUME text \in Seq(Octet), Held(text), NEW c \in Octet, PushByte(c)
  PROVE  Unbroken(text')
<1> DEFINE t == Append(text, c)
<1>1. CASE text' = <<>>
  BY <1>1, NothingHeld DEF Unbroken
<1>2. CASE text' = <<c>>
  BY <1>2, DelimiterHeld DEF Unbroken
<1>3. CASE Receiver!Continue(c) /\ text' # <<>>
  <2>1. text' = t /\ ~Receiver!Over(t, Receiver!Verdict(t))
    BY <1>3 DEF Receiver!Continue
  <2>2. t \in Seq(Octet) /\ Len(t) \in Nat
    BY AppendProperties, LenProperties
  <2> HIDE DEF t
  <2>3. ASSUME Ended(t), Behind(t) = 3 PROVE t[Len(t)] = CR
    <3> DEFINE e == Receiver!PayloadEnd(t)
    <3>1. e \in Nat /\ Len(t) = e + 3
      <4>1. e \in Nat
        BY <2>2, <2>3, PayloadEndIs
      <4>2. Len(t) - e = 3
        BY <2>3 DEF Behind
      <4> HIDE DEF e
      <4> QED
        BY <2>2, <4>1, <4>2
    <3>2. ~(Len(t) = e + 3 /\ t[e + 3] # CR)
      BY <2>1, <2>3, <3>1, Answers
    <3> QED
      BY <3>1, <3>2, Zenon
  <2> QED
    BY <2>1, <2>3 DEF Unbroken
<1> QED
  BY <1>1, <1>2, <1>3, TextStep

\* The application gets something only when a view ends.
LEMMA ViewEnds ==
  ASSUME text \in Seq(Octet), Held(text), Unbroken(text), NEW c \in Octet, PushByte(c)
  PROVE  \/ got' = got
         \/ text # <<>> /\ \E e : Ends(Append(text, c), e)
<1> DEFINE t == Append(text, c)
           e == Receiver!PayloadEnd(t)
           d == Receiver!PayloadEnd(text)
<1>1. CASE report'.kind # "view"
  BY <1>1 DEF PushByte
<1>2. CASE Receiver!Skip(c) \/ Receiver!Begin(c)
  <2>1. report'.kind # "view"
    BY <1>2 DEF Receiver!Skip, Receiver!Begin, Receiver!Silence
  <2> QED
    BY <1>1, <2>1
<1>3. CASE Receiver!Continue(c) /\ report'.kind = "view"
  <2>1. text # <<>> /\ Receiver!Verdict(t).kind = "view"
    BY <1>3 DEF Receiver!Continue
  <2>2. t \in Seq(Octet) /\ Len(t) = Len(text) + 1 /\ t[Len(text) + 1] = c /\ Len(text) \in Nat
        /\ \A i \in 1..Len(text) : t[i] = text[i]
    BY AppendProperties, LenProperties
  <2>3. /\ Ended(text) => Ended(t) /\ e = d
        /\ ~Ended(text) => ~Ended(t) \/ e = Len(t)
    BY <2>1, EndsGrow
  <2> HIDE DEF t, e, d
  <2>4. Ended(t)
    <3>1. ASSUME Receiver!PayloadEnds(t) = {} PROVE FALSE
      <4>1. Receiver!Verdict(t) = Receiver!Silence
        BY <3>1, Zenon DEF Receiver!Verdict
      <4> QED
        BY <2>1, <4>1 DEF Receiver!Silence
    <3> QED
      BY <3>1 DEF Ended
  <2>5. e \in 2..Len(t) /\ e \in Nat /\ e \in Receiver!PayloadEnds(t)
        /\ \A p \in Receiver!PayloadEnds(t) : e <= p
    BY <2>2, <2>4, PayloadEndIs DEF e
  <2>6. /\ Len(t) = e + 4 /\ t[e + 4] = LF /\ t[e + 1] \in HexDigit /\ t[e + 2] \in HexDigit
        /\ Receiver!ChecksumMatches(Receiver!Payload(t), t[e + 1], t[e + 2])
    BY <2>1, <2>4, <2>5, Answers DEF e
  <2>7. Ended(text) /\ d = e
    BY <2>3, <2>4, <2>5, <2>6
  <2>8. t[e + 3] = CR
    <3>1. Len(text) = e + 3 /\ e + 3 \in 1..Len(text)
      BY <2>2, <2>5, <2>6
    <3>2. Behind(text) = 3
      BY <2>5, <2>7, <3>1 DEF Behind, d
    <3> QED
      BY <2>2, <2>7, <3>1, <3>2 DEF Unbroken
  <2>9. \A p : p \in Receiver!PayloadEnds(t) <=> p \in 2..Len(t) /\ (t[p] \in {STAR, LF} \/ p = RxSize + 2)
    BY DEF Receiver!PayloadEnds, Receiver!STAR, Receiver!LF, STAR, LF
  <2>10. (t[e] \in {STAR, LF} \/ e = RxSize + 2) /\ \A i \in 2..e - 1 : t[i] \notin {STAR, LF}
    <3>1. t[e] \in {STAR, LF} \/ e = RxSize + 2
      BY <2>5, <2>9
    <3>2. ASSUME NEW i \in 2..e - 1 PROVE t[i] \notin {STAR, LF}
      <4>1. i \in 2..Len(t) /\ ~(e <= i)
        BY <2>5, <2>6
      <4> QED
        BY <2>5, <2>9, <4>1
    <3> QED
      BY <3>1, <3>2
  <2>11. e <= RxSize + 2
    <3>1. ASSUME e > RxSize + 2 PROVE FALSE
      <4>1. RxSize + 2 \in 2..Len(t) /\ ~(e <= RxSize + 2)
        BY <2>5, <3>1, SizeAssumption
      <4> QED
        BY <2>5, <2>9, <4>1
    <3> QED
      BY <2>5, <3>1, SizeAssumption
  <2>12. e \in 2..RxSize + 2
    BY <2>5, <2>11, SizeAssumption
  <2>13. 16 * HexValue(t[e + 1]) + HexValue(t[e + 2]) = XorOf(SubSeq(t, 2, e - 1))
    BY <2>6, SameXor, SameHex, Zenon
    DEF Receiver!ChecksumMatches, Receiver!Payload, Receiver!Checksum, e
  <2>14. Ends(t, e)
    BY <2>2, <2>6, <2>8, <2>10, <2>12, <2>13 DEF Ends
  <2> QED
    BY <2>1, <2>14 DEF t
<1> QED
  BY <1>1, <1>2, <1>3 DEF PushByte

\* A byte that is no newline makes nothing readable.
LEMMA UnreadableOn ==
  ASSUME NEW z \in Seq(Octet), Unreadable(z), NEW c \in Octet, c # LF
  PROVE  Unreadable(Append(z, c))
<1> DEFINE t == Append(z, c)
           n == Len(z)
<1>1. n \in Nat /\ Len(t) = n + 1 /\ t[n + 1] = c /\ \A i \in 1..n : t[i] = z[i]
  BY AppendProperties, LenProperties
<1> HIDE DEF t
<1> SUFFICES ASSUME NEW u, NEW d, Ends(u, d), Agree(u, t) PROVE Len(t) \in d..d + 3
  BY DEF Unreadable, t
<1>2. d \in Nat /\ Len(u) = d + 4 /\ u[d + 4] = LF
  BY SizeAssumption DEF Ends
<1>3. \A i \in 1..n + 1 : i <= d + 4 => u[i] = t[i]
  BY <1>1, <1>2 DEF Agree
<1>4. Agree(u, z)
  BY <1>1, <1>2, <1>3 DEF Agree
<1>5. n \in d..d + 3
  BY <1>4 DEF Unreadable
<1>6. ASSUME n = d + 3 PROVE FALSE
  <2>1. d + 4 = n + 1 /\ n + 1 \in 1..n + 1 /\ n + 1 <= d + 4
    BY <1>1, <1>2, <1>6
  <2> QED
    BY <1>1, <1>2, <1>3, <2>1
<1> QED
  BY <1>1, <1>2, <1>5, <1>6

\* Nor does a sentence that follows.
LEMMA UnreadableThen ==
  ASSUME NEW z \in Seq(Octet), Unreadable(z), NEW w \in Seq(Octet), w # <<>>, w[1] = DOLLAR
  PROVE  Unreadable(z \o w)
<1> DEFINE t == z \o w
           n == Len(z)
<1>1. Len(w) \in Nat /\ Len(w) > 0
  BY LenProperties, EmptySeq
<1>2. /\ n \in Nat /\ Len(t) = n + Len(w) /\ (\A i \in 1..n : t[i] = z[i]) /\ t[n + 1] = DOLLAR
  <2>1. /\ Len(t) = n + Len(w) /\ (\A i \in 1..n : t[i] = z[i]) /\ n \in Nat
        /\ \A i \in 1..Len(w) : t[n + i] = w[i]
    BY Joined, LenProperties
  <2>2. 1 \in 1..Len(w)
    BY <1>1
  <2> QED
    BY <2>1, <2>2
<1> HIDE DEF t
<1> SUFFICES ASSUME NEW u, NEW d, Ends(u, d), Agree(u, t) PROVE FALSE
  BY DEF Unreadable, t
<1>3. /\ d \in Nat /\ Len(u) = d + 4 /\ u[d + 4] = LF /\ u[d + 1] \in HexDigit
      /\ u[d + 2] \in HexDigit /\ u[d + 3] = CR
  BY SizeAssumption DEF Ends
<1>4. \A i \in 1..n + 1 : i <= d + 4 => u[i] = t[i]
  BY <1>1, <1>2, <1>3 DEF Agree
<1>5. Agree(u, z)
  BY <1>2, <1>3, <1>4 DEF Agree
<1>6. n \in d..d + 3
  BY <1>5 DEF Unreadable
<1>7. u[n + 1] = DOLLAR
  <2>1. n + 1 \in 1..n + 1 /\ n + 1 <= d + 4
    BY <1>2, <1>3, <1>6
  <2> QED
    BY <1>2, <1>4, <2>1
<1>8. n + 1 = d + 1 \/ n + 1 = d + 2 \/ n + 1 = d + 3 \/ n + 1 = d + 4
  BY <1>2, <1>3, <1>6
<1>9. DOLLAR \notin HexDigit /\ DOLLAR # CR /\ DOLLAR # LF
  BY DEF DOLLAR, HexDigit, CR, LF
<1> QED
  BY <1>3, <1>7, <1>8, <1>9, Zenon

-------------------------------------------------------------------------------
(* A sentence of which a byte was lost or changed *)

\* No sentence begins at byte n of these or behind it.
Undelimited(l, n) == \A i \in n..Len(l) : l[i] \notin StartDelimiter

\* What is on the line will not be read: it begins no sentence, or the framer is at one that
\* it will give up.
Missed(l, t, g) ==
  /\ g.kind # "message"
  /\ \/ t = <<>> /\ Undelimited(l, 1)
     \/ t # <<>> /\ Unreadable(t \o l) /\ Undelimited(l, 2)

\* Bytes behind the first.
LEMMA RestUndelimited ==
  ASSUME NEW l \in Seq(Octet), l # <<>>, Undelimited(l, 2)
  PROVE  Tail(l) \in Seq(Octet) /\ Undelimited(Tail(l), 1) /\ Undelimited(Tail(l), 2)
<1> DEFINE r == Tail(l)
<1>1. /\ r \in Seq(Octet) /\ Len(r) = Len(l) - 1 /\ (\A i \in 1..Len(r) : r[i] = l[i + 1])
      /\ Len(l) \in Nat /\ Len(l) > 0
  BY HeadTailProperties, LenProperties, EmptySeq
<1> HIDE DEF r
<1>2. ASSUME NEW i \in 1..Len(r) PROVE r[i] \notin StartDelimiter
  <2>1. i + 1 \in 2..Len(l)
    BY <1>1
  <2> QED
    BY <1>1, <2>1 DEF Undelimited
<1>3. \A i \in 2..Len(r) : i \in 1..Len(r)
  BY <1>1
<1> QED
  BY <1>1, <1>2, <1>3 DEF Undelimited, r

\* A byte goes from the line to the framer.
LEMMA MovedOn ==
  ASSUME NEW t \in Seq(Octet), NEW l \in Seq(Octet), l # <<>>
  PROVE  Append(t, Head(l)) \o Tail(l) = t \o l
<1> DEFINE c == Head(l)
           r == Tail(l)
           a == Append(t, c)
           x == a \o r
           y == t \o l
           n == Len(t)
           m == Len(l)
<1>1. /\ c \in Octet /\ c = l[1] /\ r \in Seq(Octet) /\ Len(r) = m - 1
      /\ (\A i \in 1..Len(r) : r[i] = l[i + 1]) /\ m \in Nat /\ m > 0 /\ n \in Nat
  BY HeadTailProperties, LenProperties, EmptySeq
<1> HIDE DEF c, r
<1>2. a \in Seq(Octet) /\ Len(a) = n + 1 /\ a[n + 1] = c /\ \A i \in 1..n : a[i] = t[i]
  BY <1>1, AppendProperties
<1> HIDE DEF a
<1>3. /\ x \in Seq(Octet) /\ Len(x) = n + m
      /\ (\A i \in 1..n + 1 : x[i] = a[i]) /\ \A i \in 1..m - 1 : x[n + 1 + i] = r[i]
  <2>1. /\ x \in Seq(Octet) /\ Len(x) = Len(a) + Len(r)
        /\ (\A i \in 1..Len(a) : x[i] = a[i]) /\ \A i \in 1..Len(r) : x[Len(a) + i] = r[i]
    BY <1>1, <1>2, Joined
  <2> HIDE DEF x
  <2> QED
    BY <1>1, <1>2, <2>1
<1>4. /\ y \in Seq(Octet) /\ Len(y) = n + m
      /\ (\A i \in 1..n : y[i] = t[i]) /\ \A i \in 1..m : y[n + i] = l[i]
  BY Joined
<1> HIDE DEF x, y, n, m
<1>5. ASSUME NEW i \in 1..n + m PROVE x[i] = y[i]
  <2>1. CASE i <= n
    <3>1. i \in 1..n /\ i \in 1..n + 1
      BY <1>1, <2>1
    <3> QED
      BY <1>2, <1>3, <1>4, <3>1
  <2>2. CASE i = n + 1
    <3>1. n + 1 \in 1..n + 1 /\ 1 \in 1..m
      BY <1>1
    <3> QED
      BY <1>1, <1>2, <1>3, <1>4, <2>2, <3>1
  <2>3. CASE i > n + 1
    <3> DEFINE k == i - n - 1
    <3>1. k \in 1..m - 1 /\ k + 1 \in 1..m /\ n + 1 + k = i /\ n + (k + 1) = i
      BY <1>1, <2>3
    <3> HIDE DEF k
    <3>2. x[n + 1 + k] = r[k] /\ y[n + (k + 1)] = l[k + 1] /\ r[k] = l[k + 1]
      BY <1>1, <1>3, <1>4, <3>1
    <3> QED
      BY <3>1, <3>2
  <2> QED
    BY <1>1, <2>1, <2>2, <2>3
<1>6. x = y
  BY <1>3, <1>4, <1>5, SeqEqual
<1> QED
  BY <1>6 DEF x, y, a, c, r

\* What was read is the beginning of what is to be read.
LEMMA Before ==
  ASSUME NEW t \in Seq(Octet), NEW l \in Seq(Octet)
  PROVE  Agree(t, t \o l) /\ Len(t \o l) \in Nat /\ Len(t \o l) >= Len(t)
<1> DEFINE z == t \o l
<1>1. Len(t) \in Nat /\ Len(l) \in Nat /\ Len(z) = Len(t) + Len(l) /\ \A i \in 1..Len(t) : z[i] = t[i]
  BY Joined, LenProperties
<1> HIDE DEF z
<1>2. \A i \in 1..Len(z) : i <= Len(t) => i \in 1..Len(t)
  BY <1>1
<1> QED
  BY <1>1, <1>2 DEF Agree, z

\* The framer is at a sentence that it will not read, and is told nothing by the next byte.
LEMMA MissedStep ==
  ASSUME text \in Seq(Octet), Held(text), Unbroken(text),
         NEW l \in Seq(Octet), l # <<>>, Missed(l, text, got), PushByte(Head(l))
  PROVE  Missed(Tail(l), text', got')
<1> DEFINE c == Head(l)
           t == Append(text, c)
           r == Tail(l)
<1>1. c \in Octet /\ c = l[1] /\ 1 \in 1..Len(l) /\ r \in Seq(Octet)
  BY HeadTailProperties, EmptySeq
<1>2. CASE text = <<>>
  <2>1. Undelimited(l, 1) /\ got.kind # "message"
    BY <1>2 DEF Missed
  <2>2. c \notin StartDelimiter /\ Undelimited(l, 2)
    <3>1. \A i \in 2..Len(l) : i \in 1..Len(l)
      OBVIOUS
    <3> QED
      BY <1>1, <2>1, <3>1 DEF Undelimited
  <2>3. text' = <<>> /\ got' = got
    BY <1>2, <2>2, Skipped
  <2>4. Undelimited(r, 1)
    BY <2>2, RestUndelimited
  <2> QED
    BY <2>1, <2>3, <2>4 DEF Missed
<1>3. CASE text # <<>>
  <2>1. Unreadable(text \o l) /\ Undelimited(l, 2) /\ got.kind # "message"
    BY <1>3 DEF Missed
  <2>2. t \in Seq(Octet) /\ t # <<>>
    BY <1>1, AppendProperties
  <2>3. text \o l = t \o r
    BY MovedOn
  <2>4. Undelimited(r, 1) /\ Undelimited(r, 2)
    BY <2>1, RestUndelimited
  <2> HIDE DEF c, t, r
  <2>5. ASSUME NEW e, Ends(t, e) PROVE FALSE
    <3>1. Agree(t, t \o r) /\ Len(t \o r) \in Nat /\ Len(t \o r) >= Len(t)
      BY <1>1, <2>2, Before
    <3>2. Len(t \o r) \in e..e + 3
      BY <2>1, <2>3, <2>5, <3>1 DEF Unreadable
    <3>3. Len(t) = e + 4 /\ e \in Nat
      BY <2>5, SizeAssumption DEF Ends
    <3> HIDE DEF Unreadable
    <3> QED
      BY <3>1, <3>2, <3>3
  <2>6. got' = got
    BY <1>1, <2>5, ViewEnds DEF t, c
  <2>7. text' = <<>> \/ text' = t
    <3>1. Receiver!Continue(c)
      BY <1>1, <1>3, TextStep DEF c
    <3> QED
      BY <3>1 DEF Receiver!Continue, t
  <2>8. CASE text' = <<>>
    BY <2>1, <2>4, <2>6, <2>8 DEF Missed, r
  <2>9. CASE text' = t
    <3>1. Unreadable(t \o r)
      BY <2>1, <2>3
    <3> QED
      BY <2>1, <2>2, <2>4, <2>6, <2>9, <3>1 DEF Missed, r
  <2> QED
    BY <2>7, <2>8, <2>9
<1> QED
  BY <1>2, <1>3

\* A line that is empty.
LEMMA NothingToCome ==
  /\ \A t \in Seq(Octet) : t \o <<>> = t
  /\ \A n \in {1, 2} : Undelimited(<<>>, n)
<1>1. Len(<<>>) = 0
  BY EmptySeq
<1>2. ASSUME NEW t \in Seq(Octet) PROVE t \o <<>> = t
  BY ConcatEmptySeq
<1> QED
  BY <1>1, <1>2 DEF Undelimited

\* So it is with a byte between sentences.
LEMMA MissedNoise ==
  ASSUME text \in Seq(Octet), Held(text), Unbroken(text), Missed(<<>>, text, got),
         NEW c \in Octet, c \notin StartDelimiter, c # LF, PushByte(c)
  PROVE  Missed(<<>>, text', got')
<1> DEFINE t == Append(text, c)
<1>1. got.kind # "message"
  BY DEF Missed
<1>2. CASE text = <<>>
  <2>1. text' = <<>> /\ got' = got
    BY <1>2, Skipped
  <2> QED
    BY <1>1, <2>1, NothingToCome DEF Missed
<1>3. CASE text # <<>>
  <2>1. Unreadable(text)
    BY <1>3, NothingToCome DEF Missed
  <2>2. Unreadable(t) /\ t \in Seq(Octet) /\ t # <<>> /\ t \o <<>> = t
    BY <2>1, UnreadableOn, AppendProperties, NothingToCome
  <2> HIDE DEF t
  <2>3. ASSUME NEW e, Ends(t, e) PROVE FALSE
    <3>1. Agree(t, t)
      BY DEF Agree
    <3>2. Len(t) \in e..e + 3
      BY <2>2, <2>3, <3>1 DEF Unreadable
    <3>3. Len(t) = e + 4 /\ e \in Nat
      BY <2>3, SizeAssumption DEF Ends
    <3> QED
      BY <3>2, <3>3
  <2>4. got' = got
    BY <2>3, ViewEnds DEF t
  <2>5. text' = <<>> \/ text' = t
    <3>1. Receiver!Continue(c)
      BY <1>3, TextStep
    <3> QED
      BY <3>1 DEF Receiver!Continue, t
  <2> QED
    BY <1>1, <2>2, <2>4, <2>5, NothingToCome DEF Missed
<1> QED
  BY <1>2, <1>3

\* A sentence that follows is missed with the damaged one, or is the first that is read.
LEMMA MissedThen ==
  ASSUME text \in Seq(Octet), Missed(<<>>, text, got), text # <<>>,
         NEW w \in Seq(Octet), w # <<>>, w[1] = DOLLAR, Undelimited(w, 2)
  PROVE  Missed(w, text, Nothing)
<1>1. Unreadable(text)
  BY NothingToCome DEF Missed
<1>2. Unreadable(text \o w)
  BY <1>1, UnreadableThen
<1> QED
  BY <1>2 DEF Missed, Nothing

\* A sentence as a receiver needs it that is to notice a fault.
Plainly(w, e) ==
  /\ Framed(w, e) /\ w[e] = STAR /\ e <= RxSize + 1 /\ w[1] = DOLLAR
  /\ \A i \in 2..e + 4 : w[i] \notin StartDelimiter /\ w[i] # 0

\* These are sent.
LEMMA PlainlySent ==
  ASSUME Detectable, scenario \in Scenario, MaxFaults[scenario] > 0, NEW s \in Sends[scenario]
  PROVE  \E e : Plainly(Whole(s), e)
<1> DEFINE b == Body(s.talker, s.msg, Payload(s))
           f == Footer(b)
           w == Whole(s)
           F == Fields(s)
           txt == Texts(s)
           N == Len(s.msg.fields)
<1>0. Receivable
  BY DEF Detectable
<1>1. /\ s.talker \in Seq(Plain) /\ Len(s.talker) = 2
      /\ s.msg.id \in Seq(Plain) /\ Len(s.msg.id) = 3
      /\ s.talker \in Seq(Octet) /\ s.msg.id \in Seq(Octet)
      /\ N \in 0..32 /\ \E o : Laid(F, txt, o, N)
  BY <1>0, Sendable, Zenon
<1>2. PICK o : Laid(F, txt, o, N)
  BY <1>1
<1>3. F \in Seq(Octet) /\ Len(F) = o[N] /\ o[N] \in Nat
  BY <1>2, LenProperties DEF Laid
<1>4. Standing(w, s, F)
  BY <1>1, <1>3, SentenceStands DEF Whole
<1>5. b \in Seq(Octet) /\ Len(b) = 6 + o[N] /\ Len(b) <= RxSize /\ \A i \in 1..6 + o[N] : b[i] # 0
  <2>1. b \in Seq(Octet) /\ Len(b) = 6 + Len(F)
    BY <1>1, <1>3, BodyStands
  <2>2. Len(b) <= RxSize /\ \A i \in 1..Len(b) : b[i] # 0
    BY DEF Detectable
  <2> QED
    BY <1>3, <2>1, <2>2
<1>6. \A i \in 1..6 + o[N] : w[i] = b[i]
  <2>1. w = b \o f
    BY DEF Whole, Sentence
  <2>2. f \in Seq(Octet)
    <3>1. b # <<>>
      BY <1>3, <1>5, EmptySeq
    <3> QED
      BY <1>5, <3>1, FooterType
  <2> HIDE DEF b, f, w
  <2> QED
    BY <1>5, <2>1, <2>2, Joined
<1> HIDE DEF b, f, w, F, txt, N
<1>7. N \in Nat /\ 6 + o[N] <= RxSize + 1
  BY <1>1, <1>3, <1>5, SizeAssumption
<1> DEFINE e == 7 + o[N]
<1>8. Framed(w, e) /\ w[e] = STAR /\ \A i \in 2..6 + o[N] : w[i] \in Plain \union {COMMA}
  BY <1>1, <1>2, <1>4, <1>7, SentenceFramed
<1>9. w[1] = DOLLAR
  BY <1>4 DEF Standing
<1>10. e \in Nat /\ e <= RxSize + 1 /\ e >= 7 /\ \A i \in 2..e - 1 : i \in 2..6 + o[N] /\ i \in 1..6 + o[N]
  BY <1>3, <1>5, SizeAssumption
<1> HIDE DEF e
<1>11. ASSUME NEW i \in 2..e + 4 PROVE w[i] \notin StartDelimiter /\ w[i] # 0
  <2>1. CASE i \in 2..e - 1
    <3>1. w[i] \in Plain \union {COMMA} /\ w[i] # 0
      BY <1>5, <1>6, <1>8, <1>10, <2>1
    <3> QED
      BY <3>1 DEF Plain, StartDelimiter, COMMA, DOLLAR, BANG
  <2>2. CASE ~(i \in 2..e - 1)
    <3>1. i = e \/ i = e + 1 \/ i = e + 2 \/ i = e + 3 \/ i = e + 4
      BY <1>10, <2>2
    <3>2. w[i] \in HexDigit \union {STAR, CR, LF}
      BY <1>8, <3>1 DEF Framed
    <3>3. \A c \in HexDigit : c \notin StartDelimiter /\ c # 0
      BY DEF HexDigit, StartDelimiter, DOLLAR, BANG
    <3>4. \A c \in {STAR, CR, LF} : c \notin StartDelimiter /\ c # 0
      BY DEF STAR, CR, LF, StartDelimiter, DOLLAR, BANG
    <3> QED
      BY <3>2, <3>3, <3>4
  <2> QED
    BY <2>1, <2>2
<1> QED
  BY <1>8, <1>9, <1>10, <1>11 DEF Plainly, w

\* What is left of a sentence on the line.
LEMMA LeftOf ==
  ASSUME NEW w \in Seq(Octet), NEW t, Begins(t, w), Len(t) < Len(w),
         NEW l, l = SubSeq(w, Len(t) + 1, Len(w))
  PROVE  /\ l \in Seq(Octet) /\ l # <<>> /\ Len(l) = Len(w) - Len(t) /\ Len(t) \in Nat
         /\ \A i \in 1..Len(w) - Len(t) : l[i] = w[Len(t) + i]
         /\ Head(l) = w[Len(t) + 1]
         /\ Tail(l) \in Seq(Octet) /\ Len(Tail(l)) = Len(w) - Len(t) - 1
         /\ \A i \in 1..Len(w) - Len(t) - 1 : Tail(l)[i] = w[Len(t) + 1 + i]
<1> DEFINE n == Len(t)
           m == Len(w)
           r == Tail(l)
<1>1. n \in Nat /\ m \in Nat /\ n < m
  BY LenProperties DEF Begins
<1>2. /\ l \in Seq(Octet) /\ Len(l) = m - (n + 1) + 1
      /\ \A i \in 1..m - (n + 1) + 1 : l[i] = w[(n + 1) - 1 + i]
  <2>1. n + 1 \in 1..m /\ m \in (n + 1) - 1..m
    BY <1>1
  <2> QED
    BY <2>1, Part
<1> HIDE DEF n, m
<1>3. Len(l) = m - n /\ Len(l) > 0 /\ \A i \in 1..m - n : l[i] = w[n + i]
  <2>1. m - (n + 1) + 1 = m - n /\ m - n > 0 /\ \A i \in 1..m - n : (n + 1) - 1 + i = n + i
    BY <1>1
  <2>2. Len(l) = m - n /\ \A i \in 1..m - n : l[i] = w[(n + 1) - 1 + i]
    BY <1>2, <2>1
  <2> QED
    BY <2>1, <2>2
<1>4. l # <<>>
  BY <1>3, EmptySeq
<1>5. /\ Head(l) = l[1] /\ r \in Seq(Octet) /\ Len(r) = Len(l) - 1
      /\ \A i \in 1..Len(r) : r[i] = l[i + 1]
  BY <1>2, <1>4, HeadTailProperties
<1> HIDE DEF r
<1>6. Head(l) = w[n + 1]
  <2>1. 1 \in 1..m - n
    BY <1>1
  <2> QED
    BY <1>3, <1>5, <2>1
<1>7. Len(r) = m - n - 1
  BY <1>3, <1>5
<1>8. ASSUME NEW i \in 1..m - n - 1 PROVE r[i] = w[n + 1 + i]
  <2>1. i \in 1..Len(r) /\ i + 1 \in 1..m - n /\ n + (i + 1) = n + 1 + i
    BY <1>1, <1>7
  <2> QED
    BY <1>3, <1>5, <2>1
<1> QED
  BY <1>1, <1>2, <1>3, <1>4, <1>6, <1>5, <1>7, <1>8 DEF n, m, r

\* A sentence of which a byte was lost is missed.
LEMMA LossMissed ==
  ASSUME NEW w, NEW e, Plainly(w, e), NEW s, NEW m, NEW l, l # <<>>, NEW t, NEW g,
         Carrying(w, s, m, l, t, g)
  PROVE  Missed(Tail(l), t, g)
<1> DEFINE n == Len(t)
           r == Tail(l)
           z == t \o r
<1>1. /\ w \in Seq(Octet) /\ Len(w) = e + 4 /\ e \in Nat /\ Framed(w, e) /\ w[e] = STAR
      /\ e <= RxSize + 1 /\ \A i \in 2..e + 4 : w[i] \notin StartDelimiter /\ w[i] # 0
  BY SizeAssumption DEF Plainly, Framed
<1>2. Begins(t, w) /\ n < Len(w) /\ l = SubSeq(w, n + 1, Len(w)) /\ g = Nothing
  BY DEF Carrying
<1>3. /\ t \in Seq(Octet) /\ n \in Nat /\ n < e + 4 /\ (\A i \in 1..n : t[i] = w[i])
      /\ r \in Seq(Octet) /\ Len(r) = e + 4 - n - 1
      /\ \A i \in 1..e + 4 - n - 1 : r[i] = w[n + 1 + i]
  <2> DEFINE N == Len(w)
  <2>1. /\ n \in Nat /\ r \in Seq(Octet) /\ Len(r) = N - n - 1
        /\ \A i \in 1..N - n - 1 : r[i] = w[n + 1 + i]
    BY <1>1, <1>2, LeftOf
  <2>2. t \in Seq(Octet) /\ n < N /\ \A i \in 1..n : t[i] = w[i]
    BY <1>2 DEF Begins
  <2>3. N = e + 4 /\ e \in Nat
    BY <1>1
  <2> HIDE DEF n, N, r
  <2>4. N - n - 1 = e + 4 - n - 1 /\ n < e + 4
    BY <2>1, <2>2, <2>3
  <2> QED
    BY <2>1, <2>2, <2>4, Zenon
<1>4. /\ z \in Seq(Octet) /\ Len(z) = n + Len(r)
      /\ (\A i \in 1..n : z[i] = t[i]) /\ \A i \in 1..Len(r) : z[n + i] = r[i]
  BY <1>3, Joined
<1> HIDE DEF n, r, z
<1>5. \A k \in {1, 2} : Undelimited(r, k)
  <2>1. ASSUME NEW i \in 1..Len(r) PROVE r[i] \notin StartDelimiter
    <3>1. i \in 1..e + 4 - n - 1 /\ n + 1 + i \in 2..e + 4
      BY <1>1, <1>3
    <3> QED
      BY <1>1, <1>3, <3>1
  <2>2. \A k \in {1, 2} : \A i \in k..Len(r) : i \in 1..Len(r)
    OBVIOUS
  <2> QED
    BY <2>1, <2>2 DEF Undelimited
<1>6. CASE t = <<>>
  BY <1>2, <1>5, <1>6 DEF Missed, Nothing, r
<1>7. CASE t # <<>>
  <2>1. n > 0
    BY <1>3, <1>7, EmptySeq DEF n
  <2>2. n + 1 \in 2..e + 4 /\ Len(z) = e + 3
    BY <1>1, <1>3, <1>4, <2>1
  <2>3. ASSUME NEW j \in 1..e + 3 PROVE z[j] = IF j < n + 1 THEN w[j] ELSE w[j + 1]
    <3>1. CASE j <= n
      <4>1. j \in 1..n /\ j < n + 1
        BY <1>3, <3>1
      <4> QED
        BY <1>3, <1>4, <4>1
    <3>2. CASE j > n
      <4> DEFINE k == j - n
      <4>1. /\ k \in 1..Len(r) /\ k \in 1..e + 4 - n - 1 /\ n + k = j /\ n + 1 + k = j + 1
            /\ ~(j < n + 1)
        BY <1>1, <1>3, <3>2
      <4> HIDE DEF k
      <4>2. z[n + k] = r[k] /\ r[k] = w[n + 1 + k]
        BY <1>3, <1>4, <4>1
      <4> QED
        BY <4>1, <4>2
    <3> QED
      BY <1>3, <3>1, <3>2
  <2>4. Unreadable(z)
    <3> DEFINE d == n + 1
    <3>1. /\ d \in 2..e + 4 /\ w[d] # 0 /\ z \in Seq(Octet) /\ Len(z) = e + 3
          /\ \A j \in 1..e + 3 : z[j] = IF j < d THEN w[j] ELSE w[j + 1]
      BY <1>1, <1>4, <2>2, <2>3
    <3> HIDE DEF d
    <3> QED
      BY <1>1, <3>1, LossTold
  <2> QED
    BY <1>2, <1>5, <1>7, <2>4 DEF Missed, Nothing, z, r
<1> QED
  BY <1>6, <1>7

\* Only the delimiter is another.
LEMMA FramedAs ==
  ASSUME NEW w, NEW e, Framed(w, e), NEW z \in Seq(Octet), Len(z) = Len(w),
         z[1] \in StartDelimiter, \A j \in 2..e + 4 : z[j] = w[j]
  PROVE  Framed(z, e)
<1> DEFINE x == SubSeq(w, 2, e - 1)
           y == SubSeq(z, 2, e - 1)
<1>1. /\ w \in Seq(Octet) /\ e \in Nat /\ e >= 2 /\ Len(w) = e + 4 /\ e \in 2..RxSize + 2
      /\ \A i \in 2..e - 1 : w[i] \notin {STAR, LF}
      /\ w[e] \in {STAR, LF} /\ w[e + 1] \in HexDigit /\ w[e + 2] \in HexDigit
      /\ 16 * HexValue(w[e + 1]) + HexValue(w[e + 2]) = XorOf(x)
      /\ w[e + 3] = CR /\ w[e + 4] = LF
  BY SizeAssumption DEF Framed
<1>2. /\ \A i \in 2..e - 1 : i \in 2..e + 4
      /\ e \in 2..e + 4 /\ e + 1 \in 2..e + 4 /\ e + 2 \in 2..e + 4 /\ e + 3 \in 2..e + 4
      /\ e + 4 \in 2..e + 4
  BY <1>1
<1>3. x = y
  <2>1. 2 \in 1..Len(w) /\ e - 1 \in 2 - 1..Len(w) /\ (e - 1) - 2 + 1 = e - 2
        /\ \A j \in 1..e - 2 : 2 - 1 + j = 1 + j /\ 1 + j \in 2..e + 4
    <3>1. e \in Nat /\ e >= 2 /\ Len(w) = e + 4
      BY <1>1
    <3> QED
      BY <3>1
  <2>2. x \in Seq(Octet) /\ Len(x) = e - 2 /\ \A j \in 1..e - 2 : x[j] = w[1 + j]
    BY <1>1, <2>1, Part
  <2>3. y \in Seq(Octet) /\ Len(y) = e - 2 /\ \A j \in 1..e - 2 : y[j] = z[1 + j]
    BY <1>1, <2>1, Part
  <2> HIDE DEF x, y
  <2>4. \A j \in 1..Len(x) : x[j] = y[j]
    BY <2>1, <2>2, <2>3
  <2> QED
    BY <2>2, <2>3, <2>4, SeqEqual
<1> HIDE DEF x, y
<1>4. /\ \A i \in 2..e - 1 : z[i] \notin {STAR, LF}
      /\ z[e] \in {STAR, LF} /\ z[e + 1] = w[e + 1] /\ z[e + 2] = w[e + 2]
      /\ z[e + 3] = CR /\ z[e + 4] = LF
  BY <1>1, <1>2
<1> QED
  BY <1>1, <1>3, <1>4, Zenon DEF Framed, y

\* A sentence of which a byte was changed is missed, or nothing that is read of it has changed:
\* it has the other delimiter, a newline for its star or the other letters in its checksum.
LEMMA ChangeMissed ==
  ASSUME text \in Seq(Octet), Held(text), Unbroken(text),
         NEW w, NEW e, Plainly(w, e), NEW s, Readable(w, s), NEW l, l # <<>>,
         Carrying(w, s, sent, l, text, got), NEW c \in Octet, c # Head(l), PushByte(c)
  PROVE  \/ Missed(Tail(l), text', got')
         \/ \E z : Readable(z, s) /\ Carrying(z, s, sent, Tail(l), text', got')
<1> DEFINE n == Len(text)
           k == [l EXCEPT ![1] = c]
           z == text \o k
<1>1. /\ w \in Seq(Octet) /\ Len(w) = e + 4 /\ e \in Nat /\ e >= 2 /\ Framed(w, e) /\ w[e] = STAR
      /\ w[1] = DOLLAR
      /\ e <= RxSize + 1 /\ \A i \in 2..e + 4 : w[i] \notin StartDelimiter
  BY SizeAssumption DEF Plainly, Framed
<1>2. /\ Begins(text, w) /\ n < Len(w) /\ l = SubSeq(w, n + 1, Len(w)) /\ got = Nothing
      /\ SentAs(sent, s)
  BY DEF Carrying
<1>3. /\ n \in Nat /\ n < e + 4 /\ (\A i \in 1..n : text[i] = w[i])
      /\ l \in Seq(Octet) /\ Len(l) = e + 4 - n
      /\ (\A i \in 1..e + 4 - n : l[i] = w[n + i])
      /\ Head(l) = w[n + 1]
      /\ Tail(l) \in Seq(Octet) /\ Len(Tail(l)) = e + 4 - n - 1
      /\ \A i \in 1..e + 4 - n - 1 : Tail(l)[i] = w[n + 1 + i]
  <2>1. /\ l \in Seq(Octet) /\ Len(l) = Len(w) - n /\ n \in Nat
        /\ (\A i \in 1..Len(w) - n : l[i] = w[n + i])
        /\ Head(l) = w[n + 1]
        /\ Tail(l) \in Seq(Octet) /\ Len(Tail(l)) = Len(w) - n - 1
        /\ \A i \in 1..Len(w) - n - 1 : Tail(l)[i] = w[n + 1 + i]
    <3>1. w \in Seq(Octet) /\ Begins(text, w) /\ n < Len(w) /\ l = SubSeq(w, n + 1, Len(w))
      BY <1>1, <1>2, Zenon
    <3> QED
      BY <3>1, LeftOf
  <2>2. n < Len(w) /\ \A i \in 1..n : text[i] = w[i]
    BY <1>2 DEF Begins
  <2> HIDE DEF n
  <2> DEFINE m == Len(w)
  <2>3. m = e + 4 /\ e \in Nat
    BY <1>1
  <2>4. n < m /\ Len(l) = m - n /\ Len(Tail(l)) = m - n - 1
    BY <2>1, <2>2
  <2>5. /\ \A i \in 1..m - n : l[i] = w[n + i]
        /\ \A i \in 1..m - n - 1 : Tail(l)[i] = w[n + 1 + i]
    BY <2>1
  <2> HIDE DEF m
  <2>6. n < e + 4 /\ Len(l) = e + 4 - n /\ Len(Tail(l)) = e + 4 - n - 1
    BY <2>1, <2>3, <2>4
  <2>7. /\ \A i \in 1..e + 4 - n : l[i] = w[n + i]
        /\ \A i \in 1..e + 4 - n - 1 : Tail(l)[i] = w[n + 1 + i]
    <3>1. m - n = e + 4 - n /\ m - n - 1 = e + 4 - n - 1
      BY <2>1, <2>3
    <3> QED
      BY <2>5, <3>1, Zenon
  <2> QED
    BY <2>1, <2>2, <2>6, <2>7, Zenon
<1> HIDE DEF n
<1>4. /\ k \in Seq(Octet) /\ Len(k) = e + 4 - n /\ k[1] = c
      /\ \A i \in 2..e + 4 - n : k[i] = w[n + i]
  <2>1. l \in [1..e + 4 - n -> Octet] /\ 1 \in 1..e + 4 - n
    BY <1>3, LenProperties
  <2>2. /\ k \in [1..e + 4 - n -> Octet] /\ k[1] = c
        /\ \A i \in 1..e + 4 - n : i # 1 => k[i] = l[i]
    BY <2>1
  <2>3. e + 4 - n \in Nat
    BY <1>1, <1>3
  <2> HIDE DEF k
  <2>4. k \in Seq(Octet) /\ Len(k) = e + 4 - n
    BY <2>2, <2>3
  <2>5. \A i \in 2..e + 4 - n : i \in 1..e + 4 - n /\ i # 1
    OBVIOUS
  <2> QED
    BY <1>3, <2>2, <2>4, <2>5
<1> HIDE DEF k
<1>5. k # <<>> /\ Head(k) = c /\ Tail(k) = Tail(l)
  <2>1. k # <<>>
    BY <1>1, <1>3, <1>4, EmptySeq
  <2>2. /\ Head(k) = c /\ Tail(k) \in Seq(Octet) /\ Len(Tail(k)) = e + 4 - n - 1
        /\ \A i \in 1..Len(Tail(k)) : Tail(k)[i] = k[i + 1]
    <3>1. /\ Head(k) = k[1] /\ Tail(k) \in Seq(Octet) /\ Len(Tail(k)) = Len(k) - 1
          /\ \A i \in 1..Len(Tail(k)) : Tail(k)[i] = k[i + 1]
      BY <1>4, <2>1, HeadTailProperties
    <3>2. Len(k) - 1 = e + 4 - n - 1 /\ k[1] = c
      <4>1. Len(k) = e + 4 - n /\ k[1] = c
        BY <1>4
      <4> QED
        BY <1>1, <1>3, <4>1
    <3> QED
      BY <3>1, <3>2, Zenon
  <2>3. ASSUME NEW i \in 1..Len(Tail(k)) PROVE Tail(k)[i] = Tail(l)[i]
    <3>1. i \in 1..e + 4 - n - 1 /\ i + 1 \in 2..e + 4 - n /\ n + (i + 1) = n + 1 + i
      BY <1>1, <1>3, <2>2
    <3> QED
      BY <1>3, <1>4, <2>2, <3>1
  <2>4. Tail(k) = Tail(l)
    <3>1. Len(Tail(k)) = Len(Tail(l)) /\ Tail(k) \in Seq(Octet) /\ Tail(l) \in Seq(Octet)
      BY <1>3, <2>2, Zenon
    <3> QED
      BY <2>3, <3>1, SeqEqual, Zenon
  <2> QED
    BY <2>1, <2>2, <2>4, Zenon
<1>6. /\ z \in Seq(Octet) /\ Len(z) = e + 4 /\ z[n + 1] = c /\ n + 1 \in 1..e + 4
      /\ (\A i \in 1..n : z[i] = text[i])
      /\ (\A i \in 1..e + 4 - n : z[n + i] = k[i])
      /\ \A j \in 1..e + 4 : j # n + 1 => z[j] = w[j]
  <2>1. /\ z \in Seq(Octet) /\ Len(z) = n + Len(k)
        /\ (\A i \in 1..n : z[i] = text[i]) /\ \A i \in 1..Len(k) : z[n + i] = k[i]
    BY <1>4, Joined DEF n
  <2> HIDE DEF z
  <2>2. Len(z) = e + 4 /\ n + 1 \in 1..e + 4 /\ 1 \in 1..Len(k)
    BY <1>1, <1>3, <1>4, <2>1
  <2>3. ASSUME NEW j \in 1..e + 4, j # n + 1 PROVE z[j] = w[j]
    <3>1. CASE j <= n
      <4>1. j \in 1..n
        BY <1>3, <3>1
      <4> QED
        BY <1>3, <2>1, <4>1
    <3>2. CASE j > n
      <4> DEFINE i == j - n
      <4>1. i \in 1..Len(k) /\ i \in 2..e + 4 - n /\ n + i = j
        BY <1>1, <1>3, <1>4, <2>3, <3>2
      <4> HIDE DEF i
      <4> QED
        BY <1>4, <2>1, <4>1
    <3> QED
      BY <1>3, <3>1, <3>2
  <2> QED
    BY <1>4, <2>1, <2>2, <2>3
<1> HIDE DEF z
<1>7. ASSUME Missed(k, text, got) PROVE Missed(Tail(l), text', got')
  BY <1>4, <1>5, <1>7, MissedStep
<1>8. ASSUME Framed(z, e), \A j \in 2..e - 1 : z[j] = w[j]
      PROVE  Readable(z, s) /\ Carrying(z, s, sent, Tail(l), text', got')
  <2>1. Readable(z, s)
    <3>1. Receiver!View(z) = Receiver!View(w)
      BY <1>1, <1>8, SameView
    <3> QED
      BY <1>8, <3>1 DEF Readable
  <2>2. Begins(text, z)
    BY <1>1, <1>2, <1>3, <1>6 DEF Begins, n
  <2>3. k = SubSeq(z, n + 1, e + 4)
    <3>1. /\ n + 1 \in Nat \ {0} /\ e + 4 \in Nat /\ (n + 1) - 1 + Len(k) = e + 4 /\ n + 1 <= e + 4
          /\ e + 4 <= Len(z) /\ n + 1 <= Len(z)
          /\ \A i \in 1..Len(k) : (n + 1) - 1 + i = n + i /\ i \in 1..e + 4 - n
      BY <1>1, <1>3, <1>4, <1>6
    <3>2. \A i \in 1..Len(k) : z[(n + 1) - 1 + i] = k[i]
      BY <1>6, <3>1
    <3> DEFINE a == n + 1
               b == e + 4
    <3>3. /\ a \in Nat \ {0} /\ b \in Nat /\ a - 1 + Len(k) = b /\ b <= Len(z) /\ a <= Len(z)
          /\ (\A i \in 1..Len(k) : z[a - 1 + i] = k[i]) /\ k \in Seq(Octet) /\ z \in Seq(Octet)
      BY <1>4, <1>6, <3>1, <3>2
    <3> HIDE DEF a, b
    <3>4. SubSeq(z, a, b) = k
      BY <3>3, PartIs
    <3> QED
      BY <3>4 DEF a, b
  <2>4. Carrying(z, s, sent, k, text, got)
    BY <1>1, <1>2, <1>6, <2>2, <2>3 DEF Carrying, n
  <2>5. PushByte(Head(k))
    BY <1>5
  <2>6. Carrying(z, s, sent, Tail(k), text', got')
    BY <1>5, <2>1, <2>4, <2>5, CarryingStep
  <2> QED
    BY <1>5, <2>1, <2>6
<1>9. Undelimited(k, 2)
  <2>1. ASSUME NEW i \in 2..Len(k) PROVE k[i] \notin StartDelimiter
    <3>1. i \in 2..e + 4 - n
      BY <1>4, Zenon
    <3>2. n + i \in 2..e + 4
      <4>1. n \in Nat /\ e \in Nat
        BY <1>1, <1>3
      <4> QED
        BY <3>1, <4>1
    <3> QED
      BY <1>1, <1>4, <3>1, <3>2
  <2> QED
    BY <2>1 DEF Undelimited
<1>10. CASE text = <<>>
  <2>1. n = 0
    BY <1>10, EmptySeq DEF n
  <2>2. CASE c \in StartDelimiter
    <3>1. z[1] \in StartDelimiter /\ \A j \in 2..e + 4 : z[j] = w[j]
      BY <1>6, <2>1, <2>2
    <3>2. Framed(z, e) /\ \A j \in 2..e - 1 : z[j] = w[j]
      <4>1. Framed(z, e)
        BY <1>1, <1>6, <3>1, FramedAs
      <4>2. \A j \in 2..e - 1 : j \in 2..e + 4
        BY <1>1
      <4> QED
        BY <3>1, <4>1, <4>2
    <3> QED
      BY <1>8, <3>2
  <2>3. CASE c \notin StartDelimiter
    <3>1. Undelimited(k, 1)
      <4>1. \A i \in 1..Len(k) : i = 1 \/ i \in 2..Len(k)
        OBVIOUS
      <4> QED
        BY <1>4, <1>9, <2>3, <4>1 DEF Undelimited
    <3>2. Missed(k, text, got)
      BY <1>2, <1>10, <3>1 DEF Missed, Nothing
    <3> QED
      BY <1>7, <3>2
  <2> QED
    BY <2>2, <2>3
<1>11. CASE text # <<>>
  <2>1. n + 1 \in 2..e + 4
    <3>1. n > 0
      BY <1>3, <1>11, EmptySeq DEF n
    <3> QED
      BY <1>1, <1>3, <3>1
  <2>2. Len(z) = Len(w) /\ z[n + 1] # w[n + 1]
    BY <1>1, <1>3, <1>6
  <2>3. \A j \in 1..Len(w) : j # n + 1 => z[j] = w[j]
    BY <1>1, <1>6
  <2>4. \/ Framed(z, e) /\ \A j \in 2..e - 1 : z[j] = w[j]
        \/ Unreadable(z)
    BY <1>1, <1>6, <2>1, <2>2, <2>3, ChangeTold
  <2>5. CASE Unreadable(z)
    <3>1. Missed(k, text, got)
      BY <1>2, <1>9, <1>11, <2>5 DEF Missed, Nothing, z
    <3> QED
      BY <1>7, <3>1
  <2> QED
    BY <1>8, <2>4, <2>5
<1> QED
  BY <1>10, <1>11

\* How many bytes were lost or changed.
Harm == faults.lost + faults.changed

\* Where a sentence is, by how many bytes were lost or changed: without any it is on its way
\* or delivered; with one it is missed, or on its way or delivered with its payload intact.
Accounted(n, m, l, t, g) ==
  \/ n = 0 /\ l = <<>> /\ t = <<>> /\ g = Nothing
  \/ n = 0 /\ \E s \in Sends[scenario] : Carrying(Whole(s), s, m, l, t, g)
  \/ n = 1 /\ Missed(l, t, g)
  \/ n = 1 /\ \E s \in Sends[scenario] : \E z : Readable(z, s) /\ Carrying(z, s, m, l, t, g)

\* The sentence s is on its way or delivered.
Underway(s) == Readable(Whole(s), s) /\ Carrying(Whole(s), s, sent, line, text, got)

\* The inductive invariant.
InAccount ==
  /\ Typed /\ Unbroken(text)
  /\ Harm <= 1 /\ faults.cut = 0 => Accounted(Harm, sent, line, text, got)

\* The first state.
LEMMA InAccountInit == Init => InAccount
<1> SUFFICES ASSUME Init PROVE InAccount
  OBVIOUS
<1>1. Typed /\ text = <<>> /\ line = <<>> /\ got = Nothing
      /\ faults = [lost |-> 0, changed |-> 0, cut |-> 0]
  BY TypedInit DEF Init
<1>2. Harm = 0
  BY <1>1 DEF Harm
<1>3. Unbroken(text)
  BY <1>1, NothingHeld DEF Unbroken
<1> QED
  BY <1>1, <1>2, <1>3 DEF InAccount, Accounted

\* With nothing on the line, the framer is at no sentence unless it is at a missed one.
LEMMA AtRest ==
  ASSUME Receivable, scenario \in Scenario, Accounted(Harm, sent, <<>>, text, got)
  PROVE  text = <<>> \/ (Harm = 1 /\ Missed(<<>>, text, got))
<1>1. ASSUME NEW s \in Sends[scenario], Carrying(Whole(s), s, sent, <<>>, text, got)
      PROVE  text = <<>>
  BY <1>1, SentenceRead, NothingLeft
<1>2. ASSUME NEW s, NEW z, Readable(z, s), Carrying(z, s, sent, <<>>, text, got)
      PROVE  text = <<>>
  BY <1>2, NothingLeft
<1> QED
  BY <1>1, <1>2 DEF Accounted

\* Every step.
LEMMA InAccountStep ==
  ASSUME Detectable
  PROVE  InAccount /\ [Next]_vars => InAccount'
<1> SUFFICES ASSUME InAccount, [Next]_vars PROVE InAccount'
  OBVIOUS
<1>a. /\ line \in Seq(Octet) /\ text \in Seq(Octet) /\ Held(text) /\ Unbroken(text)
      /\ scenario \in Scenario /\ Receivable
      /\ Harm <= 1 /\ faults.cut = 0 => Accounted(Harm, sent, line, text, got)
      /\ faults \in [lost : Nat, changed : Nat, cut : Nat] /\ Harm <= MaxFaults[scenario]
  BY DEF InAccount, Typed, TypeOK, Detectable, Harm
<1>b. ASSUME scenario' = scenario, Unbroken(text'),
             Harm' <= 1 /\ faults'.cut = 0 => Accounted(Harm', sent', line', text', got')
      PROVE  InAccount'
  <2>1. Typed'
    BY TypedStep DEF InAccount
  <2>2. Unbroken(text)' <=> Unbroken(text')
    BY DEF Unbroken, Ended, Behind, Receiver!PayloadEnds, Receiver!PayloadEnd
  <2>3. Accounted(Harm, sent, line, text, got)' <=> Accounted(Harm', sent', line', text', got')
    BY <1>b DEF Accounted
  <2> QED
    BY <1>b, <2>1, <2>2, <2>3 DEF InAccount
<1>c. \A c \in Octet : PushByte(c) => Unbroken(text')
  BY <1>a, UnbrokenStep
<1>d. line # <<>> => Head(line) \in Octet
  BY <1>a, HeadTailProperties
<1>e. /\ Harm \in Nat /\ faults.lost \in Nat /\ faults.changed \in Nat /\ faults.cut \in Nat
      /\ MaxFaults[scenario] \in Nat
  BY <1>a, BoundAssumption DEF Harm
<1>f. ASSUME faults' = faults PROVE Harm' = Harm
  BY <1>f DEF Harm
<1>g. ASSUME faults' = [faults EXCEPT !.lost = @ + 1] \/ faults' = [faults EXCEPT !.changed = @ + 1]
      PROVE  Harm' = Harm + 1 /\ faults'.cut = faults.cut
  <2>1. \/ faults'.lost = faults.lost + 1 /\ faults'.changed = faults.changed
        \/ faults'.lost = faults.lost /\ faults'.changed = faults.changed + 1
    BY <1>a, <1>g
  <2>2. faults'.cut = faults.cut
    BY <1>a, <1>g
  <2>3. Harm' = faults'.lost + faults'.changed
    BY DEF Harm
  <2> QED
    BY <1>e, <2>1, <2>2, <2>3 DEF Harm
<1>1. ASSUME NEW s \in Sends[scenario], Send(s) PROVE InAccount'
  <2> DEFINE out == serialize(s.talker, s.msg, Payload(s), s.size)
             w == Whole(s)
  <2>1. /\ line = <<>> /\ line' = out /\ text' = text /\ scenario' = scenario
        /\ SentAs(sent', s) /\ got' = Nothing
        /\ faults' = IF out = w THEN faults ELSE [faults EXCEPT !.cut = @ + 1]
    BY <1>1, Zenon DEF Send, SentAs, Whole
  <2>2. Readable(w, s)
    BY <1>a, SentenceRead
  <2> HIDE DEF out, w
  <2>3. CASE out = w
    <3>1. faults' = faults /\ Harm' = Harm /\ line' = w
      BY <1>f, <2>1, <2>3
    <3>2. ASSUME Harm <= 1, faults.cut = 0 PROVE Accounted(Harm, sent', line', text', got')
      <4>1. Accounted(Harm, sent, <<>>, text, got)
        BY <1>a, <2>1, <3>2
      <4>2. CASE text = <<>>
        <5>1. Carrying(w, s, sent', line', text', got')
          BY <2>1, <2>2, <3>1, <4>2, SetOut
        <5>2. Harm = 0 \/ Harm = 1
          BY <1>e, <3>2
        <5> QED
          BY <2>2, <5>1, <5>2 DEF Accounted, w
      <4>3. CASE text # <<>>
        <5>1. Harm = 1 /\ Missed(<<>>, text, got)
          BY <1>a, <4>1, <4>3, AtRest
        <5>2. PICK e : Plainly(w, e)
          <6>1. MaxFaults[scenario] > 0
            BY <1>a, <1>e, <5>1
          <6> QED
            BY <1>a, <6>1, PlainlySent DEF w
        <5>3. w \in Seq(Octet) /\ w # <<>> /\ w[1] = DOLLAR /\ Undelimited(w, 2)
          <6>1. /\ w \in Seq(Octet) /\ Len(w) = e + 4 /\ e \in Nat /\ w[1] = DOLLAR
                /\ \A i \in 2..e + 4 : w[i] \notin StartDelimiter
            BY <5>2, SizeAssumption DEF Plainly, Framed
          <6>2. Len(w) # 0
            BY <6>1
          <6> QED
            BY <6>1, <6>2, EmptySeq DEF Undelimited
        <5>4. Missed(w, text, Nothing)
          BY <1>a, <4>3, <5>1, <5>3, MissedThen
        <5> QED
          BY <2>1, <3>1, <5>1, <5>4 DEF Accounted
      <4> QED
        BY <4>2, <4>3
    <3> QED
      BY <1>a, <1>b, <2>1, <3>1, <3>2
  <2>4. CASE out # w
    <3>1. faults'.cut = faults.cut + 1
      BY <1>a, <2>1, <2>4
    <3>2. faults'.cut # 0
      BY <1>e, <3>1
    <3> QED
      BY <1>a, <1>b, <2>1, <3>2
  <2> QED
    BY <2>3, <2>4
<1>2. CASE Deliver
  <2>1. /\ line # <<>> /\ line' = Tail(line) /\ PushByte(Head(line))
        /\ sent' = sent /\ faults' = faults /\ scenario' = scenario
    BY <1>2 DEF Deliver
  <2>2. Harm' = Harm
    BY <1>f, <2>1
  <2>3. ASSUME Harm <= 1, faults.cut = 0 PROVE Accounted(Harm, sent, line', text', got')
    <3>1. Accounted(Harm, sent, line, text, got)
      BY <1>a, <2>3
    <3>2. ASSUME Harm = 0, NEW s \in Sends[scenario], Carrying(Whole(s), s, sent, line, text, got)
          PROVE  Accounted(Harm, sent, line', text', got')
      <4>1. Carrying(Whole(s), s, sent, line', text', got')
        BY <1>a, <2>1, <3>2, SentenceRead, CarryingStep
      <4> QED
        BY <3>2, <4>1 DEF Accounted
    <3>3. ASSUME Harm = 1, Missed(line, text, got) PROVE Accounted(Harm, sent, line', text', got')
      <4>1. Missed(line', text', got')
        BY <1>a, <2>1, <3>3, MissedStep
      <4> QED
        BY <3>3, <4>1 DEF Accounted
    <3>4. ASSUME Harm = 1, NEW s \in Sends[scenario], NEW z, Readable(z, s),
                 Carrying(z, s, sent, line, text, got)
          PROVE  Accounted(Harm, sent, line', text', got')
      <4>1. Carrying(z, s, sent, line', text', got')
        BY <2>1, <3>4, CarryingStep
      <4> QED
        BY <3>4, <4>1 DEF Accounted
    <3> QED
      BY <2>1, <3>1, <3>2, <3>3, <3>4 DEF Accounted
  <2>4. Unbroken(text')
    BY <1>c, <1>d, <2>1
  <2> QED
    BY <1>b, <2>1, <2>2, <2>3, <2>4
<1>h. ASSUME MayFail, Harm + 1 <= 1, faults.cut = 0
      PROVE  /\ line # <<>> /\ Harm = 0 /\ MaxFaults[scenario] > 0
             /\ \E s \in Sends[scenario] : \E e : Plainly(Whole(s), e) /\ Underway(s)
  <2>1. line # <<>> /\ Harm < MaxFaults[scenario]
    BY <1>h DEF MayFail, Harm
  <2>2. Harm = 0 /\ MaxFaults[scenario] > 0
    BY <1>e, <1>h, <2>1
  <2>3. Accounted(Harm, sent, line, text, got)
    BY <1>a, <1>h, <2>2
  <2>4. PICK s \in Sends[scenario] : Carrying(Whole(s), s, sent, line, text, got)
    BY <2>1, <2>2, <2>3 DEF Accounted
  <2>5. Readable(Whole(s), s) /\ \E e : Plainly(Whole(s), e)
    BY <1>a, <2>2, SentenceRead, PlainlySent
  <2> QED
    BY <2>1, <2>2, <2>4, <2>5 DEF Underway
<1>3. CASE Lose
  <2>1. /\ MayFail /\ line' = Tail(line) /\ text' = text /\ got' = got /\ scenario' = scenario
        /\ faults' = [faults EXCEPT !.lost = @ + 1]
    BY <1>3 DEF Lose
  <2>2. Harm' = Harm + 1 /\ faults'.cut = faults.cut
    BY <1>g, <2>1
  <2>3. ASSUME Harm + 1 <= 1, faults.cut = 0 PROVE Harm + 1 = 1 /\ Missed(line', text', got')
    <3>1. /\ line # <<>> /\ Harm = 0
          /\ \E s \in Sends[scenario] : \E e : Plainly(Whole(s), e) /\ Underway(s)
      BY <1>h, <2>1, <2>3
    <3>2. PICK s \in Sends[scenario] : \E e : Plainly(Whole(s), e) /\ Underway(s)
      BY <3>1
    <3>3. Missed(Tail(line), text, got)
      BY <3>1, <3>2, LossMissed DEF Underway
    <3> QED
      BY <2>1, <2>3, <3>1, <3>3
  <2> QED
    BY <1>a, <1>b, <2>1, <2>2, <2>3 DEF Accounted
<1>4. ASSUME NEW c \in Garbage, Change(c) PROVE InAccount'
  <2>1. /\ MayFail /\ c # Head(line) /\ PushByte(c) /\ c \in Octet /\ line' = Tail(line)
        /\ sent' = sent /\ scenario' = scenario /\ faults' = [faults EXCEPT !.changed = @ + 1]
    BY <1>4, NoiseAssumption DEF Change
  <2>2. Harm' = Harm + 1 /\ faults'.cut = faults.cut
    BY <1>g, <2>1
  <2>3. ASSUME Harm + 1 <= 1, faults.cut = 0
        PROVE  /\ Harm + 1 = 1
               /\ \/ Missed(line', text', got')
                  \/ \E s \in Sends[scenario] : \E z :
                       Readable(z, s) /\ Carrying(z, s, sent, line', text', got')
    <3>1. /\ line # <<>> /\ Harm = 0
          /\ \E s \in Sends[scenario] : \E e : Plainly(Whole(s), e) /\ Underway(s)
      BY <1>h, <2>1, <2>3
    <3>2. PICK s \in Sends[scenario] : \E e : Plainly(Whole(s), e) /\ Underway(s)
      BY <3>1
    <3>3. \/ Missed(Tail(line), text', got')
          \/ \E z : Readable(z, s) /\ Carrying(z, s, sent, Tail(line), text', got')
      BY <1>a, <2>1, <3>1, <3>2, ChangeMissed DEF Underway
    <3> QED
      BY <2>1, <3>1, <3>3
  <2>4. Harm' <= 1 /\ faults'.cut = 0 => Accounted(Harm', sent', line', text', got')
    BY <2>1, <2>2, <2>3 DEF Accounted
  <2> QED
    BY <1>b, <1>c, <2>1, <2>4
<1>5. ASSUME NEW c \in Noise[scenario], MakeUp(c) PROVE InAccount'
  <2>1. /\ line = <<>> /\ line' = line /\ PushByte(c) /\ sent' = sent /\ faults' = faults
        /\ scenario' = scenario /\ c \in Octet /\ c \notin StartDelimiter
    BY <1>a, <1>5, NoiseAssumption DEF MakeUp
  <2>2. Harm' = Harm
    BY <1>f, <2>1
  <2>3. ASSUME Harm <= 1, faults.cut = 0 PROVE Accounted(Harm, sent, line', text', got')
    <3>1. Accounted(Harm, sent, line, text, got)
      BY <1>a, <2>3
    <3>2. CASE text = <<>>
      <4>1. text' = text /\ got' = got
        BY <2>1, <3>2, Skipped
      <4> QED
        BY <2>1, <3>1, <4>1
    <3>3. CASE text # <<>>
      <4>1. Harm = 1 /\ Missed(<<>>, text, got)
        BY <1>a, <2>1, <3>1, <3>3, AtRest
      <4>2. c # LF
        <5>1. MaxFaults[scenario] > 0
          BY <1>a, <1>e, <4>1
        <5> QED
          BY <1>a, <5>1 DEF Detectable
      <4>3. Missed(<<>>, text', got')
        BY <1>a, <2>1, <4>1, <4>2, MissedNoise
      <4> QED
        BY <2>1, <4>1, <4>3 DEF Accounted
    <3> QED
      BY <3>2, <3>3
  <2>4. Unbroken(text')
    BY <1>c, <2>1
  <2> QED
    BY <1>b, <2>1, <2>2, <2>3, <2>4
<1>6. CASE UNCHANGED vars
  <2>1. /\ text' = text /\ line' = line /\ sent' = sent /\ got' = got /\ faults' = faults
        /\ scenario' = scenario
    BY <1>6 DEF vars
  <2>2. Harm' = Harm
    BY <1>f, <2>1
  <2> QED
    BY <1>a, <1>b, <2>1, <2>2
<1> QED
  BY <1>1, <1>2, <1>3, <1>4, <1>5, <1>6 DEF Next

\* A byte that is lost or changed, wherever it hits, makes no other sentence of the one that
\* was sent, nor of the next that the framer may miss with it: what the application gets after
\* a single fault is what was sent.
THEOREM DamageIsDetected ==
  ASSUME Detectable
  PROVE  Spec => []DamageDetected
<1>1. InAccount => DamageDetected
  <2> SUFFICES ASSUME InAccount, got.kind = "message", Harm <= 1, faults.cut = 0 PROVE got = Meant
    BY DEF DamageDetected, Harm
  <2>1. Accounted(Harm, sent, line, text, got)
    BY DEF InAccount
  <2>2. got # Nothing
    BY DEF Nothing
  <2>3. PICK s, z : Carrying(z, s, sent, line, text, got)
    BY <2>1, <2>2 DEF Accounted, Missed
  <2>4. got = Arrived(s) /\ SentAs(sent, s)
    BY <2>2, <2>3 DEF Carrying
  <2>5. sent.msg = s.msg /\ sent.values = Payload(s)
    BY <2>4 DEF SentAs
  <2> QED
    BY <2>4, <2>5, Zenon DEF Meant, Arrived
<1> QED
  BY <1>1, InAccountInit, InAccountStep, PTL DEF Spec

-------------------------------------------------------------------------------
(* The payloads with a time or a position *)

\* Those that a fix is put into.
Fixed == {RMC, ZDA, GGA, GNS, GLL, GBS, GST}

\* No two of them are the same.
LEMMA PayloadsDiffer ==
  /\ RMC # ZDA /\ RMC # GGA /\ RMC # GNS /\ RMC # GLL /\ RMC # GBS /\ RMC # GST
  /\ ZDA # GGA /\ ZDA # GNS /\ ZDA # GLL /\ ZDA # GBS /\ ZDA # GST
  /\ GGA # GLL /\ GGA # GBS /\ GGA # GST /\ GNS # GLL /\ GNS # GBS /\ GNS # GST
  /\ GLL # GBS /\ GLL # GST
<1> DEFINE type(m) == <<m.id[1], m.id[2], m.id[3]>>
<1>1. /\ type(RMC) = <<82, 77, 67>> /\ type(ZDA) = <<90, 68, 65>> /\ type(GGA) = <<71, 71, 65>>
      /\ type(GNS) = <<71, 78, 83>> /\ type(GLL) = <<71, 76, 76>> /\ type(GBS) = <<71, 66, 83>>
      /\ type(GST) = <<71, 83, 84>>
  BY DEF RMC, ZDA, GGA, GNS, GLL, GBS, GST
<1> HIDE DEF type
<1> QED
  BY <1>1

\* Where their fields are.
LEMMA FieldNumbers ==
  /\ FieldNo(RMC) = [utc_time |-> 1, latitude |-> 3, latitude_direction |-> 4,
                     longitude |-> 5, longitude_direction |-> 6, date |-> 9]
  /\ FieldNo(ZDA) = [utc_time |-> 1, day |-> 2, month |-> 3, year |-> 4]
  /\ \A m \in {GGA, GNS} :
       FieldNo(m) = [utc_time |-> 1, latitude |-> 2, latitude_direction |-> 3,
                     longitude |-> 4, longitude_direction |-> 5]
  /\ FieldNo(GLL) = [latitude |-> 1, latitude_direction |-> 2, longitude |-> 3,
                     longitude_direction |-> 4, utc_time |-> 5]
  /\ \A m \in {GBS, GST} : FieldNo(m) = [utc_time |-> 1]
<1>1. FieldNo(RMC) = [utc_time |-> 1, latitude |-> 3, latitude_direction |-> 4,
                      longitude |-> 5, longitude_direction |-> 6, date |-> 9]
  BY PayloadsDiffer, Zenon DEF FieldNo, RmcFields
<1>2. FieldNo(ZDA) = [utc_time |-> 1, day |-> 2, month |-> 3, year |-> 4]
  BY PayloadsDiffer, Zenon DEF FieldNo, ZdaFields
<1>3. \A m \in {GGA, GNS} :
       FieldNo(m) = [utc_time |-> 1, latitude |-> 2, latitude_direction |-> 3,
                     longitude |-> 4, longitude_direction |-> 5]
  BY PayloadsDiffer, Zenon DEF FieldNo, GgaFields, GnsFields
<1>4. FieldNo(GLL) = [latitude |-> 1, latitude_direction |-> 2, longitude |-> 3,
                     longitude_direction |-> 4, utc_time |-> 5]
  BY PayloadsDiffer, Zenon DEF FieldNo, GllFields
<1>5. \A m \in {GBS, GST} : FieldNo(m) = [utc_time |-> 1]
  BY PayloadsDiffer, Zenon DEF FieldNo, GbsFields, GstFields
<1> QED
  BY <1>1, <1>2, <1>3, <1>4, <1>5

\* Sequences of fields.
Taken == [type : {"float", "int", "char", "text"}, precision : Nat, width : Nat]

\* s has l fields, the first n of them those of a.
Leads(a, n, s, l) == s \in Seq(Taken) /\ Len(s) = l /\ n <= l /\ \A i \in 1..n : s[i] = a[i]

\* More fields behind do not change the first.
LEMMA LeadsOn ==
  ASSUME NEW a, NEW n \in Nat, NEW s, NEW l \in Nat, Leads(a, n, s, l),
         NEW b \in Seq(Taken), NEW k \in Nat, Len(b) = k
  PROVE  Leads(a, n, s \o b, l + k)
BY DEF Leads

\* Repeated fields.
LEMMA RepeatType ==
  ASSUME NEW n \in Nat, NEW field \in Taken
  PROVE  Repeat(n, field) \in Seq(Taken) /\ Len(Repeat(n, field)) = n
<1>1. [i \in 1..n |-> field] \in Seq(Taken)
  BY SMT
<1>2. Len([i \in 1..n |-> field]) = n
  BY SMT
<1> QED
  BY <1>1, <1>2, Zenon DEF Repeat

\* What the fields of RMC are that hold a time, a date or a position.
LEMMA TypesOfRMC ==
  /\ RMC.fields[1] = UtcTime
  /\ RMC.fields[3] = Float(4, 9) /\ RMC.fields[4] = Enum
  /\ RMC.fields[5] = Float(4, 10) /\ RMC.fields[6] = Enum
  /\ RMC.fields[9] = Integer(6) /\ Len(RMC.fields) = 12
BY DEF RMC, Latitude, Longitude

\* Those of ZDA.
LEMMA TypesOfZDA ==
  /\ ZDA.fields[1] = UtcTime /\ ZDA.fields[2] = Integer(2) /\ ZDA.fields[3] = Integer(2)
  /\ ZDA.fields[4] = Integer(4) /\ Len(ZDA.fields) = 6
BY DEF ZDA

\* Those of GGA.
LEMMA TypesOfGGA ==
  /\ GGA.fields[1] = UtcTime
  /\ GGA.fields[2] = Float(4, 9) /\ GGA.fields[3] = Enum
  /\ GGA.fields[4] = Float(4, 10) /\ GGA.fields[5] = Enum /\ Len(GGA.fields) = 14
BY DEF GGA, Latitude, Longitude

\* Those of GLL.
LEMMA TypesOfGLL ==
  /\ GLL.fields[1] = Float(4, 9) /\ GLL.fields[2] = Enum
  /\ GLL.fields[3] = Float(4, 10) /\ GLL.fields[4] = Enum
  /\ GLL.fields[5] = UtcTime /\ Len(GLL.fields) = 7
BY DEF GLL, Latitude, Longitude

\* Those of GNS.
LEMMA TypesOfGNS ==
  /\ GNS.fields[1] = UtcTime
  /\ GNS.fields[2] = Float(4, 9) /\ GNS.fields[3] = Enum
  /\ GNS.fields[4] = Float(4, 10) /\ GNS.fields[5] = Enum /\ Len(GNS.fields) = 13
<1> DEFINE a == <<UtcTime>> \o Latitude \o Longitude
           b == <<String, Integer(2)>>
           c == Repeat(4, Float(1, 0))
           d == <<Integer(4), Enum>>
<1>1. /\ a \in Seq(Taken) /\ Len(a) = 5 /\ a[1] = UtcTime /\ a[2] = Float(4, 9) /\ a[3] = Enum
      /\ a[4] = Float(4, 10) /\ a[5] = Enum
  BY DEF Latitude, Longitude, Float, Enum, UtcTime, Taken
<1>2. b \in Seq(Taken) /\ d \in Seq(Taken) /\ Len(b) = 2 /\ Len(d) = 2
  BY DEF String, Integer, Enum, Taken
<1>3. c \in Seq(Taken) /\ Len(c) = 4
  BY RepeatType DEF Float, Taken
<1>4. GNS.fields = ((a \o b) \o c) \o d
  BY DEF GNS
<1> HIDE DEF a, b, c, d
<1>5. 5 \in Nat /\ 2 \in Nat /\ 4 \in Nat /\ 5 + 2 \in Nat /\ 5 + 2 + 4 \in Nat
  OBVIOUS
<1>6. Leads(a, 5, a, 5)
  BY <1>1 DEF Leads
<1>7. Leads(a, 5, a \o b, 5 + 2)
  BY <1>2, <1>5, <1>6, LeadsOn, Zenon
<1>8. Leads(a, 5, (a \o b) \o c, 5 + 2 + 4)
  BY <1>3, <1>5, <1>7, LeadsOn, Zenon
<1>9. Leads(a, 5, GNS.fields, 5 + 2 + 4 + 2)
  BY <1>2, <1>4, <1>5, <1>8, LeadsOn, Zenon
<1> QED
  BY <1>1, <1>9 DEF Leads

\* The one of GBS.
LEMMA TypesOfGBS == GBS.fields[1] = UtcTime /\ Len(GBS.fields) = 8
<1> DEFINE a == <<UtcTime>>
           b == Repeat(3, Float(1, 0))
           c == <<Integer(2), Float(3, 0)>>
           d == Repeat(2, Float(1, 0))
<1>1. a \in Seq(Taken) /\ Len(a) = 1 /\ a[1] = UtcTime
  BY DEF UtcTime, Float, Taken
<1>2. b \in Seq(Taken) /\ Len(b) = 3 /\ d \in Seq(Taken) /\ Len(d) = 2
  BY RepeatType DEF Float, Taken
<1>3. c \in Seq(Taken) /\ Len(c) = 2
  BY DEF Integer, Float, Taken
<1>4. GBS.fields = ((a \o b) \o c) \o d
  BY DEF GBS
<1> HIDE DEF a, b, c, d
<1>5. 1 \in Nat /\ 2 \in Nat /\ 3 \in Nat /\ 1 + 3 \in Nat /\ 1 + 3 + 2 \in Nat
  OBVIOUS
<1>6. Leads(a, 1, a, 1)
  BY <1>1 DEF Leads
<1>7. Leads(a, 1, a \o b, 1 + 3)
  BY <1>2, <1>5, <1>6, LeadsOn, Zenon
<1>8. Leads(a, 1, (a \o b) \o c, 1 + 3 + 2)
  BY <1>3, <1>5, <1>7, LeadsOn, Zenon
<1>9. Leads(a, 1, GBS.fields, 1 + 3 + 2 + 2)
  BY <1>2, <1>4, <1>5, <1>8, LeadsOn, Zenon
<1> QED
  BY <1>1, <1>9 DEF Leads

\* The one of GST.
LEMMA TypesOfGST == GST.fields[1] = UtcTime /\ Len(GST.fields) = 8
<1> DEFINE a == <<UtcTime>>
           b == Repeat(7, Float(1, 0))
<1>1. a \in Seq(Taken) /\ Len(a) = 1 /\ a[1] = UtcTime
  BY DEF UtcTime, Float, Taken
<1>2. b \in Seq(Taken) /\ Len(b) = 7 /\ 1 \in Nat /\ 7 \in Nat
  BY RepeatType DEF Float, Taken
<1>3. GST.fields = a \o b
  BY DEF GST
<1> HIDE DEF a, b
<1>4. Leads(a, 1, a, 1)
  BY <1>1 DEF Leads
<1>5. Leads(a, 1, GST.fields, 1 + 7)
  BY <1>2, <1>3, <1>4, LeadsOn, Zenon
<1> QED
  BY <1>1, <1>5 DEF Leads

-------------------------------------------------------------------------------
(* Positions *)

\* A field that is set has what was put into it.
LEMMA FieldSet ==
  ASSUME NEW m, NEW values, NEW a, NEW n, FieldNo(m)[a] \in DOMAIN values
  PROVE  Field(m, With(m, values, a, n), a) = Some(<<n>>)
BY DEF Field, With

\* Setting one field leaves the others.
LEMMA FieldKept ==
  ASSUME NEW m, NEW values, NEW a, NEW n, NEW b, FieldNo(m)[b] \in DOMAIN values,
         FieldNo(m)[a] # FieldNo(m)[b]
  PROVE  Field(m, With(m, values, a, n), b) = Field(m, values, b)
BY DEF Field, With

\* Setting a field adds none.
LEMMA SameFields == \A m, values, a, n : DOMAIN With(m, values, a, n) = DOMAIN values
BY DEF With

\* The four fields of a position.
Position == {"latitude", "latitude_direction", "longitude", "longitude_direction"}

\* The payloads with a position.
Located == {RMC, GGA, GNS, GLL}

\* In a payload with a position each of them is a field of its own, of the type it needs.
LEMMA PositionFields ==
  ASSUME NEW m \in Located
  PROVE  /\ Position \subseteq DOMAIN FieldNo(m)
         /\ \A a \in Position : FieldNo(m)[a] \in 1..Len(m.fields)
         /\ \A a, b \in Position : a # b => FieldNo(m)[a] # FieldNo(m)[b]
         /\ m.fields[FieldNo(m)["latitude"]] = Float(4, 9)
         /\ m.fields[FieldNo(m)["longitude"]] = Float(4, 10)
         /\ m.fields[FieldNo(m)["latitude_direction"]] = Enum
         /\ m.fields[FieldNo(m)["longitude_direction"]] = Enum
<1>1. CASE m = RMC
  BY <1>1, FieldNumbers, TypesOfRMC DEF Position
<1>2. CASE m = GGA
  BY <1>2, FieldNumbers, TypesOfGGA DEF Position
<1>4. CASE m = GNS
  BY <1>4, FieldNumbers, TypesOfGNS DEF Position
<1>3. CASE m = GLL
  BY <1>3, FieldNumbers, TypesOfGLL DEF Position
<1> QED
  BY <1>1, <1>2, <1>3, <1>4 DEF Located

\* The other payloads have none of them.
LEMMA NoPosition == \A m \in {ZDA, GBS, GST} : ~Has(m, "latitude")
BY FieldNumbers DEF Has

\* What a position becomes in the payload.
LEMMA PositionSet ==
  ASSUME NEW m \in Located, NEW values, DOMAIN values = 1..Len(m.fields),
         NEW latitude, NEW longitude
  PROVE  LET v == set_longitude_deg(m, set_latitude_deg(m, values, latitude), longitude)
         IN  /\ Field(m, v, "latitude") = Some(<<from_decimal(latitude)>>)
             /\ Field(m, v, "latitude_direction")
                  = Some(<<IF latitude >= 0 THEN North ELSE South>>)
             /\ Field(m, v, "longitude") = Some(<<from_decimal(longitude)>>)
             /\ Field(m, v, "longitude_direction")
                  = Some(<<IF longitude >= 0 THEN East ELSE West>>)
<1> DEFINE f == FieldNo(m)
           D == 1..Len(m.fields)
           ns == IF latitude >= 0 THEN North ELSE South
           ew == IF longitude >= 0 THEN East ELSE West
           a == With(m, values, "latitude", from_decimal(latitude))
           b == With(m, a, "latitude_direction", ns)
           c == With(m, b, "longitude", from_decimal(longitude))
           d == With(m, c, "longitude_direction", ew)
<1>1. /\ \A x \in Position : f[x] \in D
      /\ \A x, y \in Position : x # y => f[x] # f[y]
  BY PositionFields
<1>2. DOMAIN a = D /\ DOMAIN b = D /\ DOMAIN c = D
  BY SameFields
<1>3. d = set_longitude_deg(m, set_latitude_deg(m, values, latitude), longitude)
  BY DEF set_longitude_deg, set_latitude_deg
<1>4. "latitude" \in Position /\ "latitude_direction" \in Position
      /\ "longitude" \in Position /\ "longitude_direction" \in Position
  BY DEF Position
<1>5. /\ "latitude" # "latitude_direction" /\ "latitude" # "longitude"
      /\ "latitude" # "longitude_direction" /\ "latitude_direction" # "longitude"
      /\ "latitude_direction" # "longitude_direction" /\ "longitude" # "longitude_direction"
  OBVIOUS
<1> HIDE DEF f, D, ns, ew
<1>6. /\ Field(m, a, "latitude") = Some(<<from_decimal(latitude)>>)
      /\ Field(m, b, "latitude_direction") = Some(<<ns>>)
      /\ Field(m, c, "longitude") = Some(<<from_decimal(longitude)>>)
      /\ Field(m, d, "longitude_direction") = Some(<<ew>>)
  <2>1. /\ FieldNo(m)["latitude"] \in DOMAIN values
        /\ FieldNo(m)["latitude_direction"] \in DOMAIN a
        /\ FieldNo(m)["longitude"] \in DOMAIN b
        /\ FieldNo(m)["longitude_direction"] \in DOMAIN c
    BY <1>1, <1>2, <1>4 DEF f, D
  <2>2. Field(m, a, "latitude") = Some(<<from_decimal(latitude)>>)
    BY <2>1, FieldSet
  <2>3. Field(m, b, "latitude_direction") = Some(<<ns>>)
    BY <2>1, FieldSet
  <2>4. Field(m, c, "longitude") = Some(<<from_decimal(longitude)>>)
    BY <2>1, FieldSet
  <2>5. Field(m, d, "longitude_direction") = Some(<<ew>>)
    BY <2>1, FieldSet
  <2> QED
    BY <2>2, <2>3, <2>4, <2>5
<1>7. Field(m, b, "latitude") = Field(m, a, "latitude")
  BY <1>1, <1>2, <1>4, <1>5, FieldKept DEF f
<1>8. /\ Field(m, c, "latitude") = Field(m, b, "latitude")
      /\ Field(m, c, "latitude_direction") = Field(m, b, "latitude_direction")
  BY <1>1, <1>2, <1>4, <1>5, FieldKept DEF f
<1>9. /\ Field(m, d, "latitude") = Field(m, c, "latitude")
      /\ Field(m, d, "latitude_direction") = Field(m, c, "latitude_direction")
      /\ Field(m, d, "longitude") = Field(m, c, "longitude")
  BY <1>1, <1>2, <1>4, <1>5, FieldKept DEF f
<1> HIDE DEF a, b, c, d
<1> QED
  BY <1>3, <1>6, <1>7, <1>8, <1>9, Zenon DEF ns, ew

\* A delivered sentence is one that was sent, and the receiver has what is meant to arrive of
\* each of its fields.
LEMMA FixDelivered ==
  ASSUME Receivable, InCarriage, FixArrived
  PROVE  \E s \in Sends[scenario] :
           /\ scenario \in Scenario
           /\ sent = [kind |-> "message", msg |-> s.msg, values |-> Payload(s), fix |-> s.fix]
           /\ s.fix # NoFix
           /\ got.msg = s.msg
           /\ \A k \in 1..Len(s.msg.fields) :
                got.values[k] = Conveyed(s.msg.fields[k], Payload(s)[k])
<1>1. scenario \in Scenario /\ Carried
  BY DEF InCarriage, Typed
<1>2. PICK s \in Sends[scenario] : Carrying(Whole(s), s, sent, <<>>, text, got)
  BY <1>1 DEF Carried, FixArrived
<1>3. got = Arrived(s)
  BY <1>1, <1>2, SentenceRead, NothingLeft
<1>4. sent = [kind |-> "message", msg |-> s.msg, values |-> Payload(s), fix |-> s.fix]
  BY <1>2 DEF Carrying, SentAs
<1>5. s.fix # NoFix
  BY <1>4 DEF FixArrived
<1>6. DOMAIN Payload(s) = 1..Len(s.msg.fields)
  BY <1>1, SendAssumption
<1>7. /\ got.msg = s.msg
      /\ \A k \in 1..Len(s.msg.fields) :
           got.values[k] = Conveyed(s.msg.fields[k], Payload(s)[k])
  BY <1>3, <1>6 DEF Arrived
<1> QED
  BY <1>1, <1>4, <1>5, <1>7

\* A number arrives rounded to the decimals of its field.
LEMMA NumberConveyed ==
  ASSUME NEW n \in Int, NEW p \in 1..9, NEW w, Shown(Float(p, w), Some(<<n>>))
  PROVE  Conveyed(Float(p, w), Some(<<n>>)) =
           Some(<<IF n < 0 THEN -(10 * Rounded(n)) ELSE 10 * Rounded(n)>>)
<1> DEFINE field == Float(p, w)
           opt == Some(<<n>>)
           x == CHOOSE x \in {10 * r : r \in (n \div 10)..(n \div 10) + 1} : Abs(x - n) < 5
<1>1. opt.kind = "some" /\ opt.value = <<n>> /\ opt.value[1] = n /\ opt.value # <<>>
  BY DEF Some
<1>2. field.type = "float"
  BY DEF Float
<1>3. n % 10 # 5
  BY <1>1, <1>2, ShownNumber
<1>4. Conveyed(field, opt) = Some(<<x>>)
  BY <1>1, <1>2, Zenon DEF Conveyed
<1>5. x = IF n < 0 THEN -(10 * Rounded(n)) ELSE 10 * Rounded(n)
  BY <1>3, NearestTen
<1> QED
  BY <1>4, <1>5

\* What is no number with decimals arrives as it is.
LEMMA OtherConveyed ==
  ASSUME NEW field, field.type # "float", NEW c
  PROVE  Conveyed(field, Some(<<c>>)) = Some(<<c>>)
<1>1. Some(<<c>>).kind = "some" /\ Some(<<c>>).value = <<c>> /\ <<c>> # <<>>
  BY DEF Some
<1> QED
  BY <1>1, Zenon DEF Conveyed

\* An angle that arrives is within half of the last decimal of the one that was sent.
LEMMA AngleArrives ==
  ASSUME NEW a \in Int, NEW w, Shown(Float(4, w), Some(<<from_decimal(a)>>)),
         NEW written, written = Conveyed(Float(4, w), Some(<<from_decimal(a)>>)).value[1]
  PROVE  /\ Conveyed(Float(4, w), Some(<<from_decimal(a)>>)) = Some(<<written>>)
         /\ Abs(to_decimal(written, IF a >= 0 THEN North ELSE South) - a) <= 5
         /\ Abs(to_decimal(written, IF a >= 0 THEN East ELSE West) - a) <= 5
<1> DEFINE n == from_decimal(a)
<1>1. n \in Nat
  <2>1. PICK degrees \in Nat, minutes \in Nat : n = 100 * Minute * degrees + minutes
    BY DegreesAndMinutes
  <2> HIDE DEF n
  <2> QED
    BY <2>1, Units
<1>2. Conveyed(Float(4, w), Some(<<n>>)) =
        Some(<<IF n < 0 THEN -(10 * Rounded(n)) ELSE 10 * Rounded(n)>>)
  <2> HIDE DEF n
  <2>1. 4 \in 1..9 /\ n \in Int /\ Shown(Float(4, w), Some(<<n>>))
    BY <1>1 DEF n
  <2> QED
    BY <2>1, NumberConveyed, Zenon
<1>3. Conveyed(Float(4, w), Some(<<n>>)) = Some(<<10 * Rounded(n)>>)
  <2> HIDE DEF n
  <2> QED
    BY <1>1, <1>2
<1>4. written = 10 * Rounded(n)
  BY <1>3 DEF Some
<1>5. written \in Int
  <2> HIDE DEF n
  <2>1. Rounded(n) \in Nat
    BY <1>1 DEF Rounded, Abs
  <2> QED
    BY <1>4, <2>1
<1> QED
  BY <1>3, <1>4, <1>5, AnglesRounded, Zenon

\* Whatever else a fix sets, the payload keeps its fields.
LEMMA PayloadOfFix ==
  ASSUME NEW s, s.fix # NoFix, Has(s.msg, "latitude")
  PROVE  \E timed : /\ DOMAIN timed = DOMAIN Payload(s)
                    /\ Payload(s) = set_longitude_deg(s.msg,
                                      set_latitude_deg(s.msg, timed, s.fix.latitude),
                                      s.fix.longitude)
<1> DEFINE timed == IF Has(s.msg, "utc_time") THEN set_timestamp(s.msg, s.values, s.fix.time)
                    ELSE s.values
<1>1. Payload(s) = set_longitude_deg(s.msg, set_latitude_deg(s.msg, timed, s.fix.latitude),
                                     s.fix.longitude)
  BY DEF Payload
<1> HIDE DEF timed
<1>2. DOMAIN Payload(s) = DOMAIN timed
  <2>1. \A v : DOMAIN set_latitude_deg(s.msg, v, s.fix.latitude) = DOMAIN v
    BY SameFields DEF set_latitude_deg
  <2>2. \A v : DOMAIN set_longitude_deg(s.msg, v, s.fix.longitude) = DOMAIN v
    BY SameFields DEF set_longitude_deg
  <2> QED
    BY <1>1, <2>1, <2>2
<1> QED
  BY <1>1, <1>2

\* The position of a fix comes out of what arrives.
LEMMA PositionRead ==
  ASSUME scenario \in Scenario, NEW s \in Sends[scenario], s.fix # NoFix, Has(s.msg, "latitude"),
         NEW m, m = s.msg, NEW values,
         \A k \in 1..Len(m.fields) : values[k] = Conveyed(m.fields[k], Payload(s)[k])
  PROVE  /\ get_latitude_deg(m, values) # None
         /\ Abs(get_latitude_deg(m, values).value[1] - s.fix.latitude) <= 5
         /\ get_longitude_deg(m, values) # None
         /\ Abs(get_longitude_deg(m, values).value[1] - s.fix.longitude) <= 5
<1> DEFINE p == Payload(s)
           f == FieldNo(m)
           D == 1..Len(m.fields)
           lat == s.fix.latitude
           lon == s.fix.longitude
           ns == IF lat >= 0 THEN North ELSE South
           ew == IF lon >= 0 THEN East ELSE West
<1>1. m \in Located /\ lat \in Int /\ lon \in Int
  <2>1. /\ s.msg \in {RMC, ZDA, GGA, GNS, GLL, GBS, GST}
        /\ s.fix.latitude \in Int /\ s.fix.longitude \in Int
    BY FixAssumption
  <2>2. m \notin {ZDA, GBS, GST}
    BY NoPosition
  <2> QED
    BY <2>1, <2>2 DEF Located, lat, lon
<1>2. /\ DOMAIN p = D
      /\ \A k \in D : p[k] = None \/ Shown(m.fields[k], p[k])
  BY SendAssumption
<1>3. PICK timed : /\ DOMAIN timed = DOMAIN p
                   /\ p = set_longitude_deg(m, set_latitude_deg(m, timed, lat), lon)
  BY PayloadOfFix
<1>4. /\ Field(m, p, "latitude") = Some(<<from_decimal(lat)>>)
      /\ Field(m, p, "latitude_direction") = Some(<<ns>>)
      /\ Field(m, p, "longitude") = Some(<<from_decimal(lon)>>)
      /\ Field(m, p, "longitude_direction") = Some(<<ew>>)
  <2> HIDE DEF p, lat, lon
  <2>1. DOMAIN timed = 1..Len(m.fields)
    BY <1>2, <1>3
  <2> QED
    BY <1>1, <1>3, <2>1, PositionSet
<1> HIDE DEF p, lat, lon
<1>5. /\ "latitude" \in Position /\ "latitude_direction" \in Position
      /\ "longitude" \in Position /\ "longitude_direction" \in Position
  BY DEF Position
<1>6. /\ \A a \in Position : f[a] \in D
      /\ m.fields[f["latitude"]] = Float(4, 9) /\ m.fields[f["longitude"]] = Float(4, 10)
      /\ m.fields[f["latitude_direction"]] = Enum
      /\ m.fields[f["longitude_direction"]] = Enum
  BY <1>1, PositionFields
<1> HIDE DEF f, D, ns, ew
<1>7. \A a \in Position : Field(m, values, a) = Conveyed(m.fields[f[a]], Field(m, p, a))
  BY <1>6 DEF Field, f, D, p
<1>8. \A n : Some(n) # None /\ Some(n).kind # "none" /\ Some(n).value = n
  BY DEF Some, None
<1>9. \A a \in Position : Field(m, p, a) # None => Shown(m.fields[f[a]], Field(m, p, a))
  BY <1>2, <1>6 DEF Field, f
<1>10. /\ Shown(Float(4, 9), Some(<<from_decimal(lat)>>))
       /\ Shown(Float(4, 10), Some(<<from_decimal(lon)>>))
  <2>1. Field(m, p, "latitude") # None /\ Field(m, p, "longitude") # None
    BY <1>4, <1>8, Zenon
  <2> QED
    BY <1>4, <1>5, <1>6, <1>9, <2>1
<1> DEFINE wlat == Conveyed(Float(4, 9), Some(<<from_decimal(lat)>>)).value[1]
           wlon == Conveyed(Float(4, 10), Some(<<from_decimal(lon)>>)).value[1]
<1>11. /\ Conveyed(Float(4, 9), Some(<<from_decimal(lat)>>)) = Some(<<wlat>>)
       /\ Abs(to_decimal(wlat, ns) - lat) <= 5
  <2> HIDE DEF wlat
  <2>1. wlat = Conveyed(Float(4, 9), Some(<<from_decimal(lat)>>)).value[1]
    BY DEF wlat
  <2> QED
    BY <1>1, <1>10, <2>1, AngleArrives, Zenon DEF ns
<1>12. /\ Conveyed(Float(4, 10), Some(<<from_decimal(lon)>>)) = Some(<<wlon>>)
       /\ Abs(to_decimal(wlon, ew) - lon) <= 5
  <2> HIDE DEF wlon
  <2>1. wlon = Conveyed(Float(4, 10), Some(<<from_decimal(lon)>>)).value[1]
    BY DEF wlon
  <2> QED
    BY <1>1, <1>10, <2>1, AngleArrives, Zenon DEF ew
<1> HIDE DEF wlat, wlon
<1>13. /\ Field(m, values, "latitude") = Some(<<wlat>>)
       /\ Field(m, values, "longitude") = Some(<<wlon>>)
       /\ Field(m, values, "latitude_direction") = Some(<<ns>>)
       /\ Field(m, values, "longitude_direction") = Some(<<ew>>)
  <2>1. Enum.type # "float"
    BY DEF Enum
  <2> QED
    BY <1>4, <1>5, <1>6, <1>7, <1>11, <1>12, <2>1, OtherConveyed
<1>14. /\ ~Missing(m, values, {"latitude", "latitude_direction"})
       /\ ~Missing(m, values, {"longitude", "longitude_direction"})
  BY <1>8, <1>13 DEF Missing
<1>15. /\ Number(m, values, "latitude") = wlat /\ Number(m, values, "latitude_direction") = ns
       /\ Number(m, values, "longitude") = wlon /\ Number(m, values, "longitude_direction") = ew
  BY <1>8, <1>13 DEF Number
<1>16. /\ get_latitude_deg(m, values) = Some(<<to_decimal(wlat, ns)>>)
       /\ get_longitude_deg(m, values) = Some(<<to_decimal(wlon, ew)>>)
  BY <1>14, <1>15, Zenon DEF get_latitude_deg, get_longitude_deg
<1>17. /\ get_latitude_deg(m, values).value[1] = to_decimal(wlat, ns)
       /\ get_longitude_deg(m, values).value[1] = to_decimal(wlon, ew)
  BY <1>8, <1>16
<1> QED
  BY <1>8, <1>11, <1>12, <1>16, <1>17, Zenon DEF lat, lon

\* The position of every fix arrives with the decimals of its fields, in its hemisphere.
THEOREM PositionsArrive ==
  ASSUME Receivable
  PROVE  Spec => []PositionArrives
<1>1. InCarriage => PositionArrives
  <2> SUFFICES ASSUME InCarriage, FixArrived, Has(sent.msg, "latitude")
               PROVE  LET latitude == get_latitude_deg(got.msg, got.values)
                          longitude == get_longitude_deg(got.msg, got.values)
                      IN  /\ latitude # None /\ Abs(latitude.value[1] - sent.fix.latitude) <= 5
                          /\ longitude # None /\ Abs(longitude.value[1] - sent.fix.longitude) <= 5
    BY DEF PositionArrives
  <2>1. PICK s \in Sends[scenario] :
           /\ scenario \in Scenario
           /\ sent = [kind |-> "message", msg |-> s.msg, values |-> Payload(s), fix |-> s.fix]
           /\ s.fix # NoFix
           /\ got.msg = s.msg
           /\ \A k \in 1..Len(s.msg.fields) :
                got.values[k] = Conveyed(s.msg.fields[k], Payload(s)[k])
    BY FixDelivered
  <2>2. sent.msg = s.msg /\ sent.fix = s.fix
    BY <2>1
  <2>3. /\ get_latitude_deg(s.msg, got.values) # None
        /\ Abs(get_latitude_deg(s.msg, got.values).value[1] - s.fix.latitude) <= 5
        /\ get_longitude_deg(s.msg, got.values) # None
        /\ Abs(get_longitude_deg(s.msg, got.values).value[1] - s.fix.longitude) <= 5
    <3>1. Has(s.msg, "latitude")
      BY <2>2
    <3> QED
      BY <2>1, <3>1, PositionRead, Zenon
  <2> QED
    BY <2>1, <2>2, <2>3
<1> QED
  BY <1>1, InCarriageInit, InCarriageStep, PTL DEF Spec

-------------------------------------------------------------------------------
(* The calendar *)

\* The next multiple of d is passed where it is reached.
LEMMA NextQuotient ==
  ASSUME NEW n \in Int
  PROVE  /\ (n + 1) \div 4 = (n \div 4) + IF (n + 1) % 4 = 0 THEN 1 ELSE 0
         /\ (n + 1) \div 100 = (n \div 100) + IF (n + 1) % 100 = 0 THEN 1 ELSE 0
         /\ (n + 1) \div 400 = (n \div 400) + IF (n + 1) % 400 = 0 THEN 1 ELSE 0
OBVIOUS

\* The days of a year.
LEMMA YearDays ==
  ASSUME NEW y \in Int
  PROVE  YearStart(y) \in Int /\ YearStart(y + 1) = YearStart(y) + IF Leap(y) THEN 366 ELSE 365
<1> DEFINE a == y - 1969
           b == y - 1901
           c == y - 1601
<1>1. /\ (a + 1) \div 4 = (a \div 4) + IF (a + 1) % 4 = 0 THEN 1 ELSE 0
      /\ (b + 1) \div 100 = (b \div 100) + IF (b + 1) % 100 = 0 THEN 1 ELSE 0
      /\ (c + 1) \div 400 = (c \div 400) + IF (c + 1) % 400 = 0 THEN 1 ELSE 0
  <2>1. a \in Int /\ b \in Int /\ c \in Int
    OBVIOUS
  <2> HIDE DEF a, b, c
  <2> QED
    BY <2>1, NextQuotient
<1>2. /\ (a + 1) % 4 = 0 <=> y % 4 = 0
      /\ (b + 1) % 100 = 0 <=> y % 100 = 0
      /\ (c + 1) % 400 = 0 <=> y % 400 = 0
  OBVIOUS
<1>3. /\ YearStart(y) = 365 * (y - 1970) + (a \div 4) - (b \div 100) + (c \div 400)
      /\ YearStart(y + 1) = 365 * (y - 1969) + ((a + 1) \div 4) - ((b + 1) \div 100) + ((c + 1) \div 400)
  BY DEF YearStart
<1>4. a \div 4 \in Int /\ b \div 100 \in Int /\ c \div 400 \in Int
  OBVIOUS
<1>5. (y % 400 = 0 => y % 100 = 0) /\ (y % 100 = 0 => y % 4 = 0)
  OBVIOUS
<1> QED
  BY <1>1, <1>2, <1>3, <1>4, <1>5 DEF Leap

\* Later years begin later.
LEMMA YearsRise ==
  ASSUME NEW y \in Int, NEW z \in Int, y <= z
  PROVE  YearStart(y) <= YearStart(z)
BY DEF YearStart

\* Days are counted from 1970 on.
LEMMA FirstYear == YearStart(1970) = 0
BY DEF YearStart

\* Months follow one another.
LEMMA MonthSteps ==
  ASSUME NEW y \in Int
  PROVE  /\ MonthStart(y, 1) = YearStart(y)
         /\ \A m \in 1..11 : MonthStart(y, m + 1) = MonthStart(y, m) + MonthDays(y, m)
<1> DEFINE next == [x \in Int |-> [n \in Nat |-> x + MonthDays(y, n)]]
           Upto(f) == f = [k \in 0..11 |-> IF k = 0 THEN YearStart(y)
                                           ELSE f[k - 1] + MonthDays(y, k)]
           upTo == CHOOSE f : Upto(f)
<1>1. YearStart(y) \in Int /\ 11 \in Nat
  BY YearDays
<1>2. \A k : MonthDays(y, k) \in Int
  BY DEF MonthDays
<1>3. next \in [Int -> [Nat -> Int]]
  <2>1. \A x \in Int : [n \in Nat |-> x + MonthDays(y, n)] \in [Nat -> Int]
    BY <1>2
  <2> QED
    BY <2>1, Zenon
<1>4. \A x \in Int, n \in Nat : next[x][n] = x + MonthDays(y, n)
  <2> SUFFICES ASSUME NEW x \in Int, NEW n \in Nat PROVE next[x][n] = x + MonthDays(y, n)
    OBVIOUS
  <2>1. next[x] = [k \in Nat |-> x + MonthDays(y, k)]
    BY Zenon
  <2> QED
    BY <2>1, Zenon
<1> HIDE DEF next
<1>5. PICK f \in [0..11 -> Int] : Recursive(f, YearStart(y), next, 11)
  BY <1>1, <1>3, RecursionExists
<1>6. Upto(f)
  <2>1. ASSUME NEW k \in 0..11
        PROVE  f[k] = IF k = 0 THEN YearStart(y) ELSE f[k - 1] + MonthDays(y, k)
    <3>1. k \in Nat /\ (k # 0 => f[k - 1] \in Int)
      BY <1>5
    <3>2. f[k] = IF k = 0 THEN YearStart(y) ELSE next[f[k - 1]][k]
      BY <1>5 DEF Recursive
    <3> QED
      BY <1>4, <3>1, <3>2
  <2> QED
    BY <1>5, <2>1
<1>7. Upto(upTo)
  <2> HIDE DEF Upto
  <2> QED
    BY <1>6
<1>8. \A k \in 0..11 : upTo[k] = IF k = 0 THEN YearStart(y) ELSE upTo[k - 1] + MonthDays(y, k)
  <2>1. upTo = [k \in 0..11 |-> IF k = 0 THEN YearStart(y)
                                ELSE upTo[k - 1] + MonthDays(y, k)]
    BY <1>7, Zenon
  <2> HIDE DEF upTo
  <2> QED
    BY <2>1
<1>9. \A m : MonthStart(y, m) = upTo[m - 1]
  BY Zenon DEF MonthStart
<1> HIDE DEF upTo
<1>10. MonthStart(y, 1) = YearStart(y)
  BY <1>8, <1>9
<1>11. ASSUME NEW m \in 1..11
       PROVE  MonthStart(y, m + 1) = MonthStart(y, m) + MonthDays(y, m)
  <2>1. m \in 0..11 /\ m # 0 /\ (m + 1) - 1 = m
    OBVIOUS
  <2>2. upTo[m] = upTo[m - 1] + MonthDays(y, m)
    BY <1>8, <2>1
  <2> QED
    BY <1>9, <2>1, <2>2
<1> QED
  BY <1>10, <1>11

\* What the months of a year come to.
LEMMA MonthTable ==
  ASSUME NEW y \in Int
  PROVE  LET s == YearStart(y)
             leap == IF Leap(y) THEN 1 ELSE 0
         IN  /\ MonthStart(y, 1) = s /\ MonthStart(y, 2) = s + 31
             /\ MonthStart(y, 3) = s + 59 + leap /\ MonthStart(y, 4) = s + 90 + leap
             /\ MonthStart(y, 5) = s + 120 + leap /\ MonthStart(y, 6) = s + 151 + leap
             /\ MonthStart(y, 7) = s + 181 + leap /\ MonthStart(y, 8) = s + 212 + leap
             /\ MonthStart(y, 9) = s + 243 + leap /\ MonthStart(y, 10) = s + 273 + leap
             /\ MonthStart(y, 11) = s + 304 + leap /\ MonthStart(y, 12) = s + 334 + leap
             /\ s + 365 + leap = YearStart(y + 1)
<1> DEFINE s == YearStart(y)
           leap == IF Leap(y) THEN 1 ELSE 0
           at(m) == MonthStart(y, m)
           of(m) == MonthDays(y, m)
<1>1. /\ at(1) = s /\ at(2) = at(1) + of(1) /\ at(3) = at(2) + of(2) /\ at(4) = at(3) + of(3)
      /\ at(5) = at(4) + of(4) /\ at(6) = at(5) + of(5) /\ at(7) = at(6) + of(6)
      /\ at(8) = at(7) + of(7) /\ at(9) = at(8) + of(8) /\ at(10) = at(9) + of(9)
      /\ at(11) = at(10) + of(10) /\ at(12) = at(11) + of(11)
  <2>1. /\ at(1) = s
        /\ \A m \in 1..11 : MonthStart(y, m + 1) = MonthStart(y, m) + MonthDays(y, m)
    BY MonthSteps
  <2> QED
    BY <2>1
<1>2. /\ of(1) = 31 /\ of(2) = 28 + leap /\ of(3) = 31 /\ of(4) = 30 /\ of(5) = 31 /\ of(6) = 30
      /\ of(7) = 31 /\ of(8) = 31 /\ of(9) = 30 /\ of(10) = 31 /\ of(11) = 30
  BY DEF MonthDays
<1>3. s \in Int /\ YearStart(y + 1) = s + IF Leap(y) THEN 366 ELSE 365
  BY YearDays
<1> HIDE DEF s, at, of
<1>4. leap \in Int
  OBVIOUS
<1>5. /\ at(1) = s /\ at(2) = s + 31
      /\ at(3) = s + 59 + leap /\ at(4) = s + 90 + leap
      /\ at(5) = s + 120 + leap /\ at(6) = s + 151 + leap
      /\ at(7) = s + 181 + leap /\ at(8) = s + 212 + leap
      /\ at(9) = s + 243 + leap /\ at(10) = s + 273 + leap
      /\ at(11) = s + 304 + leap /\ at(12) = s + 334 + leap
  <2> HIDE DEF leap
  <2> QED
    BY <1>1, <1>2, <1>3, <1>4
<1> QED
  BY <1>3, <1>5 DEF s, at

\* Months begin in their order, and each has as many days as lie before the next.
LEMMA MonthsRise ==
  ASSUME NEW y \in Int, NEW m \in 1..12
  PROVE  /\ MonthStart(y, m) \in Int /\ MonthDays(y, m) \in Nat
         /\ \A k \in m + 1..12 : MonthStart(y, k) >= MonthStart(y, m) + MonthDays(y, m)
         /\ m = 12 => MonthStart(y, m) + MonthDays(y, m) = YearStart(y + 1)
<1> DEFINE s == YearStart(y)
           leap == IF Leap(y) THEN 1 ELSE 0
<1>1. s \in Int /\ leap \in 0..1
  BY YearDays
<1>2. /\ MonthStart(y, 1) = s /\ MonthStart(y, 2) = s + 31
      /\ MonthStart(y, 3) = s + 59 + leap /\ MonthStart(y, 4) = s + 90 + leap
      /\ MonthStart(y, 5) = s + 120 + leap /\ MonthStart(y, 6) = s + 151 + leap
      /\ MonthStart(y, 7) = s + 181 + leap /\ MonthStart(y, 8) = s + 212 + leap
      /\ MonthStart(y, 9) = s + 243 + leap /\ MonthStart(y, 10) = s + 273 + leap
      /\ MonthStart(y, 11) = s + 304 + leap /\ MonthStart(y, 12) = s + 334 + leap
      /\ s + 365 + leap = YearStart(y + 1)
  BY MonthTable
<1>3. \A k \in 1..12 : MonthDays(y, k) =
        IF k = 2 THEN 28 + leap ELSE IF k \in {4, 6, 9, 11} THEN 30 ELSE 31
  BY DEF MonthDays
<1> HIDE DEF s, leap
<1>4. MonthStart(y, m) \in Int /\ MonthDays(y, m) \in Nat
  BY <1>1, <1>2, <1>3
<1>5. m = 12 => MonthStart(y, m) + MonthDays(y, m) = YearStart(y + 1)
  BY <1>1, <1>2, <1>3
<1>6. ASSUME NEW k \in m + 1..12
      PROVE  MonthStart(y, k) >= MonthStart(y, m) + MonthDays(y, m)
  BY <1>1, <1>2, <1>3, SMTT(60)
<1> QED
  BY <1>4, <1>5, <1>6

\* Max is the element that no other exceeds.
LEMMA MaxIs ==
  ASSUME NEW S \in SUBSET Int, NEW m \in S, \A k \in S : m >= k
  PROVE  Max(S) = m
<1> DEFINE e == Max(S)
<1>1. e \in S /\ \A k \in S : e >= k
  <2>1. \E e0 \in S : \A k \in S : e0 >= k
    OBVIOUS
  <2> QED
    BY <2>1, Zenon DEF Max
<1> HIDE DEF e
<1>2. e >= m /\ m >= e /\ e \in Int /\ m \in Int
  BY <1>1
<1> QED
  BY <1>2 DEF e

\* The year that year_month_day() finds is the one the day lies in.
LEMMA YearOfDay ==
  ASSUME NEW day \in 0..YearStart(LastYear + 1) - 1
  PROVE  LET y == Max({k \in 1970..LastYear : YearStart(k) <= day})
         IN  y \in 1970..LastYear /\ YearStart(y) <= day /\ day < YearStart(y + 1)
<1> DEFINE S == {k \in 1970..LastYear : YearStart(k) <= day}
           T == {j \in Nat : YearStart(1970 + j + 1) > day}
<1>1. LastYear \in Nat /\ LastYear >= 1970 /\ \A k \in Int : YearStart(k) \in Int
  BY YearAssumption, YearDays
<1>2. day \in Int /\ day >= 0 /\ day < YearStart(LastYear + 1)
  BY <1>1
<1> DEFINE last == LastYear - 1970
<1>3. last \in T
  <2>1. LastYear - 1970 \in Nat /\ 1970 + (LastYear - 1970) + 1 = LastYear + 1
    BY <1>1
  <2>2. YearStart(1970 + (LastYear - 1970) + 1) > day
    BY <1>1, <1>2, <2>1
  <2> QED
    BY <2>1, <2>2
<1>4. PICK j \in T : \A i \in T : j <= i
  <2>1. T \in SUBSET Nat
    OBVIOUS
  <2> HIDE DEF T, last
  <2> QED
    BY <1>3, <2>1, LeastNatural
<1> DEFINE y == 1970 + j
<1>5. j \in Nat /\ day < YearStart(y + 1) /\ j <= LastYear - 1970
  <2>1. j \in Nat /\ YearStart(1970 + j + 1) > day
    BY <1>4
  <2>2. j <= last
    <3> HIDE DEF T, last
    <3> QED
      BY <1>3, <1>4, Zenon
  <2>3. 1970 + j + 1 \in Int
    BY <2>1
  <2>4. YearStart(1970 + j + 1) \in Int
    BY <2>3, YearDays
  <2> QED
    BY <1>2, <2>1, <2>2, <2>4
<1>6. y \in 1970..LastYear /\ y \in Int
  BY <1>1, <1>5
<1>7. YearStart(y) <= day
  <2>1. CASE j = 0
    BY <1>2, <2>1, FirstYear
  <2>2. CASE j # 0
    <3>1. j - 1 \in Nat /\ ~(j <= j - 1) /\ 1970 + (j - 1) + 1 = y
      BY <1>5, <2>2
    <3>2. ~(YearStart(1970 + (j - 1) + 1) > day)
      BY <1>4, <3>1
    <3> QED
      BY <1>1, <1>2, <1>6, <3>1, <3>2
  <2> QED
    BY <2>1, <2>2
<1>8. ASSUME NEW k \in S PROVE y >= k
  <2>1. k \in Int /\ YearStart(k) <= day
    BY <1>1
  <2>2. ASSUME k > y PROVE FALSE
    <3>1. y + 1 \in Int /\ y + 1 <= k
      BY <1>6, <2>1, <2>2
    <3>2. YearStart(y + 1) <= YearStart(k)
      BY <2>1, <3>1, YearsRise
    <3>3. YearStart(y + 1) \in Int /\ YearStart(k) \in Int
      BY <1>1, <2>1, <3>1
    <3> QED
      BY <1>2, <1>5, <2>1, <3>2, <3>3
  <2> QED
    BY <1>6, <2>1, <2>2
<1>9. y \in S /\ S \subseteq Int
  BY <1>1, <1>6, <1>7
<1> HIDE DEF S, y
<1>10. Max(S) = y
  BY <1>8, <1>9, MaxIs
<1> QED
  BY <1>5, <1>6, <1>7, <1>10 DEF S

\* The month that year_month_day() finds is the one the day lies in.
LEMMA MonthOfDay ==
  ASSUME NEW y \in Int, NEW day \in Int, YearStart(y) <= day, day < YearStart(y + 1)
  PROVE  LET m == Max({k \in 1..12 : MonthStart(y, k) <= day})
         IN  /\ m \in 1..12 /\ MonthStart(y, m) <= day
             /\ day < MonthStart(y, m) + MonthDays(y, m)
<1> DEFINE S == {k \in 1..12 : MonthStart(y, k) <= day}
           T == {k \in 1..12 : MonthStart(y, k) + MonthDays(y, k) > day}
<1>1. \A k \in 1..12 : MonthStart(y, k) \in Int /\ MonthDays(y, k) \in Nat
  BY MonthsRise
<1>2. 12 \in T
  <2>1. MonthStart(y, 12) + MonthDays(y, 12) = YearStart(y + 1) /\ 12 \in 1..12
    BY MonthsRise
  <2> QED
    BY <2>1, YearDays
<1>3. PICK m \in T : \A k \in T : m <= k
  <2>1. T \in SUBSET Nat
    OBVIOUS
  <2> HIDE DEF T
  <2> QED
    BY <1>2, <2>1, LeastNatural
<1>4. m \in 1..12 /\ day < MonthStart(y, m) + MonthDays(y, m)
  BY <1>1, <1>3
<1>5. MonthStart(y, m) <= day
  <2>1. CASE m = 1
    BY <2>1, MonthSteps
  <2>2. CASE m # 1
    <3>1. m - 1 \in 1..12 /\ m - 1 \in 1..11 /\ ~(m <= m - 1) /\ (m - 1) + 1 = m
      BY <1>4, <2>2
    <3>2. ~(MonthStart(y, m - 1) + MonthDays(y, m - 1) > day)
      BY <1>3, <3>1
    <3>3. MonthStart(y, m) = MonthStart(y, m - 1) + MonthDays(y, m - 1)
      BY <3>1, MonthSteps
    <3> QED
      BY <1>1, <3>1, <3>2, <3>3
  <2> QED
    BY <2>1, <2>2
<1>6. ASSUME NEW k \in S PROVE m >= k
  <2>1. k \in 1..12 /\ MonthStart(y, k) <= day
    OBVIOUS
  <2>2. ASSUME k > m PROVE FALSE
    <3>1. k \in m + 1..12
      BY <1>4, <2>1, <2>2
    <3>2. MonthStart(y, k) >= MonthStart(y, m) + MonthDays(y, m)
      BY <1>4, <3>1, MonthsRise
    <3> QED
      BY <1>1, <1>4, <2>1, <3>2
  <2> QED
    BY <1>4, <2>1, <2>2
<1>7. m \in S /\ S \subseteq Int
  BY <1>4, <1>5
<1> HIDE DEF S
<1>8. Max(S) = m
  BY <1>6, <1>7, MaxIs
<1> QED
  BY <1>4, <1>5, <1>8 DEF S

\* date is the one of the day in the calendar.
CalendarDate(date, day) ==
  /\ date = [year |-> date.year, month |-> date.month, day |-> date.day]
  /\ date.year \in 1970..LastYear /\ date.month \in 1..12 /\ date.day \in 1..31
  /\ ok(date) /\ sys_days(date) = day

\* A day goes into a date of the calendar and comes back.
LEMMA DateOfDay ==
  ASSUME NEW day \in 0..YearStart(LastYear + 1) - 1, NEW date, date = year_month_day(day)
  PROVE  CalendarDate(date, day)
<1> DEFINE y == Max({k \in 1970..LastYear : YearStart(k) <= day})
           m == Max({k \in 1..12 : MonthStart(y, k) <= day})
<1>1. y \in 1970..LastYear /\ YearStart(y) <= day /\ day < YearStart(y + 1)
  BY YearOfDay
<1>2. date = [year |-> y, month |-> m, day |-> day - MonthStart(y, m) + 1]
  BY DEF year_month_day
<1>3. LastYear \in Nat /\ YearStart(LastYear + 1) \in Int
  BY YearAssumption, YearDays
<1> HIDE DEF y
<1>4. y \in Int /\ day \in Int
  BY <1>1, <1>3
<1>5. m \in 1..12 /\ MonthStart(y, m) <= day /\ day < MonthStart(y, m) + MonthDays(y, m)
  BY <1>1, <1>4, MonthOfDay
<1> HIDE DEF m
<1>6. MonthStart(y, m) \in Int /\ MonthDays(y, m) \in 1..31
  BY <1>4, <1>5, MonthsRise DEF MonthDays
<1> QED
  BY <1>1, <1>2, <1>4, <1>5, <1>6 DEF CalendarDate, ok, sys_days

-------------------------------------------------------------------------------
(* Times *)

\* Which payloads have a time, a date in one field or in three, and a position.
LEMMA TimeFields ==
  ASSUME NEW m \in Fixed
  PROVE  /\ "utc_time" \in DOMAIN FieldNo(m) /\ FieldNo(m)["utc_time"] \in 1..Len(m.fields)
         /\ m.fields[FieldNo(m)["utc_time"]] = UtcTime
         /\ Has(m, "utc_time")
         /\ Has(m, "date") <=> m = RMC
         /\ Has(m, "year") <=> m = ZDA
         /\ {"day", "month", "year"} \subseteq DOMAIN FieldNo(m) <=> m = ZDA
         /\ Has(m, "latitude") <=> m \in Located
<1>1. CASE m = RMC
  BY <1>1, FieldNumbers, TypesOfRMC, PayloadsDiffer DEF Has, Located
<1>2. CASE m = ZDA
  BY <1>2, FieldNumbers, TypesOfZDA, PayloadsDiffer DEF Has, Located
<1>3. CASE m = GGA
  BY <1>3, FieldNumbers, TypesOfGGA, PayloadsDiffer DEF Has, Located
<1>4. CASE m = GNS
  BY <1>4, FieldNumbers, TypesOfGNS, PayloadsDiffer DEF Has, Located
<1>5. CASE m = GLL
  BY <1>5, FieldNumbers, TypesOfGLL, PayloadsDiffer DEF Has, Located
<1>6. CASE m = GBS
  BY <1>6, FieldNumbers, TypesOfGBS, PayloadsDiffer DEF Has, Located
<1>7. CASE m = GST
  BY <1>7, FieldNumbers, TypesOfGST, PayloadsDiffer DEF Has, Located
<1> QED
  BY <1>1, <1>2, <1>3, <1>4, <1>5, <1>6, <1>7 DEF Fixed

\* A position is put into fields of its own.
LEMMA TimeKept ==
  ASSUME NEW m \in Located, NEW values, DOMAIN values = 1..Len(m.fields),
         NEW latitude, NEW longitude, NEW b, b = "utc_time" \/ (b = "date" /\ m = RMC)
  PROVE  Field(m, set_longitude_deg(m, set_latitude_deg(m, values, latitude), longitude), b)
           = Field(m, values, b)
<1> DEFINE f == FieldNo(m)
           D == 1..Len(m.fields)
           ns == IF latitude >= 0 THEN North ELSE South
           ew == IF longitude >= 0 THEN East ELSE West
           u == With(m, values, "latitude", from_decimal(latitude))
           v == With(m, u, "latitude_direction", ns)
           w == With(m, v, "longitude", from_decimal(longitude))
           x == With(m, w, "longitude_direction", ew)
<1>1. f[b] \in D /\ \A a \in Position : f[a] # f[b]
  <2>1. CASE m = RMC
    BY <2>1, FieldNumbers, TypesOfRMC DEF Position
  <2>2. CASE m = GGA
    BY <2>2, FieldNumbers, TypesOfGGA, PayloadsDiffer DEF Position
  <2>3. CASE m = GNS
    BY <2>3, FieldNumbers, TypesOfGNS, PayloadsDiffer DEF Position
  <2>4. CASE m = GLL
    BY <2>4, FieldNumbers, TypesOfGLL, PayloadsDiffer DEF Position
  <2> QED
    BY <2>1, <2>2, <2>3, <2>4 DEF Located
<1>2. DOMAIN u = D /\ DOMAIN v = D /\ DOMAIN w = D
  BY SameFields
<1>3. x = set_longitude_deg(m, set_latitude_deg(m, values, latitude), longitude)
  BY DEF set_longitude_deg, set_latitude_deg
<1>4. "latitude" \in Position /\ "latitude_direction" \in Position
      /\ "longitude" \in Position /\ "longitude_direction" \in Position
  BY DEF Position
<1> HIDE DEF D, ns, ew
<1>5. Field(m, u, b) = Field(m, values, b)
  BY <1>1, <1>4, FieldKept DEF f, D
<1>6. Field(m, v, b) = Field(m, u, b)
  BY <1>1, <1>2, <1>4, FieldKept DEF f
<1>7. Field(m, w, b) = Field(m, v, b)
  BY <1>1, <1>2, <1>4, FieldKept DEF f
<1>8. Field(m, x, b) = Field(m, w, b)
  BY <1>1, <1>2, <1>4, FieldKept DEF f
<1> HIDE DEF u, v, w, x
<1> QED
  BY <1>3, <1>5, <1>6, <1>7, <1>8, Zenon

\* A time in the field: hours, minutes and thousandths of a second.
InHours(tp) == 10000000 * (tp.second \div 3600) + 100000 * ((tp.second \div 60) % 60)
                 + 1000 * ((tp.second % 60) + tp.tick)
InDays(date) == 10000 * date.day + 100 * date.month + (date.year % 100)

\* The payload has the time, and the date where it has fields for one.
HasTime(m, values, tp, date) ==
  /\ Field(m, values, "utc_time") = Some(<<InHours(tp)>>)
  /\ m = RMC => Field(m, values, "date") = Some(<<InDays(date)>>)
  /\ m = ZDA => /\ Field(m, values, "day") = Some(<<date.day>>)
                /\ Field(m, values, "month") = Some(<<date.month>>)
                /\ Field(m, values, "year") = Some(<<date.year>>)

\* What a time becomes in the payload.
LEMMA TimestampSet ==
  ASSUME NEW m \in Fixed, NEW values, DOMAIN values = 1..Len(m.fields), NEW tp,
         NEW date, date = year_month_day(tp.day)
  PROVE  LET v == set_timestamp(m, values, tp)
         IN  DOMAIN v = DOMAIN values /\ HasTime(m, v, tp, date)
<1> DEFINE D == 1..Len(m.fields)
           u == With(m, values, "utc_time", InHours(tp))
           v == set_timestamp(m, values, tp)
<1>1. v = WithDate(m, u, date)
  BY DEF set_timestamp, InHours
<1>2. FieldNo(m)["utc_time"] \in D /\ DOMAIN u = D
  BY TimeFields, SameFields
<1>3. Field(m, u, "utc_time") = Some(<<InHours(tp)>>)
  BY <1>2, FieldSet
<1> HIDE DEF u, v
<1>4. CASE m = RMC
  <2>1. v = With(m, u, "date", InDays(date))
    BY <1>1, <1>4, TimeFields DEF WithDate, InDays
  <2>2. FieldNo(m)["date"] \in D /\ FieldNo(m)["date"] # FieldNo(m)["utc_time"]
    BY <1>4, FieldNumbers, TypesOfRMC
  <2>3. Field(m, v, "date") = Some(<<InDays(date)>>)
    BY <1>2, <2>1, <2>2, FieldSet
  <2>4. Field(m, v, "utc_time") = Field(m, u, "utc_time")
    BY <1>2, <2>1, <2>2, FieldKept
  <2>5. DOMAIN v = DOMAIN values
    BY <1>2, <2>1, SameFields
  <2> QED
    BY <1>3, <1>4, <2>3, <2>4, <2>5, PayloadsDiffer DEF v, HasTime
<1>5. CASE m = ZDA
  <2> DEFINE a == With(m, u, "day", date.day)
             b == With(m, a, "month", date.month)
             c == With(m, b, "year", date.year)
  <2>1. v = c
    BY <1>1, <1>5, TimeFields, PayloadsDiffer DEF WithDate
  <2>2. /\ FieldNo(m) = [utc_time |-> 1, day |-> 2, month |-> 3, year |-> 4]
        /\ 1 \in D /\ 2 \in D /\ 3 \in D /\ 4 \in D
    BY <1>5, FieldNumbers, TypesOfZDA
  <2>3. DOMAIN a = D /\ DOMAIN b = D /\ DOMAIN c = D
    BY <1>2, SameFields
  <2> HIDE DEF D
  <2>4. Field(m, a, "day") = Some(<<date.day>>) /\ Field(m, a, "utc_time") = Field(m, u, "utc_time")
    BY <1>2, <2>2, FieldSet, FieldKept
  <2>5. /\ Field(m, b, "month") = Some(<<date.month>>) /\ Field(m, b, "day") = Field(m, a, "day")
        /\ Field(m, b, "utc_time") = Field(m, a, "utc_time")
    BY <2>2, <2>3, FieldSet, FieldKept
  <2>6. /\ Field(m, c, "year") = Some(<<date.year>>) /\ Field(m, c, "month") = Field(m, b, "month")
        /\ Field(m, c, "day") = Field(m, b, "day")
        /\ Field(m, c, "utc_time") = Field(m, b, "utc_time")
    BY <2>2, <2>3, FieldSet, FieldKept
  <2> HIDE DEF a, b, c
  <2>7. DOMAIN v = DOMAIN values
    BY <2>1, <2>3 DEF D
  <2> QED
    BY <1>3, <1>5, <2>1, <2>4, <2>5, <2>6, <2>7, PayloadsDiffer DEF v, HasTime
<1>6. CASE m \notin {RMC, ZDA}
  <2>1. v = u
    BY <1>1, <1>6, TimeFields DEF WithDate
  <2> QED
    BY <1>2, <1>3, <1>6, <2>1 DEF v, HasTime
<1> QED
  BY <1>4, <1>5, <1>6

\* The payload that is sent has the time and the date of its fix, whatever else was put in.
LEMMA PayloadTimed ==
  ASSUME NEW s, s.fix # NoFix, NEW m, m = s.msg, m \in Fixed, NEW D, D = 1..Len(m.fields),
         DOMAIN Payload(s) = D, NEW date, date = year_month_day(s.fix.time.day)
  PROVE  HasTime(m, Payload(s), s.fix.time, date)
<1> DEFINE p == Payload(s)
           timed == set_timestamp(m, s.values, s.fix.time)
           v == set_longitude_deg(m, set_latitude_deg(m, timed, s.fix.latitude), s.fix.longitude)
<1>1. p = IF Has(m, "latitude") THEN v ELSE timed
  BY TimeFields DEF Payload
<1>2. DOMAIN v = DOMAIN timed
  BY SameFields DEF set_latitude_deg, set_longitude_deg
<1>3. DOMAIN timed = DOMAIN s.values
  BY SameFields DEF set_timestamp, WithDate
<1>4. DOMAIN s.values = D
  BY <1>1, <1>2, <1>3
<1>5. HasTime(m, timed, s.fix.time, date)
  BY <1>4, TimestampSet, Zenon
<1>6. DOMAIN timed = 1..Len(m.fields)
  BY <1>3, <1>4
<1> HIDE DEF p, timed
<1>7. CASE Has(m, "latitude")
  <2>1. m \in Located /\ p = v
    BY <1>1, <1>7, TimeFields
  <2>2. m # ZDA
    BY <1>7, NoPosition
  <2>3. Field(m, v, "utc_time") = Field(m, timed, "utc_time")
    BY <1>6, <2>1, TimeKept
  <2>4. m = RMC => Field(m, v, "date") = Field(m, timed, "date")
    BY <1>6, <2>1, TimeKept
  <2> HIDE DEF v
  <2> QED
    BY <1>5, <2>1, <2>2, <2>3, <2>4 DEF p, HasTime
<1>8. CASE ~Has(m, "latitude")
  BY <1>1, <1>5, <1>8 DEF p
<1> QED
  BY <1>7, <1>8

\* Sixty of each make up the next.
LEMMA Sixties ==
  ASSUME NEW n \in Nat
  PROVE  \E k \in Nat, s \in 0..59 : n = 60 * k + s
<1>1. /\ n \div 60 \in Nat
      /\ n % 60 \in 0..59
      /\ n = 60 * (n \div 60) + (n % 60)
  BY SMT
<1> QED
  BY SMT, <1>1

\* n is a second of the day, and hours, minutes and seconds are those of it.
OfDay(n) == n \in 0..DaySeconds - 1
OfClock(n, h, i, s) == h \in 0..23 /\ i \in 0..59 /\ s \in 0..59 /\ n = 3600 * h + 60 * i + s

\* The number that is written for it.
WrittenClock(n, h, i, s) == n = 10000000 * h + 100000 * i + 1000 * s

\* How many seconds those are.
LEMMA DayIs == \A n : OfDay(n) => n \in Nat /\ n < 86400
<1>1. DaySeconds = 86400
  BY SMT DEF DaySeconds
<1>2. \A N \in Nat : \A n \in 0..N - 1 : n \in Nat /\ n < N
  OBVIOUS
<1>3. DaySeconds \in Nat
  BY <1>1
<1>4. \A n : OfDay(n) => n \in Nat /\ n < DaySeconds
  BY <1>2, <1>3 DEF OfDay
<1> QED
  BY <1>1, <1>4

\* Every second of the day is hours, minutes and seconds.
LEMMA HoursAndMinutes ==
  ASSUME NEW n, OfDay(n)
  PROVE  \E h, i, s : OfClock(n, h, i, s)
<1>0. n \in Nat /\ n < 86400
  BY SMT, DayIs
<1>1. PICK k \in Nat, s \in 0..59 : n = 60 * k + s
  BY SMT, <1>0, Sixties
<1>2. PICK h \in Nat, i \in 0..59 : k = 60 * h + i
  BY SMT, Sixties
<1>3. n = 3600 * h + 60 * i + s
  BY SMT, <1>1, <1>2
<1>4. h \in 0..23
  BY SMT, <1>0, <1>3
<1>5. OfClock(n, h, i, s)
  BY SMT, <1>3, <1>4 DEF OfClock
<1> QED
  BY <1>5, Zenon

\* It is divided where it was put together.
LEMMA ClockRead ==
  ASSUME NEW n, NEW h, NEW i, NEW s, OfClock(n, h, i, s)
  PROVE  n \div 3600 = h /\ (n \div 60) % 60 = i /\ n % 60 = s
<1>1. n \div 3600 = h
  BY SMT DEF OfClock
<1>2. n \div 60 = 60 * h + i /\ n % 60 = s
  BY SMT DEF OfClock
<1>3. (60 * h + i) % 60 = i
  BY SMT DEF OfClock
<1> QED
  BY SMT, <1>1, <1>2, <1>3

\* What is read of it.
ReadClock(n, h, i, s) ==
  /\ n \in Nat /\ 10 * Rounded(n) = n
  /\ n \div 10000000 = h /\ (n % 10000000) \div 100000 = i /\ (n % 100000) \div 1000 = s
  /\ (n % 100000) % 1000 = 0

\* In whole seconds the decimals of the field lose nothing, and hours, minutes and seconds are
\* taken apart where they were put together.
LEMMA FieldOfTime ==
  ASSUME NEW h \in 0..23, NEW i \in 0..59, NEW s \in 0..59, NEW n, WrittenClock(n, h, i, s)
  PROVE  ReadClock(n, h, i, s)
<1>1. n \in Nat
  BY SMT DEF WrittenClock
<1>2. n \div 10000000 = h
  BY SMT DEF WrittenClock
<1>3. (n % 10000000) \div 100000 = i
  BY SMT DEF WrittenClock
<1>4. (n % 100000) \div 1000 = s
  BY SMT DEF WrittenClock
<1>5. (n % 100000) % 1000 = 0
  BY SMT DEF WrittenClock
<1>6. 10 * ((n + 5) \div 10) = n
  BY SMT DEF WrittenClock
<1>7. Rounded(n) = (n + 5) \div 10
  BY SMT, <1>1 DEF Rounded, Abs
<1> QED
  BY SMT, <1>1, <1>2, <1>3, <1>4, <1>5, <1>6, <1>7 DEF ReadClock

\* The second that get_timestamp() makes of the number.
ReadsAs(n, second) ==
  /\ n \in Nat /\ 10 * Rounded(n) = n /\ (n % 100000) % 1000 = 0
  /\ 3600 * (n \div 10000000) + 60 * ((n % 10000000) \div 100000) + ((n % 100000) \div 1000)
       = second

\* They make up the second that was taken apart.
LEMMA SecondRead ==
  ASSUME NEW n, NEW second, NEW h, NEW i, NEW s, ReadClock(n, h, i, s), OfClock(second, h, i, s)
  PROVE  ReadsAs(n, second)
BY SMT DEF ReadsAs, ReadClock, OfClock

\* What get_timestamp() makes of the time of a fix is the second it was.
LEMMA HoursRead ==
  ASSUME NEW tp, NEW second, OfDay(second), tp.second = second, tp.tick = 0,
         NEW n, n = InHours(tp)
  PROVE  ReadsAs(n, second)
<1>1. PICK h, i, s : OfClock(second, h, i, s)
  BY HoursAndMinutes, Zenon
<1>2. second \div 3600 = h /\ (second \div 60) % 60 = i /\ second % 60 = s
  BY SMT, <1>1, ClockRead
<1>3. h \in 0..23 /\ i \in 0..59 /\ s \in 0..59
  BY SMT, <1>1 DEF OfClock
<1>4. WrittenClock(n, h, i, s)
  <2>1. n = 10000000 * (second \div 3600) + 100000 * ((second \div 60) % 60)
              + 1000 * ((second % 60) + 0)
    BY SMT DEF InHours
  <2> QED
    BY SMT, <1>2, <2>1, <1>3 DEF WrittenClock
<1>5. ReadClock(n, h, i, s)
  BY <1>4, <1>3, FieldOfTime, Zenon
<1> QED
  BY <1>1, <1>5, SecondRead, Zenon

\* A number with no more decimals than its field arrives as it is.
LEMMA WholeConveyed ==
  ASSUME NEW n \in Nat, 10 * Rounded(n) = n, NEW w, Shown(Float(2, w), Some(<<n>>))
  PROVE  Conveyed(Float(2, w), Some(<<n>>)) = Some(<<n>>)
<1> DEFINE p == 2
<1>1. p \in 1..9 /\ n \in Int
  OBVIOUS
<1> HIDE DEF p
<1>2. ASSUME Shown(Float(p, w), Some(<<n>>))
      PROVE  Conveyed(Float(p, w), Some(<<n>>)) =
               Some(<<IF n < 0 THEN -(10 * Rounded(n)) ELSE 10 * Rounded(n)>>)
  BY <1>1, <1>2, NumberConveyed
<1> QED
  BY <1>2 DEF p

\* The digits of a date are taken apart where they were put together.
LEMMA DaysRead ==
  ASSUME NEW date, date.day \in 1..31, date.month \in 1..12, date.year \in 2000..2099,
         NEW n, n = InDays(date)
  PROVE  /\ (n % 100) + 2000 = date.year /\ (n \div 100) % 100 = date.month
         /\ n \div 10000 = date.day
<1> DEFINE d == date.day
           m == date.month
           y == date.year % 100
<1>1. n = 10000 * d + 100 * m + y
  BY DEF InDays
<1>2. d \in 1..31 /\ m \in 1..12 /\ y \in 0..99 /\ y + 2000 = date.year
  OBVIOUS
<1> HIDE DEF d, m, y
<1>3. n % 100 = y /\ n \div 100 = 100 * d + m /\ n \div 10000 = d
  BY <1>1, <1>2
<1>4. (100 * d + m) % 100 = m
  BY <1>2
<1> QED
  BY <1>2, <1>3, <1>4 DEF d, m

\* A record is made of its fields.
LEMMA RecordParts ==
  ASSUME NEW D, NEW E, NEW F, NEW tp \in [day : D, second : E, tick : F]
  PROVE  /\ tp = [day |-> tp.day, second |-> tp.second, tick |-> tp.tick]
         /\ tp.day \in D /\ tp.second \in E
OBVIOUS

\* A time point lies in the calendar, and its second in a day.
LEMMA TimePointParts ==
  ASSUME NEW tp \in TimePoint
  PROVE  /\ tp = [day |-> tp.day, second |-> tp.second, tick |-> tp.tick]
         /\ tp.day \in 0..YearStart(LastYear + 1) - 1 /\ OfDay(tp.second)
<1> DEFINE D == 0..YearStart(LastYear + 1) - 1
           E == 0..DaySeconds - 1
           F == 0..TicksPerSecond - 1
<1>1. tp \in [day : D, second : E, tick : F]
  BY DEF TimePoint
<1> HIDE DEF D, E, F
<1>2. /\ tp = [day |-> tp.day, second |-> tp.second, tick |-> tp.tick]
      /\ tp.day \in D /\ tp.second \in E
  BY <1>1, RecordParts
<1> QED
  BY <1>2, Zenon DEF OfDay, D, E

\* What get_timestamp() returns of a time with a date, and of one without.
LEMMA TimestampRead ==
  ASSUME NEW m, NEW values, NEW tp \in TimePoint, tp.tick = 0,
         Field(m, values, "utc_time") = Some(<<InHours(tp)>>)
  PROVE  /\ Date(m, values) = None => get_timestamp(m, values) = None
         /\ Date(m, values) = Some(<<year_month_day(tp.day)>>)
              => get_timestamp(m, values) = Some(<<tp>>)
<1> DEFINE n == InHours(tp)
           date == year_month_day(tp.day)
<1>1. /\ tp = [day |-> tp.day, second |-> tp.second, tick |-> tp.tick]
      /\ tp.day \in 0..YearStart(LastYear + 1) - 1 /\ OfDay(tp.second)
  BY TimePointParts
<1>2. \A x : Some(x) # None /\ Some(x).kind # "none" /\ Some(x).value = x
  BY DEF Some, None
<1>3. ~Missing(m, values, {"utc_time"}) /\ Number(m, values, "utc_time") = n
  BY <1>2 DEF Missing, Number
<1>4. Date(m, values) = None => get_timestamp(m, values) = None
  BY SMT DEF get_timestamp
<1>5. ASSUME Date(m, values) = Some(<<date>>)
      PROVE  get_timestamp(m, values) = Some(<<tp>>)
  <2>1. ok(date) /\ sys_days(date) = tp.day /\ tp.day \in Int
    <3>1. YearStart(LastYear + 1) \in Int
      BY YearAssumption, YearDays
    <3> QED
      BY <1>1, <3>1, DateOfDay DEF CalendarDate
  <2>2. Date(m, values) # None /\ Date(m, values).value[1] = date
    BY <1>2, <1>5
  <2> DEFINE hours == n \div 10000000
             minutes == (n % 10000000) \div 100000
             thousandths == n % 100000
             seconds == 3600 * hours + 60 * minutes + thousandths \div 1000
  <2>3. get_timestamp(m, values) =
          Some(<<[day |-> sys_days(date) + seconds \div DaySeconds, second |-> seconds % DaySeconds,
                  tick |-> ((thousandths % 1000) * TicksPerSecond) \div 1000]>>)
    <3> HIDE DEF n, date
    <3> QED
      BY SMT, <1>3, <2>1, <2>2 DEF get_timestamp
  <2>4. thousandths % 1000 = 0 /\ seconds = tp.second
    <3>1. ReadsAs(n, tp.second)
      BY <1>1, HoursRead, Zenon
    <3> HIDE DEF n
    <3> QED
      BY SMT, <3>1 DEF ReadsAs
  <2> HIDE DEF thousandths, seconds
  <2>5. ((thousandths % 1000) * TicksPerSecond) \div 1000 = 0
    BY SMT, <2>4, TickAssumption
  <2>6. seconds \div DaySeconds = 0 /\ seconds % DaySeconds = tp.second
    <3>1. DaySeconds = 86400
      BY SMT DEF DaySeconds
    <3>2. \A second : OfDay(second) => second \in Nat /\ second < DaySeconds
      BY SMT, <3>1, DayIs
    <3>3. tp.second \in Nat /\ tp.second < DaySeconds
      BY <1>1, <3>2, Zenon
    <3> QED
      BY SMT, <2>4, <3>1, <3>3
  <2> HIDE DEF date
  <2> QED
    BY SMT, <1>1, <2>1, <2>3, <2>5, <2>6
<1> QED
  BY <1>4, <1>5

\* The years that two digits tell. A payload with the whole date gives the time, one without any
\* gives none.
InTwoDigits(year) == year \in 2000..2099
TimeIn(m, tp, time) ==
  LET year == year_month_day(time.day).year
  IN  IF Has(m, "year") \/ (Has(m, "date") /\ InTwoDigits(year))
      THEN tp = Some(<<time>>)
      ELSE Has(m, "date") \/ tp = None

\* The time of a fix comes out of what arrives.
LEMMA TimeRead ==
  ASSUME scenario \in Scenario, NEW s \in Sends[scenario], s.fix # NoFix, s.fix.time.tick = 0,
         NEW m, m = s.msg, NEW values,
         \A k \in 1..Len(m.fields) : values[k] = Conveyed(m.fields[k], Payload(s)[k])
  PROVE  TimeIn(m, get_timestamp(m, values), s.fix.time)
<1> DEFINE p == Payload(s)
           D == 1..Len(m.fields)
           date == year_month_day(s.fix.time.day)
           n == InHours(s.fix.time)
<1>0. date = year_month_day(s.fix.time.day)
  OBVIOUS
<1>1. m \in Fixed /\ s.fix.time \in TimePoint
  BY FixAssumption DEF Fixed
<1>2. /\ DOMAIN p = D
      /\ \A k \in D : p[k] = None \/ Shown(m.fields[k], p[k])
  BY SendAssumption
<1>3. /\ Field(m, p, "utc_time") = Some(<<n>>)
      /\ m = RMC => Field(m, p, "date") = Some(<<InDays(date)>>)
      /\ m = ZDA => /\ Field(m, p, "day") = Some(<<date.day>>)
                    /\ Field(m, p, "month") = Some(<<date.month>>)
                    /\ Field(m, p, "year") = Some(<<date.year>>)
  <2>1. HasTime(m, p, s.fix.time, date)
    <3> HIDE DEF date
    <3> QED
      BY <1>0, <1>1, <1>2, PayloadTimed, Zenon
  <2> HIDE DEF p, date
  <2> QED
    BY <2>1 DEF HasTime
<1>4. OfDay(s.fix.time.second) /\ s.fix.time.day \in 0..YearStart(LastYear + 1) - 1
  BY <1>1, TimePointParts
<1>5. /\ date = [year |-> date.year, month |-> date.month, day |-> date.day]
      /\ date.month \in 1..12 /\ date.day \in 1..31
  <2> HIDE DEF date
  <2>1. CalendarDate(date, s.fix.time.day)
    BY <1>0, <1>4, DateOfDay, Zenon
  <2> QED
    BY <2>1 DEF CalendarDate
<1> HIDE DEF p, date
<1>6. \A x : Some(x) # None /\ Some(x).kind # "none" /\ Some(x).value = x
  BY DEF Some, None
<1>7. Field(m, values, "utc_time") = Some(<<n>>)
  <2>1. n \in Nat /\ 10 * Rounded(n) = n
    <3>1. ReadsAs(n, s.fix.time.second)
      BY <1>4, HoursRead, Zenon
    <3> HIDE DEF n
    <3> QED
      BY SMT, <3>1 DEF ReadsAs
  <2> HIDE DEF n
  <2>2. FieldNo(m)["utc_time"] \in D /\ m.fields[FieldNo(m)["utc_time"]] = Float(2, 9)
    BY <1>1, TimeFields DEF UtcTime
  <2>3. Field(m, values, "utc_time") = Conveyed(Float(2, 9), Some(<<n>>))
    BY <1>3, <2>2 DEF Field, p
  <2>4. Shown(Float(2, 9), Some(<<n>>))
    BY <1>2, <1>3, <1>6, <2>2 DEF Field
  <2> QED
    BY <2>1, <2>3, <2>4, WholeConveyed, Zenon
<1>8. \A k \in D : m.fields[k].type # "float" /\ p[k] # None =>
        \A c : p[k] = Some(<<c>>) => values[k] = Some(<<c>>)
  <2> SUFFICES ASSUME NEW k \in D, m.fields[k].type # "float", NEW c, p[k] = Some(<<c>>)
               PROVE  values[k] = Some(<<c>>)
    OBVIOUS
  <2>1. values[k] = Conveyed(m.fields[k], Some(<<c>>))
    BY DEF p
  <2> QED
    BY <2>1, OtherConveyed
<1>9. /\ Date(m, values) = None => get_timestamp(m, values) = None
      /\ Date(m, values) = Some(<<date>>) => get_timestamp(m, values) = Some(<<s.fix.time>>)
  <2>1. /\ Date(m, values) = None => get_timestamp(m, values) = None
        /\ Date(m, values) = Some(<<year_month_day(s.fix.time.day)>>)
             => get_timestamp(m, values) = Some(<<s.fix.time>>)
    BY <1>1, <1>7, TimestampRead, Zenon
  <2> QED
    BY <1>0, <2>1, Zenon
<1>10. CASE m = RMC
  <2>1. Has(m, "date") /\ ~Has(m, "year")
    BY <1>1, <1>10, TimeFields, PayloadsDiffer
  <2>2. FieldNo(m)["date"] = 9 /\ 9 \in D /\ m.fields[9].type # "float"
    BY <1>10, FieldNumbers, TypesOfRMC DEF Integer
  <2>3. Field(m, values, "date") = Some(<<InDays(date)>>)
    BY <1>3, <1>6, <1>8, <1>10, <2>2 DEF Field
  <2>4. ASSUME InTwoDigits(date.year)
        PROVE  Date(m, values) = Some(<<date>>)
    <3> DEFINE ddmmyy == InDays(date)
    <3>1. ~Missing(m, values, {"date"}) /\ Number(m, values, "date") = ddmmyy
      BY <1>6, <2>3 DEF Missing, Number
    <3>2. /\ (ddmmyy % 100) + 2000 = date.year /\ (ddmmyy \div 100) % 100 = date.month
          /\ ddmmyy \div 10000 = date.day
      BY <1>5, <2>4, DaysRead DEF InTwoDigits
    <3> HIDE DEF ddmmyy
    <3>3. Date(m, values) =
            Some(<<[year |-> (ddmmyy % 100) + 2000, month |-> (ddmmyy \div 100) % 100,
                    day |-> ddmmyy \div 10000]>>)
      BY SMT, <2>1, <3>1 DEF Date
    <3> QED
      BY <1>5, <3>2, <3>3
  <2>5. InTwoDigits(date.year) => get_timestamp(m, values) = Some(<<s.fix.time>>)
    BY <1>9, <2>4, Zenon
  <2>6. InTwoDigits(year_month_day(s.fix.time.day).year)
          => get_timestamp(m, values) = Some(<<s.fix.time>>)
    BY <1>0, <2>5, Zenon
  <2> QED
    BY <2>1, <2>6, Zenon DEF TimeIn
<1>11. CASE m = ZDA
  <2>1. ~Has(m, "date") /\ Has(m, "year") /\ {"day", "month", "year"} \subseteq DOMAIN FieldNo(m)
    BY <1>1, <1>11, TimeFields, PayloadsDiffer
  <2>2. /\ FieldNo(m) = [utc_time |-> 1, day |-> 2, month |-> 3, year |-> 4]
        /\ 2 \in D /\ 3 \in D /\ 4 \in D /\ m.fields[2].type # "float"
        /\ m.fields[3].type # "float" /\ m.fields[4].type # "float"
    BY <1>11, FieldNumbers, TypesOfZDA DEF Integer
  <2>3. /\ Field(m, values, "day") = Some(<<date.day>>)
        /\ Field(m, values, "month") = Some(<<date.month>>)
        /\ Field(m, values, "year") = Some(<<date.year>>)
    BY <1>3, <1>6, <1>8, <1>11, <2>2 DEF Field
  <2>4. /\ ~Missing(m, values, {"day", "month", "year"})
        /\ Number(m, values, "day") = date.day /\ Number(m, values, "month") = date.month
        /\ Number(m, values, "year") = date.year
    BY <1>6, <2>3 DEF Missing, Number
  <2>5. Date(m, values) = Some(<<date>>)
    BY SMT, <1>5, <2>1, <2>4 DEF Date
  <2>6. get_timestamp(m, values) = Some(<<s.fix.time>>)
    BY <1>9, <2>5
  <2> QED
    BY <2>1, <2>6, Zenon DEF TimeIn
<1>12. CASE m \notin {RMC, ZDA}
  <2>1. ~Has(m, "date") /\ ~Has(m, "year")
        /\ ~({"day", "month", "year"} \subseteq DOMAIN FieldNo(m))
    BY <1>1, <1>12, TimeFields
  <2>2. Date(m, values) = None
    BY SMT, <2>1 DEF Date
  <2>3. get_timestamp(m, values) = None
    BY <1>9, <2>2
  <2> QED
    BY <2>1, <2>3, Zenon DEF TimeIn
<1> QED
  BY <1>10, <1>11, <1>12

\* The time of every fix in whole seconds arrives as it was, in any year of the calendar that
\* the digits of the date can tell.
THEOREM TimestampsArrive ==
  ASSUME Receivable
  PROVE  Spec => []TimestampArrives
<1>1. InCarriage => TimestampArrives
  <2> SUFFICES ASSUME InCarriage, FixArrived, sent.fix.time.tick = 0
               PROVE  TimeIn(sent.msg, get_timestamp(got.msg, got.values), sent.fix.time)
    BY DEF TimestampArrives, TimeIn, InTwoDigits
  <2>1. PICK s \in Sends[scenario] :
           /\ scenario \in Scenario
           /\ sent = [kind |-> "message", msg |-> s.msg, values |-> Payload(s), fix |-> s.fix]
           /\ s.fix # NoFix
           /\ got.msg = s.msg
           /\ \A k \in 1..Len(s.msg.fields) :
                got.values[k] = Conveyed(s.msg.fields[k], Payload(s)[k])
    BY FixDelivered
  <2>2. sent.msg = s.msg /\ sent.fix = s.fix
    BY <2>1
  <2>3. TimeIn(s.msg, get_timestamp(s.msg, got.values), s.fix.time)
    <3>1. s.fix.time.tick = 0
      BY <2>2
    <3> QED
      BY <2>1, <3>1, TimeRead, Zenon
  <2> QED
    BY <2>1, <2>2, <2>3, Zenon
<1> QED
  BY <1>1, InCarriageInit, InCarriageStep, PTL DEF Spec
===============================================================================
