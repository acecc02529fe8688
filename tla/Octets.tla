-------------------------------- MODULE Octets --------------------------------
(* Bytes as the framers see them: numbers, with the characters NMEA 0183 gives a *)
(* meaning to and the exclusive or its checksum is made of.                      *)
EXTENDS Naturals, Sequences

Octet == 0..255

LF == 10
CR == 13
BANG == 33
DOLLAR == 36
STAR == 42
COMMA == 44

StartDelimiter == {DOLLAR, BANG}

BitOf(a, i) == (a \div 2^i) % 2

\* a ^ b on uint8_t, bit by bit.
XorOctet(a, b) ==
  LET x(i) == IF BitOf(a, i) = BitOf(b, i) THEN 0 ELSE 2^i
  IN  x(0) + x(1) + x(2) + x(3) + x(4) + x(5) + x(6) + x(7)

\* The exclusive or of all bytes of a sequence.
XorOf(bytes) ==
  LET step == [a \in Nat |-> [b \in Nat |-> XorOctet(a, b)]]
      upTo[n \in 0..Len(bytes)] == IF n = 0 THEN 0 ELSE step[upTo[n - 1]][bytes[n]]
  IN  upTo[Len(bytes)]

\* The characters std::from_chars(..., 16) takes, and what they stand for.
HexDigit == (48..57) \union (65..70) \union (97..102)

HexValue(c) ==
  CASE c \in 48..57  -> c - 48
    [] c \in 65..70  -> c - 55
    [] c \in 97..102 -> c - 87
===============================================================================
