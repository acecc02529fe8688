-------------------------- MODULE MavlinkLink_proofs --------------------------
(***************************************************************************)
(* The MAVLink link from end to end, for messages of any definition, any    *)
(* values and any line.                                                     *)
(***************************************************************************)
EXTENDS MavlinkLink, Octets_proofs

-------------------------------------------------------------------------------
(* Words of two bytes *)

Word == {n \in Nat : n < 65536}

\* The solvers multiply; the tableau prover cannot read a numeral of this size.
LEMMA Big == 256 * 256 = 65536 /\ 256 * 256 * 256 = 16777216
BY SMT

\* A word is its two bytes.
LEMMA WordBytes ==
  ASSUME NEW n \in Word
  PROVE  n % 256 \in Octet /\ n \div 256 \in Octet /\ n = 256 * (n \div 256) + (n % 256)
BY SMT DEF Octet, Word

\* Two bytes make a word.
LEMMA BytesWord ==
  ASSUME NEW x \in Octet, NEW y \in Octet
  PROVE  256 * x + y \in Word /\ (256 * x + y) % 256 = y /\ (256 * x + y) \div 256 = x
<1> DEFINE n == 256 * x + y
<1>1. n \in Nat /\ x \in Nat /\ y \in Nat /\ n = 256 * x + y /\ y < 256 /\ x < 256
  BY DEF Octet
<1> HIDE DEF n
<1>2. n < 65536
  BY <1>1
<1>3. n \div 256 = x /\ n % 256 = y
  BY <1>1
<1>4. n \in Word
  BY <1>1, <1>2 DEF Word
<1> QED
  BY <1>3, <1>4, Zenon DEF n

\* A message id is its three bytes.
LEMMA IdBytes ==
  ASSUME NEW n \in Nat, n < 256 * 256 * 256
  PROVE  /\ n % 256 \in Octet /\ (n \div 256) % 256 \in Octet /\ (n \div (256 * 256)) % 256 \in Octet
         /\ n = (n % 256) + 256 * ((n \div 256) % 256) + 256 * 256 * ((n \div (256 * 256)) % 256)
<1> DEFINE a == n \div 256
           b == a \div 256
           l == n % 256
           m == a % 256
<1>1. a \in Nat /\ n = 256 * a + l /\ l \in 0..255
  OBVIOUS
<1> HIDE DEF a, l
<1>2. b \in Nat /\ a = 256 * b + m /\ m \in 0..255
  BY <1>1
<1> HIDE DEF b, m
<1>3. n = 65536 * b + (256 * m + l) /\ 256 * m + l \in Nat /\ 256 * m + l < 65536
  BY <1>1, <1>2
<1>4. n \div 65536 = b
  BY <1>2, <1>3
<1>5. b < 256 /\ b % 256 = b
  <2>1. n < 16777216
    BY Big
  <2>2. b < 256
    BY <1>1, <1>2, <1>3, <2>1
  <2> QED
    BY <1>2, <2>2
<1>6. n \div (256 * 256) = b
  BY <1>4, Big
<1> HIDE DEF a, b, l, m
<1> DEFINE h == (n \div (256 * 256)) % 256
<1>7. h = b
  BY <1>5, <1>6
<1>8. l \in Octet /\ m \in Octet /\ h \in Octet
  BY <1>1, <1>2, <1>5, <1>7 DEF Octet
<1> HIDE DEF h
<1>9. n = l + 256 * m + 256 * 256 * h
  BY <1>3, <1>1, <1>2, <1>7, Big
<1> QED
  BY <1>8, <1>9, Zenon DEF l, m, h, a

LEMMA Xor16Type == \A a, b : Xor16(a, b) \in Word
<1> SUFFICES ASSUME NEW a, NEW b PROVE Xor16(a, b) \in Word
  OBVIOUS
<1> DEFINE high == XorOctet(a \div 256, b \div 256)
           low == XorOctet(a % 256, b % 256)
<1>1. high \in Octet /\ low \in Octet /\ Xor16(a, b) = 256 * high + low
  BY XorOctetType DEF Xor16
<1> HIDE DEF high, low
<1> QED
  BY <1>1, BytesWord

LEMMA AccumulateType == \A d, c : crc_accumulate(d, c) \in Word
BY Xor16Type DEF crc_accumulate

-------------------------------------------------------------------------------
(* serialize() *)

\* Zero truncation keeps a prefix of the payload and loses zeros only.
LEMMA Truncation ==
  ASSUME NEW p \in Seq(Octet), Len(p) \in 1..255
  PROVE  LET z == ZeroTruncated(p)
         IN  /\ z \in Seq(Octet) /\ Len(z) \in 1..Len(p)
             /\ \A i \in 1..Len(z) : z[i] = p[i]
             /\ \A i \in 1..Len(p) : i > Len(z) => p[i] = 0
<1> DEFINE n == Len(p)
           S == {1} \union {i \in 1..n : p[i] # 0}
           e == Max(S)
<1>1. n \in 1..255 /\ S \in SUBSET Nat /\ 1 \in S /\ S # {} /\ \A i \in S : i <= n
  <2> HIDE DEF n
  <2>1. n \in 1..255
    BY DEF n
  <2>2. \A i \in S : i \in Nat /\ i <= n
    BY <2>1
  <2> HIDE DEF S
  <2>3. S \in SUBSET Nat
    BY <2>2
  <2>4. 1 \in S
    BY DEF S
  <2> QED
    BY <2>1, <2>2, <2>3, <2>4
<1>2. e \in S /\ \A i \in S : i <= e
  <2> HIDE DEF S, n
  <2>1. n \in Nat
    BY <1>1
  <2> QED
    BY <1>1, <2>1, GreatestNatural, Zenon
<1> DEFINE z == ZeroTruncated(p)
<1>3. z = SubSeq(p, 1, e)
  BY DEF ZeroTruncated
<1>4. e \in 1..n
  <2> HIDE DEF e, S, n
  <2>1. e \in Nat /\ 1 <= e /\ e <= n
    BY <1>1, <1>2
  <2> QED
    BY <1>1, <2>1
<1>5. \A i \in 1..n : i > e => p[i] = 0
  <2> SUFFICES ASSUME NEW i \in 1..n, i > e, p[i] # 0 PROVE FALSE
    OBVIOUS
  <2>1. i \in S
    OBVIOUS
  <2> HIDE DEF S, e
  <2>2. i <= e
    BY <1>2, <2>1
  <2> QED
    BY <1>4, <2>2
<1> HIDE DEF e, S
<1>6. \A i \in 1..e : p[i] \in Octet
  BY <1>4, ElementOfSeq
<1>7. /\ SubSeq(p, 1, e) \in Seq(Octet) /\ Len(SubSeq(p, 1, e)) = e
      /\ \A i \in 1..e : SubSeq(p, 1, e)[i] = p[i]
  <2>1. /\ SubSeq(p, 1, e) \in Seq(Octet)
        /\ Len(SubSeq(p, 1, e)) = IF 1 <= e THEN e - 1 + 1 ELSE 0
        /\ \A i \in 1..e - 1 + 1 : SubSeq(p, 1, e)[i] = p[1 + i - 1]
    BY <1>4, <1>6, SubSeqProperties
  <2> QED
    BY <1>4, <2>1
<1> HIDE DEF z, n
<1>8. z \in Seq(Octet) /\ Len(z) = e /\ \A i \in 1..e : z[i] = p[i]
  BY <1>3, <1>7, Zenon
<1>9. /\ z \in Seq(Octet) /\ Len(z) \in 1..n
      /\ \A i \in 1..Len(z) : z[i] = p[i]
      /\ \A i \in 1..n : i > Len(z) => p[i] = 0
  BY <1>4, <1>5, <1>8, Zenon
<1> QED
  BY <1>9, Zenon DEF z, n

\* A frame as serialize() writes it: unsigned and without flags, as long as it says.
Whole(g) ==
  /\ g \in Seq(Octet)
  /\ g[1] = 253 /\ g[2] \in 1..255 /\ g[3] = 0 /\ g[4] = 0
  /\ Len(g) = 12 + g[2]

\* The parts of a frame one behind the other.
Packed(h, p, low, high) == <<253>> \o h \o p \o <<low, high>>

Parts(g, h, p, low, high) ==
  /\ g \in Seq(Octet) /\ Len(g) = 12 + Len(p) /\ g[1] = 253
  /\ \A i \in 1..9 : g[i + 1] = h[i]
  /\ \A i \in 1..Len(p) : g[i + 10] = p[i]
  /\ g[11 + Len(p)] = low /\ g[12 + Len(p)] = high

LEMMA FrameParts ==
  ASSUME NEW h \in Seq(Octet), Len(h) = 9, NEW p \in Seq(Octet),
         NEW low \in Octet, NEW high \in Octet
  PROVE  Parts(Packed(h, p, low, high), h, p, low, high)
<1> DEFINE n == Len(p)
           d == <<253>>
           a == d \o h
           b == a \o p
           e == <<low, high>>
           g == b \o e
<1>0. n \in Nat /\ Len(p) = n
  BY LenProperties
<1> HIDE DEF n
<1>1. d \in Seq(Octet) /\ Len(d) = 1 /\ d[1] = 253
  BY DEF Octet
<1>2. e \in Seq(Octet) /\ Len(e) = 2 /\ e[1] = low /\ e[2] = high
  OBVIOUS
<1> HIDE DEF d, e
<1>3. /\ a \in Seq(Octet) /\ Len(a) = 10 /\ a[1] = 253
      /\ \A i \in 1..9 : a[1 + i] = h[i]
  <2>1. /\ a \in Seq(Octet) /\ Len(a) = Len(d) + Len(h)
        /\ \A i \in 1..Len(d) : a[i] = d[i]
        /\ \A i \in 1..Len(h) : a[Len(d) + i] = h[i]
    <3>1. d \in Seq(Octet) /\ h \in Seq(Octet)
      BY <1>1
    <3> QED
      BY <3>1, Joined, Zenon
  <2> HIDE DEF a
  <2> QED
    BY <1>1, <2>1
<1> HIDE DEF a
<1>4. /\ b \in Seq(Octet) /\ Len(b) = 10 + n
      /\ \A i \in 1..10 : b[i] = a[i]
      /\ \A i \in 1..n : b[10 + i] = p[i]
  <2>1. /\ b \in Seq(Octet) /\ Len(b) = Len(a) + Len(p)
        /\ \A i \in 1..Len(a) : b[i] = a[i]
        /\ \A i \in 1..Len(p) : b[Len(a) + i] = p[i]
    <3>1. a \in Seq(Octet) /\ p \in Seq(Octet)
      BY <1>3
    <3> QED
      BY <3>1, Joined, Zenon
  <2> HIDE DEF b
  <2> QED
    BY <1>0, <1>3, <2>1
<1> HIDE DEF b
<1>5. /\ g \in Seq(Octet) /\ Len(g) = 12 + n
      /\ \A i \in 1..10 + n : g[i] = b[i]
      /\ \A i \in 1..2 : g[(10 + n) + i] = e[i]
  <2>1. /\ g \in Seq(Octet) /\ Len(g) = Len(b) + Len(e)
        /\ \A i \in 1..Len(b) : g[i] = b[i]
        /\ \A i \in 1..Len(e) : g[Len(b) + i] = e[i]
    BY <1>2, <1>4, Joined
  <2> HIDE DEF g
  <2>2. Len(g) = 12 + n
    BY <1>0, <1>2, <1>4, <2>1
  <2> QED
    BY <1>2, <1>4, <2>1, <2>2
<1> HIDE DEF g
<1>6. g[1] = 253
  <2>1. 1 \in 1..10 + n /\ 1 \in 1..10
    BY <1>0
  <2>2. g[1] = b[1]
    BY <1>5, <2>1
  <2>3. b[1] = a[1]
    BY <1>4, <2>1
  <2> QED
    BY <1>3, <2>2, <2>3
<1>7. ASSUME NEW i \in 1..9 PROVE g[i + 1] = h[i]
  <2>1. i + 1 \in 1..10 + n /\ i + 1 \in 1..10 /\ i + 1 = 1 + i
    BY <1>0
  <2>2. g[i + 1] = b[i + 1]
    BY <1>5, <2>1
  <2>3. b[i + 1] = a[i + 1]
    BY <1>4, <2>1
  <2>4. a[1 + i] = h[i]
    BY <1>3
  <2> QED
    BY <2>1, <2>2, <2>3, <2>4
<1>8. ASSUME NEW i \in 1..n PROVE g[i + 10] = p[i]
  <2>1. i + 10 \in 1..10 + n /\ i + 10 = 10 + i
    BY <1>0
  <2>2. g[i + 10] = b[i + 10]
    BY <1>5, <2>1
  <2>3. b[10 + i] = p[i]
    BY <1>4
  <2> QED
    BY <2>1, <2>2, <2>3
<1>9. g[11 + n] = low /\ g[12 + n] = high
  <2>1. 11 + n = (10 + n) + 1 /\ 12 + n = (10 + n) + 2
    BY <1>0
  <2>2. g[(10 + n) + 1] = e[1] /\ g[(10 + n) + 2] = e[2]
    BY <1>5
  <2> QED
    BY <1>2, <2>1, <2>2
<1> QED
  BY <1>5, <1>6, <1>7, <1>8, <1>9, Zenon DEF Packed, Parts, n, g, b, a, d, e

\* What may be sent.
Sendable(m, values) ==
  /\ m \in Known /\ m.id \in Nat /\ m.id < 256 * 256 * 256
  /\ Len(values) = Len(m.fields)
  /\ values \in Seq(Seq(Octet))
  /\ \A k \in 1..Len(values) : Len(values[k]) = m.fields[k].width
  /\ Len(FullPayload(values)) \in 1..255

\* What serialize() puts into a frame.
PayloadOf(values) == ZeroTruncated(FullPayload(values))
HeaderOf(m, values) == Header(m, Len(PayloadOf(values)), Seqno, Sys, Comp)
CrcOf(m, values) == FrameCrc(HeaderOf(m, values), PayloadOf(values), CrcExtra[m.id])
FrameOf(m, values) ==
  Packed(HeaderOf(m, values), PayloadOf(values), CrcOf(m, values) % 256, CrcOf(m, values) \div 256)

LEMMA PayloadType ==
  ASSUME NEW m, NEW values, Sendable(m, values)
  PROVE  /\ FullPayload(values) \in Seq(Octet)
         /\ PayloadOf(values) \in Seq(Octet)
         /\ Len(PayloadOf(values)) \in 1..Len(FullPayload(values))
         /\ Len(PayloadOf(values)) \in 1..255
<1>1. FullPayload(values) \in Seq(Octet)
  BY FlattenProperties, Zenon DEF Sendable, FullPayload
<1>2. Len(FullPayload(values)) \in 1..255
  BY Zenon DEF Sendable
<1>3. /\ PayloadOf(values) \in Seq(Octet)
      /\ Len(PayloadOf(values)) \in 1..Len(FullPayload(values))
  BY <1>1, <1>2, Truncation, Zenon DEF PayloadOf
<1> DEFINE n == Len(FullPayload(values))
           l == Len(PayloadOf(values))
<1>4. n \in 1..255 /\ l \in 1..n
  BY <1>2, <1>3, Zenon
<1> HIDE DEF n, l
<1>5. l \in 1..255
  BY <1>4
<1> QED
  BY <1>1, <1>3, <1>5, Zenon DEF l

LEMMA HeaderType ==
  ASSUME NEW m, NEW values, Sendable(m, values)
  PROVE  /\ HeaderOf(m, values) \in Seq(Octet) /\ Len(HeaderOf(m, values)) = 9
         /\ HeaderOf(m, values)
              = <<Len(PayloadOf(values)), 0, 0, Seqno, Sys, Comp, m.id % 256,
                  (m.id \div 256) % 256, (m.id \div (256 * 256)) % 256>>
<1> DEFINE l == Len(PayloadOf(values))
           i1 == m.id % 256
           i2 == (m.id \div 256) % 256
           i3 == (m.id \div (256 * 256)) % 256
<1>1. l \in 1..255
  BY PayloadType
<1>2. i1 \in Octet /\ i2 \in Octet /\ i3 \in Octet
  <2> DEFINE id == m.id
  <2>1. id \in Nat /\ id < 256 * 256 * 256
    BY Zenon DEF Sendable
  <2> HIDE DEF id
  <2>2. id % 256 \in Octet /\ (id \div 256) % 256 \in Octet /\ (id \div (256 * 256)) % 256 \in Octet
    BY <2>1, IdBytes
  <2> QED
    BY <2>2, Zenon DEF id
<1>3. HeaderOf(m, values) = <<l % 256, 0, 0, Seqno, Sys, Comp, i1, i2, i3>>
  BY Zenon DEF HeaderOf, Header
<1> HIDE DEF l, i1, i2, i3
<1>4. l % 256 = l
  BY <1>1
<1>5. 0 \in Octet /\ l \in Octet /\ Seqno \in Octet /\ Sys \in Octet /\ Comp \in Octet
  BY <1>1 DEF Octet, Seqno, Sys, Comp
<1>6. <<l, 0, 0, Seqno, Sys, Comp, i1, i2, i3>> \in Seq(Octet)
  BY <1>2, <1>5
<1> QED
  BY <1>3, <1>4, <1>6 DEF l, i1, i2, i3

\* The bytes of a frame one by one.
LEMMA FrameBytes ==
  ASSUME NEW m, NEW values, Sendable(m, values)
  PROVE  /\ Whole(FrameOf(m, values)) /\ FrameOf(m, values)[2] = Len(PayloadOf(values))
         /\ CrcOf(m, values) \in Word
         /\ Parts(FrameOf(m, values), HeaderOf(m, values), PayloadOf(values),
                  CrcOf(m, values) % 256, CrcOf(m, values) \div 256)
<1> DEFINE h == HeaderOf(m, values)
           p == PayloadOf(values)
           n == Len(p)
           crc == CrcOf(m, values)
           g == FrameOf(m, values)
<1>1. crc \in Word
  BY AccumulateType DEF CrcOf, FrameCrc
<1>2. crc % 256 \in Octet /\ crc \div 256 \in Octet
  <2> HIDE DEF crc
  <2> QED
    BY <1>1, WordBytes
<1>3. p \in Seq(Octet) /\ n \in 1..255 /\ n \in Nat
  <2>1. p \in Seq(Octet) /\ n \in 1..255
    BY PayloadType, Zenon
  <2> HIDE DEF p, n
  <2> QED
    BY <2>1
<1>4. h \in Seq(Octet) /\ Len(h) = 9
  BY HeaderType
<1>5. h[1] = n /\ h[2] = 0 /\ h[3] = 0
  BY HeaderType
<1> HIDE DEF h, p, crc
<1>6. g = Packed(h, p, crc % 256, crc \div 256)
  BY DEF FrameOf, h, p, crc
<1> HIDE DEF g
<1>7. Parts(g, h, p, crc % 256, crc \div 256)
  <2> DEFINE low == crc % 256
             high == crc \div 256
  <2>1. low \in Octet /\ high \in Octet /\ g = Packed(h, p, low, high)
    BY <1>2, <1>6, Zenon
  <2> HIDE DEF low, high
  <2>2. Parts(Packed(h, p, low, high), h, p, low, high)
    BY <1>3, <1>4, <2>1, FrameParts
  <2> QED
    BY <2>1, <2>2, Zenon DEF low, high
<1>8. g[2] = n /\ g[3] = 0 /\ g[4] = 0
  <2>1. g[1 + 1] = h[1] /\ g[2 + 1] = h[2] /\ g[3 + 1] = h[3]
    BY <1>7 DEF Parts
  <2> QED
    BY <1>5, <2>1
<1>9. Whole(g)
  BY <1>3, <1>7, <1>8 DEF Whole, Parts
<1> QED
  BY <1>1, <1>7, <1>8, <1>9, Zenon DEF Parts, h, p, crc, g

LEMMA Serialized ==
  ASSUME NEW m, NEW values, NEW size, ~(size < MaxPacket)
  PROVE  serialize(m, values, Sys, Comp, Seqno, size)
           = [kind |-> "frame", bytes |-> FrameOf(m, values)]
BY DEF serialize, FrameOf, Packed, CrcOf, HeaderOf, PayloadOf
-------------------------------------------------------------------------------
(* deserialize() *)

\* A field begins where the fields before it end.
Offsets(m, o, N) == o[0] = 0 /\ \A n \in 1..N : o[n] = o[n - 1] + m.fields[n].width

LEMMA OffsetSteps ==
  ASSUME NEW m, NEW N \in Nat, Len(m.fields) = N, NEW o, Offsets(m, o, N), NEW k \in 1..N
  PROVE  Offset(m, k) = o[k - 1]
<1> USE DEF Offsets
<1> DEFINE Upto(f) == f = [n \in 0..N |-> IF n = 0 THEN 0 ELSE f[n - 1] + m.fields[n].width]
           upTo == CHOOSE f : Upto(f)
           h == [n \in 0..N |-> o[n]]
<1>1. Upto(h)
  <2>1. \A n \in 0..N : o[n] = IF n = 0 THEN 0 ELSE h[n - 1] + m.fields[n].width
    <3> SUFFICES ASSUME NEW n \in 0..N, n # 0 PROVE o[n] = h[n - 1] + m.fields[n].width
      OBVIOUS
    <3>1. n \in 1..N /\ n - 1 \in 0..N
      OBVIOUS
    <3>2. h[n - 1] = o[n - 1]
      BY <3>1
    <3> HIDE DEF h
    <3> QED
      BY <3>1, <3>2
  <2> QED
    BY <2>1
<1>2. Upto(upTo)
  <2>1. \E f : Upto(f)
    BY <1>1, Zenon
  <2> HIDE DEF Upto
  <2> QED
    BY <2>1
<1>3. Offset(m, k) = upTo[k - 1]
  BY DEF Offset
<1> HIDE DEF upTo
<1>4. \A n \in 0..N : upTo[n] = IF n = 0 THEN 0 ELSE upTo[n - 1] + m.fields[n].width
  BY <1>2
<1> DEFINE P == {n \in Nat : n \in 0..N => upTo[n] = o[n]}
<1>5. 0 \in P
  BY <1>4
<1>6. ASSUME NEW n \in Nat, n \in P PROVE n + 1 \in P
  <2> SUFFICES ASSUME n + 1 \in 0..N PROVE upTo[n + 1] = o[n + 1]
    OBVIOUS
  <2>1. n + 1 \in 1..N /\ n \in 0..N /\ (n + 1) - 1 = n /\ n + 1 # 0
    OBVIOUS
  <2>2. upTo[n + 1] = upTo[n] + m.fields[n + 1].width
    BY <1>4, <2>1
  <2>3. o[n + 1] = o[n] + m.fields[n + 1].width
    BY <2>1
  <2> QED
    BY <1>6, <2>1, <2>2, <2>3
<1>7. Nat \subseteq P
  <2> HIDE DEF P
  <2> QED
    BY <1>5, <1>6, Induction
<1>8. k - 1 \in 0..N /\ k - 1 \in Nat
  OBVIOUS
<1>9. upTo[k - 1] = o[k - 1]
  BY <1>7, <1>8
<1> QED
  BY <1>3, <1>9

\* Where a field lies in the payload.
LEMMA FieldPlace ==
  ASSUME NEW m, NEW values, Sendable(m, values), NEW k \in 1..Len(values)
  PROVE  /\ Offset(m, k) \in Nat
         /\ Offset(m, k) + Len(values[k]) <= Len(FullPayload(values))
         /\ \A i \in 1..Len(values[k]) : FullPayload(values)[Offset(m, k) + i] = values[k][i]
<1>1. values \in Seq(Seq(Octet)) /\ Len(m.fields) = Len(values)
  BY DEF Sendable
<1>2. Len(values) \in Nat
  BY <1>1, LenProperties
<1>3. PICK o \in [0..Len(values) -> Nat] :
        /\ o[0] = 0
        /\ \A n \in 1..Len(values) : o[n] = o[n - 1] + Len(values[n])
        /\ Len(FullPayload(values)) = o[Len(values)]
        /\ \A n \in 1..Len(values) : o[n] <= o[Len(values)]
        /\ \A n \in 1..Len(values) : \A i \in 1..Len(values[n]) :
             FullPayload(values)[o[n - 1] + i] = values[n][i]
  BY <1>1, FlattenProperties, Zenon DEF FullPayload
<1>4. Offsets(m, o, Len(values))
  BY <1>3 DEF Sendable, Offsets
<1>5. Offset(m, k) = o[k - 1]
  BY <1>1, <1>2, <1>4, OffsetSteps
<1>6. k - 1 \in 0..Len(values)
  BY <1>2
<1>7. o[k - 1] \in Nat
  BY <1>3, <1>6
<1>8. o[k - 1] + Len(values[k]) <= Len(FullPayload(values))
  BY <1>3, Zenon
<1>9. \A i \in 1..Len(values[k]) : FullPayload(values)[o[k - 1] + i] = values[k][i]
  BY <1>3, Zenon
<1> QED
  BY <1>5, <1>7, <1>8, <1>9

\* Truncation and what deserialize() puts in its place cancel, for every field and wherever
\* the payload was cut.
LEMMA FieldRestored ==
  ASSUME NEW m, NEW values, Sendable(m, values), NEW k \in 1..Len(values),
         NEW q, Len(q) = Len(PayloadOf(values)),
         \A i \in 1..Len(q) : q[i] = PayloadOf(values)[i]
  PROVE  FieldValue(m, k, q) = values[k]
<1> DEFINE p == FullPayload(values)
           z == PayloadOf(values)
           P == Len(p)
           Z == Len(z)
           w == m.fields[k].width
           v == values[k]
           x == Offset(m, k)
<1>1. values \in Seq(Seq(Octet)) /\ Len(v) = w
  BY DEF Sendable
<1>2. v \in Seq(Octet) /\ w \in Nat
  BY <1>1, ElementOfSeq, LenProperties
<1>3. x \in Nat /\ x + w <= P /\ \A i \in 1..w : p[x + i] = v[i]
  BY <1>1, FieldPlace
<1>4. /\ p \in Seq(Octet) /\ P \in 1..255 /\ Z \in 1..P
      /\ \A i \in 1..Z : z[i] = p[i]
      /\ \A i \in 1..P : i > Z => p[i] = 0
  <2>1. p \in Seq(Octet) /\ P \in 1..255
    BY PayloadType, Zenon DEF Sendable
  <2> QED
    BY <2>1, Truncation, Zenon DEF PayloadOf
<1> HIDE DEF p, z, P, Z, w, v, x
<1>5. ASSUME NEW j \in 1..w
      PROVE  (IF x + j <= Z THEN q[x + j] ELSE 0) = v[j]
  <2> DEFINE i == x + j
  <2>1. i \in 1..P
    BY <1>2, <1>3, <1>4
  <2>2. p[i] = v[j]
    BY <1>3
  <2> HIDE DEF i
  <2>3. CASE i <= Z
    <3>1. i \in 1..Z
      BY <1>4, <2>1, <2>3
    <3>2. q[i] = z[i]
      BY <3>1 DEF Z, z
    <3>3. z[i] = p[i]
      BY <1>4, <3>1
    <3> QED
      BY <2>2, <2>3, <3>2, <3>3 DEF i
  <2>4. CASE ~(i <= Z)
    <3>1. i > Z
      BY <1>4, <2>1, <2>4
    <3>2. p[i] = 0
      BY <1>4, <2>1, <3>1
    <3> QED
      BY <2>2, <2>4, <3>2 DEF i
  <2> QED
    BY <2>3, <2>4
<1>6. FieldValue(m, k, q) = [j \in 1..w |-> IF x + j <= Z THEN q[x + j] ELSE 0]
  BY DEF FieldValue, w, Z, z, x
<1>7. [j \in 1..w |-> IF x + j <= Z THEN q[x + j] ELSE 0] = [j \in 1..w |-> v[j]]
  BY <1>5, Zenon
<1>8. v = [j \in 1..w |-> v[j]]
  BY <1>1, <1>2, LenProperties
<1> QED
  BY <1>6, <1>7, <1>8, Zenon DEF v

\* deserialize() gives back the fields of any message from the payload that serialize() cut: a
\* field that is missing, or of which only the first bytes came, is filled up with zeros.
THEOREM Deserialized ==
  ASSUME NEW m, NEW values, Sendable(m, values),
         NEW view, MsgId(view) = m.id,
         Len(view.payload) = Len(PayloadOf(values)),
         \A i \in 1..Len(view.payload) : view.payload[i] = PayloadOf(values)[i]
  PROVE  deserialize(m, view) = [kind |-> "message", msg |-> m, values |-> values]
<1> DEFINE N == Len(values)
           got1 == [k \in 1..N |-> FieldValue(m, k, view.payload)]
<1>1. N \in Nat /\ Len(m.fields) = N /\ values \in Seq(Seq(Octet))
  BY LenProperties DEF Sendable
<1>2. \A k \in 1..N : FieldValue(m, k, view.payload) = values[k]
  BY FieldRestored
<1>3. values = [k \in 1..N |-> values[k]]
  BY <1>1, LenProperties
<1>4. got1 = [k \in 1..N |-> values[k]]
  BY <1>2, Zenon
<1> QED
  BY <1>1, <1>3, <1>4 DEF deserialize

-------------------------------------------------------------------------------
(* Words, bit by bit *)

\* The exclusive or of words adds their bits.
LEMMA Xor16Bits ==
  ASSUME NEW a \in Nat, NEW b \in Nat
  PROVE  \A i \in 0..15 : BitOf(Xor16(a, b), i) = Plus(BitOf(a, i), BitOf(b, i))
<1> DEFINE x == XorOctet(a \div 256, b \div 256)
           y == XorOctet(a % 256, b % 256)
<1>1. x \in Octet /\ y \in Octet /\ x \in Nat /\ Xor16(a, b) = 256 * x + y
  BY XorOctetType DEF Xor16, Octet
<1>2. \A j \in 0..7 : /\ BitOf(y, j) = Plus(BitOf(a % 256, j), BitOf(b % 256, j))
                      /\ BitOf(x, j) = Plus(BitOf(a \div 256, j), BitOf(b \div 256, j))
  BY XorBits
<1> HIDE DEF x, y
<1>3. Halves(Xor16(a, b), x, y)
  BY <1>1, BytesBits, Zenon
<1>4. Halves(a, a \div 256, a % 256) /\ Halves(b, b \div 256, b % 256)
  BY BytesOf, Zenon
<1>5. \A j \in 0..7 : /\ BitOf(Xor16(a, b), j) = Plus(BitOf(a, j), BitOf(b, j))
                      /\ BitOf(Xor16(a, b), j + 8) = Plus(BitOf(a, j + 8), BitOf(b, j + 8))
  BY <1>2, <1>3, <1>4 DEF Halves
<1> SUFFICES ASSUME NEW i \in 0..15 PROVE BitOf(Xor16(a, b), i) = Plus(BitOf(a, i), BitOf(b, i))
  OBVIOUS
<1>6. CASE i \in 0..7
  BY <1>5, <1>6, Zenon
<1>7. CASE \E j \in 0..7 : i = j + 8
  BY <1>5, <1>7, Zenon
<1> QED
  BY <1>6, <1>7, Index, Zenon

\* A word is known by its bits.
LEMMA SameWord ==
  ASSUME NEW a \in Word, NEW b \in Word, \A i \in 0..15 : BitOf(a, i) = BitOf(b, i)
  PROVE  a = b
<1>1. ASSUME NEW n \in Word
      PROVE  /\ n \div 65536 = 0
             /\ n = 2 * (n \div 2) + BitOf(n, 0)
             /\ n \div 2 = 2 * (n \div 4) + BitOf(n, 1)
             /\ n \div 4 = 2 * (n \div 8) + BitOf(n, 2)
             /\ n \div 8 = 2 * (n \div 16) + BitOf(n, 3)
             /\ n \div 16 = 2 * (n \div 32) + BitOf(n, 4)
             /\ n \div 32 = 2 * (n \div 64) + BitOf(n, 5)
             /\ n \div 64 = 2 * (n \div 128) + BitOf(n, 6)
             /\ n \div 128 = 2 * (n \div 256) + BitOf(n, 7)
             /\ n \div 256 = 2 * (n \div 512) + BitOf(n, 8)
             /\ n \div 512 = 2 * (n \div 1024) + BitOf(n, 9)
             /\ n \div 1024 = 2 * (n \div 2048) + BitOf(n, 10)
             /\ n \div 2048 = 2 * (n \div 4096) + BitOf(n, 11)
             /\ n \div 4096 = 2 * (n \div 8192) + BitOf(n, 12)
             /\ n \div 8192 = 2 * (n \div 16384) + BitOf(n, 13)
             /\ n \div 16384 = 2 * (n \div 32768) + BitOf(n, 14)
             /\ n \div 32768 = 2 * (n \div 65536) + BitOf(n, 15)
  BY Powers DEF BitOf, Word
<1>2. /\ BitOf(a, 0) = BitOf(b, 0) /\ BitOf(a, 1) = BitOf(b, 1) /\ BitOf(a, 2) = BitOf(b, 2)
      /\ BitOf(a, 3) = BitOf(b, 3) /\ BitOf(a, 4) = BitOf(b, 4) /\ BitOf(a, 5) = BitOf(b, 5)
      /\ BitOf(a, 6) = BitOf(b, 6) /\ BitOf(a, 7) = BitOf(b, 7) /\ BitOf(a, 8) = BitOf(b, 8)
      /\ BitOf(a, 9) = BitOf(b, 9) /\ BitOf(a, 10) = BitOf(b, 10) /\ BitOf(a, 11) = BitOf(b, 11)
      /\ BitOf(a, 12) = BitOf(b, 12) /\ BitOf(a, 13) = BitOf(b, 13)
      /\ BitOf(a, 14) = BitOf(b, 14) /\ BitOf(a, 15) = BitOf(b, 15)
  OBVIOUS
<1>3. a \div 65536 = b \div 65536
  BY <1>1
<1>4. a \div 32768 = b \div 32768
  BY <1>1, <1>2, <1>3
<1>5. a \div 16384 = b \div 16384
  BY <1>1, <1>2, <1>4
<1>6. a \div 8192 = b \div 8192
  BY <1>1, <1>2, <1>5
<1>7. a \div 4096 = b \div 4096
  BY <1>1, <1>2, <1>6
<1>8. a \div 2048 = b \div 2048
  BY <1>1, <1>2, <1>7
<1>9. a \div 1024 = b \div 1024
  BY <1>1, <1>2, <1>8
<1>10. a \div 512 = b \div 512
  BY <1>1, <1>2, <1>9
<1>11. a \div 256 = b \div 256
  BY <1>1, <1>2, <1>10
<1>12. a \div 128 = b \div 128
  BY <1>1, <1>2, <1>11
<1>13. a \div 64 = b \div 64
  BY <1>1, <1>2, <1>12
<1>14. a \div 32 = b \div 32
  BY <1>1, <1>2, <1>13
<1>15. a \div 16 = b \div 16
  BY <1>1, <1>2, <1>14
<1>16. a \div 8 = b \div 8
  BY <1>1, <1>2, <1>15
<1>17. a \div 4 = b \div 4
  BY <1>1, <1>2, <1>16
<1>18. a \div 2 = b \div 2
  BY <1>1, <1>2, <1>17
<1> QED
  BY <1>1, <1>2, <1>18

-------------------------------------------------------------------------------
(* The checksum *)

\* One shift of the register, bit by bit.
LEMMA ShiftBits ==
  ASSUME NEW c \in Word, NEW d \in Bit
  PROVE  /\ X25Shift(c, d) \in Word
         /\ \A i \in 0..15 :
              BitOf(X25Shift(c, d), i) =
                Plus(IF i = 15 THEN 0 ELSE BitOf(c, i + 1),
                     IF i \in {3, 10, 15} THEN Plus(BitOf(c, 0), d) ELSE 0)
<1> DEFINE h == c \div 2
           s == X25Shift(c, d)
<1>1. c \in Nat /\ c < 65536 /\ h \in Nat /\ h < 32768 /\ h \in Word
  BY DEF Word
<1>2. BitOf(c, 0) = c % 2 /\ BitOf(c, 0) \in Bit
  BY <1>1, BitShift, Powers DEF BitOf
<1>3. \A i \in 0..14 : BitOf(c, i + 1) = BitOf(h, i)
  BY <1>1, BitShift
<1>4. BitOf(h, 15) = 0
  BY <1>1, Powers DEF BitOf
<1>5. \A i \in 0..15 : BitOf(h, i) = IF i = 15 THEN 0 ELSE BitOf(c, i + 1)
  BY <1>3, <1>4
<1>6. \A i \in 0..15 : BitOf(h, i) \in Bit
  BY <1>1, BitType
<1>7. \A i \in 0..15 : BitOf(33800, i) = IF i \in {3, 10, 15} THEN 1 ELSE 0
  <2>1. /\ BitOf(33800, 0) = 0 /\ BitOf(33800, 1) = 0 /\ BitOf(33800, 2) = 0
        /\ BitOf(33800, 3) = 1 /\ BitOf(33800, 4) = 0 /\ BitOf(33800, 5) = 0
        /\ BitOf(33800, 6) = 0 /\ BitOf(33800, 7) = 0 /\ BitOf(33800, 8) = 0
        /\ BitOf(33800, 9) = 0 /\ BitOf(33800, 10) = 1 /\ BitOf(33800, 11) = 0
        /\ BitOf(33800, 12) = 0 /\ BitOf(33800, 13) = 0 /\ BitOf(33800, 14) = 0
        /\ BitOf(33800, 15) = 1
    BY Powers, SMT DEF BitOf
  <2>2. 0..15 = {0, 1, 2, 3, 4, 5, 6, 7, 8, 9, 10, 11, 12, 13, 14, 15}
    OBVIOUS
  <2> QED
    BY <2>1, <2>2
<1>8. 33800 \in Nat
  OBVIOUS
<1>9. s = IF BitOf(c, 0) = d THEN h ELSE Xor16(h, 33800)
  BY <1>2 DEF X25Shift
<1>10. \A i \in 0..15 : BitOf(Xor16(h, 33800), i) = Plus(BitOf(h, i), BitOf(33800, i))
  BY <1>1, <1>8, Xor16Bits
<1> HIDE DEF h, s
<1>11. s \in Word
  BY <1>1, <1>9, Xor16Type
<1>12. \A i \in 0..15 : BitOf(s, i) =
         Plus(BitOf(h, i), IF i \in {3, 10, 15} THEN Plus(BitOf(c, 0), d) ELSE 0)
  <2>1. CASE BitOf(c, 0) = d
    BY <1>6, <1>9, <2>1 DEF Plus, Bit
  <2>2. CASE BitOf(c, 0) # d
    BY <1>7, <1>9, <1>10, <2>2 DEF Plus
  <2> QED
    BY <2>1, <2>2
<1>13. \A i \in 0..15 : BitOf(s, i) =
         Plus(IF i = 15 THEN 0 ELSE BitOf(c, i + 1), IF i \in {3, 10, 15} THEN Plus(BitOf(c, 0), d) ELSE 0)
  BY <1>5, <1>12
<1> QED
  BY <1>11, <1>13 DEF s

\* What is added to the register, from the byte and the low byte of the register.
Feedback(d, c) ==
  LET t == XorOctet(d, c % 256)
  IN  XorOctet(t, (t * 16) % 256)

LEMMA FeedbackBits ==
  ASSUME NEW c \in Word, NEW d \in Octet
  PROVE  LET m == Feedback(d, c)
         IN  /\ m \in Octet
             /\ BitOf(m, 0) = Plus(BitOf(d, 0), BitOf(c, 0))
             /\ BitOf(m, 1) = Plus(BitOf(d, 1), BitOf(c, 1))
             /\ BitOf(m, 2) = Plus(BitOf(d, 2), BitOf(c, 2))
             /\ BitOf(m, 3) = Plus(BitOf(d, 3), BitOf(c, 3))
             /\ BitOf(m, 4) = Plus(Plus(BitOf(d, 4), BitOf(c, 4)), BitOf(m, 0))
             /\ BitOf(m, 5) = Plus(Plus(BitOf(d, 5), BitOf(c, 5)), BitOf(m, 1))
             /\ BitOf(m, 6) = Plus(Plus(BitOf(d, 6), BitOf(c, 6)), BitOf(m, 2))
             /\ BitOf(m, 7) = Plus(Plus(BitOf(d, 7), BitOf(c, 7)), BitOf(m, 3))
<1> DEFINE t == XorOctet(d, c % 256)
           u == t * 16
           n == u % 256
           m == XorOctet(t, n)
<1>1. c \in Nat /\ d \in Nat
  BY DEF Word, Octet
<1>2. \A i \in 0..7 : BitOf(t, i) = Plus(BitOf(d, i), BitOf(c % 256, i))
  BY XorBits
<1>3. \A i \in 0..7 : BitOf(c, i) = BitOf(c % 256, i)
  <2>1. c \in Nat
    BY <1>1
  <2>2. Halves(c, c \div 256, c % 256)
    BY <2>1, BytesOf, Zenon
  <2> QED
    BY <2>2, Zenon DEF Halves
<1>4. t \in Octet
  BY XorOctetType
<1> HIDE DEF t
<1>5. \A i \in 0..7 : BitOf(t, i) = Plus(BitOf(d, i), BitOf(c, i))
  BY <1>2, <1>3
<1>6. t \in Nat /\ u \in Nat
  BY <1>4 DEF Octet
<1>7. /\ u \div 1 = 2 * (t * 8) /\ u \div 2 = 2 * (t * 4) /\ u \div 4 = 2 * (t * 2)
      /\ u \div 8 = 2 * (t * 1) /\ u \div 16 = t \div 1 /\ u \div 32 = t \div 2
      /\ u \div 64 = t \div 4 /\ u \div 128 = t \div 8
  BY <1>6
<1> HIDE DEF u
<1>8. /\ BitOf(u, 0) = 0 /\ BitOf(u, 1) = 0 /\ BitOf(u, 2) = 0 /\ BitOf(u, 3) = 0
      /\ BitOf(u, 4) = BitOf(t, 0) /\ BitOf(u, 5) = BitOf(t, 1) /\ BitOf(u, 6) = BitOf(t, 2)
      /\ BitOf(u, 7) = BitOf(t, 3)
  BY <1>6, <1>7, Powers DEF BitOf
<1>9. \A i \in 0..7 : BitOf(u, i) = BitOf(n, i)
  <2>1. u \in Nat
    BY <1>6
  <2>2. Halves(u, u \div 256, u % 256)
    BY <2>1, BytesOf, Zenon
  <2> QED
    BY <2>2, Zenon DEF Halves
<1>10. \A i \in 0..7 : BitOf(m, i) = Plus(BitOf(t, i), BitOf(n, i))
  BY XorBits
<1>11. m \in Octet
  BY XorOctetType
<1>12. \A i \in 0..7 : BitOf(t, i) \in Bit
  BY <1>6, BitType
<1> HIDE DEF n, m
<1>13. /\ BitOf(m, 0) = BitOf(t, 0) /\ BitOf(m, 1) = BitOf(t, 1) /\ BitOf(m, 2) = BitOf(t, 2)
       /\ BitOf(m, 3) = BitOf(t, 3) /\ BitOf(m, 4) = Plus(BitOf(t, 4), BitOf(t, 0))
       /\ BitOf(m, 5) = Plus(BitOf(t, 5), BitOf(t, 1))
       /\ BitOf(m, 6) = Plus(BitOf(t, 6), BitOf(t, 2))
       /\ BitOf(m, 7) = Plus(BitOf(t, 7), BitOf(t, 3))
  BY <1>8, <1>9, <1>10, <1>12 DEF Plus, Bit
<1>14. m = Feedback(d, c)
  BY DEF Feedback, m, n, u, t
<1> QED
  BY <1>5, <1>11, <1>13, <1>14

\* The register after a byte, bit by bit.
LEMMA AccumulateBits ==
  ASSUME NEW c \in Word, NEW d \in Octet
  PROVE  LET m == Feedback(d, c)
             r == crc_accumulate(d, c)
         IN  /\ BitOf(r, 0) = Plus(BitOf(c, 8), BitOf(m, 4))
             /\ BitOf(r, 1) = Plus(BitOf(c, 9), BitOf(m, 5))
             /\ BitOf(r, 2) = Plus(BitOf(c, 10), BitOf(m, 6))
             /\ BitOf(r, 3) = Plus(Plus(BitOf(c, 11), BitOf(m, 0)), BitOf(m, 7))
             /\ BitOf(r, 4) = Plus(BitOf(c, 12), BitOf(m, 1))
             /\ BitOf(r, 5) = Plus(BitOf(c, 13), BitOf(m, 2))
             /\ BitOf(r, 6) = Plus(BitOf(c, 14), BitOf(m, 3))
             /\ BitOf(r, 7) = Plus(BitOf(c, 15), BitOf(m, 4))
             /\ BitOf(r, 8) = Plus(BitOf(m, 0), BitOf(m, 5))
             /\ BitOf(r, 9) = Plus(BitOf(m, 1), BitOf(m, 6))
             /\ BitOf(r, 10) = Plus(BitOf(m, 2), BitOf(m, 7)) /\ BitOf(r, 11) = BitOf(m, 3)
             /\ BitOf(r, 12) = BitOf(m, 4) /\ BitOf(r, 13) = BitOf(m, 5)
             /\ BitOf(r, 14) = BitOf(m, 6) /\ BitOf(r, 15) = BitOf(m, 7)
<1> DEFINE h == c \div 256
           m == Feedback(d, c)
           a == m * 256
           b == m * 8
           e == m \div 16
           r == crc_accumulate(d, c)
<1>1. m \in Octet /\ h \in Octet
  BY FeedbackBits, WordBytes
<1>2. r = Xor16(Xor16(h, a), Xor16(b, e))
  BY DEF crc_accumulate, Feedback
<1> HIDE DEF m, r
<1>3. c \in Nat /\ h \in Nat /\ m \in Nat /\ a \in Nat /\ b \in Nat /\ e \in Nat
  BY <1>1 DEF Word, Octet
<1>4. /\ BitOf(h, 0) = BitOf(c, 8) /\ BitOf(h, 1) = BitOf(c, 9) /\ BitOf(h, 2) = BitOf(c, 10)
      /\ BitOf(h, 3) = BitOf(c, 11) /\ BitOf(h, 4) = BitOf(c, 12) /\ BitOf(h, 5) = BitOf(c, 13)
      /\ BitOf(h, 6) = BitOf(c, 14) /\ BitOf(h, 7) = BitOf(c, 15) /\ BitOf(h, 8) = 0
      /\ BitOf(h, 9) = 0 /\ BitOf(h, 10) = 0 /\ BitOf(h, 11) = 0 /\ BitOf(h, 12) = 0
      /\ BitOf(h, 13) = 0 /\ BitOf(h, 14) = 0 /\ BitOf(h, 15) = 0
  <2>1. \A i \in 0..7 : BitOf(c, i + 8) = BitOf(h, i)
    <3>1. Halves(c, c \div 256, c % 256)
      BY <1>3, BytesOf, Zenon
    <3> QED
      BY <3>1, Zenon DEF Halves
  <2>2. \A i \in 0..7 : BitOf(h, i + 8) = 0
    BY <1>1, HighBits
  <2> HIDE DEF h
  <2>3. /\ BitOf(c, 0 + 8) = BitOf(h, 0) /\ BitOf(h, 0 + 8) = 0
        /\ BitOf(c, 1 + 8) = BitOf(h, 1) /\ BitOf(h, 1 + 8) = 0
        /\ BitOf(c, 2 + 8) = BitOf(h, 2) /\ BitOf(h, 2 + 8) = 0
        /\ BitOf(c, 3 + 8) = BitOf(h, 3) /\ BitOf(h, 3 + 8) = 0
        /\ BitOf(c, 4 + 8) = BitOf(h, 4) /\ BitOf(h, 4 + 8) = 0
        /\ BitOf(c, 5 + 8) = BitOf(h, 5) /\ BitOf(h, 5 + 8) = 0
        /\ BitOf(c, 6 + 8) = BitOf(h, 6) /\ BitOf(h, 6 + 8) = 0
        /\ BitOf(c, 7 + 8) = BitOf(h, 7) /\ BitOf(h, 7 + 8) = 0
    BY <2>1, <2>2
  <2> QED
    BY <2>3
<1>5. /\ BitOf(a, 0) = 0 /\ BitOf(a, 1) = 0 /\ BitOf(a, 2) = 0 /\ BitOf(a, 3) = 0
      /\ BitOf(a, 4) = 0 /\ BitOf(a, 5) = 0 /\ BitOf(a, 6) = 0 /\ BitOf(a, 7) = 0
      /\ BitOf(a, 8) = BitOf(m, 0) /\ BitOf(a, 9) = BitOf(m, 1) /\ BitOf(a, 10) = BitOf(m, 2)
      /\ BitOf(a, 11) = BitOf(m, 3) /\ BitOf(a, 12) = BitOf(m, 4) /\ BitOf(a, 13) = BitOf(m, 5)
      /\ BitOf(a, 14) = BitOf(m, 6) /\ BitOf(a, 15) = BitOf(m, 7)
  <2>1. /\ a \div 1 = 2 * (m * 128) /\ a \div 2 = 2 * (m * 64) /\ a \div 4 = 2 * (m * 32)
        /\ a \div 8 = 2 * (m * 16) /\ a \div 16 = 2 * (m * 8) /\ a \div 32 = 2 * (m * 4)
        /\ a \div 64 = 2 * (m * 2) /\ a \div 128 = 2 * (m * 1) /\ a \div 256 = m \div 1
        /\ a \div 512 = m \div 2 /\ a \div 1024 = m \div 4 /\ a \div 2048 = m \div 8
        /\ a \div 4096 = m \div 16 /\ a \div 8192 = m \div 32 /\ a \div 16384 = m \div 64
        /\ a \div 32768 = m \div 128
    BY <1>3
  <2> HIDE DEF a
  <2> QED
    BY <1>3, <2>1, Powers DEF BitOf
<1>6. /\ BitOf(b, 0) = 0 /\ BitOf(b, 1) = 0 /\ BitOf(b, 2) = 0 /\ BitOf(b, 3) = BitOf(m, 0)
      /\ BitOf(b, 4) = BitOf(m, 1) /\ BitOf(b, 5) = BitOf(m, 2) /\ BitOf(b, 6) = BitOf(m, 3)
      /\ BitOf(b, 7) = BitOf(m, 4) /\ BitOf(b, 8) = BitOf(m, 5) /\ BitOf(b, 9) = BitOf(m, 6)
      /\ BitOf(b, 10) = BitOf(m, 7) /\ BitOf(b, 11) = 0 /\ BitOf(b, 12) = 0 /\ BitOf(b, 13) = 0
      /\ BitOf(b, 14) = 0 /\ BitOf(b, 15) = 0
  <2>1. /\ b \div 1 = 2 * (m * 4) /\ b \div 2 = 2 * (m * 2) /\ b \div 4 = 2 * (m * 1)
        /\ b \div 8 = m \div 1 /\ b \div 16 = m \div 2 /\ b \div 32 = m \div 4
        /\ b \div 64 = m \div 8 /\ b \div 128 = m \div 16 /\ b \div 256 = m \div 32
        /\ b \div 512 = m \div 64 /\ b \div 1024 = m \div 128 /\ b \div 2048 = 0
        /\ b \div 4096 = 0 /\ b \div 8192 = 0 /\ b \div 16384 = 0 /\ b \div 32768 = 0
    BY <1>1 DEF Octet
  <2> HIDE DEF b
  <2> QED
    BY <1>3, <2>1, Powers DEF BitOf
<1>7. /\ BitOf(e, 0) = BitOf(m, 4) /\ BitOf(e, 1) = BitOf(m, 5) /\ BitOf(e, 2) = BitOf(m, 6)
      /\ BitOf(e, 3) = BitOf(m, 7) /\ BitOf(e, 4) = 0 /\ BitOf(e, 5) = 0 /\ BitOf(e, 6) = 0
      /\ BitOf(e, 7) = 0 /\ BitOf(e, 8) = 0 /\ BitOf(e, 9) = 0 /\ BitOf(e, 10) = 0
      /\ BitOf(e, 11) = 0 /\ BitOf(e, 12) = 0 /\ BitOf(e, 13) = 0 /\ BitOf(e, 14) = 0
      /\ BitOf(e, 15) = 0
  <2>1. /\ e \div 1 = m \div 16 /\ e \div 2 = m \div 32 /\ e \div 4 = m \div 64
        /\ e \div 8 = m \div 128 /\ e \div 16 = 0 /\ e \div 32 = 0 /\ e \div 64 = 0
        /\ e \div 128 = 0 /\ e \div 256 = 0 /\ e \div 512 = 0 /\ e \div 1024 = 0
        /\ e \div 2048 = 0 /\ e \div 4096 = 0 /\ e \div 8192 = 0 /\ e \div 16384 = 0
        /\ e \div 32768 = 0
    BY <1>1 DEF Octet
  <2> HIDE DEF e
  <2> QED
    BY <1>3, <2>1, Powers DEF BitOf
<1> HIDE DEF h, a, b, e
<1>8. /\ Xor16(h, a) \in Nat /\ Xor16(b, e) \in Nat
      /\ \A i \in 0..15 : BitOf(Xor16(h, a), i) = Plus(BitOf(h, i), BitOf(a, i))
      /\ \A i \in 0..15 : BitOf(Xor16(b, e), i) = Plus(BitOf(b, i), BitOf(e, i))
  <2>1. Xor16(h, a) \in Nat /\ Xor16(b, e) \in Nat
    BY Xor16Type DEF Word
  <2>2. \A i \in 0..15 : BitOf(Xor16(h, a), i) = Plus(BitOf(h, i), BitOf(a, i))
    BY <1>3, Xor16Bits
  <2>3. \A i \in 0..15 : BitOf(Xor16(b, e), i) = Plus(BitOf(b, i), BitOf(e, i))
    BY <1>3, Xor16Bits
  <2> QED
    BY <2>1, <2>2, <2>3
<1>9. \A i \in 0..15 : BitOf(r, i) = Plus(Plus(BitOf(h, i), BitOf(a, i)), Plus(BitOf(b, i), BitOf(e, i)))
  <2>1. \A i \in 0..15 : BitOf(r, i) = Plus(BitOf(Xor16(h, a), i), BitOf(Xor16(b, e), i))
    BY <1>2, <1>8, Xor16Bits
  <2> QED
    BY <1>8, <2>1
<1>10. \A i \in 0..15 : BitOf(m, i) \in Bit /\ BitOf(c, i) \in Bit
  BY <1>3, BitType
<1>11. /\ BitOf(r, 0) = Plus(BitOf(c, 8), BitOf(m, 4))
       /\ BitOf(r, 1) = Plus(BitOf(c, 9), BitOf(m, 5))
       /\ BitOf(r, 2) = Plus(BitOf(c, 10), BitOf(m, 6))
       /\ BitOf(r, 3) = Plus(Plus(BitOf(c, 11), BitOf(m, 0)), BitOf(m, 7))
       /\ BitOf(r, 4) = Plus(BitOf(c, 12), BitOf(m, 1))
       /\ BitOf(r, 5) = Plus(BitOf(c, 13), BitOf(m, 2))
       /\ BitOf(r, 6) = Plus(BitOf(c, 14), BitOf(m, 3))
       /\ BitOf(r, 7) = Plus(BitOf(c, 15), BitOf(m, 4))
       /\ BitOf(r, 8) = Plus(BitOf(m, 0), BitOf(m, 5))
       /\ BitOf(r, 9) = Plus(BitOf(m, 1), BitOf(m, 6))
       /\ BitOf(r, 10) = Plus(BitOf(m, 2), BitOf(m, 7)) /\ BitOf(r, 11) = BitOf(m, 3)
       /\ BitOf(r, 12) = BitOf(m, 4) /\ BitOf(r, 13) = BitOf(m, 5) /\ BitOf(r, 14) = BitOf(m, 6)
       /\ BitOf(r, 15) = BitOf(m, 7)
  <2>1. /\ BitOf(r, 0) = Plus(BitOf(c, 8), BitOf(m, 4)) /\ BitOf(r, 1) = Plus(BitOf(c, 9), BitOf(m, 5))
        /\ BitOf(r, 2) = Plus(BitOf(c, 10), BitOf(m, 6)) /\ BitOf(r, 3) = Plus(Plus(BitOf(c, 11), BitOf(m, 0)), BitOf(m, 7))
    BY <1>4, <1>5, <1>6, <1>7, <1>9, <1>10 DEF Plus, Bit
  <2>2. /\ BitOf(r, 4) = Plus(BitOf(c, 12), BitOf(m, 1)) /\ BitOf(r, 5) = Plus(BitOf(c, 13), BitOf(m, 2))
        /\ BitOf(r, 6) = Plus(BitOf(c, 14), BitOf(m, 3)) /\ BitOf(r, 7) = Plus(BitOf(c, 15), BitOf(m, 4))
    BY <1>4, <1>5, <1>6, <1>7, <1>9, <1>10 DEF Plus, Bit
  <2>3. /\ BitOf(r, 8) = Plus(BitOf(m, 0), BitOf(m, 5)) /\ BitOf(r, 9) = Plus(BitOf(m, 1), BitOf(m, 6))
        /\ BitOf(r, 10) = Plus(BitOf(m, 2), BitOf(m, 7)) /\ BitOf(r, 11) = BitOf(m, 3)
    BY <1>4, <1>5, <1>6, <1>7, <1>9, <1>10 DEF Plus, Bit
  <2>4. /\ BitOf(r, 12) = BitOf(m, 4) /\ BitOf(r, 13) = BitOf(m, 5)
        /\ BitOf(r, 14) = BitOf(m, 6) /\ BitOf(r, 15) = BitOf(m, 7)
    BY <1>4, <1>5, <1>6, <1>7, <1>9, <1>10 DEF Plus, Bit
  <2> QED
    BY <2>1, <2>2, <2>3, <2>4
<1> QED
  BY <1>11 DEF m, r

\* The table-free update of the register and the division it stands for, bit by bit, are the
\* same, for every register and every byte.
LEMMA ByteIsX25 ==
  ASSUME NEW c \in Word, NEW d \in Octet
  PROVE  crc_accumulate(d, c) = X25Byte(c, d)
<1> DEFINE m == Feedback(d, c)
           r0 == c
           r1 == X25Shift(r0, BitOf(d, 0))
           r2 == X25Shift(r1, BitOf(d, 1))
           r3 == X25Shift(r2, BitOf(d, 2))
           r4 == X25Shift(r3, BitOf(d, 3))
           r5 == X25Shift(r4, BitOf(d, 4))
           r6 == X25Shift(r5, BitOf(d, 5))
           r7 == X25Shift(r6, BitOf(d, 6))
           r8 == X25Shift(r7, BitOf(d, 7))
<1>1. X25Byte(c, d) = r8
  BY DEF X25Byte
<1>2. \A i \in 0..7 : BitOf(d, i) \in Bit
  BY BitType DEF Octet
<1>3. \A i \in 0..15 : BitOf(c, i) \in Bit /\ BitOf(m, i) \in Bit
  <2>1. m \in Octet
    BY FeedbackBits
  <2> HIDE DEF m
  <2>2. c \in Nat /\ m \in Nat
    BY <2>1 DEF Word, Octet
  <2> QED
    BY <2>2, BitType
<1>4. /\ BitOf(m, 0) = Plus(BitOf(d, 0), BitOf(c, 0))
      /\ BitOf(m, 1) = Plus(BitOf(d, 1), BitOf(c, 1))
      /\ BitOf(m, 2) = Plus(BitOf(d, 2), BitOf(c, 2))
      /\ BitOf(m, 3) = Plus(BitOf(d, 3), BitOf(c, 3))
      /\ BitOf(m, 4) = Plus(Plus(BitOf(d, 4), BitOf(c, 4)), BitOf(m, 0))
      /\ BitOf(m, 5) = Plus(Plus(BitOf(d, 5), BitOf(c, 5)), BitOf(m, 1))
      /\ BitOf(m, 6) = Plus(Plus(BitOf(d, 6), BitOf(c, 6)), BitOf(m, 2))
      /\ BitOf(m, 7) = Plus(Plus(BitOf(d, 7), BitOf(c, 7)), BitOf(m, 3))
  BY FeedbackBits
<1> HIDE DEF m
<1>5. /\ r1 \in Word /\ BitOf(r1, 0) = BitOf(c, 1) /\ BitOf(r1, 1) = BitOf(c, 2)
      /\ BitOf(r1, 2) = BitOf(c, 3) /\ BitOf(r1, 3) = Plus(BitOf(c, 4), BitOf(m, 0))
      /\ BitOf(r1, 4) = BitOf(c, 5) /\ BitOf(r1, 5) = BitOf(c, 6) /\ BitOf(r1, 6) = BitOf(c, 7)
      /\ BitOf(r1, 7) = BitOf(c, 8) /\ BitOf(r1, 8) = BitOf(c, 9) /\ BitOf(r1, 9) = BitOf(c, 10)
      /\ BitOf(r1, 10) = Plus(BitOf(c, 11), BitOf(m, 0)) /\ BitOf(r1, 11) = BitOf(c, 12)
      /\ BitOf(r1, 12) = BitOf(c, 13) /\ BitOf(r1, 13) = BitOf(c, 14)
      /\ BitOf(r1, 14) = BitOf(c, 15) /\ BitOf(r1, 15) = BitOf(m, 0)
  <2>1. Plus(BitOf(c, 0), BitOf(d, 0)) = BitOf(m, 0)
    BY <1>2, <1>3, <1>4 DEF Plus, Bit
  <2>2. /\ r1 \in Word
        /\ \A i \in 0..15 :
             BitOf(r1, i) = Plus(IF i = 15 THEN 0 ELSE BitOf(c, i + 1),
                                 IF i \in {3, 10, 15} THEN Plus(BitOf(c, 0), BitOf(d, 0)) ELSE 0)
    <3>1. c \in Word /\ BitOf(d, 0) \in Bit
      BY <1>2
    <3> QED
      BY <3>1, ShiftBits
  <2> HIDE DEF r1
  <2> QED
    BY <1>3, <2>1, <2>2 DEF Plus, Bit
<1>6. /\ r2 \in Word /\ BitOf(r2, 0) = BitOf(c, 2) /\ BitOf(r2, 1) = BitOf(c, 3)
      /\ BitOf(r2, 2) = Plus(BitOf(c, 4), BitOf(m, 0))
      /\ BitOf(r2, 3) = Plus(BitOf(c, 5), BitOf(m, 1)) /\ BitOf(r2, 4) = BitOf(c, 6)
      /\ BitOf(r2, 5) = BitOf(c, 7) /\ BitOf(r2, 6) = BitOf(c, 8) /\ BitOf(r2, 7) = BitOf(c, 9)
      /\ BitOf(r2, 8) = BitOf(c, 10) /\ BitOf(r2, 9) = Plus(BitOf(c, 11), BitOf(m, 0))
      /\ BitOf(r2, 10) = Plus(BitOf(c, 12), BitOf(m, 1)) /\ BitOf(r2, 11) = BitOf(c, 13)
      /\ BitOf(r2, 12) = BitOf(c, 14) /\ BitOf(r2, 13) = BitOf(c, 15)
      /\ BitOf(r2, 14) = BitOf(m, 0) /\ BitOf(r2, 15) = BitOf(m, 1)
  <2> HIDE DEF r1
  <2>1. Plus(BitOf(r1, 0), BitOf(d, 1)) = BitOf(m, 1)
    BY <1>5, <1>2, <1>3, <1>4 DEF Plus, Bit
  <2>2. /\ r2 \in Word
        /\ \A i \in 0..15 :
             BitOf(r2, i) = Plus(IF i = 15 THEN 0 ELSE BitOf(r1, i + 1),
                                 IF i \in {3, 10, 15} THEN Plus(BitOf(r1, 0), BitOf(d, 1)) ELSE 0)
    <3>1. r1 \in Word /\ BitOf(d, 1) \in Bit
      BY <1>5, <1>2
    <3> QED
      BY <3>1, ShiftBits
  <2> HIDE DEF r2
  <2> QED
    BY <1>5, <1>3, <2>1, <2>2 DEF Plus, Bit
<1>7. /\ r3 \in Word /\ BitOf(r3, 0) = BitOf(c, 3)
      /\ BitOf(r3, 1) = Plus(BitOf(c, 4), BitOf(m, 0))
      /\ BitOf(r3, 2) = Plus(BitOf(c, 5), BitOf(m, 1))
      /\ BitOf(r3, 3) = Plus(BitOf(c, 6), BitOf(m, 2)) /\ BitOf(r3, 4) = BitOf(c, 7)
      /\ BitOf(r3, 5) = BitOf(c, 8) /\ BitOf(r3, 6) = BitOf(c, 9) /\ BitOf(r3, 7) = BitOf(c, 10)
      /\ BitOf(r3, 8) = Plus(BitOf(c, 11), BitOf(m, 0))
      /\ BitOf(r3, 9) = Plus(BitOf(c, 12), BitOf(m, 1))
      /\ BitOf(r3, 10) = Plus(BitOf(c, 13), BitOf(m, 2)) /\ BitOf(r3, 11) = BitOf(c, 14)
      /\ BitOf(r3, 12) = BitOf(c, 15) /\ BitOf(r3, 13) = BitOf(m, 0)
      /\ BitOf(r3, 14) = BitOf(m, 1) /\ BitOf(r3, 15) = BitOf(m, 2)
  <2> HIDE DEF r2
  <2>1. Plus(BitOf(r2, 0), BitOf(d, 2)) = BitOf(m, 2)
    BY <1>6, <1>2, <1>3, <1>4 DEF Plus, Bit
  <2>2. /\ r3 \in Word
        /\ \A i \in 0..15 :
             BitOf(r3, i) = Plus(IF i = 15 THEN 0 ELSE BitOf(r2, i + 1),
                                 IF i \in {3, 10, 15} THEN Plus(BitOf(r2, 0), BitOf(d, 2)) ELSE 0)
    <3>1. r2 \in Word /\ BitOf(d, 2) \in Bit
      BY <1>6, <1>2
    <3> QED
      BY <3>1, ShiftBits
  <2> HIDE DEF r3
  <2> QED
    BY <1>6, <1>3, <2>1, <2>2 DEF Plus, Bit
<1>8. /\ r4 \in Word /\ BitOf(r4, 0) = Plus(BitOf(c, 4), BitOf(m, 0))
      /\ BitOf(r4, 1) = Plus(BitOf(c, 5), BitOf(m, 1))
      /\ BitOf(r4, 2) = Plus(BitOf(c, 6), BitOf(m, 2))
      /\ BitOf(r4, 3) = Plus(BitOf(c, 7), BitOf(m, 3)) /\ BitOf(r4, 4) = BitOf(c, 8)
      /\ BitOf(r4, 5) = BitOf(c, 9) /\ BitOf(r4, 6) = BitOf(c, 10)
      /\ BitOf(r4, 7) = Plus(BitOf(c, 11), BitOf(m, 0))
      /\ BitOf(r4, 8) = Plus(BitOf(c, 12), BitOf(m, 1))
      /\ BitOf(r4, 9) = Plus(BitOf(c, 13), BitOf(m, 2))
      /\ BitOf(r4, 10) = Plus(BitOf(c, 14), BitOf(m, 3)) /\ BitOf(r4, 11) = BitOf(c, 15)
      /\ BitOf(r4, 12) = BitOf(m, 0) /\ BitOf(r4, 13) = BitOf(m, 1)
      /\ BitOf(r4, 14) = BitOf(m, 2) /\ BitOf(r4, 15) = BitOf(m, 3)
  <2> HIDE DEF r3
  <2>1. Plus(BitOf(r3, 0), BitOf(d, 3)) = BitOf(m, 3)
    BY <1>7, <1>2, <1>3, <1>4 DEF Plus, Bit
  <2>2. /\ r4 \in Word
        /\ \A i \in 0..15 :
             BitOf(r4, i) = Plus(IF i = 15 THEN 0 ELSE BitOf(r3, i + 1),
                                 IF i \in {3, 10, 15} THEN Plus(BitOf(r3, 0), BitOf(d, 3)) ELSE 0)
    <3>1. r3 \in Word /\ BitOf(d, 3) \in Bit
      BY <1>7, <1>2
    <3> QED
      BY <3>1, ShiftBits
  <2> HIDE DEF r4
  <2> QED
    BY <1>7, <1>3, <2>1, <2>2 DEF Plus, Bit
<1>9. /\ r5 \in Word /\ BitOf(r5, 0) = Plus(BitOf(c, 5), BitOf(m, 1))
      /\ BitOf(r5, 1) = Plus(BitOf(c, 6), BitOf(m, 2))
      /\ BitOf(r5, 2) = Plus(BitOf(c, 7), BitOf(m, 3))
      /\ BitOf(r5, 3) = Plus(BitOf(c, 8), BitOf(m, 4)) /\ BitOf(r5, 4) = BitOf(c, 9)
      /\ BitOf(r5, 5) = BitOf(c, 10) /\ BitOf(r5, 6) = Plus(BitOf(c, 11), BitOf(m, 0))
      /\ BitOf(r5, 7) = Plus(BitOf(c, 12), BitOf(m, 1))
      /\ BitOf(r5, 8) = Plus(BitOf(c, 13), BitOf(m, 2))
      /\ BitOf(r5, 9) = Plus(BitOf(c, 14), BitOf(m, 3))
      /\ BitOf(r5, 10) = Plus(BitOf(c, 15), BitOf(m, 4)) /\ BitOf(r5, 11) = BitOf(m, 0)
      /\ BitOf(r5, 12) = BitOf(m, 1) /\ BitOf(r5, 13) = BitOf(m, 2)
      /\ BitOf(r5, 14) = BitOf(m, 3) /\ BitOf(r5, 15) = BitOf(m, 4)
  <2> HIDE DEF r4
  <2>1. Plus(BitOf(r4, 0), BitOf(d, 4)) = BitOf(m, 4)
    BY <1>8, <1>2, <1>3, <1>4 DEF Plus, Bit
  <2>2. /\ r5 \in Word
        /\ \A i \in 0..15 :
             BitOf(r5, i) = Plus(IF i = 15 THEN 0 ELSE BitOf(r4, i + 1),
                                 IF i \in {3, 10, 15} THEN Plus(BitOf(r4, 0), BitOf(d, 4)) ELSE 0)
    <3>1. r4 \in Word /\ BitOf(d, 4) \in Bit
      BY <1>8, <1>2
    <3> QED
      BY <3>1, ShiftBits
  <2> HIDE DEF r5
  <2> QED
    BY <1>8, <1>3, <2>1, <2>2 DEF Plus, Bit
<1>10. /\ r6 \in Word
      /\ BitOf(r6, 0) = Plus(BitOf(c, 6), BitOf(m, 2))
      /\ BitOf(r6, 1) = Plus(BitOf(c, 7), BitOf(m, 3))
      /\ BitOf(r6, 2) = Plus(BitOf(c, 8), BitOf(m, 4))
      /\ BitOf(r6, 3) = Plus(BitOf(c, 9), BitOf(m, 5)) /\ BitOf(r6, 4) = BitOf(c, 10)
      /\ BitOf(r6, 5) = Plus(BitOf(c, 11), BitOf(m, 0))
      /\ BitOf(r6, 6) = Plus(BitOf(c, 12), BitOf(m, 1))
      /\ BitOf(r6, 7) = Plus(BitOf(c, 13), BitOf(m, 2))
      /\ BitOf(r6, 8) = Plus(BitOf(c, 14), BitOf(m, 3))
      /\ BitOf(r6, 9) = Plus(BitOf(c, 15), BitOf(m, 4))
      /\ BitOf(r6, 10) = Plus(BitOf(m, 0), BitOf(m, 5)) /\ BitOf(r6, 11) = BitOf(m, 1)
      /\ BitOf(r6, 12) = BitOf(m, 2) /\ BitOf(r6, 13) = BitOf(m, 3)
      /\ BitOf(r6, 14) = BitOf(m, 4) /\ BitOf(r6, 15) = BitOf(m, 5)
  <2> HIDE DEF r5
  <2>1. Plus(BitOf(r5, 0), BitOf(d, 5)) = BitOf(m, 5)
    BY <1>9, <1>2, <1>3, <1>4 DEF Plus, Bit
  <2>2. /\ r6 \in Word
        /\ \A i \in 0..15 :
             BitOf(r6, i) = Plus(IF i = 15 THEN 0 ELSE BitOf(r5, i + 1),
                                 IF i \in {3, 10, 15} THEN Plus(BitOf(r5, 0), BitOf(d, 5)) ELSE 0)
    <3>1. r5 \in Word /\ BitOf(d, 5) \in Bit
      BY <1>9, <1>2
    <3> QED
      BY <3>1, ShiftBits
  <2> HIDE DEF r6
  <2> QED
    BY <1>9, <1>3, <2>1, <2>2 DEF Plus, Bit
<1>11. /\ r7 \in Word
      /\ BitOf(r7, 0) = Plus(BitOf(c, 7), BitOf(m, 3))
      /\ BitOf(r7, 1) = Plus(BitOf(c, 8), BitOf(m, 4))
      /\ BitOf(r7, 2) = Plus(BitOf(c, 9), BitOf(m, 5))
      /\ BitOf(r7, 3) = Plus(BitOf(c, 10), BitOf(m, 6))
      /\ BitOf(r7, 4) = Plus(BitOf(c, 11), BitOf(m, 0))
      /\ BitOf(r7, 5) = Plus(BitOf(c, 12), BitOf(m, 1))
      /\ BitOf(r7, 6) = Plus(BitOf(c, 13), BitOf(m, 2))
      /\ BitOf(r7, 7) = Plus(BitOf(c, 14), BitOf(m, 3))
      /\ BitOf(r7, 8) = Plus(BitOf(c, 15), BitOf(m, 4))
      /\ BitOf(r7, 9) = Plus(BitOf(m, 0), BitOf(m, 5))
      /\ BitOf(r7, 10) = Plus(BitOf(m, 1), BitOf(m, 6)) /\ BitOf(r7, 11) = BitOf(m, 2)
      /\ BitOf(r7, 12) = BitOf(m, 3) /\ BitOf(r7, 13) = BitOf(m, 4)
      /\ BitOf(r7, 14) = BitOf(m, 5) /\ BitOf(r7, 15) = BitOf(m, 6)
  <2> HIDE DEF r6
  <2>1. Plus(BitOf(r6, 0), BitOf(d, 6)) = BitOf(m, 6)
    BY <1>10, <1>2, <1>3, <1>4 DEF Plus, Bit
  <2>2. /\ r7 \in Word
        /\ \A i \in 0..15 :
             BitOf(r7, i) = Plus(IF i = 15 THEN 0 ELSE BitOf(r6, i + 1),
                                 IF i \in {3, 10, 15} THEN Plus(BitOf(r6, 0), BitOf(d, 6)) ELSE 0)
    <3>1. r6 \in Word /\ BitOf(d, 6) \in Bit
      BY <1>10, <1>2
    <3> QED
      BY <3>1, ShiftBits
  <2> HIDE DEF r7
  <2> QED
    BY <1>10, <1>3, <2>1, <2>2 DEF Plus, Bit
<1>12. /\ r8 \in Word
      /\ BitOf(r8, 0) = Plus(BitOf(c, 8), BitOf(m, 4))
      /\ BitOf(r8, 1) = Plus(BitOf(c, 9), BitOf(m, 5))
      /\ BitOf(r8, 2) = Plus(BitOf(c, 10), BitOf(m, 6))
      /\ BitOf(r8, 3) = Plus(Plus(BitOf(c, 11), BitOf(m, 0)), BitOf(m, 7))
      /\ BitOf(r8, 4) = Plus(BitOf(c, 12), BitOf(m, 1))
      /\ BitOf(r8, 5) = Plus(BitOf(c, 13), BitOf(m, 2))
      /\ BitOf(r8, 6) = Plus(BitOf(c, 14), BitOf(m, 3))
      /\ BitOf(r8, 7) = Plus(BitOf(c, 15), BitOf(m, 4))
      /\ BitOf(r8, 8) = Plus(BitOf(m, 0), BitOf(m, 5))
      /\ BitOf(r8, 9) = Plus(BitOf(m, 1), BitOf(m, 6))
      /\ BitOf(r8, 10) = Plus(BitOf(m, 2), BitOf(m, 7)) /\ BitOf(r8, 11) = BitOf(m, 3)
      /\ BitOf(r8, 12) = BitOf(m, 4) /\ BitOf(r8, 13) = BitOf(m, 5)
      /\ BitOf(r8, 14) = BitOf(m, 6) /\ BitOf(r8, 15) = BitOf(m, 7)
  <2> HIDE DEF r7
  <2>1. Plus(BitOf(r7, 0), BitOf(d, 7)) = BitOf(m, 7)
    BY <1>11, <1>2, <1>3, <1>4 DEF Plus, Bit
  <2>2. /\ r8 \in Word
        /\ \A i \in 0..15 :
             BitOf(r8, i) = Plus(IF i = 15 THEN 0 ELSE BitOf(r7, i + 1),
                                 IF i \in {3, 10, 15} THEN Plus(BitOf(r7, 0), BitOf(d, 7)) ELSE 0)
    <3>1. r7 \in Word /\ BitOf(d, 7) \in Bit
      BY <1>11, <1>2
    <3> QED
      BY <3>1, ShiftBits
  <2> HIDE DEF r8
  <2> QED
    BY <1>11, <1>3, <2>1, <2>2 DEF Plus, Bit
<1> HIDE DEF r1, r2, r3, r4, r5, r6, r7, r8
<1>20. /\ BitOf(crc_accumulate(d, c), 0) = Plus(BitOf(c, 8), BitOf(m, 4))
       /\ BitOf(crc_accumulate(d, c), 1) = Plus(BitOf(c, 9), BitOf(m, 5))
       /\ BitOf(crc_accumulate(d, c), 2) = Plus(BitOf(c, 10), BitOf(m, 6))
       /\ BitOf(crc_accumulate(d, c), 3) = Plus(Plus(BitOf(c, 11), BitOf(m, 0)), BitOf(m, 7))
       /\ BitOf(crc_accumulate(d, c), 4) = Plus(BitOf(c, 12), BitOf(m, 1))
       /\ BitOf(crc_accumulate(d, c), 5) = Plus(BitOf(c, 13), BitOf(m, 2))
       /\ BitOf(crc_accumulate(d, c), 6) = Plus(BitOf(c, 14), BitOf(m, 3))
       /\ BitOf(crc_accumulate(d, c), 7) = Plus(BitOf(c, 15), BitOf(m, 4))
       /\ BitOf(crc_accumulate(d, c), 8) = Plus(BitOf(m, 0), BitOf(m, 5))
       /\ BitOf(crc_accumulate(d, c), 9) = Plus(BitOf(m, 1), BitOf(m, 6))
       /\ BitOf(crc_accumulate(d, c), 10) = Plus(BitOf(m, 2), BitOf(m, 7))
       /\ BitOf(crc_accumulate(d, c), 11) = BitOf(m, 3)
       /\ BitOf(crc_accumulate(d, c), 12) = BitOf(m, 4)
       /\ BitOf(crc_accumulate(d, c), 13) = BitOf(m, 5)
       /\ BitOf(crc_accumulate(d, c), 14) = BitOf(m, 6)
       /\ BitOf(crc_accumulate(d, c), 15) = BitOf(m, 7)
  BY AccumulateBits DEF m
<1>21. /\ BitOf(crc_accumulate(d, c), 0) = BitOf(r8, 0)
       /\ BitOf(crc_accumulate(d, c), 1) = BitOf(r8, 1)
       /\ BitOf(crc_accumulate(d, c), 2) = BitOf(r8, 2)
       /\ BitOf(crc_accumulate(d, c), 3) = BitOf(r8, 3)
       /\ BitOf(crc_accumulate(d, c), 4) = BitOf(r8, 4)
       /\ BitOf(crc_accumulate(d, c), 5) = BitOf(r8, 5)
       /\ BitOf(crc_accumulate(d, c), 6) = BitOf(r8, 6)
       /\ BitOf(crc_accumulate(d, c), 7) = BitOf(r8, 7)
       /\ BitOf(crc_accumulate(d, c), 8) = BitOf(r8, 8)
       /\ BitOf(crc_accumulate(d, c), 9) = BitOf(r8, 9)
       /\ BitOf(crc_accumulate(d, c), 10) = BitOf(r8, 10)
       /\ BitOf(crc_accumulate(d, c), 11) = BitOf(r8, 11)
       /\ BitOf(crc_accumulate(d, c), 12) = BitOf(r8, 12)
       /\ BitOf(crc_accumulate(d, c), 13) = BitOf(r8, 13)
       /\ BitOf(crc_accumulate(d, c), 14) = BitOf(r8, 14)
       /\ BitOf(crc_accumulate(d, c), 15) = BitOf(r8, 15)
  BY <1>3, <1>12, <1>20 DEF Plus, Bit
<1>22. 0..15 = {0, 1, 2, 3, 4, 5, 6, 7, 8, 9, 10, 11, 12, 13, 14, 15}
  OBVIOUS
<1>23. \A i \in 0..15 : BitOf(crc_accumulate(d, c), i) = BitOf(r8, i)
  BY <1>21, <1>22
<1>24. crc_accumulate(d, c) \in Word /\ r8 \in Word
  BY <1>12, AccumulateType
<1> QED
  BY <1>1, <1>23, <1>24, SameWord

-------------------------------------------------------------------------------
(* The register after many bytes *)

\* The register is what the steps lead to, one after the other.
Runs(g, step, first, bytes) ==
  g[0] = first /\ \A n \in 1..Len(bytes) : g[n] = step[g[n - 1]][bytes[n]]

LEMMA RegisterIs ==
  ASSUME NEW step, NEW first, NEW bytes \in Seq(Octet), NEW g, Runs(g, step, first, bytes)
  PROVE  Register(step, first, bytes) = g[Len(bytes)]
<1> DEFINE N == Len(bytes)
           Upto(f) == f = [n \in 0..N |-> IF n = 0 THEN first ELSE step[f[n - 1]][bytes[n]]]
           upTo == CHOOSE f : Upto(f)
           h == [n \in 0..N |-> g[n]]
<1>0. N \in Nat /\ g[0] = first /\ \A n \in 1..N : g[n] = step[g[n - 1]][bytes[n]]
  BY LenProperties DEF Runs
<1>1. Upto(h)
  <2>1. \A n \in 0..N : g[n] = IF n = 0 THEN first ELSE step[h[n - 1]][bytes[n]]
    <3> SUFFICES ASSUME NEW n \in 0..N, n # 0 PROVE g[n] = step[h[n - 1]][bytes[n]]
      BY <1>0
    <3>1. n \in 1..N /\ n - 1 \in 0..N
      OBVIOUS
    <3>2. h[n - 1] = g[n - 1]
      BY <3>1
    <3> HIDE DEF h
    <3> QED
      BY <1>0, <3>1, <3>2
  <2> QED
    BY <2>1
<1>2. Upto(upTo)
  <2>1. \E f : Upto(f)
    BY <1>1, Zenon
  <2> HIDE DEF Upto
  <2> QED
    BY <2>1
<1>3. Register(step, first, bytes) = upTo[N]
  BY DEF Register
<1> HIDE DEF upTo, N
<1>4. \A n \in 0..N : upTo[n] = IF n = 0 THEN first ELSE step[upTo[n - 1]][bytes[n]]
  BY <1>2
<1> DEFINE P == {n \in Nat : n \in 0..N => upTo[n] = g[n]}
<1>5. 0 \in P
  BY <1>0, <1>4
<1>6. ASSUME NEW n \in Nat, n \in P PROVE n + 1 \in P
  <2> SUFFICES ASSUME n + 1 \in 0..N PROVE upTo[n + 1] = g[n + 1]
    OBVIOUS
  <2>1. n + 1 \in 1..N /\ n \in 0..N /\ (n + 1) - 1 = n /\ n + 1 # 0
    BY <1>0
  <2>2. upTo[n + 1] = step[upTo[n]][bytes[n + 1]]
    BY <1>4, <2>1
  <2>3. g[n + 1] = step[g[n]][bytes[n + 1]]
    BY <1>0, <2>1
  <2> QED
    BY <1>6, <2>1, <2>2, <2>3
<1>7. Nat \subseteq P
  <2> HIDE DEF P
  <2> QED
    BY <1>5, <1>6, Induction
<1>8. upTo[N] = g[N]
  <2>1. N \in Nat /\ N \in 0..N
    BY <1>0
  <2> QED
    BY <1>7, <2>1
<1> QED
  BY <1>3, <1>8 DEF N

\* Steps from words to words lead through words.
Steps(step) == \A c \in Word, d \in Octet : step[c][d] \in Word

Leads(g, step, first, bytes) ==
  /\ g \in [0..Len(bytes) -> Word] /\ g[0] = first
  /\ \A n \in 1..Len(bytes) : g[n] = step[g[n - 1]][bytes[n]]
  /\ Register(step, first, bytes) = g[Len(bytes)]

LEMMA RegisterSteps ==
  ASSUME NEW step, Steps(step), NEW first \in Word, NEW bytes \in Seq(Octet)
  PROVE  \E g : Leads(g, step, first, bytes)
<1> DEFINE N == Len(bytes)
           next == [c \in Word |-> [n \in Nat |-> IF n \in 1..N THEN step[c][bytes[n]] ELSE c]]
<1>1. N \in Nat /\ \A n \in 1..N : bytes[n] \in Octet
  BY LenProperties, ElementOfSeq
<1> HIDE DEF N
<1>2. next \in [Word -> [Nat -> Word]]
  <2>1. \A c \in Word, n \in 1..N : step[c][bytes[n]] \in Word
    BY <1>1 DEF Steps
  <2>2. \A c \in Word : [n \in Nat |-> IF n \in 1..N THEN step[c][bytes[n]] ELSE c] \in [Nat -> Word]
    BY <2>1
  <2> QED
    BY <2>2, Zenon
<1>3. \A c \in Word, n \in 1..N : next[c][n] = step[c][bytes[n]]
  <2> SUFFICES ASSUME NEW c \in Word, NEW n \in 1..N PROVE next[c][n] = step[c][bytes[n]]
    OBVIOUS
  <2>1. next[c] = [k \in Nat |-> IF k \in 1..N THEN step[c][bytes[k]] ELSE c]
    BY Zenon
  <2>2. n \in Nat
    BY <1>1
  <2> QED
    BY <2>1, <2>2, Zenon
<1> HIDE DEF next
<1>4. PICK g \in [0..N -> Word] : Recursive(g, first, next, N)
  BY <1>1, <1>2, RecursionExists
<1>5. \A n \in 0..N : g[n] = IF n = 0 THEN first ELSE next[g[n - 1]][n]
  BY <1>4 DEF Recursive
<1>6. g[0] = first
  BY <1>1, <1>5
<1>7. \A n \in 1..N : g[n] = step[g[n - 1]][bytes[n]]
  <2> SUFFICES ASSUME NEW n \in 1..N PROVE g[n] = step[g[n - 1]][bytes[n]]
    OBVIOUS
  <2>1. n \in 0..N /\ n # 0 /\ n - 1 \in 0..N
    BY <1>1
  <2>2. g[n - 1] \in Word
    BY <1>4, <2>1
  <2> QED
    BY <1>3, <1>5, <2>1, <2>2
<1>8. Len(bytes) = N
  BY DEF N
<1>9. Runs(g, step, first, bytes)
  BY <1>6, <1>7, <1>8 DEF Runs
<1>10. Register(step, first, bytes) = g[N]
  BY <1>8, <1>9, RegisterIs
<1> QED
  BY <1>4, <1>6, <1>7, <1>10 DEF Leads, N

LEMMA RegisterType ==
  ASSUME NEW step, Steps(step), NEW first \in Word, NEW bytes \in Seq(Octet)
  PROVE  Register(step, first, bytes) \in Word
<1>1. Len(bytes) \in Nat /\ Len(bytes) \in 0..Len(bytes)
  BY LenProperties
<1>2. PICK g : Leads(g, step, first, bytes)
  BY RegisterSteps, Zenon
<1> QED
  BY <1>1, <1>2 DEF Leads

\* Bytes behind bytes go on from where those have led.
LEMMA RegisterConcat ==
  ASSUME NEW step, Steps(step), NEW first \in Word, NEW s \in Seq(Octet), NEW t \in Seq(Octet)
  PROVE  Register(step, first, s \o t) = Register(step, Register(step, first, s), t)
<1> DEFINE m == Len(s)
           n == Len(t)
           u == s \o t
           mid == Register(step, first, s)
<1>1. m \in Nat /\ n \in Nat
  BY LenProperties
<1>2. mid \in Word
  BY RegisterType
<1> HIDE DEF mid
<1>31. PICK f : Leads(f, step, first, s)
  BY RegisterSteps, Zenon
<1>41. PICK g : Leads(g, step, mid, t)
  BY <1>2, RegisterSteps, Zenon
<1>3. /\ f[0] = first /\ Register(step, first, s) = f[m]
      /\ \A i \in 1..m : f[i] = step[f[i - 1]][s[i]]
  BY <1>31, Zenon DEF Leads
<1>4. /\ g[0] = mid /\ Register(step, mid, t) = g[n]
      /\ \A i \in 1..n : g[i] = step[g[i - 1]][t[i]]
  BY <1>41, Zenon DEF Leads
<1>5. /\ Len(u) = m + n
      /\ \A i \in 1..m : u[i] = s[i]
      /\ \A i \in 1..n : u[m + i] = t[i]
  BY Joined
<1> HIDE DEF m, n, u
<1> DEFINE k == [i \in 0..m + n |-> IF i <= m THEN f[i] ELSE g[i - m]]
<1>6. k[0] = first /\ k[m + n] = g[n] /\ m + n \in Nat
  <2>1. 0 \in 0..m + n /\ m + n \in 0..m + n /\ 0 <= m /\ (m + n) - m = n /\ m + n \in Nat
        /\ (m + n <= m => n = 0)
    BY <1>1
  <2>2. k[0] = f[0]
    BY <2>1
  <2>3. k[m + n] = IF m + n <= m THEN f[m + n] ELSE g[n]
    BY <2>1
  <2>4. m + n <= m => f[m + n] = g[n]
    BY <1>1, <1>3, <1>4, <2>1 DEF mid
  <2> HIDE DEF k
  <2> QED
    BY <1>3, <2>1, <2>2, <2>3, <2>4
<1>7. ASSUME NEW i \in 1..m + n PROVE k[i] = step[k[i - 1]][u[i]]
  <2>1. i \in 0..m + n /\ i - 1 \in 0..m + n
    BY <1>1
  <2>2. k[i] = (IF i <= m THEN f[i] ELSE g[i - m]) /\ k[i - 1] = IF i - 1 <= m THEN f[i - 1] ELSE g[(i - 1) - m]
    BY <2>1
  <2> HIDE DEF k
  <2>3. CASE i <= m
    <3>1. i \in 1..m /\ i - 1 <= m
      BY <1>1, <2>3
    <3> QED
      BY <1>3, <1>5, <2>2, <2>3, <3>1
  <2>4. CASE i > m
    <3> DEFINE j == i - m
    <3>1. j \in 1..n /\ m + j = i /\ (i - 1) - m = j - 1 /\ ~(i <= m) /\ (i - 1 <= m => j = 1 /\ i - 1 = m)
      BY <1>1, <2>4
    <3>2. g[j] = step[g[j - 1]][t[j]] /\ u[i] = t[j]
      BY <1>4, <1>5, <3>1
    <3>3. k[i - 1] = g[j - 1]
      <4>1. CASE i - 1 <= m
        <5>1. k[i - 1] = f[m] /\ j - 1 = 0
          BY <2>2, <3>1, <4>1
        <5> QED
          BY <1>3, <1>4, <5>1 DEF mid
      <4>2. CASE ~(i - 1 <= m)
        BY <2>2, <3>1, <4>2
      <4> QED
        BY <4>1, <4>2
    <3> QED
      BY <2>2, <3>1, <3>2, <3>3
  <2> QED
    BY <1>1, <2>3, <2>4
<1> HIDE DEF k
<1>8. Runs(k, step, first, u)
  BY <1>5, <1>6, <1>7 DEF Runs
<1>9. u \in Seq(Octet)
  BY DEF u
<1>10. Register(step, first, u) = k[m + n]
  BY <1>5, <1>8, <1>9, RegisterIs
<1> QED
  BY <1>4, <1>6, <1>10 DEF u, mid

\* Steps that do the same to words lead to the same.
LEMMA RegisterSame ==
  ASSUME NEW step, NEW other, Steps(step), NEW first \in Word, NEW bytes \in Seq(Octet),
         \A c \in Word, d \in Octet : step[c][d] = other[c][d]
  PROVE  Register(step, first, bytes) = Register(other, first, bytes)
<1> DEFINE N == Len(bytes)
<1>0. PICK g : Leads(g, step, first, bytes)
  BY RegisterSteps, Zenon
<1>1. /\ g \in [0..N -> Word] /\ g[0] = first /\ Register(step, first, bytes) = g[N]
      /\ \A n \in 1..N : g[n] = step[g[n - 1]][bytes[n]]
  BY <1>0, Zenon DEF Leads
<1>2. N \in Nat /\ \A n \in 1..N : bytes[n] \in Octet
  BY LenProperties, ElementOfSeq
<1>3. \A n \in 1..N : g[n] = other[g[n - 1]][bytes[n]]
  <2> SUFFICES ASSUME NEW n \in 1..N PROVE g[n] = other[g[n - 1]][bytes[n]]
    OBVIOUS
  <2>1. n - 1 \in 0..N
    BY <1>2
  <2>2. g[n - 1] \in Word /\ bytes[n] \in Octet
    BY <1>1, <1>2, <2>1
  <2> QED
    BY <1>1, <2>2
<1> HIDE DEF N
<1>4. Len(bytes) = N
  BY DEF N
<1>5. Runs(g, other, first, bytes)
  BY <1>1, <1>3, <1>4 DEF Runs
<1>6. Register(other, first, bytes) = g[N]
  BY <1>4, <1>5, RegisterIs
<1> QED
  BY <1>1, <1>6

LEMMA RegisterOne ==
  ASSUME NEW step, Steps(step), NEW first \in Word, NEW d \in Octet
  PROVE  Register(step, first, <<d>>) = step[first][d]
<1> DEFINE b == <<d>>
<1>1. b \in Seq(Octet) /\ Len(b) = 1 /\ b[1] = d
  OBVIOUS
<1> HIDE DEF b
<1>0. PICK g : Leads(g, step, first, b)
  BY <1>1, RegisterSteps, Zenon
<1>2. /\ g[0] = first /\ Register(step, first, b) = g[Len(b)]
      /\ \A n \in 1..Len(b) : g[n] = step[g[n - 1]][b[n]]
  BY <1>0, Zenon DEF Leads
<1>3. g[1] = step[g[0]][b[1]]
  <2>1. 1 \in 1..Len(b) /\ 1 - 1 = 0
    BY <1>1
  <2> QED
    BY <1>2, <2>1
<1> QED
  BY <1>1, <1>2, <1>3 DEF b

\* The word that FrameCrc computes is the X.25 checksum of what it covers.
Update == [acc \in Nat |-> [b \in Octet |-> crc_accumulate(b, acc)]]
Shifts == [crc \in Nat |-> [b \in Octet |-> X25Byte(crc, b)]]

LEMMA UpdateSteps == Steps(Update) /\ \A c \in Word, d \in Octet : Update[c][d] = crc_accumulate(d, c)
<1> SUFFICES ASSUME NEW c \in Word, NEW d \in Octet
             PROVE  Update[c][d] \in Word /\ Update[c][d] = crc_accumulate(d, c)
  BY Zenon DEF Steps
<1>1. c \in Nat
  BY DEF Word
<1>2. Update[c] = [b \in Octet |-> crc_accumulate(b, c)]
  BY <1>1, Zenon DEF Update
<1>3. Update[c][d] = crc_accumulate(d, c)
  BY <1>2, Zenon
<1> QED
  BY <1>3, AccumulateType, Zenon

LEMMA ShiftsSteps == \A c \in Word, d \in Octet : Update[c][d] = Shifts[c][d]
<1> SUFFICES ASSUME NEW c \in Word, NEW d \in Octet PROVE Update[c][d] = Shifts[c][d]
  OBVIOUS
<1>1. c \in Nat
  BY DEF Word
<1>2. Shifts[c] = [b \in Octet |-> X25Byte(c, b)]
  BY <1>1, Zenon DEF Shifts
<1>3. Shifts[c][d] = X25Byte(c, d)
  BY <1>2, Zenon
<1> QED
  BY <1>3, UpdateSteps, ByteIsX25, Zenon

\* The checksum serialize() writes, by shifts and exclusive ors of whole bytes, is the X.25 one,
\* computed bit by bit by its polynomial, over the header behind the start marker, the payload
\* and the extra byte.
THEOREM ChecksumIsX25 ==
  ASSUME NEW header \in Seq(Octet), NEW payload \in Seq(Octet), NEW extra \in Octet
  PROVE  FrameCrc(header, payload, extra) = X25((header \o payload) \o <<extra>>)
<1> DEFINE all == (header \o payload) \o <<extra>>
           top == 65535
           a == Register(Update, top, header)
           b == Register(Update, a, payload)
<1>0. Steps(Update)
  BY UpdateSteps
<1>1. header \o payload \in Seq(Octet) /\ <<extra>> \in Seq(Octet) /\ all \in Seq(Octet)
  OBVIOUS
<1>2. top \in Word
  BY SMT DEF Word
<1>3. X25(all) = Register(Shifts, top, all)
  BY DEF X25, Shifts
<1>4. FrameCrc(header, payload, extra) = crc_accumulate(extra, b)
  BY DEF FrameCrc, crc_accumulate_buffer, Update
<1> HIDE DEF all, top
<1>5. a \in Word
  BY <1>0, <1>2, RegisterType
<1>6. Register(Update, top, header \o payload) = b
  BY <1>0, <1>2, RegisterConcat
<1> HIDE DEF a
<1>7. b \in Word
  BY <1>0, <1>5, RegisterType
<1>8. Register(Update, top, all) = Register(Update, b, <<extra>>)
  <2> DEFINE s == header \o payload
             t == <<extra>>
  <2>1. s \in Seq(Octet) /\ t \in Seq(Octet) /\ all = s \o t /\ Register(Update, top, s) = b
    BY <1>1, <1>6 DEF all
  <2> HIDE DEF s, t
  <2>2. Register(Update, top, s \o t) = Register(Update, b, t)
    BY <1>0, <1>2, <2>1, RegisterConcat
  <2> QED
    BY <2>1, <2>2 DEF t
<1> HIDE DEF b
<1>9. Register(Update, b, <<extra>>) = crc_accumulate(extra, b)
  BY <1>0, <1>7, RegisterOne, UpdateSteps
<1>10. Register(Update, top, all) = Register(Shifts, top, all)
  BY <1>0, <1>1, <1>2, ShiftsSteps, RegisterSame
<1> QED
  BY <1>3, <1>4, <1>8, <1>9, <1>10 DEF all

-------------------------------------------------------------------------------
(* The framer on a frame as serialize() writes it *)

\* A byte passes from the line to the framer.
LEMMA MoveByte ==
  ASSUME NEW s \in Seq(Octet), NEW t \in Seq(Octet), t # <<>>
  PROVE  /\ Head(t) \in Octet /\ Tail(t) \in Seq(Octet) /\ Len(Tail(t)) = Len(t) - 1
         /\ Append(s, Head(t)) \in Seq(Octet) /\ Len(Append(s, Head(t))) = Len(s) + 1
         /\ Append(s, Head(t)) \o Tail(t) = s \o t
<1> DEFINE c == Head(t)
           u == Tail(t)
           d == <<c>>
<1>1. c \in Octet /\ u \in Seq(Octet) /\ Len(u) = Len(t) - 1
  BY HeadTailProperties, Zenon
<1>2. d \in Seq(Octet)
  <2> HIDE DEF c
  <2> QED
    BY <1>1
<1>3. d \o u = t
  <2>1. Len(d) = 1 /\ d[1] = c
    OBVIOUS
  <2> HIDE DEF d
  <2>2. /\ d \o u \in Seq(Octet) /\ Len(d \o u) = 1 + Len(u) /\ (d \o u)[1] = d[1]
        /\ \A i \in 1..Len(u) : (d \o u)[1 + i] = u[i]
    <3>1. /\ d \o u \in Seq(Octet) /\ Len(d \o u) = Len(d) + Len(u)
          /\ \A i \in 1..Len(d) : (d \o u)[i] = d[i]
          /\ \A i \in 1..Len(u) : (d \o u)[Len(d) + i] = u[i]
      BY <1>1, <1>2, Joined, Zenon
    <3>2. 1 \in 1..Len(d)
      BY <2>1
    <3> QED
      BY <2>1, <3>1, <3>2
  <2>3. Len(t) \in Nat /\ Len(t) > 0 /\ t[1] = c
    BY LenProperties, EmptySeq
  <2>4. \A i \in 1..Len(u) : u[i] = t[i + 1]
    BY HeadTailProperties, Zenon
  <2> HIDE DEF u, c
  <2>5. Len(d \o u) = Len(t)
    BY <1>1, <2>2, <2>3
  <2>6. ASSUME NEW i \in 1..Len(d \o u) PROVE (d \o u)[i] = t[i]
    <3>1. CASE i = 1
      BY <2>1, <2>2, <2>3, <3>1
    <3>2. CASE i # 1
      <4>1. i - 1 \in 1..Len(u) /\ 1 + (i - 1) = i /\ (i - 1) + 1 = i
        BY <1>1, <2>3, <2>5, <3>2
      <4>2. (d \o u)[1 + (i - 1)] = u[i - 1] /\ u[i - 1] = t[(i - 1) + 1]
        BY <2>2, <2>4, <4>1
      <4> QED
        BY <4>1, <4>2
    <3> QED
      BY <3>1, <3>2
  <2> QED
    BY <2>2, <2>5, <2>6, SeqEqual
<1>4. /\ Append(s, c) \in Seq(Octet) /\ Len(Append(s, c)) = Len(s) + 1
      /\ Append(s, c) = s \o d
  BY <1>1, AppendProperties, AppendIsConcat
<1> HIDE DEF c, d, u
<1>5. (s \o d) \o u = s \o (d \o u)
  BY <1>1, <1>2, ConcatAssociative
<1> QED
  BY <1>1, <1>3, <1>4, <1>5, Zenon DEF c, u

\* The first bytes of a frame.
Starts(f, g) == f \in Seq(Octet) /\ Len(f) \in 1..Len(g) /\ \A i \in 1..Len(f) : f[i] = g[i]

\* The framer is silent until the frame is whole, and then names its parts.
LEMMA Verdicts ==
  ASSUME NEW g, Whole(g), NEW f, Starts(f, g), RxSize >= 265
  PROVE  /\ Len(f) < Len(g) => Receiver!Verdict(f) = Receiver!Silence
         /\ f = g => Receiver!Verdict(f) = [kind |-> "view", view |-> Receiver!View(f)]
<1> DEFINE n == g[2]
<1>1. /\ n \in 1..255 /\ Len(g) = 12 + n /\ Len(f) \in 1..12 + n
      /\ f[1] = 253 /\ (Len(f) >= 2 => f[2] = n) /\ (Len(f) >= 3 => f[3] = 0)
  <2> DEFINE l == Len(f)
  <2>1. n \in 1..255 /\ Len(g) = 12 + n /\ g[1] = 253 /\ g[3] = 0
    BY DEF Whole
  <2>2. l \in 1..Len(g) /\ \A i \in 1..l : f[i] = g[i]
    BY DEF Starts
  <2> HIDE DEF l, n
  <2>3. l \in 1..12 + n
    BY <2>1, <2>2
  <2>4. 1 \in 1..l /\ (l >= 2 => 2 \in 1..l) /\ (l >= 3 => 3 \in 1..l)
    BY <2>1, <2>3
  <2> QED
    BY <2>1, <2>2, <2>3, <2>4 DEF l, n
<1> HIDE DEF n
<1>2. Receiver!IsV2(f) /\ Receiver!HeaderLen(f) = 10
  BY <1>1 DEF Receiver!IsV2, Receiver!STX2, Receiver!HeaderLen
<1>3. Receiver!HasHeader(f) <=> Len(f) >= 10
  BY <1>1, <1>2 DEF Receiver!HasHeader
<1>4. ASSUME Len(f) >= 10
      PROVE  Receiver!PayloadEnd(f) = 10 + n /\ Receiver!FrameLen(f) = 12 + n
  <2>1. f[2] = n /\ f[3] = 0 /\ 0 % 2 = 0
    BY <1>1, <1>4
  <2>2. Receiver!PayloadEnd(f) = 10 + n
    BY <1>2, <2>1 DEF Receiver!PayloadEnd
  <2>3. ~Receiver!Signed(f)
    BY <2>1 DEF Receiver!Signed
  <2> QED
    BY <1>1, <2>2, <2>3 DEF Receiver!FrameLen
<1>5. ~Receiver!Overrun(f)
  BY <1>1, <1>2, <1>3, <1>4, SizeAssumption DEF Receiver!Overrun
<1>6. Receiver!Complete(f) <=> Len(f) = 12 + n
  BY <1>1, <1>3, <1>4 DEF Receiver!Complete
<1> QED
  BY <1>1, <1>5, <1>6 DEF Receiver!Verdict

\* What a receiver makes of the frame of a message it knows.
Message(m, values) == [kind |-> "message", msg |-> m, values |-> values]

Shows(view, m, payload) ==
  /\ MsgId(view) = m.id /\ Len(view.payload) = Len(payload)
  /\ \A i \in 1..Len(view.payload) : view.payload[i] = payload[i]

LEMMA ViewOfFrame ==
  ASSUME NEW m, NEW values, Sendable(m, values)
  PROVE  /\ Receiver!PayloadEnd(FrameOf(m, values)) = 10 + Len(PayloadOf(values))
         /\ Shows(Receiver!View(FrameOf(m, values)), m, PayloadOf(values))
<1> DEFINE g == FrameOf(m, values)
           h == HeaderOf(m, values)
           p == PayloadOf(values)
           n == Len(p)
           view == Receiver!View(g)
           id == m.id
<1>1. /\ Whole(g) /\ g[2] = n
      /\ Parts(g, h, p, CrcOf(m, values) % 256, CrcOf(m, values) \div 256)
  BY FrameBytes
<1>2. p \in Seq(Octet) /\ n \in 1..255
  BY PayloadType, Zenon
<1>3. h[7] = id % 256 /\ h[8] = (id \div 256) % 256 /\ h[9] = (id \div (256 * 256)) % 256
  <2>1. h = <<n, 0, 0, Seqno, Sys, Comp, id % 256, (id \div 256) % 256, (id \div (256 * 256)) % 256>>
    BY HeaderType
  <2> HIDE DEF h, n, id
  <2> QED
    BY <2>1
<1>4. id \in Nat /\ id < 256 * 256 * 256
  BY Zenon DEF Sendable
<1> HIDE DEF g, h, p, n, id
<1>5. Receiver!IsV2(g) /\ Receiver!HeaderLen(g) = 10 /\ Receiver!PayloadEnd(g) = 10 + n
  BY <1>1 DEF Whole, Receiver!IsV2, Receiver!STX2, Receiver!HeaderLen, Receiver!PayloadEnd
<1>6. g[8] = h[7] /\ g[9] = h[8] /\ g[10] = h[9]
  <2>1. g[7 + 1] = h[7] /\ g[8 + 1] = h[8] /\ g[9 + 1] = h[9]
    BY <1>1 DEF Parts
  <2> QED
    BY <2>1
<1>7. /\ view.msgid.low = g[8] /\ view.msgid.mid = g[9] /\ view.msgid.high = g[10]
      /\ view.payload = SubSeq(g, 11, 10 + n)
  <2>1. 10 + 1 = 11
    OBVIOUS
  <2>2. view.msgid = [low |-> g[8], mid |-> g[9], high |-> g[10]] /\ view.payload = SubSeq(g, 10 + 1, 10 + n)
    BY <1>5, Zenon DEF Receiver!View
  <2> HIDE DEF view
  <2> QED
    BY <2>1, <2>2
<1> HIDE DEF view
<1>8. MsgId(view) = id
  <2> DEFINE l == id % 256
             mid == (id \div 256) % 256
             high == (id \div (256 * 256)) % 256
  <2>1. id = l + 256 * mid + 256 * 256 * high
    BY <1>4, IdBytes
  <2> HIDE DEF l, mid, high
  <2>2. MsgId(view) = g[8] + 256 * g[9] + 256 * 256 * g[10]
    BY <1>7, Zenon DEF MsgId
  <2>3. g[8] = l /\ g[9] = mid /\ g[10] = high
    <3>1. h[7] = l /\ h[8] = mid /\ h[9] = high
      BY <1>3, Zenon DEF l, mid, high
    <3> QED
      BY <1>6, <3>1
  <2> QED
    BY <2>1, <2>2, <2>3, Zenon
<1>9. /\ Len(SubSeq(g, 11, 10 + n)) = n
      /\ \A i \in 1..n : SubSeq(g, 11, 10 + n)[i] = p[i]
  <2>1. Len(p) = n /\ n \in Nat /\ Len(g) = 12 + n /\ g \in Seq(Octet)
    <3>1. Len(g) = 12 + Len(p) /\ g \in Seq(Octet)
      BY <1>1, Zenon DEF Parts
    <3>2. Len(p) = n
      BY DEF n
    <3> QED
      BY <1>2, <3>1, <3>2
  <2>2. \A i \in 1..n : g[i + 10] = p[i]
    BY <1>1, <2>1 DEF Parts
  <2>3. \A i \in 11..10 + n : g[i] \in Octet
    BY <2>1, ElementOfSeq
  <2>4. /\ Len(SubSeq(g, 11, 10 + n)) = IF 11 <= 10 + n THEN (10 + n) - 11 + 1 ELSE 0
        /\ \A i \in 1..(10 + n) - 11 + 1 : SubSeq(g, 11, 10 + n)[i] = g[11 + i - 1]
    BY <2>1, <2>3, SubSeqProperties
  <2>5. ASSUME NEW i \in 1..n PROVE SubSeq(g, 11, 10 + n)[i] = p[i]
    <3>1. i \in 1..(10 + n) - 11 + 1 /\ 11 + i - 1 = i + 10
      BY <2>1
    <3> QED
      BY <2>2, <2>4, <3>1
  <2> QED
    BY <2>1, <2>4, <2>5
<1>10. Len(view.payload) = n /\ \A i \in 1..Len(view.payload) : view.payload[i] = p[i]
  BY <1>7, <1>9, Zenon
<1> QED
  BY <1>5, <1>8, <1>10, Zenon DEF Shows, view, g, h, p, n, id

\* The checksum of a frame is the X.25 checksum of the bytes between the start marker and it,
\* with the extra byte of the message's definition behind them.
LEMMA ChecksumOfFrame ==
  ASSUME NEW m, NEW values, Sendable(m, values)
  PROVE  \E crc :
           /\ crc = X25(SubSeq(FrameOf(m, values), 2, 10 + Len(PayloadOf(values))) \o <<CrcExtra[m.id]>>)
           /\ FrameOf(m, values)[11 + Len(PayloadOf(values))] = crc % 256
           /\ FrameOf(m, values)[12 + Len(PayloadOf(values))] = crc \div 256
<1> DEFINE g == FrameOf(m, values)
           h == HeaderOf(m, values)
           p == PayloadOf(values)
           n == Len(p)
           e == CrcExtra[m.id]
           c == CrcOf(m, values)
<1>1. Parts(g, h, p, c % 256, c \div 256)
  BY FrameBytes, Zenon
<1>2. p \in Seq(Octet) /\ n \in 1..255 /\ h \in Seq(Octet) /\ Len(h) = 9 /\ Len(p) = n
  <2>1. p \in Seq(Octet) /\ n \in 1..255
    BY PayloadType, Zenon
  <2>2. h \in Seq(Octet) /\ Len(h) = 9
    BY HeaderType
  <2> QED
    BY <2>1, <2>2
<1>3. e \in Octet
  BY KnownAssumption, Zenon DEF Sendable
<1>4. c = X25((h \o p) \o <<e>>)
  <2>1. c = FrameCrc(h, p, e)
    BY DEF CrcOf
  <2> HIDE DEF h, p, c, e
  <2> QED
    BY <1>2, <1>3, <2>1, ChecksumIsX25, Zenon
<1> HIDE DEF g, h, p, n, c, e
<1>5. SubSeq(g, 2, 10 + n) = h \o p
  <2> DEFINE u == SubSeq(g, 2, 10 + n)
             v == h \o p
  <2>1. n \in Nat /\ Len(g) = 12 + n /\ g \in Seq(Octet)
    BY <1>1, <1>2 DEF Parts
  <2>2. \A i \in 2..10 + n : g[i] \in Octet
    BY <2>1, ElementOfSeq
  <2>3. /\ u \in Seq(Octet) /\ Len(u) = IF 2 <= 10 + n THEN (10 + n) - 2 + 1 ELSE 0
        /\ \A i \in 1..(10 + n) - 2 + 1 : u[i] = g[2 + i - 1]
    BY <2>1, <2>2, SubSeqProperties
  <2>4. /\ v \in Seq(Octet) /\ Len(v) = Len(h) + Len(p)
        /\ \A i \in 1..Len(h) : v[i] = h[i]
        /\ \A i \in 1..Len(p) : v[Len(h) + i] = p[i]
    BY <1>2, Joined, Zenon
  <2> HIDE DEF u, v
  <2>5. Len(u) = 9 + n /\ Len(v) = 9 + n
    BY <1>2, <2>1, <2>3, <2>4
  <2>6. /\ \A i \in 1..9 : g[i + 1] = h[i]
        /\ \A i \in 1..n : g[i + 10] = p[i]
    BY <1>1, <1>2 DEF Parts
  <2>7. ASSUME NEW i \in 1..Len(u) PROVE u[i] = v[i]
    <3>1. i \in 1..9 + n /\ 2 + i - 1 = i + 1 /\ u[i] = g[i + 1]
      BY <2>1, <2>3, <2>5
    <3>2. CASE i <= 9
      <4>1. i \in 1..9 /\ i \in 1..Len(h)
        BY <1>2, <3>1, <3>2
      <4> QED
        BY <2>4, <2>6, <3>1, <4>1
    <3>3. CASE i > 9
      <4> DEFINE j == i - 9
      <4>1. j \in 1..n /\ j + 10 = i + 1 /\ 9 + j = i
        BY <2>1, <3>1, <3>3
      <4> HIDE DEF j
      <4>2. g[j + 10] = p[j] /\ v[9 + j] = p[j]
        BY <1>2, <2>4, <2>6, <4>1
      <4> QED
        BY <3>1, <4>1, <4>2
    <3> QED
      BY <3>1, <3>2, <3>3
  <2>8. u = v
    BY <2>3, <2>4, <2>5, <2>7, SeqEqual
  <2> QED
    BY <2>8 DEF u, v
<1>6. g[11 + n] = c % 256 /\ g[12 + n] = c \div 256
  BY <1>1, <1>2 DEF Parts
<1> QED
  BY <1>4, <1>5, <1>6, Zenon DEF g, h, p, n, e

\* The application gets what was sent.
LEMMA Answered ==
  ASSUME NEW m, NEW values, Sendable(m, values)
  PROVE  Application(FrameOf(m, values), Receiver!View(FrameOf(m, values)))
           = [kind |-> "message", message |-> Message(m, values), valid |-> TRUE]
<1> DEFINE g == FrameOf(m, values)
           view == Receiver!View(g)
           n == Len(PayloadOf(values))
           known == {x \in Known : x.id = MsgId(view)}
           end == Receiver!PayloadEnd(g)
           crc == X25(SubSeq(g, 2, 10 + n) \o <<CrcExtra[m.id]>>)
<1>0. end = 10 + n /\ Shows(view, m, PayloadOf(values))
  BY ViewOfFrame, Zenon
<1>1. /\ end = 10 + n /\ MsgId(view) = m.id /\ Len(view.payload) = n
      /\ \A i \in 1..Len(view.payload) : view.payload[i] = PayloadOf(values)[i]
  BY <1>0, Zenon DEF Shows
<1>2. g[11 + n] = crc % 256 /\ g[12 + n] = crc \div 256
  BY ChecksumOfFrame
<1>3. n \in 1..255
  BY PayloadType, Zenon
<1>4. m \in Known
  BY Zenon DEF Sendable
<1> HIDE DEF view, g, n
<1>5. deserialize(m, view) = Message(m, values)
  BY <1>1, Deserialized, Zenon DEF Message, n
<1>6. known = {m}
  BY <1>1, <1>4, KnownAssumption
<1>7. known # {} /\ (CHOOSE x \in known : TRUE) = m
  BY <1>6
<1>8. end + 1 = 11 + n /\ end + 2 = 12 + n
  BY <1>1, <1>3
<1> HIDE DEF known, end, crc
<1>9. g[end + 1] = crc % 256 /\ g[end + 2] = crc \div 256
  BY <1>2, <1>8
<1>10. Application(g, view)
         = [kind |-> Message(m, values).kind, message |-> Message(m, values),
            valid |-> g[end + 1] = crc % 256 /\ g[end + 2] = crc \div 256]
  BY <1>1, <1>5, <1>7, Zenon DEF Application, known, end, crc
<1>11. Message(m, values).kind = "message"
  BY DEF Message
<1>12. (g[end + 1] = crc % 256 /\ g[end + 2] = crc \div 256) = TRUE
  BY <1>9
<1> QED
  BY <1>10, <1>11, <1>12, Zenon DEF g, view

-------------------------------------------------------------------------------
(* Types *)

\* A frame that is still read is shorter than its header says.
Open(f) == Receiver!HasHeader(f) => Len(f) < Receiver!FrameLen(f)

LEMMA Lengths ==
  ASSUME NEW f \in Seq(Octet), Receiver!HasHeader(f)
  PROVE  /\ Receiver!HeaderLen(f) \in {6, 10} /\ Len(f) >= Receiver!HeaderLen(f)
         /\ Receiver!FrameLen(f) \in Receiver!HeaderLen(f) + 2..Receiver!HeaderLen(f) + 255 + 2 + SigLen
<1> DEFINE h == Receiver!HeaderLen(f)
           p == Receiver!PayloadEnd(f)
           n == Receiver!FrameLen(f)
           w == f[2]
<1>1. h \in {6, 10} /\ SigLen \in Nat /\ Len(f) >= 2 /\ Len(f) >= h /\ Len(f) \in Nat
  BY LenProperties, SizeAssumption DEF Receiver!HeaderLen, Receiver!HasHeader
<1>2. w \in 0..255
  <2>1. 2 \in 1..Len(f)
    BY <1>1
  <2> QED
    BY <2>1, ElementOfSeq DEF Octet
<1>3. p = h + w
  BY Zenon DEF Receiver!PayloadEnd
<1>4. n = p + 2 + (IF Receiver!Signed(f) THEN SigLen ELSE 0)
  BY Zenon DEF Receiver!FrameLen
<1> HIDE DEF h, p, n, w
<1>5. n \in h + 2..h + 255 + 2 + SigLen
  BY <1>1, <1>2, <1>3, <1>4
<1> QED
  BY <1>1, <1>5 DEF h, n

LEMMA OpenLength ==
  ASSUME NEW f \in Seq(Octet), Open(f)
  PROVE  Len(f) < 10 + 255 + 2 + SigLen
<1> DEFINE h == Receiver!HeaderLen(f)
           n == Receiver!FrameLen(f)
<1>1. Len(f) \in Nat /\ SigLen \in Nat /\ h \in {6, 10}
  BY LenProperties, SizeAssumption DEF Receiver!HeaderLen
<1>2. CASE Receiver!HasHeader(f)
  <2>1. n \in h + 2..h + 255 + 2 + SigLen
    BY <1>2, Lengths
  <2>2. Len(f) < n
    BY <1>2 DEF Open
  <2> HIDE DEF h, n
  <2> QED
    BY <1>1, <2>1, <2>2
<1>3. CASE ~Receiver!HasHeader(f)
  BY <1>1, <1>3 DEF Receiver!HasHeader
<1> QED
  BY <1>2, <1>3

LEMMA OpenGrows ==
  ASSUME NEW f \in Seq(Octet), Open(f), NEW c \in Octet,
         Receiver!Verdict(Append(f, c)) = Receiver!Silence
  PROVE  Open(Append(f, c))
<1> DEFINE g == Append(f, c)
           l == Len(f)
<1>1. /\ g \in Seq(Octet) /\ Len(g) = l + 1 /\ l \in Nat
      /\ \A i \in 1..l : g[i] = f[i]
  BY AppendProperties, LenProperties
<1> HIDE DEF g, l
<1>2. ~Receiver!Complete(g)
  BY DEF Receiver!Verdict, Receiver!Silence, g
<1> SUFFICES ASSUME Receiver!HasHeader(g) PROVE Len(g) < Receiver!FrameLen(g)
  BY DEF Open, g
<1>3. Len(g) # Receiver!FrameLen(g)
  BY <1>2 DEF Receiver!Complete
<1>4. Receiver!HeaderLen(g) \in {6, 10} /\ Len(g) >= Receiver!HeaderLen(g)
  BY <1>1, Lengths
<1>5. Receiver!FrameLen(g) \in Nat /\ Receiver!FrameLen(g) > Receiver!HeaderLen(g)
  <2> DEFINE h == Receiver!HeaderLen(g)
             n == Receiver!FrameLen(g)
  <2>1. n \in h + 2..h + 255 + 2 + SigLen
    BY <1>1, Lengths
  <2> HIDE DEF n
  <2>2. h \in {6, 10}
    BY <1>4
  <2> HIDE DEF h
  <2>3. n \in Nat /\ n > h
    BY <2>1, <2>2, SizeAssumption
  <2> QED
    BY <2>3 DEF n, h
<1>6. CASE Receiver!HasHeader(f)
  <2>1. l >= 6 /\ l < Receiver!FrameLen(f)
    BY <1>1, <1>6 DEF Receiver!HasHeader, Receiver!HeaderLen, Open, l
  <2>2. g[1] = f[1] /\ g[2] = f[2] /\ g[3] = f[3]
    BY <1>1, <2>1
  <2>3. Receiver!FrameLen(g) = Receiver!FrameLen(f)
    BY <2>2 DEF Receiver!FrameLen, Receiver!PayloadEnd, Receiver!HeaderLen, Receiver!Signed, Receiver!IsV2
  <2> QED
    BY <1>1, <1>3, <1>5, <2>1, <2>3
<1>7. CASE ~Receiver!HasHeader(f)
  <2>1. Len(g) = Receiver!HeaderLen(g)
    <3>1. CASE l = 0
      BY <1>1, <1>4, <3>1
    <3>2. CASE l > 0
      <4>1. g[1] = f[1]
        BY <1>1, <3>2
      <4>2. Receiver!HeaderLen(g) = Receiver!HeaderLen(f)
        BY <4>1 DEF Receiver!HeaderLen, Receiver!IsV2
      <4>3. l < Receiver!HeaderLen(f)
        BY <1>1, <1>4, <1>7, <4>2 DEF Receiver!HasHeader, l
      <4> QED
        BY <1>1, <1>4, <4>2, <4>3
    <3> QED
      BY <1>1, <3>1, <3>2
  <2> QED
    BY <1>5, <2>1
<1> QED
  BY <1>6, <1>7

\* The frame that a byte leaves to the framer.
LEMMA FrameStep ==
  ASSUME frame \in Seq(Octet), Open(frame), NEW c \in Octet,
         Receiver!Skip(c) \/ Receiver!Begin(c) \/ Receiver!Continue(c)
  PROVE  frame' \in Seq(Octet) /\ Open(frame')
<1>1. Open(<<>>) /\ <<>> \in Seq(Octet)
  BY EmptySeq DEF Open, Receiver!HasHeader
<1>2. CASE Receiver!Skip(c)
  BY <1>1, <1>2 DEF Receiver!Skip
<1>3. CASE Receiver!Begin(c)
  <2>1. frame' = <<c>> /\ Len(<<c>>) = 1 /\ <<c>> \in Seq(Octet)
    BY <1>3 DEF Receiver!Begin
  <2> QED
    BY <2>1 DEF Open, Receiver!HasHeader
<1>4. CASE Receiver!Continue(c)
  <2> DEFINE f == Append(frame, c)
  <2>1. f \in Seq(Octet)
    BY AppendProperties
  <2>2. frame' = IF Receiver!Verdict(f) = Receiver!Silence THEN f ELSE <<>>
    BY <1>4 DEF Receiver!Continue
  <2>3. Receiver!Verdict(f) = Receiver!Silence => Open(f)
    BY OpenGrows
  <2> QED
    BY <1>1, <2>1, <2>2, <2>3
<1> QED
  BY <1>2, <1>3, <1>4

\* What the receiver is told is one of four things.
Kinds == {"nothing", "message", "parse_error", "overrun"}

LEMMA GotStep ==
  ASSUME got.kind \in Kinds, NEW c, PushByte(c)
  PROVE  got'.kind \in Kinds
<1>1. ASSUME NEW f, NEW view PROVE Application(f, view).kind \in Kinds
  <2> DEFINE known == {m \in Known : m.id = MsgId(view)}
             m == CHOOSE x \in known : TRUE
  <2>1. deserialize(m, view).kind \in {"parse_error", "message"}
    <3> HIDE DEF m
    <3> QED
      BY DEF deserialize
  <2> HIDE DEF m
  <2>2. Application(f, view).kind = "nothing" \/ Application(f, view).kind = deserialize(m, view).kind
    BY DEF Application, Nothing, m
  <2> QED
    BY <2>1, <2>2, Zenon DEF Kinds
<1>2. \/ got' = Application(Append(frame, c), report'.view)
      \/ got' = [kind |-> "overrun"]
      \/ got' = got
  BY DEF PushByte
<1>3. CASE got' = Application(Append(frame, c), report'.view)
  BY <1>1, <1>3, Zenon
<1>4. CASE got' = [kind |-> "overrun"]
  BY <1>4 DEF Kinds
<1> QED
  BY <1>2, <1>3, <1>4

\* Send() puts the frame of a message that may be sent on the line.
LEMMA Sending ==
  ASSUME scenario \in Scenario, NEW s \in Sends[scenario], Send(s)
  PROVE  /\ Sendable(s.msg, s.values) /\ line = <<>>
         /\ line' = FrameOf(s.msg, s.values) /\ line' \in Seq(Octet) /\ line' # <<>>
         /\ Len(line') = 12 + Len(PayloadOf(s.values)) /\ Len(PayloadOf(s.values)) \in 1..255
         /\ sent' = Message(s.msg, s.values)
<1> DEFINE out == serialize(s.msg, s.values, Sys, Comp, Seqno, s.size)
           g == FrameOf(s.msg, s.values)
           n == Len(PayloadOf(s.values))
<1>1. Sendable(s.msg, s.values)
  BY SendAssumption, Zenon DEF Sendable
<1>2. line = <<>> /\ out.kind = "frame" /\ line' = out.bytes /\ sent' = Message(s.msg, s.values)
  BY Zenon DEF Send, Message
<1>3. out = [kind |-> "frame", bytes |-> g]
  <2>1. ~(s.size < MaxPacket)
    BY <1>2 DEF serialize
  <2> QED
    BY <2>1, Serialized
<1>4. Whole(g) /\ g[2] = n /\ n \in 1..255
  <2>1. Whole(g) /\ g[2] = n
    BY <1>1, FrameBytes
  <2>2. n \in 1..255
    BY <1>1, PayloadType, Zenon
  <2> QED
    BY <2>1, <2>2
<1> HIDE DEF out, g, n
<1>5. line' = g
  BY <1>2, <1>3
<1>6. g \in Seq(Octet) /\ Len(g) = 12 + n
  BY <1>4 DEF Whole
<1>7. g # <<>>
  BY <1>4, <1>6
<1> QED
  BY <1>1, <1>2, <1>4, <1>5, <1>6, <1>7 DEF g, n

-------------------------------------------------------------------------------
(* Type correctness *)

Typed == TypeOK /\ scenario \in Scenario /\ Open(frame)

LEMMA TypedInit == Init => Typed
<1> SUFFICES ASSUME Init PROVE Typed
  OBVIOUS
<1>1. <<>> \in Seq(Octet) /\ Len(<<>>) = 0 /\ Open(<<>>) /\ MaxPacket >= 0 /\ SigLen \in Nat
  BY EmptySeq, SizeAssumption DEF Open, Receiver!HasHeader, MaxPacket
<1>2. MaxFaults[scenario] \in Nat /\ MaxFrames[scenario] \in Nat
  BY BoundAssumption DEF Init
<1>3. line \in Seq(Octet) /\ frame \in Seq(Octet) /\ Len(line) <= MaxPacket /\ Len(frame) < 10 + 255 + 2 + SigLen
  BY <1>1 DEF Init
<1>4. got.kind = "nothing" /\ faults = [lost |-> 0, changed |-> 0] /\ count = 0 /\ since = 0
  BY DEF Init, Nothing
<1>5. scenario \in Scenario /\ Open(frame) /\ damaged \in BOOLEAN /\ plain \in BOOLEAN
  BY <1>1 DEF Init
<1>6. faults \in [lost : 0..MaxFaults[scenario], changed : 0..MaxFaults[scenario]]
  BY <1>2, <1>4
<1> QED
  BY <1>2, <1>3, <1>4, <1>5, <1>6 DEF Typed, TypeOK

LEMMA TypedStep == Typed /\ [Next]_vars => Typed'
<1> SUFFICES ASSUME Typed, [Next]_vars PROVE Typed'
  OBVIOUS
<1>0. MaxFaults[scenario] \in Nat /\ MaxFrames[scenario] \in Nat /\ scenario \in Scenario
  BY BoundAssumption DEF Typed
<1>a. /\ line \in Seq(Octet) /\ frame \in Seq(Octet) /\ Len(line) <= MaxPacket /\ Open(frame)
      /\ got.kind \in Kinds
      /\ faults \in [lost : 0..MaxFaults[scenario], changed : 0..MaxFaults[scenario]]
      /\ count \in 0..MaxFrames[scenario] /\ since \in 0..2
      /\ damaged \in BOOLEAN /\ plain \in BOOLEAN
  BY DEF Typed, TypeOK, Kinds
<1>b. ASSUME scenario' = scenario, line' \in Seq(Octet), Len(line') <= MaxPacket,
             frame' \in Seq(Octet), Open(frame'), got'.kind \in Kinds,
             faults' \in [lost : 0..MaxFaults[scenario], changed : 0..MaxFaults[scenario]],
             count' \in 0..MaxFrames[scenario], since' \in 0..2,
             damaged' \in BOOLEAN, plain' \in BOOLEAN
      PROVE  Typed'
  <2>1. frame' \in Seq(Octet) /\ Open(frame') => Len(frame') < 10 + 255 + 2 + SigLen
    BY OpenLength
  <2>2. Open(frame)' <=> Open(frame')
    BY DEF Open, Receiver!HasHeader, Receiver!HeaderLen, Receiver!IsV2, Receiver!FrameLen,
           Receiver!PayloadEnd, Receiver!Signed
  <2> QED
    BY <1>0, <1>b, <2>1, <2>2 DEF Typed, TypeOK, Kinds
<1>c. ASSUME NEW c \in Octet, PushByte(c)
      PROVE  frame' \in Seq(Octet) /\ Open(frame') /\ got'.kind \in Kinds
  BY <1>a, <1>c, FrameStep, GotStep DEF PushByte
<1>d. ASSUME line # <<>>, line' = Tail(line)
      PROVE  line' \in Seq(Octet) /\ Len(line') <= MaxPacket /\ Head(line) \in Octet
  <2>1. Len(line) \in Nat
    BY <1>a, LenProperties
  <2> QED
    BY <1>a, <1>d, <2>1, HeadTailProperties DEF MaxPacket
<1>e. ASSUME faults.lost + faults.changed < MaxFaults[scenario]
      PROVE  /\ [faults EXCEPT !.lost = @ + 1]
                  \in [lost : 0..MaxFaults[scenario], changed : 0..MaxFaults[scenario]]
             /\ [faults EXCEPT !.changed = @ + 1]
                  \in [lost : 0..MaxFaults[scenario], changed : 0..MaxFaults[scenario]]
  <2> DEFINE M == MaxFaults[scenario]
  <2> HIDE DEF M
  <2>1. M \in Nat /\ faults \in [lost : 0..M, changed : 0..M] /\ faults.lost + faults.changed < M
    BY <1>0, <1>a, <1>e DEF M
  <2>2. faults.lost + 1 \in 0..M /\ faults.changed + 1 \in 0..M
    BY <2>1
  <2> QED
    BY <2>1, <2>2 DEF M
<1>1. ASSUME NEW s \in Sends[scenario], Send(s) PROVE Typed'
  <2>1. line' \in Seq(Octet) /\ Len(line') = 12 + Len(PayloadOf(s.values)) /\ Len(PayloadOf(s.values)) \in 1..255
    BY <1>0, <1>1, Sending
  <2>2. Len(line') <= MaxPacket
    <3> DEFINE n == Len(PayloadOf(s.values))
    <3> HIDE DEF n
    <3>1. n \in 1..255 /\ Len(line') = 12 + n
      BY <2>1 DEF n
    <3>2. 12 + n <= 280
      BY <3>1
    <3> QED
      BY <3>1, <3>2, Zenon DEF MaxPacket
  <2>3. /\ scenario' = scenario /\ frame' = frame /\ faults' = faults
        /\ count' = count + 1 /\ count < MaxFrames[scenario]
        /\ got' = Nothing /\ since' = IF since = 2 THEN 2 ELSE since + 1
        /\ damaged' \in BOOLEAN /\ plain' \in BOOLEAN
    BY <1>a, <1>1, Zenon DEF Send
  <2>4. got'.kind \in Kinds /\ count' \in 0..MaxFrames[scenario] /\ since' \in 0..2
    BY <1>0, <1>a, <2>3 DEF Nothing, Kinds
  <2> QED
    BY <1>a, <1>b, <2>1, <2>2, <2>3, <2>4, Zenon
<1>2. ASSUME NEW s \in Sends[scenario], SendFails(s) PROVE Typed'
  <2>1. /\ UNCHANGED <<scenario, line, frame, report, plain, faults, since, damaged>>
        /\ count' = count + 1 /\ count < MaxFrames[scenario] /\ got' = Nothing
    BY <1>2, Zenon DEF SendFails
  <2>2. got'.kind \in Kinds /\ count' \in 0..MaxFrames[scenario]
    BY <1>0, <1>a, <2>1 DEF Nothing, Kinds
  <2>3. UNCHANGED <<scenario, line, frame, report, plain, faults, since, damaged>>
    BY <2>1
  <2> QED
    BY <1>a, <1>b, <2>1, <2>2, Zenon
<1>3. CASE Deliver
  BY <1>a, <1>b, <1>c, <1>d, <1>3 DEF Deliver
<1>4. CASE Lose
  <2>1. /\ UNCHANGED <<scenario, frame, report, sent, got, count, plain>>
        /\ line # <<>> /\ line' = Tail(line) /\ faults.lost + faults.changed < MaxFaults[scenario]
        /\ faults' = [faults EXCEPT !.lost = @ + 1] /\ since' = 0 /\ damaged' = TRUE
    BY <1>4 DEF Lose
  <2>2. faults' \in [lost : 0..MaxFaults[scenario], changed : 0..MaxFaults[scenario]]
    BY <1>e, <2>1
  <2>3. since' \in 0..2 /\ damaged' \in BOOLEAN
    BY <2>1
  <2> QED
    BY <1>a, <1>b, <1>d, <2>1, <2>2, <2>3, Zenon
<1>5. ASSUME NEW c \in Garbage, Change(c) PROVE Typed'
  <2>1. /\ UNCHANGED <<scenario, sent, count, plain>> /\ PushByte(c) /\ c \in Octet
        /\ line # <<>> /\ line' = Tail(line) /\ faults.lost + faults.changed < MaxFaults[scenario]
        /\ faults' = [faults EXCEPT !.changed = @ + 1] /\ since' = 0 /\ damaged' = TRUE
    BY <1>5, NoiseAssumption DEF Change
  <2>2. faults' \in [lost : 0..MaxFaults[scenario], changed : 0..MaxFaults[scenario]]
    BY <1>e, <2>1
  <2>3. since' \in 0..2 /\ damaged' \in BOOLEAN
    BY <2>1
  <2> QED
    BY <1>a, <1>b, <1>c, <1>d, <2>1, <2>2, <2>3, Zenon
<1>6. ASSUME NEW c \in Noise[scenario], MakeUp(c) PROVE Typed'
  <2>1. /\ UNCHANGED <<scenario, line, sent, count, plain, faults, since, damaged>> /\ PushByte(c)
        /\ c \in Octet
    BY <1>0, <1>6, NoiseAssumption DEF MakeUp
  <2> QED
    BY <1>a, <1>b, <1>c, <2>1, Zenon
<1>7. CASE UNCHANGED vars
  BY <1>a, <1>b, <1>7 DEF vars
<1> QED
  BY <1>1, <1>2, <1>3, <1>4, <1>5, <1>6, <1>7 DEF Next

\* For every set of messages, every scenario and every size of the framer's buffer, the framer
\* holds less than the longest frame a header can tell, and the bounds of the model are kept.
THEOREM TypeCorrect == Spec => []TypeOK
<1>1. Typed => TypeOK
  BY DEF Typed
<1> QED
  BY <1>1, TypedInit, TypedStep, PTL DEF Spec

-------------------------------------------------------------------------------
(* What is sent arrives *)

\* While the frame on the line is not damaged, the framer has its first bytes, and what has
\* been sent has come out when they are all in.
Carrying(s) ==
  /\ sent = Message(s.msg, s.values)
  /\ \/ line # <<>> /\ frame \o line = FrameOf(s.msg, s.values) /\ got = Nothing
     \/ line = <<>> /\ frame = <<>> /\ got = Intact

Carried == ~damaged /\ sent # Nothing => \E s \in Sends[scenario] : Carrying(s)

\* Nothing is damaged by a line that changes and loses nothing.
Clean ==
  faults.lost = 0 /\ faults.changed = 0 =>
    ~damaged /\ (sent = Nothing => line = <<>> /\ frame = <<>> /\ got = Nothing)

\* Between frames the framer waits for a start marker, and noise has none.
LEMMA NoiseIgnored ==
  ASSUME scenario \in Scenario, NEW c \in Noise[scenario], MakeUp(c), frame = <<>>
  PROVE  frame' = <<>> /\ got' = got /\ line' = line /\ sent' = sent
<1>1. c \notin {253, 254}
  BY NoiseAssumption
<1>2. PushByte(c) /\ line' = line /\ sent' = sent
  BY DEF MakeUp
<1>3. Receiver!Skip(c)
  BY <1>1, <1>2 DEF PushByte, Receiver!Begin, Receiver!Continue, Receiver!STX1, Receiver!STX2
<1>4. frame' = <<>> /\ report' = Receiver!Silence
  BY <1>3 DEF Receiver!Skip
<1>5. got' = got
  BY <1>2, <1>4 DEF PushByte, Receiver!Silence
<1> QED
  BY <1>2, <1>4, <1>5

\* The next byte of a frame goes to what the framer has of it, and the last one completes it.
LEMMA ByteCarried ==
  ASSUME Typed, RxSize >= 265, NEW s \in Sends[scenario], Carrying(s), Deliver
  PROVE  Carrying(s)'
<1> DEFINE g == FrameOf(s.msg, s.values)
           c == Head(line)
           f == Append(frame, c)
           t == Tail(line)
<1>1. /\ line # <<>> /\ PushByte(c) /\ line' = t /\ sent' = sent
  BY DEF Deliver
<1>2. sent = Message(s.msg, s.values) /\ frame \o line = g /\ got = Nothing
  BY <1>1 DEF Carrying
<1>3. line \in Seq(Octet) /\ frame \in Seq(Octet)
  BY DEF Typed, TypeOK
<1>4. Sendable(s.msg, s.values)
  BY SendAssumption, Zenon DEF Typed, Sendable
<1>5. Whole(g)
  BY <1>4, FrameBytes, Zenon
<1> HIDE DEF g
<1>6. /\ c \in Octet /\ t \in Seq(Octet) /\ f \in Seq(Octet) /\ Len(f) = Len(frame) + 1
      /\ f \o t = g
  BY <1>1, <1>2, <1>3, MoveByte, Zenon
<1>7. Starts(f, g) /\ Len(g) = Len(f) + Len(t) /\ Len(f) \in Nat /\ Len(t) \in Nat
  <2> HIDE DEF f, t
  <2>1. /\ Len(f \o t) = Len(f) + Len(t) /\ Len(f) \in Nat /\ Len(t) \in Nat
        /\ \A i \in 1..Len(f) : (f \o t)[i] = f[i]
    BY <1>6, Joined, LenProperties
  <2>2. Len(frame) \in Nat
    BY <1>3, LenProperties
  <2> QED
    BY <1>6, <2>1, <2>2 DEF Starts
<1>8. /\ Len(f) < Len(g) => Receiver!Verdict(f) = Receiver!Silence
      /\ f = g => Receiver!Verdict(f) = [kind |-> "view", view |-> Receiver!View(f)]
  BY <1>5, <1>7, Verdicts, Zenon
<1>9. /\ frame' = IF Receiver!Verdict(f) = Receiver!Silence THEN f ELSE <<>>
      /\ report' = Receiver!Verdict(f) \/ report' = Receiver!Silence
      /\ Receiver!Verdict(f) # Receiver!Silence => report' = Receiver!Verdict(f)
  <2>1. CASE frame = <<>>
    <3>1. f = <<c>>
      BY <2>1
    <3>2. Len(f) = 1 /\ Len(g) >= 13 /\ f[1] = g[1] /\ g[1] = 253
      <4>1. Len(f) = 1
        BY <2>1, EmptySeq
      <4>2. g[1] = 253 /\ g[2] \in 1..255 /\ Len(g) = 12 + g[2]
        BY <1>5 DEF Whole
      <4>3. 1 \in 1..Len(f)
        BY <4>1
      <4> HIDE DEF f
      <4>4. f[1] = g[1]
        BY <1>7, <4>3, Zenon DEF Starts
      <4>5. Len(g) >= 13
        <5> DEFINE n == g[2]
        <5>1. n \in 1..255 /\ Len(g) = 12 + n
          BY <4>2
        <5> HIDE DEF n
        <5> QED
          BY <5>1
      <4> QED
        BY <4>1, <4>2, <4>4, <4>5
    <3>3. c = 253
      BY <3>1, <3>2
    <3>4. Receiver!Begin(c)
      BY <1>1, <2>1, <3>3 DEF PushByte, Receiver!Skip, Receiver!Continue, Receiver!STX2
    <3>5. Receiver!Verdict(f) = Receiver!Silence
      <4> HIDE DEF f
      <4>1. Len(f) < Len(g)
        BY <1>7, <3>2
      <4> QED
        BY <1>8, <4>1
    <3> QED
      BY <3>1, <3>4, <3>5 DEF Receiver!Begin
  <2>2. CASE frame # <<>>
    <3>1. Receiver!Continue(c)
      BY <1>1, <2>2 DEF PushByte, Receiver!Skip, Receiver!Begin
    <3> QED
      BY <3>1 DEF Receiver!Continue
  <2> QED
    BY <2>1, <2>2
<1>10. got' = CASE report'.kind = "view" -> Application(f, report'.view)
                [] report'.kind = "overrun" -> [kind |-> "overrun"]
                [] OTHER -> got
  BY <1>1, Zenon DEF PushByte
<1> HIDE DEF f, t
<1>11. CASE t # <<>>
  <2>1. Len(t) > 0
    BY <1>6, <1>7, <1>11, EmptySeq
  <2>2. Receiver!Verdict(f) = Receiver!Silence
    BY <1>7, <1>8, <2>1
  <2>3. frame' = f /\ report' = Receiver!Silence
    BY <1>9, <2>2
  <2>4. got' = Nothing
    BY <1>2, <1>10, <2>3 DEF Receiver!Silence
  <2> QED
    BY <1>1, <1>2, <1>6, <1>11, <2>3, <2>4, Zenon DEF Carrying, g
<1>12. CASE t = <<>>
  <2>1. f = g
    BY <1>6, <1>12, ConcatEmptySeq
  <2>2. Receiver!Verdict(f) = [kind |-> "view", view |-> Receiver!View(f)]
    BY <1>8, <2>1
  <2>3. frame' = <<>> /\ report' = [kind |-> "view", view |-> Receiver!View(f)]
    BY <1>9, <2>2 DEF Receiver!Silence
  <2>4. got' = Application(f, Receiver!View(f))
    BY <1>10, <2>3
  <2>5. got' = [kind |-> "message", message |-> Message(s.msg, s.values), valid |-> TRUE]
    BY <1>4, <2>1, <2>4, Answered, Zenon DEF g
  <2> QED
    BY <1>1, <1>2, <1>12, <2>3, <2>5, Zenon DEF Carrying, Intact
<1> QED
  BY <1>11, <1>12

\* Nothing comes out of a frame before its last byte is in, and what has been sent is carried.
Reliable == Carried /\ Clean

LEMMA ReliableStep ==
  ASSUME RxSize >= 265
  PROVE  Typed /\ Reliable /\ [Next]_vars => Reliable'
<1> SUFFICES ASSUME Typed, Carried, Clean, [Next]_vars PROVE Carried' /\ Clean'
  BY DEF Reliable
<1>0. /\ scenario \in Scenario /\ faults.lost \in Nat /\ faults.changed \in Nat
      /\ faults \in [lost : 0..MaxFaults[scenario], changed : 0..MaxFaults[scenario]]
      /\ frame \in Seq(Octet) /\ damaged \in BOOLEAN
  BY BoundAssumption DEF Typed, TypeOK
<1>1. ASSUME NEW s \in Sends[scenario], Send(s) PROVE Carried' /\ Clean'
  <2>1. /\ line = <<>> /\ line' = FrameOf(s.msg, s.values) /\ line' \in Seq(Octet) /\ line' # <<>>
        /\ sent' = Message(s.msg, s.values)
    BY <1>0, <1>1, Sending
  <2>2. got' = Nothing /\ frame' = frame /\ faults' = faults /\ scenario' = scenario
        /\ damaged' = (frame # <<>>)
    BY <1>1, Zenon DEF Send
  <2>3. sent' # Nothing
    BY <2>1 DEF Message, Nothing
  <2>4. ASSUME ~damaged' PROVE Carrying(s)'
    <3>1. frame' \o line' = line'
      BY <2>1, <2>2, <2>4, ConcatEmptySeq
    <3> QED
      BY <2>1, <2>2, <3>1, Zenon DEF Carrying
  <2>5. Carried'
    BY <2>2, <2>4, Zenon DEF Carried
  <2>6. Clean'
    <3> SUFFICES ASSUME faults.lost = 0, faults.changed = 0 PROVE frame = <<>>
      BY <2>2, <2>3 DEF Clean
    <3> QED
      BY <2>1, Zenon DEF Clean, Carried, Carrying
  <2> QED
    BY <2>5, <2>6
<1>2. ASSUME NEW s \in Sends[scenario], SendFails(s) PROVE Carried' /\ Clean'
  <2>1. /\ UNCHANGED <<scenario, line, frame, report, plain, faults, since, damaged>>
        /\ sent' = Nothing /\ got' = Nothing /\ line = <<>>
    BY <1>2, Zenon DEF SendFails
  <2>2. Carried'
    BY <2>1 DEF Carried
  <2>3. faults.lost = 0 /\ faults.changed = 0 => frame = <<>>
    BY <2>1, Zenon DEF Clean, Carried, Carrying
  <2> QED
    BY <2>1, <2>2, <2>3 DEF Clean
<1>3. CASE Deliver
  <2>1. /\ line # <<>>
        /\ scenario' = scenario /\ sent' = sent /\ faults' = faults /\ damaged' = damaged
    BY <1>3 DEF Deliver
  <2>2. ASSUME NEW s \in Sends[scenario], Carrying(s) PROVE Carrying(s)'
    BY <1>3, <2>2, ByteCarried
  <2>3. Carried'
    BY <2>1, <2>2, Zenon DEF Carried
  <2>4. Clean'
    BY <2>1 DEF Clean
  <2> QED
    BY <2>3, <2>4
<1>4. CASE Lose
  <2>1. damaged' /\ faults' = [faults EXCEPT !.lost = @ + 1]
    BY <1>4 DEF Lose
  <2>2. faults'.lost = faults.lost + 1
    BY <1>0, <2>1
  <2> QED
    BY <1>0, <2>1, <2>2 DEF Carried, Clean
<1>5. ASSUME NEW c \in Garbage, Change(c) PROVE Carried' /\ Clean'
  <2>1. damaged' /\ faults' = [faults EXCEPT !.changed = @ + 1]
    BY <1>5 DEF Change
  <2>2. faults'.changed = faults.changed + 1
    BY <1>0, <2>1
  <2> QED
    BY <1>0, <2>1, <2>2 DEF Carried, Clean
<1>6. ASSUME NEW c \in Noise[scenario], MakeUp(c) PROVE Carried' /\ Clean'
  <2>1. line = <<>> /\ line' = line /\ sent' = sent /\ scenario' = scenario /\ faults' = faults
        /\ damaged' = damaged
    BY <1>6 DEF MakeUp
  <2>2. frame = <<>> => frame' = <<>> /\ got' = got
    BY <1>0, <1>6, NoiseIgnored
  <2>3. ASSUME NEW s, Carrying(s) PROVE Carrying(s)'
    BY <2>1, <2>2, <2>3, Zenon DEF Carrying, Intact
  <2>4. Carried'
    BY <2>1, <2>3, Zenon DEF Carried
  <2>5. Clean'
    BY <2>1, <2>2, Zenon DEF Clean
  <2> QED
    BY <2>4, <2>5
<1>7. CASE UNCHANGED vars
  BY <1>7, Zenon DEF vars, Carried, Clean, Carrying, Intact
<1> QED
  BY <1>1, <1>2, <1>3, <1>4, <1>5, <1>6, <1>7 DEF Next

LEMMA ReliableInvariant ==
  ASSUME RxSize >= 265
  PROVE  Spec => [](Typed /\ Reliable)
<1>1. Init => Reliable
  BY DEF Init, Reliable, Carried, Clean, Nothing
<1>2. (Typed /\ Reliable) /\ [Next]_vars => (Typed /\ Reliable)'
  BY TypedStep, ReliableStep
<1>3. Init => Typed /\ Reliable
  BY <1>1, TypedInit
<1> QED
  BY <1>2, <1>3, PTL DEF Spec

\* A frame that is not damaged arrives: the framer ends it at its last byte and not before,
\* its checksum is the X.25 one with the extra byte of the definition, and deserialize() gives
\* back the fields that serialize() was given.  The framer's buffer has to hold what the header
\* and the longest payload take, 265 bytes.
THEOREM IntactArrives ==
  ASSUME RxSize >= 265
  PROVE  Spec => []IntactDelivered
<1>1. Reliable => IntactDelivered
  BY DEF Reliable, Carried, Carrying, IntactDelivered
<1> QED
  BY <1>1, ReliableInvariant, PTL

\* What comes out is what was sent, and comes out with the last byte of the frame, while the
\* line loses and changes nothing; bytes it makes up between frames do not matter.
THEOREM NothingElseArrives ==
  ASSUME RxSize >= 265
  PROVE  Spec => []NothingInvented
<1>1. Reliable => NothingInvented
  BY DEF Reliable, Carried, Clean, Carrying, NothingInvented
<1> QED
  BY <1>1, ReliableInvariant, PTL

-------------------------------------------------------------------------------
(* What a lost byte costs *)

Markers == {253, 254}

\* Between frames: no byte on the line begins one.
Quiet(f, t) == f = <<>> /\ \A i \in 1..Len(t) : t[i] \notin Markers

\* The framer has begun a frame, and the line has the rest of it, but for k bytes.  Behind the
\* next byte on the line there is no start marker.
Busy(f, t, k) ==
  /\ (f \o t)[1] = 253 /\ (f \o t)[2] \in Octet /\ (f \o t)[3] = 0 /\ Len(f \o t) >= 11
  /\ Len(f) < 12 + (f \o t)[2] /\ 12 + (f \o t)[2] <= Len(f \o t) + k
  /\ \A i \in 2..Len(t) : t[i] \notin Markers

\* The framer and the line together have the frame as it was sent.
Clear(f, t) ==
  /\ Whole(f \o t) /\ Len(f) < Len(f \o t)
  /\ \A i \in 2..Len(f \o t) : (f \o t)[i] \notin Markers

LEMMA ClearIsBusy ==
  ASSUME NEW f \in Seq(Octet), NEW t \in Seq(Octet), Clear(f, t)
  PROVE  Busy(f, t, 0)
<1> DEFINE g == f \o t
           n == g[2]
           l == Len(f)
           m == Len(t)
<1>1. /\ l \in Nat /\ m \in Nat /\ Len(g) = l + m /\ l < Len(g)
      /\ \A i \in 1..m : g[l + i] = t[i]
      /\ \A i \in 2..Len(g) : g[i] \notin Markers
  BY Joined, LenProperties DEF Clear
<1>2. g[1] = 253 /\ n \in 1..255 /\ g[3] = 0 /\ Len(g) = 12 + n
  BY DEF Clear, Whole
<1> HIDE DEF g, l, m
<1>3. ASSUME NEW i \in 2..m PROVE t[i] \notin Markers
  <2>1. i \in 1..m /\ l + i \in 2..Len(g)
    BY <1>1
  <2> QED
    BY <1>1, <2>1
<1> HIDE DEF n
<1>4. n \in Octet /\ Len(g) >= 11 /\ l < 12 + n /\ 12 + n <= Len(g) + 0
  BY <1>1, <1>2 DEF Octet
<1> QED
  BY <1>2, <1>3, <1>4, Zenon DEF Busy, g, l, m, n

\* A frame ends when its last byte is in, or when it does not fit.
LEMMA FrameEnds ==
  ASSUME NEW f \in Seq(Octet), Len(f) >= 10, f[1] = 253, f[3] = 0, f[2] \in Octet,
         Receiver!Verdict(f) = Receiver!Silence
  PROVE  Len(f) # 12 + f[2]
<1> DEFINE n == f[2]
<1>1. Receiver!HeaderLen(f) = 10 /\ ~Receiver!Signed(f) /\ Receiver!HasHeader(f)
  <2>1. 0 % 2 = 0
    OBVIOUS
  <2> QED
    BY <2>1 DEF Receiver!HeaderLen, Receiver!IsV2, Receiver!STX2, Receiver!Signed, Receiver!HasHeader
<1>2. Receiver!FrameLen(f) = 10 + n + 2 + 0
  BY <1>1, Zenon DEF Receiver!FrameLen, Receiver!PayloadEnd
<1>3. ~Receiver!Complete(f)
  BY DEF Receiver!Verdict, Receiver!Silence
<1> HIDE DEF n
<1>4. n \in Octet
  BY DEF n
<1>5. 10 + n + 2 + 0 = 12 + n
  BY <1>4 DEF Octet
<1> QED
  BY <1>1, <1>2, <1>3, <1>5, Zenon DEF Receiver!Complete, n

\* What the framer has after the next byte of a frame it has begun.
LEMMA BusyByte ==
  ASSUME frame \in Seq(Octet), line \in Seq(Octet), line # <<>>, NEW k, Busy(frame, line, k),
         PushByte(Head(line))
  PROVE  \/ Quiet(frame', Tail(line))
         \/ /\ frame' = Append(frame, Head(line)) /\ frame' \o Tail(line) = frame \o line
            /\ Len(frame') < 12 + (frame \o line)[2]
            /\ \A i \in 2..Len(Tail(line)) : Tail(line)[i] \notin Markers
<1> DEFINE g == frame \o line
           n == g[2]
           c == Head(line)
           f == Append(frame, c)
           t == Tail(line)
<1>1. /\ c \in Octet /\ t \in Seq(Octet) /\ Len(t) = Len(line) - 1
      /\ f \in Seq(Octet) /\ Len(f) = Len(frame) + 1 /\ f \o t = g
  BY MoveByte, Zenon
<1>2. /\ g[1] = 253 /\ n \in Octet /\ g[3] = 0 /\ Len(frame) < 12 + n
      /\ \A i \in 2..Len(line) : line[i] \notin Markers
  BY Zenon DEF Busy
<1>3. \A i \in 1..Len(t) : t[i] \notin Markers
  <2>1. \A i \in 1..Len(t) : t[i] = line[i + 1]
    BY HeadTailProperties, Zenon
  <2>2. Len(line) \in Nat /\ Len(t) \in Nat
    BY <1>1, LenProperties
  <2> HIDE DEF t
  <2>3. ASSUME NEW i \in 1..Len(t) PROVE t[i] \notin Markers
    <3>1. i + 1 \in 2..Len(line)
      BY <1>1, <2>2
    <3>2. line[i + 1] \notin Markers
      BY <1>2, <3>1
    <3> QED
      BY <2>1, <3>2, Zenon
  <2> QED
    BY <2>3
<1>4. frame' = <<>> => Quiet(frame', t)
  BY <1>3 DEF Quiet
<1>5. /\ frame' = f \/ frame' = <<>>
      /\ frame # <<>> /\ frame' = f => Receiver!Verdict(f) = Receiver!Silence
  <2>1. CASE Receiver!Skip(c)
    BY <2>1 DEF Receiver!Skip
  <2>2. CASE Receiver!Begin(c)
    BY <2>2 DEF Receiver!Begin
  <2>3. CASE Receiver!Continue(c)
    BY <2>3 DEF Receiver!Continue
  <2> QED
    BY <2>1, <2>2, <2>3 DEF PushByte
<1>6. \A i \in 1..Len(f) : f[i] = g[i]
  <2> HIDE DEF f, t, g
  <2>1. \A i \in 1..Len(f) : (f \o t)[i] = f[i]
    BY <1>1, Joined, Zenon
  <2> QED
    BY <1>1, <2>1, Zenon
<1>7. Len(frame) \in Nat /\ (frame = <<>> => Len(frame) = 0)
  BY LenProperties
<1> HIDE DEF f, t, g, n
<1>8. ASSUME frame' = f PROVE Len(f) < 12 + n
  <2>1. CASE frame = <<>>
    BY <1>1, <1>2, <1>7, <2>1 DEF Octet
  <2>2. CASE frame # <<>> /\ Len(f) >= 10
    <3>1. f[1] = g[1] /\ f[2] = g[2] /\ f[3] = g[3]
      BY <1>6, <2>2
    <3>2. Receiver!Verdict(f) = Receiver!Silence
      BY <1>5, <1>8, <2>2
    <3>3. Len(f) # 12 + f[2]
      BY <1>1, <1>2, <2>2, <3>1, <3>2, FrameEnds DEF n
    <3>4. Len(f) # 12 + n
      BY <3>1, <3>3 DEF n
    <3> QED
      BY <1>1, <1>2, <1>7, <3>4 DEF Octet
  <2>3. CASE ~(Len(f) >= 10)
    BY <1>1, <1>2, <1>7, <2>3 DEF Octet
  <2> QED
    BY <2>1, <2>2, <2>3
<1>9. \A i \in 2..Len(t) : t[i] \notin Markers
  <2>1. Len(t) \in Nat
    BY <1>1, LenProperties
  <2> QED
    BY <1>3, <2>1
<1> QED
  BY <1>1, <1>4, <1>5, <1>8, <1>9, Zenon DEF f, t, g, n

\* A byte lost from a frame that was clear leaves a frame of which one byte is missing at most.
LEMMA LostByte ==
  ASSUME NEW f \in Seq(Octet), NEW t \in Seq(Octet), t # <<>>, Clear(f, t)
  PROVE  Quiet(f, Tail(t)) \/ Busy(f, Tail(t), 1)
<1> DEFINE g == f \o t
           u == Tail(t)
           h == f \o u
           l == Len(f)
           n == g[2]
<1>1. /\ l \in Nat /\ Len(t) \in Nat /\ Len(g) = l + Len(t)
      /\ \A i \in 1..l : g[i] = f[i]
      /\ \A i \in 1..Len(t) : g[l + i] = t[i]
  BY Joined, LenProperties
<1>2. u \in Seq(Octet) /\ Len(u) = Len(t) - 1 /\ \A i \in 1..Len(u) : u[i] = t[i + 1]
  BY HeadTailProperties
<1>3. /\ Len(h) = l + Len(u) /\ Len(u) \in Nat
      /\ \A i \in 1..l : h[i] = f[i]
      /\ \A i \in 1..Len(u) : h[l + i] = u[i]
  BY <1>2, Joined, LenProperties
<1>4. /\ g[1] = 253 /\ n \in 1..255 /\ g[3] = 0 /\ g[4] = 0 /\ Len(g) = 12 + n
      /\ \A i \in 2..Len(g) : g[i] \notin Markers
  BY DEF Clear, Whole
<1> HIDE DEF g, u, h, l, n
<1>5. ASSUME NEW i \in 1..Len(u) PROVE u[i] = g[l + 1 + i] /\ l + 1 + i \in 2..Len(g)
  <2>1. i + 1 \in 1..Len(t) /\ l + (i + 1) = l + 1 + i /\ l + 1 + i \in 2..Len(g)
    BY <1>1, <1>2, <1>3
  <2>2. g[l + (i + 1)] = t[i + 1]
    BY <1>1, <2>1
  <2>3. u[i] = t[i + 1]
    BY <1>2
  <2> QED
    BY <2>1, <2>2, <2>3
<1>6. \A i \in 1..Len(u) : u[i] \notin Markers
  BY <1>4, <1>5
<1>7. CASE f = <<>>
  BY <1>6, <1>7 DEF Quiet, u
<1>8. CASE f # <<>>
  <2>1. l >= 1 /\ Len(h) = 11 + n /\ Len(h) >= 12
    <3>1. l # 0
      BY <1>1, <1>8, EmptySeq DEF l
    <3> QED
      BY <1>1, <1>2, <1>3, <1>4, <3>1
  <2>2. h[1] = 253
    BY <1>1, <1>3, <1>4, <2>1
  <2>3. ASSUME NEW i \in {2, 3} PROVE h[i] = g[i] \/ (h[i] = g[i + 1] /\ l < i)
    <3>1. CASE i <= l
      <4>1. i \in 1..l
        BY <1>1, <3>1
      <4>2. g[i] = f[i]
        BY <1>1, <4>1, Zenon
      <4>3. h[i] = f[i]
        BY <1>3, <4>1, Zenon
      <4>4. h[i] = g[i]
        BY <4>2, <4>3, Zenon
      <4> QED
        BY <4>4, Zenon
    <3>2. CASE i > l
      <4>1. i - l \in 1..Len(u) /\ l + (i - l) = i /\ l + 1 + (i - l) = i + 1
        BY <1>1, <1>3, <2>1, <3>2
      <4>2. h[l + (i - l)] = u[i - l] /\ u[i - l] = g[l + 1 + (i - l)]
        BY <1>3, <1>5, <4>1
      <4> QED
        BY <1>1, <3>2, <4>1, <4>2
    <3> QED
      BY <1>1, <3>1, <3>2
  <2>4. h[2] = n \/ (h[2] = 0 /\ l < 2)
    <3>1. h[2] = g[2] \/ (h[2] = g[2 + 1] /\ l < 2)
      BY <2>3
    <3> QED
      BY <1>4, <3>1 DEF n
  <2>5. h[3] = 0
    <3>1. h[3] = g[3] \/ h[3] = g[3 + 1]
      BY <2>3
    <3> QED
      BY <1>4, <3>1
  <2> DEFINE k == h[2]
  <2>6. k \in {n, 0} /\ (k = 0 => l < 2)
    BY <1>4, <2>4
  <2> HIDE DEF k
  <2>7. k \in Octet /\ l < 12 + k /\ 12 + k <= Len(h) + 1 /\ Len(h) >= 11
    <3>1. l <= Len(g)
      BY <1>1
    <3>2. l < 12 + n
      <4>1. l < Len(g)
        BY DEF Clear, g, l
      <4> QED
        BY <1>4, <4>1
    <3> QED
      BY <1>1, <1>4, <2>1, <2>6, <3>2 DEF Octet
  <2>8. \A i \in 2..Len(u) : u[i] \notin Markers
    BY <1>3, <1>6
  <2> QED
    BY <2>2, <2>5, <2>7, <2>8, Zenon DEF Busy, h, u, l, k
<1> QED
  BY <1>7, <1>8 DEF u

\* The framer cannot be in the middle of a frame that has been sent in full.
LEMMA NotBusy ==
  ASSUME NEW f \in Seq(Octet)
  PROVE  ~Busy(f, <<>>, 0) /\ ~Clear(f, <<>>)
<1> DEFINE n == f[2]
           l == Len(f)
<1>1. f \o <<>> = f /\ l \in Nat
  BY ConcatEmptySeq, LenProperties
<1>2. ASSUME Busy(f, <<>>, 0) PROVE FALSE
  <2>1. n \in Octet /\ l < 12 + n /\ 12 + n <= l + 0
    BY <1>1, <1>2, Zenon DEF Busy
  <2>2. l \in Nat
    BY <1>1
  <2> HIDE DEF l, n
  <2> QED
    BY <2>1, <2>2 DEF Octet
<1>3. <<>> \in Seq(Octet)
  OBVIOUS
<1> QED
  BY <1>2, <1>3, ClearIsBusy

\* Bytes put on the line behind a frame of which the framer has all bytes but one, or none.
LEMMA NextFrame ==
  ASSUME NEW f \in Seq(Octet), NEW g \in Seq(Octet), Whole(g),
         \A i \in 2..Len(g) : g[i] \notin Markers
  PROVE  /\ Quiet(f, <<>>) => f = <<>> /\ Clear(f, g)
         /\ Busy(f, <<>>, 1) => Busy(f, g, 0)
         /\ ~Busy(f, <<>>, 0)
<1>1. f \o <<>> = f
  BY ConcatEmptySeq
<1> DEFINE h == f \o g
           n == f[2]
           l == Len(f)
<1>2. /\ l \in Nat /\ Len(g) \in Nat /\ Len(h) = l + Len(g)
      /\ \A i \in 1..l : h[i] = f[i]
  BY Joined, LenProperties
<1>3. Len(g) >= 13
  <2> DEFINE k == g[2]
  <2>1. k \in 1..255 /\ Len(g) = 12 + k
    BY DEF Whole
  <2> HIDE DEF k
  <2> QED
    BY <2>1
<1>4. ASSUME Quiet(f, <<>>) PROVE f = <<>> /\ Clear(f, g)
  <2>1. f = <<>> /\ h = g /\ l = 0
    BY <1>4, ConcatEmptySeq, EmptySeq DEF Quiet
  <2> HIDE DEF h, l
  <2>2. l < Len(h)
    BY <1>2, <1>3, <2>1
  <2> QED
    BY <2>1, <2>2, Zenon DEF Clear, h, l
<1>5. ASSUME Busy(f, <<>>, 1) PROVE Busy(f, g, 0)
  <2>1. f[1] = 253 /\ n \in Octet /\ f[3] = 0 /\ l >= 11 /\ l < 12 + n /\ 12 + n <= l + 1
    BY <1>1, <1>5 DEF Busy
  <2> HIDE DEF h, l
  <2>2. 1 \in 1..l /\ 2 \in 1..l /\ 3 \in 1..l
    BY <1>2, <2>1
  <2>3. h[1] = 253 /\ h[2] = n /\ h[3] = 0
    BY <1>2, <2>1, <2>2
  <2> HIDE DEF n
  <2>4. Len(h) >= 11 /\ 12 + n <= Len(h) + 0
    BY <1>2, <1>3, <2>1 DEF Octet
  <2> QED
    BY <2>1, <2>3, <2>4, Zenon DEF Busy, h, l
<1> QED
  BY <1>4, <1>5, NotBusy

\* A byte the line makes up ends a frame of which the framer has all bytes but one.
LEMMA MadeUp ==
  ASSUME frame \in Seq(Octet), NEW c \in Octet, PushByte(c), Busy(frame, <<>>, 1)
  PROVE  frame' = <<>>
<1> DEFINE f == Append(frame, c)
           n == frame[2]
<1>1. frame \o <<>> = frame
  BY ConcatEmptySeq
<1>2. /\ frame[1] = 253 /\ n \in Octet /\ frame[3] = 0 /\ Len(frame) >= 11
      /\ Len(frame) < 12 + n /\ 12 + n <= Len(frame) + 1 /\ Len(frame) \in Nat
  BY <1>1, LenProperties DEF Busy
<1>3. f \in Seq(Octet) /\ Len(f) = Len(frame) + 1 /\ \A i \in 1..Len(frame) : f[i] = frame[i]
  BY AppendProperties
<1>4. frame # <<>>
  BY <1>2, EmptySeq
<1>5. Receiver!Continue(c)
  BY <1>4 DEF PushByte, Receiver!Skip, Receiver!Begin
<1>6. frame' = IF Receiver!Verdict(f) = Receiver!Silence THEN f ELSE <<>>
  BY <1>5 DEF Receiver!Continue
<1> HIDE DEF f
<1>7. f[1] = 253 /\ f[2] = n /\ f[3] = 0
  <2>1. 1 \in 1..Len(frame) /\ 2 \in 1..Len(frame) /\ 3 \in 1..Len(frame)
    BY <1>2
  <2> QED
    BY <1>2, <1>3, <2>1
<1> HIDE DEF n
<1>8. Len(f) >= 10 /\ Len(f) = 12 + n
  BY <1>2, <1>3 DEF Octet
<1>9. Receiver!Verdict(f) # Receiver!Silence
  BY <1>2, <1>3, <1>7, <1>8, FrameEnds
<1> QED
  BY <1>6, <1>9, Zenon

\* Between frames the framer passes over everything that is no start marker.
LEMMA QuietByte ==
  ASSUME line \in Seq(Octet), line # <<>>, Quiet(frame, line), PushByte(Head(line))
  PROVE  Quiet(frame', Tail(line))
<1> DEFINE t == Tail(line)
<1>1. /\ Head(line) = line[1] /\ t \in Seq(Octet) /\ Len(t) = Len(line) - 1
      /\ \A i \in 1..Len(t) : t[i] = line[i + 1]
  BY HeadTailProperties
<1>2. Len(line) \in Nat /\ Len(line) > 0
  BY LenProperties, EmptySeq
<1>3. Head(line) \notin Markers
  <2>1. 1 \in 1..Len(line)
    BY <1>2
  <2> QED
    BY <1>1, <2>1 DEF Quiet
<1>4. Receiver!Skip(Head(line))
  BY <1>3 DEF PushByte, Receiver!Begin, Receiver!Continue, Receiver!STX1, Receiver!STX2, Markers, Quiet
<1>5. frame' = <<>>
  BY <1>4 DEF Receiver!Skip
<1> HIDE DEF t
<1>6. ASSUME NEW i \in 1..Len(t) PROVE t[i] \notin Markers
  <2>1. i + 1 \in 1..Len(line)
    BY <1>1, <1>2
  <2> QED
    BY <1>1, <2>1 DEF Quiet
<1> QED
  BY <1>5, <1>6 DEF Quiet, t

\* Losing the first byte on the line between frames changes nothing.
LEMMA QuietTail ==
  ASSUME NEW f, NEW t \in Seq(Octet), t # <<>>, Quiet(f, t)
  PROVE  Quiet(f, Tail(t))
<1> DEFINE u == Tail(t)
<1>1. u \in Seq(Octet) /\ Len(u) = Len(t) - 1 /\ \A i \in 1..Len(u) : u[i] = t[i + 1]
  BY HeadTailProperties
<1>2. Len(t) \in Nat /\ Len(t) > 0
  BY LenProperties, EmptySeq
<1> HIDE DEF u
<1>3. ASSUME NEW i \in 1..Len(u) PROVE u[i] \notin Markers
  <2>1. i + 1 \in 1..Len(t)
    BY <1>1, <1>2
  <2> QED
    BY <1>1, <2>1 DEF Quiet
<1> QED
  BY <1>3 DEF Quiet, u

\* What the framer is in the middle of, while it has not lost more than one byte.
Recovers ==
  /\ faults.lost = 0 => Quiet(frame, line) \/ Clear(frame, line)
  /\ faults.lost = 1 =>
       /\ Quiet(frame, line) \/ Busy(frame, line, IF since = 0 THEN 1 ELSE 0)
       /\ since = 2 => ~damaged

Recovering == plain /\ faults.changed = 0 => Recovers

LEMMA RecoversDeliver ==
  ASSUME Typed, Recovers, Deliver
  PROVE  Recovers'
<1>1. /\ line # <<>> /\ PushByte(Head(line)) /\ line' = Tail(line)
      /\ faults' = faults /\ since' = since /\ damaged' = damaged
  BY DEF Deliver
<1>2. line \in Seq(Octet) /\ frame \in Seq(Octet)
  BY DEF Typed, TypeOK
<1>3. Quiet(frame, line) => Quiet(frame', line')
  BY <1>1, <1>2, QuietByte
<1>4. ASSUME NEW k, Busy(frame, line, k)
      PROVE  Quiet(frame', line') \/ Busy(frame', line', k)
  <2>1. \/ Quiet(frame', Tail(line))
        \/ /\ frame' = Append(frame, Head(line)) /\ frame' \o Tail(line) = frame \o line
           /\ Len(frame') < 12 + (frame \o line)[2]
           /\ \A i \in 2..Len(Tail(line)) : Tail(line)[i] \notin Markers
    BY <1>1, <1>2, <1>4, BusyByte
  <2> QED
    BY <1>1, <1>4, <2>1, Zenon DEF Busy
<1>5. ASSUME Clear(frame, line)
      PROVE  Quiet(frame', line') \/ Clear(frame', line')
  <2>1. Busy(frame, line, 0)
    BY <1>2, <1>5, ClearIsBusy
  <2>2. \/ Quiet(frame', Tail(line))
        \/ /\ frame' \o Tail(line) = frame \o line
           /\ Len(frame') < 12 + (frame \o line)[2]
    BY <1>1, <1>2, <2>1, BusyByte
  <2>3. Len(frame \o line) = 12 + (frame \o line)[2]
    BY <1>5 DEF Clear, Whole
  <2> QED
    BY <1>1, <1>5, <2>2, <2>3, Zenon DEF Clear
<1> QED
  BY <1>1, <1>3, <1>4, <1>5, Zenon DEF Recovers

LEMMA RecoveringStep == Typed /\ Recovering /\ [Next]_vars => Recovering'
<1> SUFFICES ASSUME Typed, Recovering, [Next]_vars, plain', faults'.changed = 0
             PROVE  Recovers'
  BY DEF Recovering
<1>0. /\ scenario \in Scenario /\ faults.lost \in Nat /\ faults.changed \in Nat /\ since \in 0..2
      /\ faults \in [lost : 0..MaxFaults[scenario], changed : 0..MaxFaults[scenario]]
      /\ frame \in Seq(Octet) /\ line \in Seq(Octet)
  BY BoundAssumption DEF Typed, TypeOK
<1>1. ASSUME NEW s \in Sends[scenario], Send(s) PROVE Recovers'
  <2>1. /\ Sendable(s.msg, s.values) /\ line = <<>>
        /\ line' = FrameOf(s.msg, s.values) /\ line' \in Seq(Octet)
    BY <1>0, <1>1, Sending
  <2>2. Whole(line')
    BY <2>1, FrameBytes
  <2>3. /\ frame' = frame /\ faults' = faults /\ since' = (IF since = 2 THEN 2 ELSE since + 1)
        /\ damaged' = (frame # <<>>)
    BY <1>1, Zenon DEF Send
  <2>4. plain /\ \A i \in 2..Len(line') : line'[i] \notin Markers
    <3> DEFINE out == serialize(s.msg, s.values, Sys, Comp, Seqno, s.size)
    <3>1. plain' = (plain /\ \A i \in 2..Len(out.bytes) : out.bytes[i] \notin {253, 254})
          /\ line' = out.bytes
      BY <1>1, Zenon DEF Send
    <3> HIDE DEF out
    <3>2. plain /\ \A i \in 2..Len(out.bytes) : out.bytes[i] \notin {253, 254}
      BY <3>1, Zenon
    <3> QED
      BY <3>1, <3>2 DEF Markers
  <2>5. Recovers
    BY <2>3, <2>4 DEF Recovering
  <2>6. /\ Quiet(frame, <<>>) => frame = <<>> /\ Clear(frame, line')
        /\ Busy(frame, <<>>, 1) => Busy(frame, line', 0)
        /\ ~Busy(frame, <<>>, 0)
    BY <1>0, <2>1, <2>2, <2>4, NextFrame
  <2>7. ASSUME faults.lost = 0 PROVE Clear(frame', line')
    <3>1. Quiet(frame, <<>>) \/ Clear(frame, <<>>)
      BY <2>1, <2>5, <2>7 DEF Recovers
    <3>2. ~Clear(frame, <<>>)
      BY <1>0, <2>1, <2>6, ClearIsBusy
    <3> QED
      BY <2>3, <2>6, <3>1, <3>2
  <2>8. ASSUME faults.lost = 1
        PROVE  Busy(frame', line', 0) /\ since' # 0 /\ (since' = 2 => ~damaged')
    <3>1. Quiet(frame, <<>>) \/ Busy(frame, <<>>, IF since = 0 THEN 1 ELSE 0)
      BY <2>1, <2>5, <2>8, Zenon DEF Recovers
    <3>2. since' # 0 /\ (since' = 2 => since # 0)
      BY <1>0, <2>3
    <3>3. CASE Quiet(frame, <<>>)
      <4>1. frame = <<>> /\ Clear(frame, line')
        BY <2>6, <3>3
      <4>2. Busy(frame, line', 0)
        BY <1>0, <2>1, <4>1, ClearIsBusy
      <4> QED
        BY <2>3, <3>2, <4>1, <4>2
    <3>4. CASE since = 0 /\ Busy(frame, <<>>, 1)
      BY <2>3, <2>6, <3>2, <3>4
    <3> QED
      BY <2>6, <3>1, <3>3, <3>4
  <2> QED
    BY <2>3, <2>7, <2>8, Zenon DEF Recovers
<1>2. ASSUME NEW s \in Sends[scenario], SendFails(s) PROVE Recovers'
  BY <1>2 DEF SendFails, Recovering, Recovers
<1>3. CASE Deliver
  <2>1. Recovers
    BY <1>3 DEF Deliver, Recovering
  <2> QED
    BY <1>3, <2>1, RecoversDeliver
<1>4. CASE Lose
  <2>1. /\ line # <<>> /\ line' = Tail(line) /\ frame' = frame
        /\ faults' = [faults EXCEPT !.lost = @ + 1] /\ since' = 0 /\ plain' = plain
    BY <1>4 DEF Lose
  <2>2. faults'.lost = faults.lost + 1 /\ faults'.changed = faults.changed
    BY <1>0, <2>1
  <2>3. Recovers
    BY <2>1, <2>2 DEF Recovering
  <2>4. Quiet(frame, line) => Quiet(frame', line')
    BY <1>0, <2>1, QuietTail
  <2>5. Clear(frame, line) => Quiet(frame', line') \/ Busy(frame', line', 1)
    BY <1>0, <2>1, LostByte
  <2>6. faults'.lost = 1 => faults.lost = 0
    BY <1>0, <2>2
  <2>7. faults'.lost # 0 /\ since' = 0
    BY <1>0, <2>1, <2>2
  <2> QED
    BY <2>3, <2>4, <2>5, <2>6, <2>7 DEF Recovers
<1>5. ASSUME NEW c \in Garbage, Change(c) PROVE Recovers'
  <2>1. faults' = [faults EXCEPT !.changed = @ + 1]
    BY <1>5 DEF Change
  <2>2. faults'.changed = faults.changed + 1
    BY <1>0, <2>1
  <2> QED
    BY <1>0, <2>2
<1>6. ASSUME NEW c \in Noise[scenario], MakeUp(c) PROVE Recovers'
  <2>1. /\ line = <<>> /\ line' = line /\ faults' = faults /\ since' = since
        /\ damaged' = damaged /\ plain' = plain /\ PushByte(c)
    BY <1>6 DEF MakeUp
  <2>2. Recovers
    BY <2>1 DEF Recovering
  <2>3. c \in Octet
    BY <1>0, NoiseAssumption
  <2>4. Quiet(frame, <<>>) => frame' = <<>>
    BY <1>0, <1>6, NoiseIgnored DEF Quiet
  <2>5. Busy(frame, <<>>, 1) => frame' = <<>>
    BY <1>0, <2>1, <2>3, MadeUp
  <2>6. ~Busy(frame, <<>>, 0) /\ ~Clear(frame, <<>>)
    BY <1>0, NotBusy
  <2>7. frame' = <<>> => Quiet(frame', line')
    BY <2>1, EmptySeq DEF Quiet
  <2>8. ASSUME faults.lost = 0 \/ faults.lost = 1 PROVE frame' = <<>>
    <3>1. Quiet(frame, <<>>) \/ Busy(frame, <<>>, 1)
      BY <2>1, <2>2, <2>6, <2>8, Zenon DEF Recovers
    <3> QED
      BY <2>4, <2>5, <3>1
  <2> QED
    BY <2>1, <2>2, <2>7, <2>8, Zenon DEF Recovers
<1>7. CASE UNCHANGED vars
  BY <1>7 DEF vars, Recovering, Recovers
<1> QED
  BY <1>1, <1>2, <1>3, <1>4, <1>5, <1>6, <1>7 DEF Next

\* A lost byte costs the frame it belongs to and at most the next one, with a framer that has
\* no timeout: what it is in the middle of lacks one byte until the next frame comes, which
\* completes it; what is left of that frame is passed over, because nothing in it begins a
\* frame.  This holds for a buffer of any size.
THEOREM TwoFramesLost == Spec => []LossCostsTwoFrames
<1>1. Init => Recovering
  <2> SUFFICES ASSUME Init PROVE Recovers
    BY DEF Recovering
  <2>1. frame = <<>> /\ line = <<>> /\ faults.lost = 0
    BY DEF Init
  <2> QED
    BY <2>1, EmptySeq DEF Recovers, Quiet
<1>2. Recovering => LossCostsTwoFrames
  BY DEF Recovering, Recovers, LossCostsTwoFrames
<1> QED
  BY <1>1, <1>2, TypedInit, TypedStep, RecoveringStep, PTL DEF Spec
===============================================================================
