-------------------------- MODULE NmeaFramer_proofs ---------------------------
(***************************************************************************)
(* The zero-copy NMEA framer, for every alphabet, buffer size and field     *)
(* limit: its indices stay in the buffer, the views it cuts stay in what it *)
(* has stored and tile it, a view its caller holds keeps its text until the *)
(* buffer is written again, and every answer is the one that NmeaSentence   *)
(* gives to the text of the sentence.                                       *)
(***************************************************************************)
EXTENDS NmeaFramerRefinement, Octets_proofs

\* A message is made of string views, and views that end within one bound end within any
\* larger one.
LEMMA ViewsWithinLarger ==
  ASSUME NEW m \in MessageView, NEW a \in Int, NEW b \in Int, a <= b,
         \A v \in Views(m) : ViewWithin(v, a)
  PROVE  \A v \in Views(m) : ViewWithin(v, b)
<1>1. Views(m) \subseteq StringView
  BY DEF Views, MessageView
<1>2. \A v \in StringView : v.start + v.len \in Int
  BY SizeAssumption DEF StringView
<1> QED
  BY <1>1, <1>2 DEF ViewWithin

\* Cutting a token at buffer_idx gives views that end there at the latest.
LEMMA CutWithin ==
  ASSUME TypeOK, SpanInv, pc = "payload"
  PROVE  /\ ViewWithCurrentField \in MessageView
         /\ \A v \in Views(ViewWithCurrentField) : ViewWithin(v, buffer_idx)
<1> USE SizeAssumption, AddressAssumption
<1>1. /\ view \in MessageView /\ field_start_idx \in Nat /\ field_start_idx <= buffer_idx
      /\ buffer_idx \in 0..BufferSize
      /\ \A v \in Views(view) : ViewWithin(v, buffer_idx)
  BY DEF TypeOK, SpanInv
<1>2. CurrentField \in StringView /\ ViewWithin(CurrentField, buffer_idx)
  BY <1>1 DEF CurrentField, StringView, ViewWithin
<1>3. CASE is_first_field /\ CurrentField.len >= TalkerLen + TypeLen
  <2> DEFINE talker == [start |-> field_start_idx, len |-> TalkerLen]
             type == [start |-> field_start_idx + TalkerLen, len |-> TypeLen]
  <2>1. /\ talker \in StringView /\ ViewWithin(talker, buffer_idx)
        /\ type \in StringView /\ ViewWithin(type, buffer_idx)
    BY <1>1, <1>3 DEF CurrentField, StringView, ViewWithin
  <2>2. ViewWithCurrentField = [view EXCEPT !.talker_id = talker, !.message_type = type]
    BY <1>3 DEF ViewWithCurrentField
  <2> HIDE DEF talker, type
  <2> QED
    BY <1>1, <2>1, <2>2 DEF MessageView, Views
<1>4. CASE ~is_first_field /\ Len(view.fields) < MaxFields
  <2>1. view.fields \in Seq(StringView)
    BY <1>1 DEF MessageView
  <2>2. ViewWithCurrentField = [view EXCEPT !.fields = Append(@, CurrentField)]
    BY <1>4 DEF ViewWithCurrentField
  <2> DEFINE fields == Append(view.fields, CurrentField)
  <2>3. /\ fields \in Seq(StringView) /\ Len(fields) = Len(view.fields) + 1
        /\ \A k \in 1..Len(view.fields) : fields[k] = view.fields[k]
        /\ fields[Len(view.fields) + 1] = CurrentField
    BY <1>2, <2>1, AppendProperties
  <2>4. \A k \in 1..Len(fields) : ViewWithin(fields[k], buffer_idx)
    BY <1>1, <1>2, <2>1, <2>3 DEF Views
  <2> HIDE DEF fields
  <2>5. ViewWithCurrentField = [view EXCEPT !.fields = fields]
    BY <2>2 DEF fields
  <2> QED
    BY <1>1, <2>3, <2>4, <2>5 DEF MessageView, Views
<1>5. CASE ViewWithCurrentField = view
  BY <1>1, <1>5
<1> QED
  BY <1>3, <1>4, <1>5 DEF ViewWithCurrentField

\* create_framer() before the first byte.
LEMMA InitFramer == Init => FramerInv
<1> SUFFICES ASSUME Init PROVE FramerInv
  OBVIOUS
<1> USE SizeAssumption DEF Init
<1>1. NoMessage \in MessageView /\ \A v \in Views(NoMessage) : ViewWithin(v, 0)
  BY EmptySeq DEF NoMessage, MessageView, Views, EmptyView, StringView, ViewWithin
<1>2. TypeOK
  BY <1>1 DEF TypeOK, Octet, Slot, Silence
<1>3. SpanInv
  BY <1>1 DEF SpanInv, Silence, Nothing
<1> QED
  BY <1>2, <1>3 DEF FramerInv

\* FramerInv is inductive: no byte, in any state of the parser, moves an index or a view
\* out of the buffer.
LEMMA NextFramer == FramerInv /\ [Next]_vars => FramerInv'
<1> SUFFICES ASSUME TypeOK, SpanInv, [Next]_vars PROVE TypeOK' /\ SpanInv'
  BY DEF FramerInv
<1> USE SizeAssumption
<1>1. ASSUME NEW c \in Octet, SearchStart(c) PROVE TypeOK' /\ SpanInv'
  <2>1. NoMessage \in MessageView /\ \A v \in Views(NoMessage) : ViewWithin(v, 0)
    BY EmptySeq DEF NoMessage, MessageView, Views, EmptyView, StringView, ViewWithin
  <2>2. CASE c \in StartDelimiter
    <3>1. TypeOK'
      BY <1>1, <2>1, <2>2 DEF SearchStart, Reset, TypeOK, Octet, Await, Silence
    <3>2. SpanInv'
      BY <1>1, <2>1, <2>2 DEF SearchStart, Reset, SpanInv, Await, Silence
    <3> QED
      BY <3>1, <3>2
  <2>3. CASE c \notin StartDelimiter
    <3>1. TypeOK'
      BY <1>1, <2>3 DEF SearchStart, Reset, TypeOK, Octet, Await, Silence
    <3>2. SpanInv'
      BY <1>1, <2>3 DEF SearchStart, Reset, SpanInv, Await, Silence
    <3> QED
      BY <3>1, <3>2
  <2> QED
    BY <2>2, <2>3
<1>2. ASSUME NEW c \in Octet, ReadPayload(c) PROVE TypeOK' /\ SpanInv'
  <2>1. /\ view' \in MessageView /\ is_first_field' \in BOOLEAN
        /\ field_start_idx' \in 0..BufferSize + 1
        /\ \A v \in Views(view') : ViewWithin(v, buffer_idx)
    <3>1. CASE c \in {STAR, LF, COMMA}
      <4>1. /\ view' = ViewWithCurrentField /\ is_first_field' = FALSE
            /\ field_start_idx' = buffer_idx + 1
        BY <1>2, <3>1 DEF ReadPayload, CutField
      <4>2. /\ ViewWithCurrentField \in MessageView
            /\ \A v \in Views(ViewWithCurrentField) : ViewWithin(v, buffer_idx)
        BY <1>2, CutWithin DEF ReadPayload
      <4>3. field_start_idx' \in 0..BufferSize + 1
        BY <4>1 DEF TypeOK
      <4>4. view' \in MessageView /\ \A v \in Views(view') : ViewWithin(v, buffer_idx)
        BY <4>1, <4>2, Zenon
      <4> QED
        BY <4>1, <4>3, <4>4
    <3>2. CASE c \notin {STAR, LF, COMMA}
      BY <1>2, <3>2 DEF ReadPayload, CutField, TypeOK, SpanInv
    <3> QED
      BY <3>1, <3>2
  <2>2. CASE /\ UNCHANGED <<calculated_checksum, buffer, buffer_idx, held>>
             /\ pc' = "hex1" /\ output' \in [kind : ErrorKind \union {"none"}]
    <3>1. TypeOK'
      BY <1>2, <2>1, <2>2 DEF ReadPayload, TypeOK
    <3>2. output'.kind # "view"
      BY <2>2 DEF ErrorKind
    <3>3. SpanInv'
      BY <2>1, <2>2, <3>2 DEF SpanInv
    <3> QED
      BY <3>1, <3>3
  <2>3. CASE /\ c \notin {STAR, LF} /\ buffer_idx < BufferSize
             /\ StoreChar(c) /\ Await("payload")
    <3>1. buffer_idx' \in 0..BufferSize /\ buffer_idx' = buffer_idx + 1
      BY <2>3 DEF StoreChar, TypeOK
    <3>2. buffer' \in [Slot -> Octet] /\ calculated_checksum' \in Octet
      BY <2>3, XorOctetType DEF StoreChar, TypeOK, Slot
    <3>3. TypeOK'
      BY <1>2, <2>1, <2>3, <3>1, <3>2 DEF ReadPayload, Await, Silence, TypeOK
    <3>4. \A v \in Views(view') : ViewWithin(v, buffer_idx')
      BY <2>1, <3>1, ViewsWithinLarger DEF TypeOK
    <3>5. field_start_idx' <= buffer_idx'
      BY <1>2, <2>3, <3>1 DEF ReadPayload, CutField, TypeOK, SpanInv
    <3>6. output'.kind = "none" /\ held'.kind = "nothing"
      BY <2>3 DEF Await, Silence, StoreChar, Nothing
    <3> QED
      BY <3>3, <3>4, <3>5, <3>6 DEF SpanInv
  <2> QED
    BY <1>2, <2>2, <2>3 DEF ReadPayload, Overrun, Fits, Await, YieldError, Silence, ErrorKind
<1>3. ASSUME NEW c \in Octet, ReadHex1(c) \/ ReadHex2(c) \/ ReadCR(c) PROVE TypeOK' /\ SpanInv'
  <2>1. TypeOK'
    BY <1>3 DEF ReadHex1, ReadHex2, ReadCR, locals, TypeOK, Await, YieldError, Silence, ErrorKind
  <2>2. output'.kind # "view" /\ pc' # "payload" /\ UNCHANGED <<view, buffer_idx, held>>
    BY <1>3 DEF ReadHex1, ReadHex2, ReadCR, locals, Await, YieldError, Silence
  <2> QED
    BY <2>1, <2>2 DEF SpanInv
<1>4. ASSUME NEW c \in Octet, ReadLF(c) PROVE TypeOK' /\ SpanInv'
  <2>1. UNCHANGED <<buffer, locals>> /\ pc' = "start"
    BY <1>4 DEF ReadLF, YieldError
  <2>2. CASE output'.kind \in ErrorKind /\ output' = [kind |-> output'.kind] /\ UNCHANGED held
    <3>1. TypeOK'
      BY <2>1, <2>2 DEF TypeOK, locals
    <3>2. SpanInv'
      BY <2>1, <2>2 DEF SpanInv, locals, ErrorKind
    <3> QED
      BY <3>1, <3>2
  <2>3. CASE /\ output' = [kind |-> "view", view |-> view]
             /\ held' = [kind |-> "held", view |-> view, text |-> MessageText(view)]
    <3>1. \A v \in Views(view) : ViewWithin(v, BufferSize)
      BY ViewsWithinLarger DEF SpanInv, TypeOK
    <3>2. TypeOK'
      BY <2>1, <2>3 DEF TypeOK, locals
    <3>3. SpanInv'
      BY <2>1, <2>3, <3>1 DEF SpanInv, locals, TypeOK
    <3> QED
      BY <3>2, <3>3
  <2> QED
    BY <1>4, <2>2, <2>3 DEF ReadLF, YieldError, ErrorKind
<1>5. CASE UNCHANGED vars
  BY <1>5 DEF vars, locals, TypeOK, SpanInv
<1> QED
  BY <1>1, <1>2, <1>3, <1>4, <1>5, CharAssumption DEF Next, push_byte

\* At every step of every run, the indices and views are of their types and within the
\* stored part of the buffer.
THEOREM FramerInvariant == Spec => []FramerInv
  BY InitFramer, NextFramer, PTL DEF Spec

\* A view returned by push_byte(), or still held by its caller, lies inside the buffer:
\* reading it never leaves the memory the framer was given.
THEOREM ReturnedViewsInBounds == Spec => []ViewsInBounds
<1>1. FramerInv => ViewsInBounds
  BY DEF FramerInv, SpanInv, ViewsInBounds, ViewWithin
<1> QED
  BY <1>1, FramerInvariant, PTL

\* A view the caller holds reads the same until the framer stores the next payload byte.
THEOREM HeldViewsReadable == Spec => []HeldViewReadable
<1>1. Init => HeldViewReadable
  <2>1. Init => held.kind # "held"
    BY DEF Init, Nothing
  <2> QED
    BY <2>1 DEF HeldViewReadable
<1>2. HeldViewReadable /\ [Next]_vars => HeldViewReadable'
  <2> SUFFICES ASSUME HeldViewReadable, [Next]_vars PROVE HeldViewReadable'
    OBVIOUS
  <2>1. CASE UNCHANGED <<buffer, held>>
    BY <2>1 DEF HeldViewReadable, MessageText, Text, CharAt
  <2>2. CASE held' = Nothing
    BY <2>2 DEF HeldViewReadable, Nothing
  <2>3. CASE /\ UNCHANGED buffer
             /\ held' = [kind |-> "held", view |-> view, text |-> MessageText(view)]
    BY <2>3 DEF HeldViewReadable, MessageText, Text, CharAt
  <2>4. ASSUME NEW c \in Char, push_byte(c)
        PROVE  \/ UNCHANGED <<buffer, held>>
               \/ held' = Nothing
               \/ /\ UNCHANGED buffer
                  /\ held' = [kind |-> "held", view |-> view, text |-> MessageText(view)]
    BY <2>4 DEF push_byte, SearchStart, ReadPayload, Overrun, StoreChar, ReadHex1, ReadHex2, ReadCR, ReadLF
  <2>5. CASE UNCHANGED vars
    BY <2>1, <2>5 DEF vars
  <2> QED
    BY <2>1, <2>2, <2>3, <2>4, <2>5 DEF Next
<1> QED
  BY <1>1, <1>2, PTL DEF Spec

\* Every byte of a sentence brings the framer closer to its end, whatever the byte is.
LEMMA NextProgress == FramerInv /\ ProgressInv /\ [Next]_vars => ProgressInv'
<1> SUFFICES ASSUME FramerInv, ProgressInv, [Next]_vars PROVE ProgressInv'
  OBVIOUS
<1> USE SizeAssumption
<1>1. \A c \in Octet : /\ Append(sentence, c) \in Seq(Octet)
                      /\ Append(sentence, c) # <<>>
                      /\ Len(Append(sentence, c)) = Len(sentence) + 1
  BY AppendProperties DEF ProgressInv
<1>2. buffer_idx \in 0..BufferSize /\ Len(sentence) \in Nat
  BY LenProperties DEF FramerInv, TypeOK, ProgressInv
<1>3. ASSUME NEW c \in Octet, SearchStart(c) PROVE ProgressInv'
  <2>1. sentence = <<>> /\ Len(sentence) = 0 /\ <<>> \in Seq(Octet)
    BY <1>3, EmptySeq DEF SearchStart, ProgressInv
  <2>2. CASE c \in StartDelimiter
    BY <1>1, <1>3, <2>1, <2>2 DEF SearchStart, Reset, Await, Read, ProgressInv
  <2>3. CASE c \notin StartDelimiter
    BY <1>3, <2>1, <2>3 DEF SearchStart, Await, ProgressInv
  <2> QED
    BY <2>2, <2>3
<1>4. ASSUME NEW c \in Octet, ReadPayload(c) PROVE ProgressInv'
  <2>1. Read(c) /\ sentence' = Append(sentence, c)
    BY <1>4 DEF ReadPayload, Overrun, Read
  <2>2. \/ pc' = "hex1"
        \/ pc' = "payload" /\ buffer_idx' = buffer_idx + 1
    BY <1>4 DEF ReadPayload, Overrun, StoreChar, Await, YieldError
  <2>3. Len(sentence) = buffer_idx + 1
    BY <1>4 DEF ReadPayload, ProgressInv
  <2> QED
    BY <1>1, <1>2, <2>1, <2>2, <2>3 DEF ProgressInv
<1>5. ASSUME NEW c \in Octet, ReadHex1(c) PROVE ProgressInv'
  BY <1>1, <1>2, <1>5 DEF ReadHex1, Await, Read, ProgressInv
<1>6. ASSUME NEW c \in Octet, ReadHex2(c) PROVE ProgressInv'
  BY <1>1, <1>2, <1>6 DEF ReadHex2, Await, Read, ProgressInv
<1>7. ASSUME NEW c \in Octet, ReadCR(c) PROVE ProgressInv'
  <2>1. CASE c = CR
    BY <1>1, <1>2, <1>7, <2>1 DEF ReadCR, Await, Read, ProgressInv
  <2>2. CASE c # CR
    BY <1>7, <2>2, EmptySeq DEF ReadCR, YieldError, SentenceOver, ProgressInv
  <2> QED
    BY <2>1, <2>2
<1>8. ASSUME NEW c \in Octet, ReadLF(c) PROVE ProgressInv'
  BY <1>8, EmptySeq DEF ReadLF, YieldError, SentenceOver, ProgressInv
<1>9. CASE UNCHANGED vars
  BY <1>9 DEF vars, locals, ProgressInv
<1> QED
  BY <1>3, <1>4, <1>5, <1>6, <1>7, <1>8, <1>9, CharAssumption DEF Next, push_byte

\* The framer is never inside a sentence for more than BufferSize + 5 bytes.
THEOREM Resynchronises == Spec => []ResynchronisesInTime
<1>1. Init => ProgressInv
  BY EmptySeq DEF Init, ProgressInv
<1>2. FramerInv /\ ProgressInv => ResynchronisesInTime
  <2> SUFFICES ASSUME FramerInv, ProgressInv PROVE Len(sentence) <= BufferSize + 5
    BY DEF ProgressInv, ResynchronisesInTime
  <2>1. Len(sentence) \in Nat /\ buffer_idx \in 0..BufferSize
    BY LenProperties DEF FramerInv, TypeOK, ProgressInv
  <2>2. sentence = <<>> => Len(sentence) = 0
    BY EmptySeq
  <2>3. pc \in {"start", "payload", "hex1", "hex2", "cr", "lf"}
    BY DEF FramerInv, TypeOK
  <2> QED
    BY <2>1, <2>2, <2>3, SizeAssumption DEF ProgressInv
<1> QED
  BY <1>1, <1>2, NextProgress, FramerInvariant, PTL DEF Spec

-------------------------------------------------------------------------------
(* NmeaSentence's operators on a text that grows *)

\* The exclusive or that NmeaSentence speaks of is that of the framer.
LEMMA SameXor == \A s : Sentence!XorOf(s) = XorOf(s)
BY Zenon DEF Sentence!XorOf, XorOf, Sentence!XorOctet, XorOctet, Sentence!BitOf, BitOf

\* And so are the separators.
LEMMA SameCuts == \A s : Sentence!Cuts(s) = CutsOf(s)
BY Zenon DEF Sentence!Cuts, CutsOf, Separator, Sentence!COMMA, COMMA, Sentence!STAR, STAR,
             Sentence!LF, LF

\* A byte more is a separator more, or none.
LEMMA CutsAppend ==
  ASSUME NEW s \in Seq(Octet), NEW c \in Octet
  PROVE  /\ Sentence!Cuts(s) \in Seq(Nat)
         /\ Sentence!Cuts(Append(s, c)) =
              IF c \in Separator THEN Append(Sentence!Cuts(s), Len(s) + 1) ELSE Sentence!Cuts(s)
<1> DEFINE t == Append(s, c)
           N == Len(s)
<1>1. /\ t \in Seq(Octet) /\ Len(t) = N + 1 /\ t[N + 1] = c /\ N \in Nat
      /\ \A n \in 1..N : t[n] = s[n]
  BY AppendProperties, LenProperties
<1> HIDE DEF t
<1>2. PICK f : /\ \A n \in 0..N : f[n] \in Seq(Nat)
               /\ \A n \in 0..N :
                    f[n] = IF n = 0 THEN <<>>
                           ELSE IF s[n] \in Separator THEN Append(f[n - 1], n) ELSE f[n - 1]
               /\ Sentence!Cuts(s) = f[N]
  BY CutSteps, SameCuts, Zenon
<1>3. PICK g : /\ \A n \in 0..N + 1 :
                    g[n] = IF n = 0 THEN <<>>
                           ELSE IF t[n] \in Separator THEN Append(g[n - 1], n) ELSE g[n - 1]
               /\ Sentence!Cuts(t) = g[N + 1]
  BY <1>1, CutSteps, SameCuts, Zenon
<1>4. \A n \in 0..N : f[n] = g[n]
  <2> DEFINE P == {n \in Nat : n \in 0..N => f[n] = g[n]}
  <2>1. 0 \in P
    BY <1>1, <1>2, <1>3
  <2>2. ASSUME NEW n \in Nat, n \in P PROVE n + 1 \in P
    <3>1. CASE n + 1 \in 0..N
      <4>1. /\ n + 1 \in 1..N /\ n + 1 \in 0..N + 1 /\ f[n] = g[n] /\ n + 1 # 0 /\ (n + 1) - 1 = n
        BY <1>1, <2>2, <3>1
      <4>2. t[n + 1] = s[n + 1]
        BY <1>1, <4>1
      <4>3. f[n + 1] = g[n + 1]
        BY <1>2, <1>3, <3>1, <4>1, <4>2, Zenon
      <4> QED
        BY <4>3
    <3> QED
      BY <3>1
  <2>3. Nat \subseteq P
    <3> HIDE DEF P
    <3> QED
      BY <2>1, <2>2, Induction
  <2> QED
    BY <1>1, <2>3
<1>5. N \in 0..N /\ N + 1 \in 0..N + 1 /\ N + 1 # 0 /\ (N + 1) - 1 = N
  BY <1>1
<1>6. g[N + 1] = IF c \in Separator THEN Append(f[N], N + 1) ELSE f[N]
  BY <1>1, <1>3, <1>4, <1>5, Zenon
<1> QED
  BY <1>2, <1>3, <1>5, <1>6, Zenon DEF t

LEMMA CutsOfDelimiter ==
  ASSUME NEW c \in StartDelimiter
  PROVE  <<c>> \in Seq(Octet) /\ Len(<<c>>) = 1 /\ Sentence!Cuts(<<c>>) = <<>>
<1>1. c \in Octet /\ c \notin Separator
  BY DEF StartDelimiter, DOLLAR, BANG, Separator, COMMA, STAR, LF, Octet
<1>2. /\ <<>> \in Seq(Octet) /\ Len(<<>>) = 0 /\ Append(<<>>, c) = <<c>>
      /\ <<c>> \in Seq(Octet) /\ Len(<<c>>) = 1
  BY <1>1, EmptySeq
<1>3. PICK f : /\ \A n \in 0..0 :
                    f[n] = IF n = 0 THEN <<>>
                           ELSE IF <<>>[n] \in Separator THEN Append(f[n - 1], n) ELSE f[n - 1]
               /\ Sentence!Cuts(<<>>) = f[0]
  BY <1>2, CutSteps, SameCuts, ZenonT(40)
<1>4. Sentence!Cuts(<<>>) = <<>>
  BY <1>3
<1>5. Sentence!Cuts(Append(<<>>, c)) = Sentence!Cuts(<<>>)
  BY <1>1, <1>2, CutsAppend
<1> QED
  BY <1>2, <1>4, <1>5

\* The beginning of a text is not changed by what follows.
LEMMA PrefixOfAppend ==
  ASSUME NEW s \in Seq(Octet), NEW c \in Octet, NEW n \in 0..Len(s)
  PROVE  SubSeq(Append(s, c), 1, n) = SubSeq(s, 1, n)
<1>1. /\ Append(s, c) \in Seq(Octet) /\ Len(s) \in Nat
      /\ \A i \in 1..n : Append(s, c)[i] = s[i] /\ s[i] \in Octet
  BY AppendProperties, LenProperties, ElementOfSeq
<1> QED
  BY <1>1, SubSeqProperties, SeqEqual

-------------------------------------------------------------------------------
(* The framer's state, read off the text of the sentence *)

\* Cutting a token where a separator is read adds that separator to those seen.
LEMMA CutStep ==
  ASSUME FramerInv, pc = "payload", NEW c \in Octet, CutField(c),
         NEW STATE cuts, cuts \in Seq(Nat), CutsInv(cuts), AddressInv(cuts), FieldsInv(cuts),
         Len(sentence) = buffer_idx + 1, Len(sentence') = buffer_idx + 2,
         buffer_idx' \in {buffer_idx, buffer_idx + 1},
         NEW ACTION new, new = IF c \in Separator THEN Append(cuts, buffer_idx + 2) ELSE cuts
  PROVE  /\ \A k \in 1..Len(new) : new[k] \in 2..Len(sentence') /\ new[k] <= buffer_idx' + 2
         /\ \A k \in 2..Len(new) : new[k - 1] < new[k]
         /\ is_first_field' <=> new = <<>>
         /\ field_start_idx' = IF new = <<>> THEN 0 ELSE new[Len(new)] - 1
         /\ view'.talker_id = IF new # <<>> /\ new[1] - 2 >= TalkerLen + TypeLen
                              THEN [start |-> 0, len |-> TalkerLen] ELSE EmptyView
         /\ view'.message_type = IF new # <<>> /\ new[1] - 2 >= TalkerLen + TypeLen
                                 THEN [start |-> TalkerLen, len |-> TypeLen] ELSE EmptyView
         /\ Len(view'.fields) = FieldCount(Len(new))
         /\ \A k \in 1..Len(view'.fields) :
              view'.fields[k] = [start |-> new[k] - 1, len |-> new[k + 1] - new[k] - 1]
<1> USE SizeAssumption, AddressAssumption
<1>1. /\ buffer_idx \in Nat /\ buffer_idx <= BufferSize /\ field_start_idx \in Nat
      /\ view \in MessageView /\ view.fields \in Seq(StringView) /\ Len(cuts) \in Nat /\ Len(view.fields) \in Nat
  BY LenProperties DEF FramerInv, TypeOK, MessageView
<1>2. /\ \A k \in 1..Len(cuts) : cuts[k] \in 2..buffer_idx + 1
      /\ \A k \in 2..Len(cuts) : cuts[k - 1] < cuts[k]
      /\ is_first_field <=> cuts = <<>>
      /\ field_start_idx = IF cuts = <<>> THEN 0 ELSE cuts[Len(cuts)] - 1
  BY <1>1 DEF CutsInv
<1>3. CASE c \notin Separator
  <2>1. new = cuts /\ UNCHANGED <<view, is_first_field, field_start_idx>>
    BY <1>3 DEF CutField, Separator
  <2>2. \A k \in 1..Len(new) : new[k] \in 2..Len(sentence') /\ new[k] <= buffer_idx' + 2
    BY <1>1, <1>2, <2>1
  <2> QED
    BY <1>2, <2>1, <2>2 DEF AddressInv, FieldsInv
<1>4. CASE c \in Separator
  <2>1. /\ view' = ViewWithCurrentField /\ is_first_field' = FALSE
        /\ field_start_idx' = buffer_idx + 1
    BY <1>4 DEF CutField, Separator
  <2> DEFINE n == Len(cuts)
  <2>2. /\ new \in Seq(Nat) /\ Len(new) = n + 1 /\ new[n + 1] = buffer_idx + 2
        /\ \A k \in 1..n : new[k] = cuts[k]
        /\ new # <<>> /\ (cuts = <<>> <=> n = 0)
    BY <1>1, <1>4, AppendProperties, EmptySeq
  <2>3. /\ \A k \in 1..Len(new) : new[k] \in 2..Len(sentence') /\ new[k] <= buffer_idx' + 2
        /\ \A k \in 2..Len(new) : new[k - 1] < new[k]
    <3>1. ASSUME NEW k \in 1..n + 1
          PROVE  new[k] \in 2..buffer_idx + 2 /\ (k # 1 => new[k - 1] < new[k])
      <4>1. CASE k = n + 1
        <5>1. new[k] = buffer_idx + 2 /\ (k # 1 => k - 1 = n /\ n \in 1..n)
          BY <1>1, <2>2, <4>1
        <5>2. k # 1 => new[k - 1] = cuts[n] /\ cuts[n] \in 2..buffer_idx + 1
          BY <1>2, <2>2, <5>1, Zenon
        <5> QED
          BY <1>1, <5>1, <5>2
      <4>2. CASE k \in 1..n
        <5>1. new[k] = cuts[k] /\ (k # 1 => new[k - 1] = cuts[k - 1])
          BY <1>1, <2>2, <4>2
        <5> QED
          BY <1>1, <1>2, <4>2, <5>1
      <4> QED
        BY <1>1, <4>1, <4>2
    <3>2. \A k \in 1..Len(new) : new[k] \in 2..Len(sentence') /\ new[k] <= buffer_idx' + 2
      <4> SUFFICES ASSUME NEW k \in 1..n + 1
                   PROVE  new[k] \in 2..Len(sentence') /\ new[k] <= buffer_idx' + 2
        BY <2>2
      <4>1. new[k] \in 2..buffer_idx + 2
        BY <3>1
      <4> QED
        BY <1>1, <4>1
    <3>3. \A k \in 2..Len(new) : new[k - 1] < new[k]
      <4> SUFFICES ASSUME NEW k \in 2..n + 1 PROVE new[k - 1] < new[k]
        BY <2>2
      <4> QED
        BY <1>1, <3>1
    <3> QED
      BY <3>2, <3>3
  <2>4. (is_first_field' <=> new = <<>>) /\ field_start_idx' = new[Len(new)] - 1
    BY <1>1, <2>1, <2>2
  <2>5. CASE cuts = <<>>
    <3>1. /\ n = 0 /\ is_first_field /\ field_start_idx = 0 /\ new[1] = buffer_idx + 2
          /\ Len(view.fields) = 0 /\ view.talker_id = EmptyView /\ view.message_type = EmptyView
      BY <1>1, <1>2, <2>2, <2>5 DEF AddressInv, FieldsInv, FieldCount
    <3>2. CASE buffer_idx >= TalkerLen + TypeLen
      <4>0. CurrentField.len >= TalkerLen + TypeLen /\ field_start_idx + TalkerLen = TalkerLen
        BY <1>1, <3>1, <3>2 DEF CurrentField
      <4>1. view' = [view EXCEPT !.talker_id = [start |-> 0, len |-> TalkerLen],
                                 !.message_type = [start |-> TalkerLen, len |-> TypeLen]]
        BY <2>1, <3>1, <4>0, Zenon DEF ViewWithCurrentField
      <4>2. /\ view'.talker_id = [start |-> 0, len |-> TalkerLen]
            /\ view'.message_type = [start |-> TalkerLen, len |-> TypeLen]
            /\ view'.fields = view.fields
        BY <1>1, <4>1 DEF MessageView
      <4> QED
        BY <1>1, <2>2, <2>3, <2>4, <3>1, <3>2, <4>2 DEF FieldCount
    <3>3. CASE ~(buffer_idx >= TalkerLen + TypeLen)
      <4>1. view' = view
        BY <1>1, <2>1, <3>1, <3>3 DEF ViewWithCurrentField, CurrentField
      <4> QED
        BY <1>1, <2>2, <2>3, <2>4, <3>1, <3>3, <4>1 DEF FieldCount
    <3> QED
      BY <3>2, <3>3
  <2>6. CASE cuts # <<>>
    <3>1. /\ n >= 1 /\ ~is_first_field /\ field_start_idx = cuts[n] - 1 /\ new[1] = cuts[1]
          /\ cuts[n] \in 2..buffer_idx + 1 /\ new[n] = cuts[n]
          /\ Len(view.fields) = IF n - 1 < MaxFields THEN n - 1 ELSE MaxFields
      BY <1>1, <1>2, <2>2, <2>6 DEF FieldsInv, FieldCount
    <3>2. CASE Len(view.fields) < MaxFields
      <4> DEFINE fields == Append(view.fields, CurrentField)
                 m == Len(view.fields)
      <4>1. view' = [view EXCEPT !.fields = fields]
        BY <2>1, <3>1, <3>2 DEF ViewWithCurrentField
      <4>2. view'.talker_id = view.talker_id /\ view'.message_type = view.message_type
            /\ view'.fields = fields
        BY <1>1, <4>1 DEF MessageView
      <4>3. m = n - 1 /\ Len(fields) = n /\ fields[n] = CurrentField
            /\ \A k \in 1..m : fields[k] = view.fields[k]
        <5>1. m = n - 1
          BY <1>1, <3>1, <3>2
        <5>2. /\ field_start_idx \in 0..BufferSize + 1
              /\ buffer_idx - field_start_idx \in 0..BufferSize
          <6>1. \A x \in 2..buffer_idx + 1 : /\ x - 1 \in 0..BufferSize + 1
                                           /\ buffer_idx - (x - 1) \in 0..BufferSize
            BY <1>1
          <6> QED
            BY <3>1, <6>1, Zenon
        <5>3. CurrentField \in StringView
          BY <5>2 DEF CurrentField, StringView
        <5> QED
          BY <1>1, <5>1, <5>3, AppendProperties
      <4>4. CurrentField = [start |-> new[n] - 1, len |-> new[n + 1] - new[n] - 1]
        BY <1>1, <2>2, <3>1 DEF CurrentField
      <4>5. \A k \in 1..m : fields[k] = [start |-> new[k] - 1, len |-> new[k + 1] - new[k] - 1]
        <5>1. \A k \in 1..m : k \in 1..n /\ k + 1 \in 1..n
          BY <1>1, <4>3
        <5>2. \A k \in 1..m : view.fields[k] = [start |-> cuts[k] - 1, len |-> cuts[k + 1] - cuts[k] - 1]
          BY DEF FieldsInv
        <5> HIDE DEF fields, m, n
        <5> QED
          BY <2>2, <4>3, <5>1, <5>2, Zenon
      <4> HIDE DEF fields
      <4>6. \A k \in 1..n : fields[k] = [start |-> new[k] - 1, len |-> new[k + 1] - new[k] - 1]
        <5>1. \A k \in 1..n : k \in 1..m \/ k = n
          BY <1>1, <4>3
        <5> QED
          BY <4>3, <4>4, <4>5, <5>1, Zenon
      <4>7. /\ view'.talker_id = IF new # <<>> /\ new[1] - 2 >= TalkerLen + TypeLen
                                 THEN [start |-> 0, len |-> TalkerLen] ELSE EmptyView
            /\ view'.message_type = IF new # <<>> /\ new[1] - 2 >= TalkerLen + TypeLen
                                    THEN [start |-> TalkerLen, len |-> TypeLen] ELSE EmptyView
        BY <2>2, <2>6, <3>1, <4>2, Zenon DEF AddressInv
      <4>8. Len(view'.fields) = FieldCount(Len(new))
        BY <1>1, <2>2, <3>2, <4>2, <4>3 DEF FieldCount
      <4> QED
        BY <2>2, <2>3, <2>4, <4>2, <4>3, <4>6, <4>7, <4>8
    <3>3. CASE ~(Len(view.fields) < MaxFields)
      <4>1. view' = view
        BY <2>1, <3>1, <3>3 DEF ViewWithCurrentField
      <4>2. /\ view'.talker_id = IF new # <<>> /\ new[1] - 2 >= TalkerLen + TypeLen
                                 THEN [start |-> 0, len |-> TalkerLen] ELSE EmptyView
            /\ view'.message_type = IF new # <<>> /\ new[1] - 2 >= TalkerLen + TypeLen
                                    THEN [start |-> TalkerLen, len |-> TypeLen] ELSE EmptyView
        BY <2>2, <2>6, <3>1, <4>1, Zenon DEF AddressInv
      <4>3. Len(view.fields) = MaxFields /\ MaxFields <= n - 1
        BY <1>1, <3>1, <3>3
      <4>4. \A k \in 1..Len(view'.fields) :
              view'.fields[k] = [start |-> new[k] - 1, len |-> new[k + 1] - new[k] - 1]
        <5> SUFFICES ASSUME NEW k \in 1..MaxFields
                     PROVE  view.fields[k] = [start |-> new[k] - 1, len |-> new[k + 1] - new[k] - 1]
          BY <4>1, <4>3
        <5>1. k \in 1..n /\ k + 1 \in 1..n
          BY <1>1, <4>3
        <5>2. new[k] = cuts[k] /\ new[k + 1] = cuts[k + 1]
          BY <2>2, <5>1, Zenon
        <5> QED
          BY <4>3, <5>2 DEF FieldsInv
      <4>5. Len(view'.fields) = FieldCount(Len(new))
        BY <1>1, <2>2, <4>1, <4>3 DEF FieldCount
      <4> QED
        BY <2>2, <2>3, <2>4, <4>2, <4>4, <4>5
    <3> QED
      BY <3>2, <3>3
  <2> QED
    BY <2>5, <2>6
<1> QED
  BY <1>3, <1>4

\* A sentence begins with nothing in the buffer and no separator seen.
LEMMA BeginSentence ==
  ASSUME FramerInv, ProgressInv, NEW c \in Octet, SearchStart(c)
  PROVE  SentenceInv'
<1>1. CASE c \notin StartDelimiter
  BY <1>1 DEF SearchStart, Await, SentenceInv
<1>2. CASE c \in StartDelimiter
  <2>1. /\ pc' = "payload" /\ buffer_idx' = 0 /\ view' = NoMessage /\ field_start_idx' = 0
        /\ is_first_field' = TRUE
    BY <1>2 DEF SearchStart, Reset, Await
  <2>2. sentence' = <<c>>
    BY <1>2, EmptySeq DEF SearchStart, ProgressInv, Read
  <2>3. <<c>> \in Seq(Octet) /\ Len(<<c>>) = 1 /\ <<c>>[1] = c /\ Sentence!Cuts(<<c>>) = <<>>
    BY <1>2, CutsOfDelimiter
  <2>4. Seen' = <<>>
    BY <2>1, <2>2, <2>3 DEF Seen
  <2>5. TextInv'
    BY <1>2, <2>1, <2>2, <2>3, SizeAssumption DEF TextInv
  <2>6. CutsInv(<<>>)' /\ AddressInv(<<>>)' /\ FieldsInv(<<>>)'
    BY <2>1, EmptySeq DEF CutsInv, AddressInv, FieldsInv, NoMessage, FieldCount
  <2> QED
    BY <2>4, <2>5, <2>6 DEF SentenceInv
<1> QED
  BY <1>1, <1>2

\* A payload byte is stored where the text has it, and is a separator exactly if a token
\* is cut at it.
LEMMA PayloadSentence ==
  ASSUME FramerInv, ProgressInv, SentenceInv, NEW c \in Octet, ReadPayload(c)
  PROVE  SentenceInv'
<1> USE SizeAssumption
<1> DEFINE cuts == Sentence!Cuts(sentence)
           new == Sentence!Cuts(Append(sentence, c))
<1>1. /\ pc = "payload" /\ CutField(c) /\ sentence' = Append(sentence, c)
      /\ Len(sentence) = buffer_idx + 1 /\ sentence \in Seq(Octet)
      /\ buffer_idx \in 0..BufferSize
  BY DEF ReadPayload, Overrun, Read, ProgressInv, FramerInv, TypeOK
<1>2. /\ Len(sentence') = buffer_idx + 2 /\ sentence' \in Seq(Octet)
      /\ sentence'[buffer_idx + 2] = c
      /\ \A p \in 1..buffer_idx + 1 : sentence'[p] = sentence[p]
  BY <1>1, AppendProperties
<1>3. TextInv /\ CutsInv(cuts) /\ AddressInv(cuts) /\ FieldsInv(cuts)
  BY <1>1 DEF SentenceInv, Seen
<1>4. cuts \in Seq(Nat) /\ new = IF c \in Separator THEN Append(cuts, buffer_idx + 2) ELSE cuts
  <2>1. Len(sentence) + 1 = buffer_idx + 2
    BY <1>1
  <2> QED
    BY <1>1, <2>1, CutsAppend
<1>5. \/ /\ pc' = "hex1" /\ UNCHANGED <<buffer, buffer_idx>>
         /\ c \in {STAR, LF} \/ buffer_idx = BufferSize
      \/ /\ pc' = "payload" /\ buffer_idx < BufferSize /\ c \notin {STAR, LF}
         /\ buffer' = [buffer EXCEPT ![buffer_idx] = c]
         /\ buffer_idx' = buffer_idx + 1
  BY <1>1 DEF ReadPayload, Overrun, StoreChar, Fits, Await, YieldError
<1>6. Seen' = new
  <2>1. CASE pc' = "payload"
    BY <1>1, <2>1 DEF Seen
  <2>2. CASE pc' = "hex1" /\ buffer_idx' = buffer_idx
    <3>1. SubSeq(sentence', 1, buffer_idx + 2) = sentence'
      BY <1>2, SubSeqFull
    <3> QED
      BY <1>1, <2>2, <3>1 DEF Seen
  <2> QED
    BY <1>5, <2>1, <2>2
<1>7. TextInv'
  <2>1. /\ sentence[1] \in StartDelimiter
        /\ \A p \in 2..buffer_idx + 1 : buffer[p - 2] = sentence[p] /\ sentence[p] \notin {STAR, LF}
    BY <1>1, <1>3 DEF TextInv
  <2>2. sentence'[1] \in StartDelimiter
    BY <1>1, <1>2, <2>1
  <2>3. CASE pc' = "hex1" /\ UNCHANGED <<buffer, buffer_idx>> /\ (c \in {STAR, LF} \/ buffer_idx = BufferSize)
    <3>1. \A p \in 2..buffer_idx' + 1 :
            buffer'[p - 2] = sentence'[p] /\ sentence'[p] \notin {STAR, LF}
      BY <1>1, <1>2, <2>1, <2>3
    <3> QED
      BY <1>1, <1>2, <2>2, <2>3, <3>1 DEF TextInv
  <2>4. CASE /\ pc' = "payload" /\ buffer_idx < BufferSize /\ c \notin {STAR, LF}
             /\ buffer' = [buffer EXCEPT ![buffer_idx] = c]
             /\ buffer_idx' = buffer_idx + 1
    <3>1. buffer \in [Slot -> Octet] /\ buffer_idx \in Slot
      BY <1>1, <2>4 DEF FramerInv, TypeOK, Slot
    <3>2. ASSUME NEW p \in 2..buffer_idx' + 1
          PROVE  buffer'[p - 2] = sentence'[p] /\ sentence'[p] \notin {STAR, LF}
      <4>1. CASE p = buffer_idx + 2
        BY <1>1, <1>2, <2>4, <3>1, <4>1
      <4>2. CASE p \in 2..buffer_idx + 1
        <5>1. p - 2 \in Slot /\ p - 2 # buffer_idx
          BY <1>1, <3>1, <4>2 DEF Slot
        <5>2. buffer'[p - 2] = buffer[p - 2]
          BY <2>4, <3>1, <5>1
        <5> QED
          BY <1>2, <2>1, <4>2, <5>2
      <4> QED
        BY <1>1, <2>4, <4>1, <4>2
    <3> QED
      BY <1>1, <1>2, <2>2, <2>4, <3>2 DEF TextInv
  <2> QED
    BY <1>5, <2>3, <2>4
<1> HIDE DEF cuts, new
<1>8. CutsInv(Seen)' /\ AddressInv(Seen)' /\ FieldsInv(Seen)'
  <2> DEFINE named == new # <<>> /\ new[1] - 2 >= TalkerLen + TypeLen
  <2>1. /\ \A k \in 1..Len(new) : new[k] \in 2..Len(sentence') /\ new[k] <= buffer_idx' + 2
        /\ \A k \in 2..Len(new) : new[k - 1] < new[k]
        /\ is_first_field' <=> new = <<>>
        /\ field_start_idx' = IF new = <<>> THEN 0 ELSE new[Len(new)] - 1
        /\ view'.talker_id = IF named THEN [start |-> 0, len |-> TalkerLen] ELSE EmptyView
        /\ view'.message_type = IF named THEN [start |-> TalkerLen, len |-> TypeLen] ELSE EmptyView
        /\ Len(view'.fields) = FieldCount(Len(new))
        /\ \A k \in 1..Len(view'.fields) :
             view'.fields[k] = [start |-> new[k] - 1, len |-> new[k + 1] - new[k] - 1]
    <3>1. buffer_idx' \in {buffer_idx, buffer_idx + 1}
      BY <1>5
    <3>2. /\ FramerInv /\ pc = "payload" /\ CutField(c)
          /\ cuts \in Seq(Nat) /\ CutsInv(cuts) /\ AddressInv(cuts) /\ FieldsInv(cuts)
          /\ Len(sentence) = buffer_idx + 1 /\ Len(sentence') = buffer_idx + 2
          /\ buffer_idx' \in {buffer_idx, buffer_idx + 1}
      BY <1>1, <1>2, <1>3, <1>4, <3>1
    <3>3. new = IF c \in Separator THEN Append(cuts, buffer_idx + 2) ELSE cuts
      BY <1>4
    <3>4. /\ \A k \in 1..Len(new) : new[k] \in 2..Len(sentence') /\ new[k] <= buffer_idx' + 2
          /\ \A k \in 2..Len(new) : new[k - 1] < new[k]
      BY <3>2, <3>3, CutStep
    <3>5. /\ is_first_field' <=> new = <<>>
          /\ field_start_idx' = IF new = <<>> THEN 0 ELSE new[Len(new)] - 1
      BY <3>2, <3>3, CutStep, SMTT(30)
    <3>6. /\ view'.talker_id = IF named THEN [start |-> 0, len |-> TalkerLen] ELSE EmptyView
          /\ view'.message_type = IF named THEN [start |-> TalkerLen, len |-> TypeLen] ELSE EmptyView
      BY <3>2, <3>3, CutStep
    <3>7. Len(view'.fields) = FieldCount(Len(new))
      BY <3>2, <3>3, CutStep
    <3>8. \A k \in 1..Len(view'.fields) :
             view'.fields[k] = [start |-> new[k] - 1, len |-> new[k + 1] - new[k] - 1]
      BY <3>2, <3>3, CutStep, ZenonT(60)
    <3> QED
      BY <3>4, <3>5, <3>6, <3>7, <3>8
  <2> HIDE DEF Seen
  <2>2. CutsInv(Seen)'
    BY <1>6, <2>1 DEF CutsInv
  <2>3. AddressInv(Seen)'
    BY <1>6, <2>1, Zenon DEF AddressInv
  <2>4. FieldsInv(Seen)'
    BY <1>6, <2>1, Zenon DEF FieldsInv
  <2> QED
    BY <2>2, <2>3, <2>4
<1> QED
  BY <1>7, <1>8 DEF SentenceInv

\* The bytes after the payload are remembered as they are, and change nothing of what the
\* payload was.
LEMMA TailSentence ==
  ASSUME FramerInv, ProgressInv, SentenceInv, NEW c \in Octet,
         ReadHex1(c) \/ ReadHex2(c) \/ ReadCR(c) \/ ReadLF(c)
  PROVE  SentenceInv'
<1> USE SizeAssumption
<1>1. CASE pc' = "start"
  BY <1>1 DEF SentenceInv
<1>2. CASE pc' # "start"
  <2> DEFINE e == buffer_idx + 2
  <2>1. /\ UNCHANGED <<buffer, buffer_idx, view, field_start_idx, is_first_field>>
        /\ sentence' = Append(sentence, c) /\ sentence \in Seq(Octet)
        /\ buffer_idx \in 0..BufferSize /\ pc # "start" /\ pc # "payload" /\ pc' # "payload"
    BY <1>2 DEF ReadHex1, ReadHex2, ReadCR, ReadLF, Await, YieldError, Read, locals, ProgressInv,
                FramerInv, TypeOK
  <2>2. \/ pc = "hex1" /\ pc' = "hex2" /\ hex1' = c
        \/ pc = "hex2" /\ pc' = "cr" /\ hex2' = c /\ hex1' = hex1
        \/ pc = "cr" /\ pc' = "lf" /\ c = CR /\ hex1' = hex1 /\ hex2' = hex2
    BY <1>2 DEF ReadHex1, ReadHex2, ReadCR, ReadLF, Await, YieldError, locals
  <2>3. TextInv /\ CutsInv(Seen) /\ AddressInv(Seen) /\ FieldsInv(Seen)
    BY <2>1 DEF SentenceInv
  <2>4. /\ e \in 1..Len(sentence) /\ Len(sentence) \in Nat /\ Len(sentence') = Len(sentence) + 1
        /\ sentence'[Len(sentence) + 1] = c
        /\ \A p \in 1..Len(sentence) : sentence'[p] = sentence[p]
    <3>1. Len(sentence) \in Nat
      BY <2>1, LenProperties
    <3>2. e \in 1..Len(sentence)
      BY <2>1, <2>2, <2>3, <3>1 DEF TextInv
    <3> QED
      BY <2>1, <3>1, <3>2, AppendProperties
  <2>5. Seen' = Seen
    <3>1. SubSeq(sentence', 1, e) = SubSeq(sentence, 1, e)
      BY <2>1, <2>4, PrefixOfAppend
    <3> QED
      BY <2>1, <3>1 DEF Seen
  <2>6. TextInv'
    <3>1. /\ sentence[1] \in StartDelimiter
          /\ \A p \in 2..e - 1 : buffer[p - 2] = sentence[p] /\ sentence[p] \notin {STAR, LF}
          /\ sentence[e] \in {STAR, LF} \/ e = BufferSize + 2
          /\ Len(sentence) = e + (IF pc = "hex1" THEN 0 ELSE IF pc = "hex2" THEN 1 ELSE 2)
          /\ pc # "hex1" => sentence[e + 1] = hex1
          /\ pc = "cr" => sentence[e + 2] = hex2
      BY <2>1, <2>2, <2>3, <2>4 DEF TextInv
    <3>2. /\ sentence'[1] \in StartDelimiter
          /\ \A p \in 2..e - 1 : buffer'[p - 2] = sentence'[p] /\ sentence'[p] \notin {STAR, LF}
          /\ sentence'[e] \in {STAR, LF} \/ e = BufferSize + 2
      BY <2>1, <2>4, <3>1
    <3>3. /\ Len(sentence') = e + (IF pc' = "hex2" THEN 1 ELSE IF pc' = "cr" THEN 2 ELSE 3)
          /\ sentence'[e + 1] = hex1'
          /\ pc' # "hex2" => sentence'[e + 2] = hex2'
          /\ pc' = "lf" => sentence'[e + 3] = CR
      BY <2>1, <2>2, <2>4, <3>1
    <3>4. Len(sentence') = e + CASE pc' = "payload" -> -1 [] pc' = "hex1" -> 0 [] pc' = "hex2" -> 1
                                 [] pc' = "cr" -> 2 [] pc' = "lf" -> 3
      BY <2>2, <3>3
    <3>5. /\ Len(sentence') >= e => sentence'[e] \in {STAR, LF} \/ e = BufferSize + 2
          /\ Len(sentence') > e => sentence'[e + 1] = hex1'
          /\ Len(sentence') > e + 1 => sentence'[e + 2] = hex2'
          /\ Len(sentence') > e + 2 => sentence'[e + 3] = CR
      <4>1. e \in Nat
        BY <2>1
      <4> HIDE DEF e
      <4> QED
        BY <2>2, <3>2, <3>3, <4>1
    <3>6. buffer_idx' + 2 = e
      BY <2>1
    <3> HIDE DEF e
    <3> QED
      BY <3>2, <3>4, <3>5, <3>6, Zenon DEF TextInv
  <2>7. CutsInv(Seen)' /\ AddressInv(Seen)' /\ FieldsInv(Seen)'
    <3> HIDE DEF Seen
    <3>1. AddressInv(Seen)' /\ FieldsInv(Seen)'
      BY <2>1, <2>3, <2>5 DEF AddressInv, FieldsInv
    <3> DEFINE cuts == Seen
    <3>3. /\ \A k \in 1..Len(cuts) : cuts[k] \in 2..Len(sentence) /\ cuts[k] <= buffer_idx + 2
          /\ \A k \in 2..Len(cuts) : cuts[k - 1] < cuts[k]
          /\ is_first_field <=> cuts = <<>>
      BY <2>3, Zenon DEF CutsInv
    <3>4. Seen' = cuts /\ buffer_idx' = buffer_idx /\ is_first_field' = is_first_field /\ pc' # "payload"
      BY <2>1, <2>5
    <3>5. 2..Len(sentence) \subseteq 2..Len(sentence')
      BY <2>1, <2>4
    <3> HIDE DEF cuts
    <3>2. CutsInv(Seen)'
      BY <3>3, <3>4, <3>5, Zenon DEF CutsInv
    <3> QED
      BY <3>1, <3>2
  <2> QED
    BY <2>6, <2>7 DEF SentenceInv
<1> QED
  BY <1>1, <1>2

\* SentenceInv is inductive, with the types and the progress it relies on.
LEMMA NextSentence == FramerInv /\ ProgressInv /\ SentenceInv /\ [Next]_vars => SentenceInv'
<1> SUFFICES ASSUME FramerInv, ProgressInv, SentenceInv, [Next]_vars PROVE SentenceInv'
  OBVIOUS
<1>1. CASE UNCHANGED vars
  BY <1>1 DEF vars, locals, SentenceInv, Seen, TextInv, CutsInv, AddressInv, FieldsInv
<1> QED
  BY <1>1, BeginSentence, PayloadSentence, TailSentence, CharAssumption DEF Next, push_byte

DecoderInv == FramerInv /\ ProgressInv /\ SentenceInv

THEOREM DecoderInvariant == Spec => []DecoderInv
<1>1. Init => ProgressInv /\ SentenceInv
  BY EmptySeq DEF Init, ProgressInv, SentenceInv
<1> QED
  BY <1>1, InitFramer, NextFramer, NextProgress, NextSentence, PTL DEF Spec, DecoderInv

LEMMA SeenType ==
  ASSUME DecoderInv, pc # "start"
  PROVE  /\ Seen \in Seq(Nat)
         /\ pc # "payload" => /\ buffer_idx + 2 \in 1..Len(sentence)
                              /\ SubSeq(sentence, 1, buffer_idx + 2) \in Seq(Octet)
                              /\ Len(SubSeq(sentence, 1, buffer_idx + 2)) = buffer_idx + 2
<1>1. /\ sentence \in Seq(Octet) /\ Len(sentence) \in Nat /\ buffer_idx \in Nat /\ TextInv
      /\ pc \in {"start", "payload", "hex1", "hex2", "cr", "lf"} /\ BufferSize \in Nat
  BY SizeAssumption, LenProperties DEF DecoderInv, ProgressInv, FramerInv, TypeOK, SentenceInv
<1>2. pc # "payload" => buffer_idx + 2 \in 1..Len(sentence)
  BY <1>1 DEF TextInv
<1>3. pc # "payload" => /\ SubSeq(sentence, 1, buffer_idx + 2) \in Seq(Octet)
                        /\ Len(SubSeq(sentence, 1, buffer_idx + 2)) = buffer_idx + 2
  BY <1>1, <1>2, SubSeqProperties
<1>4. Seen \in Seq(Nat)
  <2>1. \A s \in Seq(Octet) : Sentence!Cuts(s) \in Seq(Nat)
    BY CutsAppend DEF Octet
  <2> QED
    BY <1>1, <1>3, <2>1 DEF Seen
<1> QED
  BY <1>2, <1>3, <1>4

\* No byte of a payload is in two fields, and none but separators in no field.
THEOREM PayloadTiled == Spec => []FieldsTile
<1>1. Init => FieldsTile
  BY EmptySeq DEF Init, NoMessage, FieldsTile
<1>2. DecoderInv /\ pc # "start" => FieldsTile
  <2> SUFFICES ASSUME DecoderInv, pc # "start" PROVE FieldsTile
    OBVIOUS
  <2> SUFFICES ASSUME NEW k \in 2..Len(view.fields)
               PROVE  view.fields[k].start = view.fields[k - 1].start + view.fields[k - 1].len + 1
    BY DEF FieldsTile
  <2>1. /\ CutsInv(Seen) /\ FieldsInv(Seen) /\ Len(Seen) \in Nat /\ Len(view.fields) \in Nat
        /\ MaxFields \in Nat /\ Len(sentence) \in Nat
    BY SeenType, LenProperties, SizeAssumption
       DEF DecoderInv, SentenceInv, FramerInv, TypeOK, MessageView, ProgressInv
  <2>2. Len(view.fields) < Len(Seen)
    BY <2>1 DEF FieldsInv, FieldCount
  <2>3. /\ k \in 1..Len(view.fields) /\ k - 1 \in 1..Len(view.fields) /\ (k - 1) + 1 = k
        /\ k \in 1..Len(Seen) /\ k - 1 \in 1..Len(Seen)
    BY <2>1, <2>2
  <2>4. /\ view.fields[k].start = Seen[k] - 1
        /\ view.fields[k - 1].start = Seen[k - 1] - 1
        /\ view.fields[k - 1].len = Seen[k] - Seen[k - 1] - 1
    <3>1. \A j \in 1..Len(view.fields) : /\ view.fields[j].start = Seen[j] - 1
                                         /\ view.fields[j].len = Seen[j + 1] - Seen[j] - 1
      <4> SUFFICES ASSUME NEW j \in 1..Len(view.fields)
                   PROVE  /\ view.fields[j].start = Seen[j] - 1
                          /\ view.fields[j].len = Seen[j + 1] - Seen[j] - 1
        OBVIOUS
      <4>1. view.fields[j] = [start |-> Seen[j] - 1, len |-> Seen[j + 1] - Seen[j] - 1]
        BY <2>1, Zenon DEF FieldsInv
      <4> QED
        BY <4>1
    <3> QED
      BY <2>3, <3>1, Zenon
  <2>5. Seen[k] \in Int /\ Seen[k - 1] \in Int
    BY <2>1, <2>3 DEF CutsInv
  <2> QED
    BY <2>4, <2>5
<1>3. FieldsTile /\ [Next]_vars => FieldsTile' \/ (pc # "start")'
  <2> SUFFICES ASSUME FieldsTile, [Next]_vars, pc' = "start" PROVE view' = view
    BY DEF FieldsTile
  <2>1. CASE UNCHANGED vars
    BY <2>1 DEF vars, locals
  <2>2. ASSUME NEW c \in Char, push_byte(c) PROVE view' = view
    BY <2>2 DEF push_byte, SearchStart, ReadPayload, Overrun, ReadHex1, ReadHex2, ReadCR, ReadLF,
                Await, YieldError, locals
  <2> QED
    BY <2>1, <2>2 DEF Next
<1> QED
  BY <1>1, <1>2, <1>3, DecoderInvariant, PTL DEF Spec

\* The checksum kept byte by byte is that of the bytes kept.
THEOREM ChecksumOfStored == Spec => []RunningChecksum
<1> DEFINE stored == [i \in 1..buffer_idx |-> buffer[i - 1]]
<1>1. Init => RunningChecksum
  BY DEF Init, RunningChecksum
<1>2. FramerInv /\ RunningChecksum /\ [Next]_vars => RunningChecksum'
  <2> SUFFICES ASSUME FramerInv, RunningChecksum, [Next]_vars, pc' # "start"
               PROVE  calculated_checksum' = XorOf(stored')
    BY SameXor, Zenon DEF RunningChecksum, Sentence!Checksum
  <2>1. pc # "start" => calculated_checksum = XorOf(stored)
    BY SameXor, Zenon DEF RunningChecksum, Sentence!Checksum
  <2>2. /\ buffer \in [Slot -> Octet] /\ buffer_idx \in 0..BufferSize /\ BufferSize \in Nat
    BY SizeAssumption DEF FramerInv, TypeOK
  <2>3. stored \in Seq(Octet) /\ Len(stored) = buffer_idx
    <3>1. \A i \in 1..buffer_idx : buffer[i - 1] \in Octet
      BY <2>2 DEF Slot
    <3> QED
      BY <2>2, <3>1
  <2>4. CASE pc # "start" /\ UNCHANGED <<calculated_checksum, buffer, buffer_idx>>
    BY <2>1, <2>4
  <2>5. CASE buffer_idx' = 0 /\ calculated_checksum' = 0
    <3>1. stored' = <<>>
      BY <2>5
    <3> QED
      BY <2>5, <3>1, XorOfEmpty
  <2>6. ASSUME NEW c \in Octet, pc = "payload", buffer_idx < BufferSize, StoreChar(c)
        PROVE  calculated_checksum' = XorOf(stored')
    <3>1. /\ buffer' = [buffer EXCEPT ![buffer_idx] = c] /\ buffer_idx' = buffer_idx + 1
          /\ calculated_checksum' = XorOctet(calculated_checksum, c)
      BY <2>6 DEF StoreChar
    <3>2. stored' = Append(stored, c)
      <4>1. /\ Len(Append(stored, c)) = buffer_idx + 1 /\ Append(stored, c) \in Seq(Octet)
            /\ \A i \in 1..buffer_idx : Append(stored, c)[i] = buffer[i - 1]
            /\ Append(stored, c)[buffer_idx + 1] = c
        BY <2>2, <2>3, <2>6, AppendProperties
      <4>2. /\ \A i \in 1..buffer_idx : buffer'[i - 1] = buffer[i - 1] /\ buffer[i - 1] \in Octet
            /\ buffer'[buffer_idx] = c
        BY <2>2, <2>6, <3>1 DEF Slot
      <4>3. \A i \in 1..buffer_idx + 1 : /\ buffer'[i - 1] \in Octet
                                         /\ buffer'[i - 1] = Append(stored, c)[i]
        <5> SUFFICES ASSUME NEW i \in 1..buffer_idx + 1
                     PROVE  buffer'[i - 1] \in Octet /\ buffer'[i - 1] = Append(stored, c)[i]
          OBVIOUS
        <5>1. CASE i = buffer_idx + 1
          <6>1. i - 1 = buffer_idx
            BY <2>2, <5>1
          <6> QED
            BY <2>6, <4>1, <4>2, <5>1, <6>1
        <5>2. CASE i \in 1..buffer_idx
          BY <4>1, <4>2, <5>2
        <5> QED
          BY <2>2, <5>1, <5>2
      <4>4. /\ stored' \in Seq(Octet) /\ Len(stored') = buffer_idx + 1
            /\ \A i \in 1..buffer_idx + 1 : stored'[i] = buffer'[i - 1]
        BY <2>2, <3>1, <4>3
      <4> HIDE DEF stored
      <4> QED
        BY <2>2, <4>1, <4>3, <4>4, SeqEqual
    <3> HIDE DEF stored
    <3> QED
      BY <2>1, <2>3, <2>6, <3>1, <3>2, XorOfAppend
  <2>7. ASSUME NEW c \in Octet, push_byte(c)
        PROVE  \/ pc # "start" /\ UNCHANGED <<calculated_checksum, buffer, buffer_idx>>
               \/ buffer_idx' = 0 /\ calculated_checksum' = 0
               \/ pc = "payload" /\ buffer_idx < BufferSize /\ StoreChar(c)
    BY <2>7 DEF push_byte, SearchStart, Reset, ReadPayload, Fits, ReadHex1, ReadHex2, ReadCR, ReadLF,
                Await, locals
  <2>8. CASE UNCHANGED vars
    BY <2>4, <2>8 DEF vars, locals
  <2> HIDE DEF stored
  <2> QED
    BY <2>4, <2>5, <2>6, <2>7, <2>8, CharAssumption DEF Next
<1> QED
  BY <1>1, <1>2, FramerInvariant, PTL DEF Spec

-------------------------------------------------------------------------------
(* The framer's answers, read off the text of the sentence *)

\* The payload of text t ends at position e.
EndsAt(t, e) ==
  /\ t \in Seq(Octet) /\ e \in 2..Len(t)
  /\ \A p \in 2..e - 1 : t[p] \notin {STAR, LF} /\ p # BufferSize + 2
  /\ t[e] \in {STAR, LF} \/ e = BufferSize + 2

LEMMA EndOfText ==
  ASSUME NEW t, NEW e, EndsAt(t, e)
  PROVE  Sentence!PayloadEnds(t) # {} /\ Sentence!PayloadEnd(t) = e
<1> DEFINE S == Sentence!PayloadEnds(t)
<1>1. /\ Len(t) \in Nat /\ e \in 2..Len(t)
      /\ \A p \in 2..e - 1 : t[p] \notin {STAR, LF} /\ p # BufferSize + 2
      /\ t[e] \in {STAR, LF} \/ e = BufferSize + 2
  BY LenProperties DEF EndsAt
<1>2. \A p : p \in S <=> p \in 2..Len(t) /\ (t[p] \in {STAR, LF} \/ p = BufferSize + 2)
  BY Zenon DEF Sentence!PayloadEnds, Sentence!STAR, STAR, Sentence!LF, LF
<1>3. e \in S /\ \A p \in S : e <= p /\ p \in Nat
  BY <1>1, <1>2
<1>4. PICK m \in S : m = Sentence!PayloadEnd(t) /\ \A p \in S : m <= p
  <2> HIDE DEF S
  <2> QED
    BY <1>3 DEF S, Sentence!PayloadEnd, Sentence!Min
<1> QED
  BY <1>1, <1>3, <1>4

\* NmeaSentence's answers, one by one: from where the payload ended and how much follows.
LEMMA VerdictOpen ==
  ASSUME NEW t, Sentence!PayloadEnds(t) = {}
  PROVE  Sentence!Verdict(t) = Silence
BY Zenon DEF Sentence!Verdict, Sentence!Silence, Silence

LEMMA VerdictEnded ==
  ASSUME NEW t, NEW e, EndsAt(t, e)
  PROVE  /\ Len(t) = e /\ t[e] = STAR => Sentence!Verdict(t) = Silence
         /\ Len(t) = e /\ t[e] = LF => Sentence!Verdict(t) = [kind |-> "newline"]
         /\ Len(t) = e /\ t[e] \notin {STAR, LF} => Sentence!Verdict(t) = [kind |-> "overrun"]
         /\ Len(t) = e + 1 \/ Len(t) = e + 2 => Sentence!Verdict(t) = Silence
         /\ Len(t) = e + 3 /\ t[e + 3] = CR => Sentence!Verdict(t) = Silence
         /\ Len(t) = e + 3 /\ t[e + 3] # CR => Sentence!Verdict(t) = [kind |-> "badcrlf"]
         /\ Len(t) = e + 4 /\ t[e + 4] # LF => Sentence!Verdict(t) = [kind |-> "badcrlf"]
         /\ Len(t) = e + 4 /\ t[e + 4] = LF =>
              Sentence!Verdict(t) =
                IF ~({t[e + 1], t[e + 2]} \subseteq HexDigit) THEN [kind |-> "badhex"]
                ELSE IF Sentence!ChecksumMatches(Sentence!Payload(t), t[e + 1], t[e + 2])
                     THEN [kind |-> "view", view |-> Sentence!View(t)]
                     ELSE [kind |-> "mismatch"]
<1>1. Sentence!PayloadEnds(t) # {} /\ Sentence!PayloadEnd(t) = e
  BY EndOfText
<1>2. e \in Nat /\ Len(t) \in Nat
  BY LenProperties DEF EndsAt
<1>3. STAR # LF
  BY DEF STAR, LF
<1> USE DEF Sentence!Verdict, Sentence!Silence, Silence, Sentence!Error, Sentence!STAR, Sentence!LF,
            Sentence!CR, Sentence!HexDigit, STAR, LF, CR, HexDigit
<1>4. CASE Len(t) = e
  <2>1. Len(t) # e + 1 /\ Len(t) # e + 2 /\ Len(t) # e + 3 /\ Len(t) # e + 4
    BY <1>2, <1>4
  <2>2. /\ t[e] = STAR => t[e] # LF /\ ~(t[e] \notin {LF, STAR})
        /\ t[e] = LF => ~(t[e] \notin {LF, STAR})
    BY <1>3
  <2>3. t[e] = LF => Sentence!Verdict(t) = [kind |-> "newline"]
    BY <1>1, <1>4, <2>1, <2>2, Zenon
  <2>4. t[e] = STAR => Sentence!Verdict(t) = Silence
    BY <1>1, <1>4, <2>1, <2>2, Zenon
  <2>5. t[e] \notin {STAR, LF} => Sentence!Verdict(t) = [kind |-> "overrun"]
    BY <1>1, <1>4, <2>1, Zenon
  <2> QED
    BY <1>4, <2>1, <2>3, <2>4, <2>5, Zenon
<1>5. CASE Len(t) = e + 1 \/ Len(t) = e + 2
  <2>1. Len(t) # e /\ Len(t) # e + 3 /\ Len(t) # e + 4
    BY <1>2, <1>5
  <2> QED
    BY <1>1, <1>5, <2>1, Zenon
<1>6. CASE Len(t) = e + 3
  <2>1. Len(t) # e + 1 /\ Len(t) # e + 2 /\ Len(t) # e /\ Len(t) # e + 4
    BY <1>2, <1>6
  <2> QED
    BY <1>1, <1>6, <2>1, Zenon
<1>7. CASE Len(t) = e + 4
  <2>1. Len(t) # e + 1 /\ Len(t) # e + 2 /\ Len(t) # e + 3 /\ Len(t) # e
    BY <1>2, <1>7
  <2> QED
    BY <1>1, <1>7, <2>1, Zenon
<1> QED
  BY <1>4, <1>5, <1>6, <1>7, Zenon

\* What a string view of the payload reads is a part of the text.
LEMMA SliceText ==
  ASSUME BufferSize \in Nat, NEW t \in Seq(Octet), NEW b \in 0..BufferSize, b + 1 <= Len(t),
         \A p \in 2..b + 1 : buffer[p - 2] = t[p],
         NEW a \in Nat, NEW n \in Nat, a + n <= b
  PROVE  Text([start |-> a, len |-> n]) = SubSeq(t, a + 2, a + n + 1)
<1> DEFINE text == Text([start |-> a, len |-> n])
           slice == SubSeq(t, a + 2, a + n + 1)
<1>1. \A p \in 1..Len(t) : t[p] \in Octet
  BY ElementOfSeq
<1>2. \A i \in a + 2..a + n + 1 : t[i] \in Octet
  BY <1>1, LenProperties
<1>3. /\ slice \in Seq(Octet) /\ Len(slice) = n
      /\ \A i \in 1..n : slice[i] = t[a + i + 1] /\ t[a + i + 1] \in Octet
  BY <1>2, SubSeqProperties
<1>4. \A i \in 1..n : CharAt(a + i - 1) = t[a + i + 1]
  <2> SUFFICES ASSUME NEW i \in 1..n PROVE CharAt(a + i - 1) = t[a + i + 1]
    OBVIOUS
  <2>1. a + i + 1 \in 2..b + 1 /\ (a + i + 1) - 2 = a + i - 1 /\ a + i - 1 \in Slot
    BY DEF Slot
  <2>2. buffer[a + i - 1] = t[a + i + 1]
    BY <2>1, Zenon
  <2> QED
    BY <2>1, <2>2 DEF CharAt
<1>5. text = [i \in 1..n |-> CharAt(a + i - 1)]
  BY DEF Text
<1>6. text \in Seq(Octet) /\ Len(text) = n /\ \A i \in 1..n : text[i] = CharAt(a + i - 1)
  <2>1. \A i \in 1..n : CharAt(a + i - 1) \in Octet
    BY <1>3, <1>4, Zenon
  <2> HIDE DEF text
  <2> QED
    BY <1>5, <2>1
<1> HIDE DEF text, slice
<1>7. text = slice
  BY <1>3, <1>4, <1>6, SeqEqual
<1> QED
  BY <1>7 DEF text, slice

LEMMA SliceOfSlice ==
  ASSUME NEW s \in Seq(Octet), NEW i \in Nat \ {0}, NEW j \in Nat, j <= Len(s),
         NEW m \in Nat \ {0}, NEW n \in Nat, n <= j - i + 1
  PROVE  SubSeq(SubSeq(s, i, j), m, n) = SubSeq(s, i + m - 1, i + n - 1)
<1> DEFINE u == SubSeq(s, i, j)
           v == SubSeq(u, m, n)
           w == SubSeq(s, i + m - 1, i + n - 1)
<1>1. \A k \in i..j : s[k] \in Octet
  BY LenProperties, ElementOfSeq
<1>2. \A k \in 1..j - i + 1 : u[k] = s[i + k - 1]
  BY <1>1, SubSeqProperties
<1>3. \A k \in m..n : u[k] = s[i + k - 1] /\ s[i + k - 1] \in Octet
  BY <1>1, <1>2
<1>4. \A k \in m..n : u[k] \in Octet
  BY <1>3
<1> HIDE DEF u
<1>5. /\ v \in Seq(Octet) /\ Len(v) = IF m <= n THEN n - m + 1 ELSE 0
      /\ \A k \in 1..n - m + 1 : v[k] = u[m + k - 1]
  BY <1>4, SubSeqProperties
<1>6. \A k \in i + m - 1..i + n - 1 : s[k] \in Octet
  BY <1>1
<1>7. /\ w \in Seq(Octet) /\ Len(w) = IF m <= n THEN n - m + 1 ELSE 0
      /\ \A k \in 1..n - m + 1 : w[k] = s[i + m + k - 2]
  <2>1. i + m - 1 \in Int /\ i + n - 1 \in Int
    OBVIOUS
  <2>2. /\ w \in Seq(Octet)
        /\ Len(w) = IF i + m - 1 <= i + n - 1 THEN (i + n - 1) - (i + m - 1) + 1 ELSE 0
        /\ \A k \in 1..(i + n - 1) - (i + m - 1) + 1 : w[k] = s[(i + m - 1) + k - 1]
    BY <1>6, <2>1, SubSeqProperties
  <2> QED
    BY <2>2
<1> HIDE DEF v, w
<1>8. \A k \in 1..Len(v) : v[k] = w[k]
  <2> SUFFICES ASSUME NEW k \in 1..Len(v) PROVE v[k] = w[k]
    OBVIOUS
  <2>1. k \in 1..n - m + 1 /\ m + k - 1 \in m..n /\ i + (m + k - 1) - 1 = i + m + k - 2
    BY <1>5
  <2> QED
    BY <1>3, <1>5, <1>7, <2>1
<1> QED
  BY <1>5, <1>7, <1>8, SeqEqual DEF u, v, w

\* The state just before the last byte of a sentence, next to its text with that byte.
LEMMA TextComplete ==
  ASSUME DecoderInv, pc \notin {"start", "payload"}, NEW c \in Octet
  PROVE  LET t == Append(sentence, c)
             e == buffer_idx + 2
         IN  /\ EndsAt(t, e)
             /\ Len(t) = e + CASE pc = "hex1" -> 1 [] pc = "hex2" -> 2 [] pc = "cr" -> 3
                               [] pc = "lf" -> 4
             /\ t[Len(t)] = c
             /\ \A p \in 2..buffer_idx + 1 : buffer[p - 2] = t[p]
             /\ pc = "lf" => t[e + 1] = hex1 /\ t[e + 2] = hex2
             /\ Sentence!Cuts(SubSeq(t, 1, e)) = Seen
<1> DEFINE t == Append(sentence, c)
           e == buffer_idx + 2
<1>1. /\ TextInv /\ sentence \in Seq(Octet) /\ Len(sentence) \in Nat /\ BufferSize \in Nat
      /\ buffer_idx \in 0..BufferSize /\ pc \in {"hex1", "hex2", "cr", "lf"}
      /\ e \in 1..Len(sentence)
  BY SeenType, LenProperties, SizeAssumption
     DEF DecoderInv, ProgressInv, SentenceInv, FramerInv, TypeOK
<1>2. /\ t \in Seq(Octet) /\ Len(t) = Len(sentence) + 1 /\ t[Len(t)] = c
      /\ \A p \in 1..Len(sentence) : t[p] = sentence[p]
  BY <1>1, AppendProperties
<1>3. /\ \A p \in 2..e - 1 : buffer[p - 2] = sentence[p] /\ sentence[p] \notin {STAR, LF}
      /\ sentence[e] \in {STAR, LF} \/ e = BufferSize + 2
      /\ Len(sentence) = e + (IF pc = "hex1" THEN 0 ELSE IF pc = "hex2" THEN 1
                              ELSE IF pc = "cr" THEN 2 ELSE 3)
      /\ pc = "lf" => sentence[e + 1] = hex1 /\ sentence[e + 2] = hex2
  BY <1>1 DEF TextInv
<1>4. Sentence!Cuts(SubSeq(t, 1, e)) = Seen
  <2>1. SubSeq(t, 1, e) = SubSeq(sentence, 1, e)
    BY <1>1, PrefixOfAppend
  <2> QED
    BY <1>1, <2>1 DEF Seen
<1> HIDE DEF t
<1>5. EndsAt(t, e)
  <2>1. \A p \in 2..e - 1 : p \in 1..Len(sentence) /\ p # BufferSize + 2
    BY <1>1
  <2>2. \A p \in 2..e - 1 : t[p] \notin {STAR, LF} /\ p # BufferSize + 2
    BY <1>2, <1>3, <2>1, Zenon
  <2>3. e \in 2..Len(t) /\ t[e] = sentence[e]
    BY <1>1, <1>2
  <2> QED
    BY <1>2, <1>3, <2>2, <2>3, Zenon DEF EndsAt
<1>6. Len(t) = e + CASE pc = "hex1" -> 1 [] pc = "hex2" -> 2 [] pc = "cr" -> 3 [] pc = "lf" -> 4
  BY <1>1, <1>2, <1>3
<1>7. \A p \in 2..buffer_idx + 1 : buffer[p - 2] = t[p]
  <2>1. \A p \in 2..buffer_idx + 1 : p \in 1..Len(sentence) /\ p \in 2..e - 1
    BY <1>1
  <2> QED
    BY <1>2, <1>3, <2>1, Zenon
<1>8. pc = "lf" => t[e + 1] = hex1 /\ t[e + 2] = hex2
  BY <1>1, <1>2, <1>3, SMTT(30)
<1> QED
  BY <1>2, <1>4, <1>5, <1>6, <1>7, <1>8, Zenon DEF t

\* The smaller of the room for fields and the tokens there are.
LEMMA RoomForFields ==
  ASSUME NEW n \in Nat, MaxFields \in Nat
  PROVE  Sentence!Min({MaxFields, IF n = 0 THEN 0 ELSE n - 1}) = FieldCount(n)
<1> DEFINE m == IF n = 0 THEN 0 ELSE n - 1
           x == Sentence!Min({MaxFields, m})
<1>1. m \in Nat /\ FieldCount(n) = IF m < MaxFields THEN m ELSE MaxFields
  BY DEF FieldCount
<1> HIDE DEF m
<1>2. \E y \in {MaxFields, m} : \A z \in {MaxFields, m} : y <= z
  BY <1>1
<1>3. x \in {MaxFields, m} /\ \A z \in {MaxFields, m} : x <= z
  BY <1>2 DEF Sentence!Min
<1> HIDE DEF x
<1>4. x = IF m < MaxFields THEN m ELSE MaxFields
  BY <1>1, <1>3
<1> QED
  BY <1>1, <1>4 DEF m, x

\* The characters that the views denote are the tokens of the payload.
LEMMA DecodedView ==
  ASSUME DecoderInv, pc = "lf", NEW c \in Octet
  PROVE  Sentence!View(Append(sentence, c)) = MessageText(view)
<1> DEFINE t == Append(sentence, c)
           b == buffer_idx
           cuts == Seen
           N == Len(cuts)
           tokens == Sentence!Tokens(t)
           first(k) == IF k = 1 THEN 2 ELSE cuts[k - 1] + 1
           address == IF tokens = <<>> THEN <<>> ELSE Head(tokens)
           fields == IF tokens = <<>> THEN <<>> ELSE Tail(tokens)
<1> USE SizeAssumption, AddressAssumption
<1>1. /\ EndsAt(t, b + 2) /\ Len(t) = b + 6 /\ t \in Seq(Octet) /\ b \in 0..BufferSize
      /\ \A p \in 2..b + 1 : buffer[p - 2] = t[p]
      /\ Sentence!Cuts(SubSeq(t, 1, b + 2)) = cuts
  <2>1. (b + 2) + 4 = b + 6 /\ b \in 0..BufferSize
    BY DEF DecoderInv, FramerInv, TypeOK
  <2> QED
    BY <2>1, TextComplete DEF EndsAt
<1>2. /\ cuts \in Seq(Nat) /\ N \in Nat
      /\ CutsInv(cuts) /\ AddressInv(cuts) /\ FieldsInv(cuts)
      /\ view \in MessageView
  BY SeenType, LenProperties DEF DecoderInv, SentenceInv, FramerInv, TypeOK
<1> HIDE DEF t, cuts
<1>3. /\ \A k \in 1..N : cuts[k] \in 2..b + 2
      /\ \A k \in 2..N : cuts[k - 1] < cuts[k]
  <2>1. \A k \in 1..N : cuts[k] \in 2..Len(sentence) /\ cuts[k] <= b + 2
    BY <1>2, Zenon DEF CutsInv
  <2>2. Len(sentence) \in Nat
    BY LenProperties DEF DecoderInv, ProgressInv
  <2>3. \A k \in 1..N : cuts[k] \in 2..b + 2
    BY <1>1, <2>1, <2>2
  <2> QED
    BY <1>2, <2>3, Zenon DEF CutsInv
<1>4. tokens = [k \in 1..N |-> SubSeq(t, first(k), cuts[k] - 1)]
  <2>1. Sentence!PayloadEnd(t) = b + 2
    BY <1>1, EndOfText
  <2> QED
    BY <1>1, <2>1, Zenon DEF Sentence!Tokens
<1>5. /\ tokens \in Seq(Seq(Octet)) /\ Len(tokens) = N /\ (tokens = <<>> <=> N = 0)
      /\ N # 0 => tokens[1] = SubSeq(t, 2, cuts[1] - 1)
      /\ \A k \in 1..N - 1 : tokens[k + 1] = SubSeq(t, cuts[k] + 1, cuts[k + 1] - 1)
  <2>1. ASSUME NEW k \in 1..N PROVE SubSeq(t, first(k), cuts[k] - 1) \in Seq(Octet)
    <3>1. cuts[k] \in 2..b + 2 /\ (k # 1 => k - 1 \in 1..N /\ cuts[k - 1] \in 2..b + 2)
      BY <1>2, <1>3
    <3>2. first(k) \in Nat \ {0} /\ cuts[k] - 1 \in 1..b + 1
      <4>1. cuts[k] - 1 \in 1..b + 1
        BY <1>1, <3>1
      <4>2. CASE k = 1
        BY <4>1, <4>2
      <4>3. CASE k # 1
        <5>1. first(k) = cuts[k - 1] + 1
          BY <4>3
        <5> QED
          BY <1>1, <3>1, <4>1, <4>3, <5>1
      <4> QED
        BY <4>2, <4>3
    <3> HIDE DEF first
    <3>3. \A i \in first(k)..cuts[k] - 1 : i \in 1..Len(t)
      BY <1>1, <3>2
    <3>4. \A i \in first(k)..cuts[k] - 1 : t[i] \in Octet
      BY <1>1, <3>3, ElementOfSeq, Zenon
    <3> QED
      BY <3>2, <3>4, SubSeqProperties
  <2> HIDE DEF tokens
  <2>2. tokens \in Seq(Seq(Octet)) /\ Len(tokens) = N
    <3>1. tokens \in [1..N -> Seq(Octet)]
      BY <1>4, <2>1, Zenon
    <3> QED
      BY <1>2, <3>1
  <2>3. tokens = <<>> <=> N = 0
    BY <1>2, <2>2, EmptySeq
  <2>4. \A k \in 1..N : tokens[k] = SubSeq(t, first(k), cuts[k] - 1)
    BY <1>4, Zenon
  <2>5. N # 0 => tokens[1] = SubSeq(t, 2, cuts[1] - 1)
    BY <1>2, <2>4
  <2>6. ASSUME NEW k \in 1..N - 1 PROVE tokens[k + 1] = SubSeq(t, cuts[k] + 1, cuts[k + 1] - 1)
    <3>1. k + 1 \in 1..N /\ k + 1 # 1 /\ (k + 1) - 1 = k
      BY <1>2
    <3>2. first(k + 1) = cuts[k] + 1
      BY <3>1
    <3> HIDE DEF first
    <3> QED
      BY <2>4, <3>1, <3>2, Zenon
  <2> QED
    BY <2>2, <2>3, <2>5, <2>6
<1> HIDE DEF tokens
<1>6. /\ Text(EmptyView) = <<>>
      /\ \A a, n \in Nat : a + n <= b => Text([start |-> a, len |-> n]) = SubSeq(t, a + 2, a + n + 1)
  <2>1. Text(EmptyView) = <<>>
    BY DEF Text, EmptyView
  <2>2. b + 1 <= Len(t) /\ BufferSize \in Nat
    BY <1>1
  <2> QED
    BY <1>1, <2>1, <2>2, SliceText
<1>7. /\ view.fields \in Seq(StringView) /\ Len(view.fields) = FieldCount(N) /\ FieldCount(N) \in Nat
      /\ N = 0 => FieldCount(N) = 0
      /\ N # 0 => FieldCount(N) <= N - 1
  BY <1>2 DEF FieldsInv, FieldCount, MessageView
<1>8. /\ fields \in Seq(Seq(Octet)) /\ Len(fields) = (IF N = 0 THEN 0 ELSE N - 1)
      /\ \A k \in 1..Len(fields) : fields[k] = tokens[k + 1]
  <2>1. CASE N = 0
    BY <1>5, <2>1, EmptySeq
  <2>2. CASE N # 0
    BY <1>2, <1>5, <2>2, HeadTailProperties
  <2> QED
    BY <2>1, <2>2
<1>9. /\ (N = 0 => Len(address) = 0 /\ address = <<>>)
      /\ N # 0 => address = SubSeq(t, 2, cuts[1] - 1) /\ Len(address) = cuts[1] - 2 /\ cuts[1] - 2 \in 0..b
  <2>1. CASE N = 0
    BY <1>5, <2>1, EmptySeq
  <2>2. CASE N # 0
    <3>1. cuts[1] - 1 \in 1..b + 1 /\ cuts[1] - 2 \in 0..b
      <4>1. 1 \in 1..N
        BY <1>2, <2>2
      <4>2. cuts[1] \in 2..b + 2 /\ b \in Nat
        BY <1>1, <1>3, <4>1
      <4> QED
        BY <4>2
    <3>2. address = SubSeq(t, 2, cuts[1] - 1)
      BY <1>2, <1>5, <2>2
    <3>3. \A i \in 2..cuts[1] - 1 : t[i] \in Octet
      <4>1. \A i \in 2..cuts[1] - 1 : i \in 1..Len(t)
        BY <1>1, <3>1
      <4> QED
        BY <1>1, <4>1, ElementOfSeq, Zenon
    <3>4. Len(SubSeq(t, 2, cuts[1] - 1)) = cuts[1] - 2
      <4> DEFINE end == cuts[1] - 1
      <4>1. end \in Nat /\ 1 <= end /\ end - 1 = cuts[1] - 2
        <5>1. \A x \in 2..b + 2 : x - 1 \in Nat /\ 1 <= x - 1 /\ (x - 1) - 1 = x - 2
          BY <1>1
        <5>2. cuts[1] \in 2..b + 2
          BY <1>2, <1>3, <2>2
        <5> QED
          BY <5>1, <5>2, Zenon
      <4>2. \A i \in 2..end : t[i] \in Octet
        BY <3>3
      <4> HIDE DEF end
      <4>3. Len(SubSeq(t, 2, end)) = end - 1
        BY <4>1, <4>2, SubSeqProperties
      <4> QED
        BY <4>1, <4>3 DEF end
    <3> HIDE DEF address
    <3> QED
      BY <2>2, <3>1, <3>2, <3>4
  <2> QED
    BY <2>1, <2>2
<1> HIDE DEF address, fields
\* The fields.
<1>10. SubSeq(fields, 1, FieldCount(N)) = MessageText(view).fields
  <2> DEFINE asked == SubSeq(fields, 1, FieldCount(N))
             given == [k \in 1..Len(view.fields) |-> Text(view.fields[k])]
             M == FieldCount(N)
  <2>1. M <= Len(fields) /\ M \in Nat /\ Len(fields) \in Nat
    BY <1>2, <1>7, <1>8
  <2>2. /\ asked \in Seq(Seq(Octet)) /\ Len(asked) = M
        /\ \A k \in 1..M : asked[k] = fields[k] /\ fields[k] \in Seq(Octet)
    <3> HIDE DEF M
    <3>1. \A k \in 1..M : fields[k] \in Seq(Octet)
      BY <1>8, <2>1, ElementOfSeq
    <3> QED
      BY <2>1, <3>1, SubSeqProperties DEF M
  <2>3. ASSUME NEW k \in 1..M PROVE Text(view.fields[k]) = fields[k]
    <3>1. k \in 1..N - 1 /\ k + 1 \in 2..N /\ k \in 1..N /\ k + 1 \in 1..N /\ (k + 1) - 1 = k /\ k \in 1..Len(fields)
      BY <1>2, <1>7, <2>1
    <3>2. cuts[k] \in 2..b + 2 /\ cuts[k + 1] \in 2..b + 2 /\ cuts[k] < cuts[k + 1]
      BY <1>3, <3>1
    <3>3. view.fields[k] = [start |-> cuts[k] - 1, len |-> cuts[k + 1] - cuts[k] - 1]
      BY <1>2, <1>7 DEF FieldsInv
    <3> DEFINE a == cuts[k] - 1
               n == cuts[k + 1] - cuts[k] - 1
    <3>4. /\ a \in Nat /\ n \in Nat /\ a + n <= b
          /\ a + 2 = cuts[k] + 1 /\ a + n + 1 = cuts[k + 1] - 1
      <4>1. \A x, y \in 2..b + 2 : x < y =>
              /\ x - 1 \in Nat /\ y - x - 1 \in Nat /\ (x - 1) + (y - x - 1) <= b
              /\ (x - 1) + 2 = x + 1 /\ (x - 1) + (y - x - 1) + 1 = y - 1
        BY <1>1
      <4> QED
        BY <3>2, <4>1, Zenon
    <3>5. Text(view.fields[k]) = SubSeq(t, cuts[k] + 1, cuts[k + 1] - 1)
      <4>1. view.fields[k] = [start |-> a, len |-> n]
        BY <3>3
      <4> HIDE DEF a, n
      <4>2. Text([start |-> a, len |-> n]) = SubSeq(t, a + 2, a + n + 1)
        BY <1>6, <3>4
      <4> QED
        BY <3>4, <4>1, <4>2, Zenon
    <3>6. fields[k] = SubSeq(t, cuts[k] + 1, cuts[k + 1] - 1)
      BY <1>5, <1>8, <3>1
    <3> QED
      BY <3>5, <3>6
  <2>4. /\ given \in Seq(Seq(Octet)) /\ Len(given) = M
        /\ \A k \in 1..M : given[k] = fields[k]
    <3>1. given = [k \in 1..M |-> Text(view.fields[k])]
      BY <1>7
    <3>2. given \in [1..M -> Seq(Octet)]
      BY <2>2, <2>3, <3>1, Zenon
    <3>3. \A k \in 1..M : given[k] = fields[k]
      BY <2>3, <3>1, Zenon
    <3> HIDE DEF given, M
    <3> QED
      BY <2>1, <3>2, <3>3
  <2>5. MessageText(view).fields = given
    BY DEF MessageText
  <2> HIDE DEF asked, given, M
  <2>6. asked = given
    BY <2>2, <2>4, SeqEqual
  <2> QED
    BY <2>5, <2>6 DEF asked, M
\* The talker and the message type.
<1>11. /\ MessageText(view).talker_id =
            IF Len(address) >= TalkerLen + TypeLen THEN SubSeq(address, 1, TalkerLen) ELSE <<>>
       /\ MessageText(view).message_type =
            IF Len(address) >= TalkerLen + TypeLen
            THEN SubSeq(address, TalkerLen + 1, TalkerLen + TypeLen) ELSE <<>>
  <2>1. /\ MessageText(view).talker_id = Text(view.talker_id)
        /\ MessageText(view).message_type = Text(view.message_type)
    BY DEF MessageText
  <2>2. cuts = <<>> <=> N = 0
    BY <1>2, EmptySeq
  <2>3. CASE N # 0 /\ Len(address) >= TalkerLen + TypeLen
    <3>1. /\ view.talker_id = [start |-> 0, len |-> TalkerLen]
          /\ view.message_type = [start |-> TalkerLen, len |-> TypeLen]
      BY <1>2, <1>9, <2>2, <2>3 DEF AddressInv
    <3> DEFINE end == cuts[1] - 1
    <3>2. /\ address = SubSeq(t, 2, end) /\ end \in Nat /\ end <= b + 1 /\ end <= Len(t)
          /\ TalkerLen \in Nat /\ TypeLen \in Nat /\ TalkerLen + TypeLen + 1 <= end
      <4>1. 1 \in 1..N
        BY <1>2, <2>3
      <4>2. cuts[1] \in 2..b + 2 /\ b \in Nat
        BY <1>1, <1>3, <4>1
      <4>3. cuts[1] - 2 \in 0..b /\ Len(address) = cuts[1] - 2 /\ address = SubSeq(t, 2, cuts[1] - 1)
        BY <1>9, <2>3
      <4>4. cuts[1] - 2 >= TalkerLen + TypeLen
        BY <2>3, <4>3
      <4>5. Len(t) = b + 6 /\ TalkerLen \in Nat /\ TypeLen \in Nat
        BY <1>1
      <4> QED
        BY <4>2, <4>3, <4>4, <4>5
    <3> HIDE DEF end
    <3>3. /\ Text(view.talker_id) = SubSeq(t, 2, TalkerLen + 1)
          /\ Text(view.message_type) = SubSeq(t, TalkerLen + 2, TalkerLen + TypeLen + 1)
      <4>1. 0 + TalkerLen <= b /\ TalkerLen + TypeLen <= b /\ 0 + 2 = 2 /\ 0 + TalkerLen + 1 = TalkerLen + 1
        BY <1>1, <3>2
      <4>2. /\ Text([start |-> 0, len |-> TalkerLen]) = SubSeq(t, 0 + 2, 0 + TalkerLen + 1)
            /\ Text([start |-> TalkerLen, len |-> TypeLen]) =
                 SubSeq(t, TalkerLen + 2, TalkerLen + TypeLen + 1)
        BY <1>6, <3>2, <4>1
      <4> QED
        BY <3>1, <4>1, <4>2, Zenon
    <3>4. /\ SubSeq(address, 1, TalkerLen) = SubSeq(t, 2 + 1 - 1, 2 + TalkerLen - 1)
          /\ SubSeq(address, TalkerLen + 1, TalkerLen + TypeLen) =
               SubSeq(t, 2 + (TalkerLen + 1) - 1, 2 + (TalkerLen + TypeLen) - 1)
      <4>1. /\ 1 \in Nat \ {0} /\ 2 \in Nat \ {0} /\ TalkerLen + 1 \in Nat \ {0}
            /\ TalkerLen + TypeLen \in Nat
            /\ TalkerLen <= end - 2 + 1 /\ TalkerLen + TypeLen <= end - 2 + 1
        BY <3>2
      <4>2. /\ SubSeq(SubSeq(t, 2, end), 1, TalkerLen) = SubSeq(t, 2 + 1 - 1, 2 + TalkerLen - 1)
            /\ SubSeq(SubSeq(t, 2, end), TalkerLen + 1, TalkerLen + TypeLen) =
                 SubSeq(t, 2 + (TalkerLen + 1) - 1, 2 + (TalkerLen + TypeLen) - 1)
        BY <1>1, <3>2, <4>1, SliceOfSlice
      <4> QED
        BY <3>2, <4>2, Zenon
    <3>5. /\ 2 + 1 - 1 = 2 /\ 2 + TalkerLen - 1 = TalkerLen + 1
          /\ 2 + (TalkerLen + 1) - 1 = TalkerLen + 2
          /\ 2 + (TalkerLen + TypeLen) - 1 = TalkerLen + TypeLen + 1
      BY <3>2
    <3> QED
      BY <2>1, <2>3, <3>3, <3>4, <3>5, Zenon
  <2>4. CASE N # 0 /\ ~(Len(address) >= TalkerLen + TypeLen)
    <3>1. view.talker_id = EmptyView /\ view.message_type = EmptyView
      BY <1>2, <1>9, <2>2, <2>4 DEF AddressInv
    <3> QED
      BY <1>6, <2>1, <2>4, <3>1, Zenon
  <2>5. CASE N = 0
    <3>1. view.talker_id = EmptyView /\ view.message_type = EmptyView /\ address = <<>>
      BY <1>2, <1>9, <2>2, <2>5 DEF AddressInv
    <3>2. CASE Len(address) >= TalkerLen + TypeLen
      <4>1. TalkerLen < 1 /\ TalkerLen + TypeLen < TalkerLen + 1 /\ 1 \in Int /\ TalkerLen \in Int
            /\ TalkerLen + 1 \in Int /\ TalkerLen + TypeLen \in Int
        BY <1>9, <2>5, <3>2
      <4>2. /\ SubSeq(<<>>, 1, TalkerLen) = <<>>
            /\ SubSeq(<<>>, TalkerLen + 1, TalkerLen + TypeLen) = <<>>
        BY <4>1, SubSeqEmpty
      <4> QED
        BY <1>6, <2>1, <3>1, <4>2, Zenon
    <3>3. CASE ~(Len(address) >= TalkerLen + TypeLen)
      BY <1>6, <2>1, <3>1, <3>3, Zenon
    <3> QED
      BY <3>2, <3>3
  <2> QED
    BY <2>3, <2>4, <2>5
<1>12. Sentence!View(t) =
         [talker_id    |-> IF Len(address) >= TalkerLen + TypeLen
                           THEN SubSeq(address, 1, TalkerLen) ELSE <<>>,
          message_type |-> IF Len(address) >= TalkerLen + TypeLen
                           THEN SubSeq(address, TalkerLen + 1, TalkerLen + TypeLen) ELSE <<>>,
          fields       |-> SubSeq(fields, 1, Sentence!Min({MaxFields, Len(fields)}))]
  BY Zenon DEF Sentence!View, address, fields, tokens
<1>13. Sentence!Min({MaxFields, Len(fields)}) = FieldCount(N)
  BY <1>2, <1>8, RoomForFields
<1>14. MessageText(view) = [talker_id    |-> MessageText(view).talker_id,
                            message_type |-> MessageText(view).message_type,
                            fields       |-> MessageText(view).fields]
  BY DEF MessageText
<1>15. Sentence!View(t) = MessageText(view)
  BY <1>10, <1>11, <1>12, <1>13, <1>14, Zenon
<1> QED
  BY <1>15 DEF t

\* The stored bytes are the payload of the text, and its checksum the one computed.
LEMMA DecodedChecksum ==
  ASSUME DecoderInv, RunningChecksum, pc = "lf", NEW c \in Octet
  PROVE  LET payload == SubSeq(Append(sentence, c), 2, buffer_idx + 1)
         IN  /\ Sentence!Payload(Append(sentence, c)) = payload
             /\ Sentence!ChecksumMatches(payload, hex1, hex2) <=> ReceivedChecksum = calculated_checksum
<1> DEFINE t == Append(sentence, c)
           b == buffer_idx
           stored == [i \in 1..b |-> buffer[i - 1]]
           payload == SubSeq(t, 2, b + 1)
<1>1. /\ EndsAt(t, b + 2) /\ Len(t) = b + 6 /\ t \in Seq(Octet) /\ b \in 0..BufferSize
      /\ \A p \in 2..b + 1 : buffer[p - 2] = t[p]
      /\ BufferSize \in Nat /\ buffer \in [Slot -> Octet]
  <2>1. (b + 2) + 4 = b + 6 /\ b \in 0..BufferSize
    BY DEF DecoderInv, FramerInv, TypeOK
  <2> QED
    BY <2>1, TextComplete, SizeAssumption DEF EndsAt, DecoderInv, FramerInv, TypeOK
<1> HIDE DEF t
<1>2. Sentence!Payload(t) = payload
  <2>1. Sentence!PayloadEnd(t) = b + 2 /\ (b + 2) - 1 = b + 1
    BY <1>1, EndOfText
  <2> QED
    BY <2>1, Zenon DEF Sentence!Payload
<1>3. stored = payload
  <2>1. \A i \in 2..b + 1 : t[i] \in Octet
    <3>1. \A i \in 2..b + 1 : i \in 1..Len(t)
      BY <1>1
    <3> QED
      BY <1>1, <3>1, ElementOfSeq, Zenon
  <2>2. /\ payload \in Seq(Octet) /\ Len(payload) = b
        /\ \A i \in 1..b : payload[i] = t[i + 1]
    BY <1>1, <2>1, SubSeqProperties
  <2>3. \A i \in 1..b : buffer[i - 1] = t[i + 1] /\ buffer[i - 1] \in Octet
    <3> SUFFICES ASSUME NEW i \in 1..b PROVE buffer[i - 1] = t[i + 1] /\ buffer[i - 1] \in Octet
      OBVIOUS
    <3>1. i + 1 \in 2..b + 1 /\ (i + 1) - 2 = i - 1
      BY <1>1
    <3>2. buffer[i - 1] = t[i + 1]
      BY <1>1, <3>1, Zenon
    <3> QED
      BY <2>1, <3>1, <3>2
  <2>4. /\ stored \in Seq(Octet) /\ Len(stored) = b
        /\ \A i \in 1..b : stored[i] = buffer[i - 1]
    BY <1>1, <2>3
  <2> HIDE DEF stored, payload
  <2> QED
    BY <2>2, <2>3, <2>4, SeqEqual
<1>4. Sentence!XorOf(payload) = calculated_checksum
  <2>1. Sentence!XorOf(stored) = calculated_checksum
    BY Zenon DEF RunningChecksum, Sentence!Checksum
  <2> QED
    BY <1>3, <2>1, Zenon
<1>5. Sentence!HexValue(hex1) = HexValue(hex1) /\ Sentence!HexValue(hex2) = HexValue(hex2)
  BY Zenon DEF Sentence!HexValue, HexValue
<1> HIDE DEF payload
<1>6. Sentence!ChecksumMatches(payload, hex1, hex2) <=> ReceivedChecksum = calculated_checksum
  BY <1>4, <1>5, Zenon DEF Sentence!ChecksumMatches, Sentence!Checksum, ReceivedChecksum
<1> QED
  BY <1>2, <1>6, Zenon DEF t, payload

\* A byte outside a sentence is skipped or begins one.
LEMMA StepOutside ==
  ASSUME DecoderInv, NEW c \in Char, SearchStart(c)
  PROVE  Sentence!Skip(c) \/ Sentence!Begin(c)
<1>1. sentence = <<>> /\ output' = Silence
  BY DEF SearchStart, Await, DecoderInv, ProgressInv
<1>2. Report' = Sentence!Silence
  BY <1>1 DEF Report, Silence, Sentence!Silence
<1>3. Sentence!StartDelimiter = StartDelimiter
  BY DEF Sentence!StartDelimiter, StartDelimiter, Sentence!DOLLAR, DOLLAR, Sentence!BANG, BANG
<1>4. CASE c \in StartDelimiter
  <2>1. sentence' = <<c>>
    BY <1>1, <1>4 DEF SearchStart, Read
  <2> QED
    BY <1>1, <1>2, <1>3, <1>4, <2>1 DEF Sentence!Begin
<1>5. CASE c \notin StartDelimiter
  BY <1>1, <1>2, <1>3, <1>5 DEF SearchStart, Sentence!Skip
<1> QED
  BY <1>4, <1>5

\* How NmeaSentence goes on: with the verdict on the text, and over after a late one.
LEMMA ContinueWith ==
  ASSUME NEW c, sentence # <<>>, Report' = Sentence!Verdict(Append(sentence, c)),
         \/ sentence' = Append(sentence, c) /\ ~Sentence!Over(Append(sentence, c), Report')
         \/ sentence' = <<>> /\ Sentence!Over(Append(sentence, c), Report')
  PROVE  Sentence!Continue(c)
BY Zenon DEF Sentence!Continue

\* In the payload, the answer is that of the text up to this byte.
LEMMA StepInPayload ==
  ASSUME DecoderInv, NEW c \in Octet, ReadPayload(c)
  PROVE  Sentence!Continue(c)
<1> USE SizeAssumption
<1> DEFINE t == Append(sentence, c)
           e == buffer_idx + 2
<1>1. /\ pc = "payload" /\ sentence' = t /\ sentence # <<>> /\ sentence \in Seq(Octet)
      /\ Len(sentence) = buffer_idx + 1 /\ buffer_idx \in 0..BufferSize
      /\ \A p \in 2..buffer_idx + 1 : sentence[p] \notin {STAR, LF}
  BY DEF ReadPayload, Overrun, Read, DecoderInv, ProgressInv, FramerInv, TypeOK, SentenceInv, TextInv
<1>2. /\ t \in Seq(Octet) /\ Len(t) = e /\ t[e] = c
      /\ \A p \in 2..e - 1 : t[p] \notin {STAR, LF} /\ p # BufferSize + 2
  <2>1. /\ t \in Seq(Octet) /\ Len(t) = e /\ t[e] = c /\ \A p \in 1..buffer_idx + 1 : t[p] = sentence[p]
    BY <1>1, AppendProperties
  <2> QED
    BY <1>1, <2>1
<1> HIDE DEF t
<1>3. CASE c \notin {STAR, LF} /\ buffer_idx < BufferSize
  <2>1. output' = Silence
    BY <1>3 DEF ReadPayload, Fits, Await
  <2>2. Sentence!PayloadEnds(t) = {}
    <3>1. \A p \in 2..Len(t) : t[p] \notin {STAR, LF} /\ p # BufferSize + 2
      BY <1>1, <1>2, <1>3
    <3> QED
      BY <3>1, Zenon DEF Sentence!PayloadEnds, Sentence!STAR, STAR, Sentence!LF, LF
  <2>3. Sentence!Verdict(t) = Silence
    BY <2>2, VerdictOpen
  <2>4. Report' = Silence /\ ~Sentence!Over(t, Silence)
    BY <2>1 DEF Report, Silence, Sentence!Over, Sentence!Silence
  <2> QED
    BY <1>1, <2>3, <2>4, ContinueWith, Zenon DEF t
<1>4. CASE c \in {STAR, LF} \/ ~(buffer_idx < BufferSize)
  <2>1. EndsAt(t, e)
    BY <1>1, <1>2, <1>4 DEF EndsAt
  <2>2. ~Sentence!Over(t, Report')
    <3>1. Sentence!PayloadEnd(t) = e /\ ~(Len(t) >= e + 3)
      BY <1>1, <1>2, <2>1, EndOfText
    <3> QED
      BY <3>1, Zenon DEF Sentence!Over
  <2>3. Report' = Sentence!Verdict(t)
    <3>1. CASE c = STAR
      <4>1. Report' = Silence
        BY <3>1 DEF ReadPayload, Await, Report, Silence, STAR, LF
      <4> QED
        BY <1>2, <2>1, <3>1, <4>1, VerdictEnded
    <3>2. CASE c = LF
      <4>1. Report' = [kind |-> "newline"]
        BY <3>2 DEF ReadPayload, YieldError, Report, STAR, LF
      <4> QED
        BY <1>2, <2>1, <3>2, <4>1, VerdictEnded
    <3>3. CASE c \notin {STAR, LF}
      <4>1. Report' = [kind |-> "overrun"]
        BY <1>4, <3>3 DEF ReadPayload, Overrun, Fits, YieldError, Report
      <4> QED
        BY <1>2, <2>1, <3>3, <4>1, VerdictEnded
    <3> QED
      BY <3>1, <3>2, <3>3
  <2> QED
    BY <1>1, <2>2, <2>3, ContinueWith, Zenon DEF t
<1> QED
  BY <1>1, <1>3, <1>4

\* After the payload, the answer is that of the whole text.
LEMMA StepAfterPayload ==
  ASSUME DecoderInv, RunningChecksum, NEW c \in Octet,
         ReadHex1(c) \/ ReadHex2(c) \/ ReadCR(c) \/ ReadLF(c)
  PROVE  Sentence!Continue(c)
<1> DEFINE t == Append(sentence, c)
           e == buffer_idx + 2
<1>1. /\ pc \notin {"start", "payload"} /\ sentence # <<>> /\ buffer_idx \in Nat
      /\ UNCHANGED buffer
  BY DEF ReadHex1, ReadHex2, ReadCR, ReadLF, DecoderInv, ProgressInv, FramerInv, TypeOK
<1>2. /\ EndsAt(t, e) /\ t[Len(t)] = c
      /\ Len(t) = e + CASE pc = "hex1" -> 1 [] pc = "hex2" -> 2 [] pc = "cr" -> 3 [] pc = "lf" -> 4
      /\ pc = "lf" => t[e + 1] = hex1 /\ t[e + 2] = hex2
  BY <1>1, TextComplete
<1> HIDE DEF t
<1>3. Sentence!PayloadEnd(t) = e /\ e \in Nat
  BY <1>1, <1>2, EndOfText
<1>4. ASSUME sentence' = t, Report' = Silence, Sentence!Verdict(t) = Silence
      PROVE  Sentence!Continue(c)
  <2>1. ~Sentence!Over(t, Report')
    BY <1>4 DEF Sentence!Over, Sentence!Silence, Silence
  <2> QED
    BY <1>1, <1>4, <2>1, ContinueWith, Zenon DEF t
<1>5. ASSUME sentence' = <<>>, Report' # Silence, Len(t) = e + 3 \/ Len(t) = e + 4,
             Report' = Sentence!Verdict(t)
      PROVE  Sentence!Continue(c)
  <2>1. Len(t) >= e + 3
    BY <1>3, <1>5
  <2>2. Sentence!Over(t, Report')
    BY <1>3, <1>5, <2>1, Zenon DEF Sentence!Over, Sentence!Silence, Silence
  <2> QED
    BY <1>1, <1>5, <2>2, ContinueWith, Zenon DEF t
<1>6. CASE ReadHex1(c) \/ ReadHex2(c)
  <2>1. sentence' = t /\ Report' = Silence /\ pc \in {"hex1", "hex2"}
    BY <1>6 DEF ReadHex1, ReadHex2, Await, Read, Report, Silence, t
  <2>2. Len(t) = e + 1 \/ Len(t) = e + 2
    BY <1>2, <2>1
  <2> QED
    BY <1>2, <1>4, <2>1, <2>2, VerdictEnded
<1>7. CASE ReadCR(c)
  <2>1. Len(t) = e + 3 /\ t[e + 3] = c
    BY <1>2, <1>7 DEF ReadCR
  <2>2. CASE c = CR
    <3>1. sentence' = t /\ Report' = Silence
      BY <1>7, <2>2 DEF ReadCR, Await, Read, Report, Silence, t
    <3> QED
      BY <1>2, <1>4, <2>1, <2>2, <3>1, VerdictEnded
  <2>3. CASE c # CR
    <3>1. sentence' = <<>> /\ Report' = [kind |-> "badcrlf"] /\ Report' # Silence
      BY <1>7, <2>3 DEF ReadCR, YieldError, SentenceOver, Report, Silence
    <3> QED
      BY <1>2, <1>5, <2>1, <2>3, <3>1, VerdictEnded
  <2> QED
    BY <2>2, <2>3
<1>8. CASE ReadLF(c)
  <2>1. pc = "lf" /\ Len(t) = e + 4 /\ t[e + 4] = c /\ sentence' = <<>>
    BY <1>2, <1>8 DEF ReadLF, SentenceOver
  <2>2. t[e + 1] = hex1 /\ t[e + 2] = hex2
    BY <1>2, <2>1
  <2>3. CASE c # LF
    <3>1. Report' = [kind |-> "badcrlf"] /\ Report' # Silence
      BY <1>8, <2>3 DEF ReadLF, YieldError, Report, Silence
    <3> QED
      BY <1>2, <1>5, <2>1, <2>3, <3>1, VerdictEnded
  <2>4. CASE c = LF
    <3>1. Sentence!Verdict(t) =
            IF ~ValidDigits THEN [kind |-> "badhex"]
            ELSE IF ReceivedChecksum = calculated_checksum
                 THEN [kind |-> "view", view |-> MessageText(view)]
                 ELSE [kind |-> "mismatch"]
      <4>1. Sentence!ChecksumMatches(Sentence!Payload(t), hex1, hex2)
              <=> ReceivedChecksum = calculated_checksum
        BY <2>1, DecodedChecksum, Zenon DEF t
      <4>2. Sentence!View(t) = MessageText(view)
        BY <2>1, DecodedView DEF t
      <4>3. Sentence!Verdict(t) =
              IF ~({t[e + 1], t[e + 2]} \subseteq HexDigit) THEN [kind |-> "badhex"]
              ELSE IF Sentence!ChecksumMatches(Sentence!Payload(t), t[e + 1], t[e + 2])
                   THEN [kind |-> "view", view |-> Sentence!View(t)]
                   ELSE [kind |-> "mismatch"]
        BY <1>2, <2>1, <2>4, VerdictEnded
      <4> QED
        BY <2>2, <4>1, <4>2, <4>3, Zenon DEF ValidDigits
    <3>2. MessageText(view)' = MessageText(view)
      BY <1>1, <1>8 DEF ReadLF, locals, MessageText, Text, CharAt
    <3>3. \/ ~ValidDigits /\ output' = [kind |-> "badhex"]
          \/ ValidDigits /\ ReceivedChecksum # calculated_checksum /\ output' = [kind |-> "mismatch"]
          \/ ValidDigits /\ ReceivedChecksum = calculated_checksum /\ output' = [kind |-> "view", view |-> view]
      BY <1>8, <2>4 DEF ReadLF, YieldError
    <3>4. Report' # Silence /\ Report' = Sentence!Verdict(t)
      <4>1. CASE output' \in {[kind |-> "badhex"], [kind |-> "mismatch"]}
        <5>1. Report' = output' /\ Report' # Silence /\ output' # [kind |-> "view", view |-> view]
          BY <4>1 DEF Report, Silence
        <5> QED
          BY <3>1, <3>3, <5>1, Zenon
      <4>2. CASE ValidDigits /\ ReceivedChecksum = calculated_checksum /\ output' = [kind |-> "view", view |-> view]
        <5>1. output'.kind = "view" /\ output'.view = view
          BY <4>2
        <5>2. MessageText(output.view)' = MessageText(view)
          BY <1>1, <5>1 DEF MessageText, Text, CharAt
        <5>3. Report' = [kind |-> "view", view |-> MessageText(view)]
          BY <5>1, <5>2, Zenon DEF Report
        <5>4. Report' # Silence
          BY <5>3 DEF Silence
        <5> QED
          BY <3>1, <4>2, <5>3, <5>4, Zenon
      <4> QED
        BY <3>3, <4>1, <4>2
    <3> QED
      BY <1>5, <2>1, <3>4
  <2> QED
    BY <2>3, <2>4
<1> QED
  BY <1>6, <1>7, <1>8

\* The framer implements NmeaSentence: what push_byte() returns for a byte is what the text
\* of the sentence up to that byte calls for, whatever the alphabet, the size of the buffer
\* and the limits.
THEOREM ImplementsSentence == Spec => DecodesSentences
<1>1. Init => Sentence!Init
  BY DEF Init, Sentence!Init, Report, Silence, Sentence!Silence
<1>2. DecoderInv /\ RunningChecksum /\ [Next]_vars => [Sentence!Next]_Sentence!vars
  <2> SUFFICES ASSUME DecoderInv, RunningChecksum, [Next]_vars
               PROVE  [Sentence!Next]_Sentence!vars
    OBVIOUS
  <2>1. CASE UNCHANGED vars
    BY <2>1 DEF vars, Sentence!vars, Report, MessageText, Text, CharAt
  <2>2. ASSUME NEW c \in Char, push_byte(c) PROVE Sentence!Next
    <3>1. c \in Octet
      BY CharAssumption
    <3>2. Sentence!Skip(c) \/ Sentence!Begin(c) \/ Sentence!Continue(c)
      BY <2>2, <3>1, StepOutside, StepInPayload, StepAfterPayload DEF push_byte
    <3> QED
      BY <3>2 DEF Sentence!Next
  <2> QED
    BY <2>1, <2>2 DEF Next
<1> QED
  BY <1>1, <1>2, DecoderInvariant, ChecksumOfStored, PTL
     DEF Spec, DecodesSentences, Sentence!Spec

\* Without an earlier error, the last byte is answered with a message exactly if the text is
\* a well-formed sentence: no damaged one is accepted, and no intact one refused.
THEOREM AcceptsExactlyWellFormed == Spec => AcceptsWellFormed
<1> DEFINE A == pc = "lf" /\ PayloadComplete /\ output'.kind # "badcrlf" =>
                  (output'.kind = "view" <=> Sentence!WellFormed(Append(sentence, LF)))
<1>1. DecoderInv /\ RunningChecksum /\ [Next]_vars => [A]_vars
  <2> SUFFICES ASSUME DecoderInv, RunningChecksum, NEW c \in Char, push_byte(c),
                      pc = "lf", PayloadComplete, output'.kind # "badcrlf"
               PROVE  output'.kind = "view" <=> Sentence!WellFormed(Append(sentence, LF))
    BY DEF Next
  <2> DEFINE t == Append(sentence, LF)
             b == buffer_idx
  <2>1. ReadLF(c) /\ c = LF /\ LF \in Octet
    BY DEF push_byte, SearchStart, ReadPayload, ReadHex1, ReadHex2, ReadCR, ReadLF, YieldError,
           LF, Octet
  <2>2. output'.kind = "view" <=> ValidDigits /\ ReceivedChecksum = calculated_checksum
    BY <2>1 DEF ReadLF, YieldError
  <2>3. /\ t \in Seq(Octet) /\ Len(t) = b + 6 /\ t[b + 6] = LF /\ b \in 0..BufferSize
        /\ t[b + 3] = hex1 /\ t[b + 4] = hex2
        /\ \A p \in 2..b + 1 : t[p] \notin {STAR, LF}
    <3>1. /\ EndsAt(t, b + 2) /\ Len(t) = (b + 2) + 4 /\ t[Len(t)] = LF
          /\ t[(b + 2) + 1] = hex1 /\ t[(b + 2) + 2] = hex2
      BY <2>1, TextComplete
    <3>2. b \in 0..BufferSize /\ BufferSize \in Nat
      BY SizeAssumption DEF DecoderInv, FramerInv, TypeOK
    <3> HIDE DEF t
    <3> QED
      BY <3>1, <3>2, SMTT(40) DEF EndsAt
  <2>4. t[1] \in StartDelimiter /\ t[b + 2] = STAR /\ t[b + 5] = CR
    <3>1. /\ sentence \in Seq(Octet) /\ Len(sentence) = b + 5 /\ sentence[1] \in StartDelimiter
          /\ sentence[b + 5] = CR
          /\ \A p \in 2..b + 1 : sentence[p] \notin {STAR, LF}
          /\ sentence[b + 2] \in {STAR, LF} \/ b + 2 = BufferSize + 2
      <4>1. TextInv /\ sentence \in Seq(Octet) /\ Len(sentence) \in Nat
        BY LenProperties DEF DecoderInv, ProgressInv, SentenceInv
      <4>2. Len(sentence) = b + 5
        BY <2>3, <4>1 DEF TextInv
      <4>3. b + 5 >= b + 2 /\ b + 5 > (b + 2) + 2 /\ (b + 2) + 3 = b + 5 /\ (b + 2) - 1 = b + 1
        BY <2>3
      <4> QED
        BY <4>1, <4>2, <4>3, Zenon DEF TextInv
    <3>2. EndsAt(sentence, b + 2)
      BY <2>3, <3>1, SizeAssumption DEF EndsAt
    <3>3. sentence[b + 2] = STAR
      BY <3>2, EndOfText DEF PayloadComplete, Sentence!STAR, STAR
    <3>4. \A p \in 1..Len(sentence) : t[p] = sentence[p]
      BY <2>1, <3>1, AppendProperties
    <3> QED
      BY <2>3, <3>1, <3>3, <3>4
  <2>5. Sentence!ChecksumMatches(SubSeq(t, 2, b + 1), hex1, hex2)
          <=> ReceivedChecksum = calculated_checksum
    BY <2>1, DecodedChecksum, Zenon
  <2> HIDE DEF t
  <2>6. Sentence!WellFormed(t)
          <=> ValidDigits /\ Sentence!ChecksumMatches(SubSeq(t, 2, b + 1), hex1, hex2)
    <3> DEFINE Answers(n) ==
                 /\ Len(t) = n + 6
                 /\ t[1] \in StartDelimiter
                 /\ \A i \in 2..n + 1 : t[i] \notin {STAR, LF}
                 /\ t[n + 2] = STAR
                 /\ t[n + 3] \in HexDigit /\ t[n + 4] \in HexDigit
                 /\ Sentence!ChecksumMatches(SubSeq(t, 2, n + 1), t[n + 3], t[n + 4])
                 /\ t[n + 5] = CR /\ t[n + 6] = LF
    <3>1. Sentence!WellFormed(t) <=> \E n \in 0..BufferSize : Answers(n)
      BY Zenon DEF Sentence!WellFormed, Sentence!StartDelimiter, StartDelimiter, Sentence!DOLLAR, DOLLAR,
                   Sentence!BANG, BANG, Sentence!STAR, STAR, Sentence!LF, LF, Sentence!CR, CR,
                   Sentence!HexDigit, HexDigit
    <3>2. Answers(b) <=> ValidDigits /\ Sentence!ChecksumMatches(SubSeq(t, 2, b + 1), hex1, hex2)
      BY <2>3, <2>4 DEF ValidDigits
    <3>3. \A n \in 0..BufferSize : Len(t) = n + 6 => n = b
      BY <2>3
    <3>4. (\E n \in 0..BufferSize : Answers(n)) <=> Answers(b)
      BY <2>3, <3>3, Zenon
    <3> QED
      BY <3>1, <3>2, <3>4, Zenon
  <2> QED
    BY <2>2, <2>5, <2>6, Zenon DEF t
<1> QED
  BY <1>1, DecoderInvariant, ChecksumOfStored, PTL DEF Spec, AcceptsWellFormed
===============================================================================
