------------------------- MODULE InputAwaiter_proofs --------------------------
(***************************************************************************)
(* The hand-off proved for every alphabet, every body and every number of   *)
(* calls: HandOffInv is inductive, the two ordering properties follow from  *)
(* it, and the hand-off implements the synchronous call of PushByte.        *)
(***************************************************************************)
EXTENDS InputAwaiter, SequenceTheorems, TLAPS

\* The first n elements of a sequence, for any n it has.
LEMMA PrefixProperties ==
  ASSUME NEW S, NEW s, NEW n \in Nat, \A i \in 1..n : s[i] \in S
  PROVE  /\ SubSeq(s, 1, n) \in Seq(S)
         /\ Len(SubSeq(s, 1, n)) = n
         /\ \A i \in 1..n : SubSeq(s, 1, n)[i] = s[i]
<1>1. /\ SubSeq(s, 1, n) \in Seq(S)
      /\ Len(SubSeq(s, 1, n)) = IF 1 <= n THEN n - 1 + 1 ELSE 0
      /\ \A i \in 1..n - 1 + 1 : SubSeq(s, 1, n)[i] = s[1 + i - 1]
  BY SubSeqProperties, SMTT(20)
<1>2. (IF 1 <= n THEN n - 1 + 1 ELSE 0) = n /\ n - 1 + 1 = n
  OBVIOUS
<1>3. \A i \in 1..n : 1 + i - 1 = i
  OBVIOUS
<1> QED
  BY <1>1, <1>2, <1>3

\* Taking the last element off a sequence, after appending it and before putting it back.
LEMMA FrontOfAppend ==
  ASSUME NEW S, NEW s \in Seq(S), NEW c \in S
  PROVE  SubSeq(Append(s, c), 1, Len(s)) = s
<1> DEFINE t == SubSeq(Append(s, c), 1, Len(s))
<1>1. Len(s) \in Nat /\ \A i \in 1..Len(s) : Append(s, c)[i] = s[i] /\ s[i] \in S
  BY AppendProperties
<1>2. t \in Seq(S) /\ Len(t) = Len(s) /\ \A i \in 1..Len(s) : t[i] = s[i]
  BY <1>1, PrefixProperties
<1> QED
  BY <1>2, SeqEqual

LEMMA AppendLast ==
  ASSUME NEW S, NEW s \in Seq(S), s # <<>>
  PROVE  /\ Append(SubSeq(s, 1, Len(s) - 1), s[Len(s)]) = s
         /\ Len(SubSeq(s, 1, Len(s) - 1)) = Len(s) - 1
         /\ s[Len(s)] \in S
<1> DEFINE f == SubSeq(s, 1, Len(s) - 1)
           t == Append(f, s[Len(s)])
<1>1. Len(s) \in Nat \ {0} /\ \A i \in 1..Len(s) : s[i] \in S
  BY EmptySeq
<1>2. f \in Seq(S) /\ Len(f) = Len(s) - 1 /\ \A i \in 1..Len(s) - 1 : f[i] = s[i]
  <2>1. PICK n \in Nat : n = Len(s) - 1
    BY <1>1
  <2>2. \A i \in 1..n : s[i] \in S
    BY <1>1, <2>1
  <2>3. /\ SubSeq(s, 1, n) \in Seq(S)
        /\ Len(SubSeq(s, 1, n)) = n
        /\ \A i \in 1..n : SubSeq(s, 1, n)[i] = s[i]
    BY <2>2, PrefixProperties
  <2> QED
    BY <2>1, <2>3
<1>3. t \in Seq(S) /\ Len(t) = Len(s) /\ \A i \in 1..Len(s) : t[i] = s[i]
  BY <1>1, <1>2, AppendProperties
<1> QED
  BY <1>1, <1>2, <1>3, SeqEqual

\* The initial state, right after create_framer() has returned.
LEMMA InitHandOff == Init => HandOffInv
<1> SUFFICES ASSUME Init PROVE HandOffInv
  OBVIOUS
<1> USE DEF Init
<1>1. TypeOK
  <2>1. Len(pushed) = 0 /\ pushed \in Seq(Byte) /\ consumed \in Seq(Byte)
    BY EmptySeq
  <2>2. yielded \in Seq(Report) /\ answers \in Seq(Report)
    OBVIOUS
  <2>3. caller \in {"idle", "inside"} /\ coroutine \in Location /\ just_yielded \in BOOLEAN
    BY DEF Location
  <2>4. current_output \in Report \union {NoReport} /\ answer \in Report \union {NoReport}
    OBVIOUS
  <2>5. Len(pushed) <= MaxPush
    BY <2>1, MaxPushAssumption
  <2> QED
    BY <2>1, <2>2, <2>3, <2>4, <2>5 DEF TypeOK
<1>2. FlagInv /\ ControlInv /\ ByteInv /\ ReportInv
  BY DEF FlagInv, ControlInv, ByteInv, ReportInv, Suspended
<1>3. AnswerInv /\ CallInv
  BY DEF AnswerInv, CallInv
<1> QED
  BY <1>1, <1>2, <1>3 DEF HandOffInv

\* HandOffInv is inductive: every step of the caller and of the coroutine preserves it.
LEMMA NextHandOff == HandOffInv /\ [Next]_vars => HandOffInv'
<1> SUFFICES ASSUME HandOffInv, [Next]_vars PROVE HandOffInv'
  OBVIOUS
<1> USE DEF HandOffInv
<1>1. ASSUME NEW c \in Byte, push_byte(c) PROVE HandOffInv'
  <2> USE <1>1 DEF push_byte
  <2>1. pushed' \in Seq(Byte) /\ pushed' # <<>> /\ Len(pushed') = Len(pushed) + 1
    BY AppendProperties DEF TypeOK
  <2>2. consumed' \in Seq(Byte)
    <3>1. consumed \in Seq(Byte) /\ Append(consumed, c) \in Seq(Byte)
      BY AppendProperties DEF TypeOK
    <3> QED
      BY <3>1 DEF AwaitResume
  <2>3. TypeOK'
    BY <2>1, <2>2, MaxPushAssumption DEF TypeOK, AwaitResume, Location
  <2>4. FlagInv' /\ ControlInv' /\ ByteInv' /\ ReportInv' /\ AnswerInv' /\ CallInv'
    BY DEF TypeOK, FlagInv, ControlInv, ByteInv, ReportInv, AnswerInv, CallInv, Suspended, AwaitResume
  <2> QED
    BY <2>3, <2>4
<1>2. CASE await_ready
  <2> USE <1>2 DEF await_ready
  <2>1. consumed' \in Seq(Byte)
    <3>1. consumed \in Seq(Byte) /\ Append(consumed, current_input) \in Seq(Byte)
      BY AppendProperties DEF TypeOK
    <3> QED
      BY <3>1 DEF AwaitResume
  <2>2. TypeOK'
    BY <2>1 DEF TypeOK, AwaitResume, Location
  <2>3. FlagInv' /\ ControlInv' /\ ByteInv' /\ ReportInv' /\ AnswerInv' /\ CallInv'
    BY DEF TypeOK, FlagInv, ControlInv, ByteInv, ReportInv, AnswerInv, CallInv, Suspended, AwaitResume
  <2> QED
    BY <2>2, <2>3
<1>3. ASSUME NEW r \in Report, yield_value(r) PROVE HandOffInv'
  <2> USE <1>3 DEF yield_value
  <2>1. yielded' \in Seq(Report)
    BY AppendProperties DEF TypeOK
  <2>2. TypeOK'
    BY <2>1 DEF TypeOK, Location
  <2>3. FlagInv' /\ ControlInv' /\ ByteInv' /\ ReportInv' /\ AnswerInv' /\ CallInv'
    BY DEF TypeOK, FlagInv, ControlInv, ByteInv, ReportInv, AnswerInv, CallInv, Suspended
  <2> QED
    BY <2>2, <2>3
<1>4. CASE push_byte_return
  <2> USE <1>4 DEF push_byte_return, promise
  <2>1. answers' \in Seq(Report)
    BY AppendProperties DEF TypeOK
  <2>2. TypeOK'
    BY <2>1 DEF TypeOK, Location
  <2>3. FlagInv' /\ ControlInv' /\ ByteInv' /\ ReportInv' /\ AnswerInv' /\ CallInv'
    BY ReportAssumption
    DEF TypeOK, FlagInv, ControlInv, ByteInv, ReportInv, AnswerInv, CallInv, Suspended
  <2> QED
    BY <2>2, <2>3
<1>5. CASE UNCHANGED vars
  BY <1>5 DEF vars, promise, TypeOK, FlagInv, ControlInv, ByteInv, ReportInv, AnswerInv, CallInv, Suspended,
              Location
<1> QED
  BY <1>1, <1>2, <1>3, <1>4, <1>5 DEF Next

\* The hand-off invariant of framer.hpp's promise: the flag, the pending byte and the
\* pending report are where the coroutine's location says, at every step.
THEOREM HandOff == Spec => []HandOffInv
  BY InitHandOff, NextHandOff, PTL DEF Spec

\* Between two calls of push_byte() the body has consumed exactly the bytes pushed.
THEOREM BytesInOrder == Spec => []ConsumedInOrder
<1>1. HandOffInv => ConsumedInOrder
  BY DEF HandOffInv, ConsumedInOrder, ByteInv, ControlInv, Suspended
<1> QED
  BY <1>1, HandOff, PTL

\* Between two calls of push_byte() every yielded report has been returned, once, in order.
THEOREM ReportsInOrder == Spec => []NoReportLost
<1>1. HandOffInv => NoReportLost
  BY DEF HandOffInv, NoReportLost, ReportInv
<1> QED
  BY <1>1, HandOff, PTL

\* The coroutine hand-off implements the synchronous call of module PushByte: one byte in,
\* the body's answer to that byte out.
THEOREM Refinement == Spec => PushIsSynchronous
<1>1. Init => Synchronous!Init
  BY DEF Init, Synchronous!Init, Returned
<1>2. HandOffInv /\ HandOffInv' /\ [Next]_vars => [Synchronous!Next]_Synchronous!vars
  <2> SUFFICES ASSUME HandOffInv, HandOffInv', [Next]_vars
               PROVE  [Synchronous!Next]_Synchronous!vars
    OBVIOUS
  <2> USE DEF HandOffInv, Synchronous!vars
  <2>1. ASSUME NEW c \in Byte, push_byte(c) PROVE UNCHANGED Synchronous!vars
    <3>1. SubSeq(Append(pushed, c), 1, Len(pushed)) = pushed
      BY FrontOfAppend DEF TypeOK
    <3>2. Len(Append(pushed, c)) - 1 = Len(pushed)
      BY AppendProperties DEF TypeOK
    <3> QED
      BY <2>1, <3>1, <3>2 DEF push_byte, Returned
  <2>2. CASE await_ready
    BY <2>2 DEF await_ready, Returned
  <2>3. ASSUME NEW r \in Report, yield_value(r) PROVE UNCHANGED Synchronous!vars
    BY <2>3 DEF yield_value, Returned
  <2>4. CASE push_byte_return
    <3> DEFINE n == Len(pushed)
    <3>1. pushed # <<>> /\ pushed \in Seq(Byte) /\ n \in Nat /\ n > 0
      BY <2>4, EmptySeq DEF push_byte_return, TypeOK, ByteInv, CallInv
    <3>2. Append(SubSeq(pushed, 1, n - 1), pushed[n]) = pushed /\ pushed[n] \in Byte
      BY <3>1, AppendLast
    <3>3. Len(SubSeq(pushed, 1, n - 1)) < MaxPush
      BY <3>1, AppendLast, MaxPushAssumption DEF TypeOK
    <3>4. Synchronous!Push(pushed[n])
      BY <2>4, <3>1, <3>2, <3>3 DEF push_byte_return, Returned, Synchronous!Push, AnswerInv, TypeOK
    <3> QED
      BY <3>2, <3>4 DEF Synchronous!Next
  <2>5. CASE UNCHANGED vars
    BY <2>5 DEF vars, Returned
  <2> QED
    BY <2>1, <2>2, <2>3, <2>4, <2>5 DEF Next
<1> QED
  BY <1>1, <1>2, HandOff, PTL DEF Spec, PushIsSynchronous, Synchronous!Spec
===============================================================================
