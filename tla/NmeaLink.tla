------------------------------- MODULE NmeaLink --------------------------------
(***************************************************************************)
(* One direction of an NMEA 0183 connection: serialize(), a serial line     *)
(* that may damage what it carries, the framer, dispatch() and the fields   *)
(* that are parsed when they are read; before and behind them the times and *)
(* positions that applications put into payloads and take out of them.  The *)
(* framer is taken at its specification NmeaSentence, which NmeaFramer      *)
(* implements.                                                              *)
(***************************************************************************)
EXTENDS NmeaUtilities

CONSTANTS RxSize,      \* size of the framer's buffer
          Handlers,    \* the sentences the receiving application handles
          Scenario,    \* what happens on the link in one run, and for each scenario:
          Sends,       \* sentences sent: talker, message, values, the time and position that
                       \* are set in them, size of serialize()'s buffer
          MaxSentences, \* bound: how many sentences are sent
          MaxFaults,   \* bound: how many bytes of sentences the line loses or changes
          Garbage,     \* what a byte on the line may be turned into
          Noise        \* bytes the line makes up between sentences

ASSUME NoiseAssumption ==
  Noise \in [Scenario -> SUBSET (Octet \ StartDelimiter)] /\ Garbage \subseteq Octet
ASSUME BoundAssumption == MaxSentences \in [Scenario -> Nat] /\ MaxFaults \in [Scenario -> Nat]

VARIABLES
  scenario,
  line,     \* bytes on their way
  text,     \* what the framer has of the current sentence
  report,   \* its answer to the last byte
  sent,     \* the sentence last put on the line
  got,      \* what the receiving application made of the bytes since then
  count,    \* history: how many sentences were sent
  faults,   \* history: how many bytes were lost and changed, how many sentences were cut
  since,    \* history: whole sentences put on the line after the last fault, 2 for 2 and more
  damaged   \* history: the framer could not read the sentence on the line as it was meant

vars == <<scenario, line, text, report, sent, got, count, faults, since, damaged>>

Receiver == INSTANCE NmeaSentence
              WITH Char <- Octet, BufferSize <- RxSize, MaxFields <- 32, TalkerLen <- 2, TypeLen <- 3

Nothing == [kind |-> "nothing"]
NoFix == [kind |-> "none"]

TypeOK ==
  /\ line \in Seq(Octet) /\ text \in Seq(Octet) /\ Len(text) <= RxSize + 5
  /\ got.kind \in {"nothing", "message", "unhandled"}
  /\ faults.lost + faults.changed <= MaxFaults[scenario] /\ faults.cut <= count
  /\ count \in 0..MaxSentences[scenario] /\ since \in 0..2 /\ damaged \in BOOLEAN

Init ==
  /\ scenario \in Scenario
  /\ line = <<>> /\ text = <<>> /\ report = Receiver!Silence
  /\ sent = Nothing /\ got = Nothing /\ count = 0
  /\ faults = [lost |-> 0, changed |-> 0, cut |-> 0] /\ since = 0 /\ damaged = FALSE

-------------------------------------------------------------------------------
\* The sender's payload: the values of its fields, and then the time and the position of a fix
\* where the payload has fields for them.
Payload(s) ==
  IF s.fix = NoFix THEN s.values
  ELSE LET timed == IF Has(s.msg, "utc_time") THEN set_timestamp(s.msg, s.values, s.fix.time)
                    ELSE s.values
       IN  IF Has(s.msg, "latitude")
           THEN set_longitude_deg(s.msg, set_latitude_deg(s.msg, timed, s.fix.latitude),
                                  s.fix.longitude)
           ELSE timed

\* Characters with a meaning in a sentence do not occur in its texts: nothing escapes them.
\* Numbers have up to nine digits before the point and behind it, and none is half-way between
\* two that can be shown.
Plain == Octet \ ({COMMA, STAR, CR, LF} \union StartDelimiter)

Shown(field, opt) ==
  /\ opt = Some(opt.value)
  /\ CASE field.type = "float" ->
            /\ field.precision \in 1..9 /\ field.width \in 0..9 + field.precision
            /\ opt.value = <<opt.value[1]>> /\ opt.value[1] \in Int /\ opt.value[1] % 10 # 5
            /\ Rounded(opt.value[1]) \div 10^field.precision < 10^9
       [] field.type = "int" ->
            /\ field.width \in 0..9
            /\ opt.value = <<opt.value[1]>> /\ opt.value[1] \in Int /\ Abs(opt.value[1]) < 10^9
       [] field.type = "char" -> opt.value \in Seq(Plain) /\ Len(opt.value) = 1
       [] field.type = "text" -> opt.value \in Seq(Plain)
       [] OTHER -> FALSE

ASSUME SizeAssumption == RxSize \in Nat
ASSUME SendAssumption ==
  \A s \in Scenario : \A x \in Sends[s] :
    /\ x.size \in Nat \ {0}
    /\ x.talker \in Seq(Plain) /\ x.msg.id \in Seq(Plain) /\ Len(x.msg.fields) \in Nat
    /\ DOMAIN Payload(x) = 1..Len(x.msg.fields)
    /\ \A k \in 1..Len(x.msg.fields) :
         Payload(x)[k] = None \/ Shown(x.msg.fields[k], Payload(x)[k])

\* Fixes are put into payloads that have a field for the time: a day in the years of the
\* calendar, a second of a day, and angles of any size.
ASSUME FixAssumption ==
  \A s \in Scenario : \A x \in Sends[s] : x.fix # NoFix =>
    /\ x.msg \in {RMC, ZDA, GGA, GNS, GLL, GBS, GST}
    /\ x.fix.time \in TimePoint
    /\ x.fix.latitude \in Int /\ x.fix.longitude \in Int

\* The sender writes what serialize() returned: it is not told that the buffer was too small.
Send(s) ==
  LET values == Payload(s)
      out == serialize(s.talker, s.msg, values, s.size)
      whole == out = Sentence(s.talker, s.msg, values)
  IN  /\ line = <<>> /\ count < MaxSentences[scenario]
      /\ count' = count + 1
      /\ line' = out
      /\ sent' = [kind |-> "message", msg |-> s.msg, values |-> values, fix |-> s.fix]
      /\ got' = Nothing
      /\ since' = IF ~whole THEN 0 ELSE IF since = 2 THEN 2 ELSE since + 1
      /\ faults' = IF whole THEN faults ELSE [faults EXCEPT !.cut = @ + 1]
      /\ damaged' = (~whole \/ text # <<>>)
      /\ UNCHANGED <<scenario, text, report>>

\* push_byte(), and dispatch() of the view that it may return.
PushByte(c) ==
  /\ Receiver!Skip(c) \/ Receiver!Begin(c) \/ Receiver!Continue(c)
  /\ got' = IF report'.kind = "view" THEN dispatch(Handlers, report'.view) ELSE got

Deliver ==
  /\ line # <<>>
  /\ PushByte(Head(line))
  /\ line' = Tail(line)
  /\ UNCHANGED <<scenario, sent, count, faults, since, damaged>>

\* External: the line.
MayFail == line # <<>> /\ faults.lost + faults.changed < MaxFaults[scenario]

Lose ==
  /\ MayFail
  /\ line' = Tail(line)
  /\ faults' = [faults EXCEPT !.lost = @ + 1]
  /\ since' = 0 /\ damaged' = TRUE
  /\ UNCHANGED <<scenario, text, report, sent, got, count>>

Change(c) ==
  /\ MayFail /\ c # Head(line)
  /\ PushByte(c)
  /\ line' = Tail(line)
  /\ faults' = [faults EXCEPT !.changed = @ + 1]
  /\ since' = 0 /\ damaged' = TRUE
  /\ UNCHANGED <<scenario, sent, count>>

MakeUp(c) ==
  /\ line = <<>>
  /\ PushByte(c)
  /\ UNCHANGED <<scenario, line, sent, count, faults, since, damaged>>

Next ==
  \/ \E s \in Sends[scenario] : Send(s)
  \/ Deliver
  \/ Lose
  \/ \E c \in Garbage : Change(c)
  \/ \E c \in Noise[scenario] : MakeUp(c)

Spec == Init /\ [][Next]_vars

-------------------------------------------------------------------------------
(* Properties *)

\* What is meant to arrive of a field: numbers with the decimals of the field, rounded to
\* the nearest; a string without characters cannot be told from an absent one.
Conveyed(field, opt) ==
  CASE opt.kind = "none" \/ opt.value = <<>> -> None
    [] opt.kind = "some" /\ field.type = "float" ->
         Some(<<CHOOSE n \in {10 * r : r \in (opt.value[1] \div 10)..(opt.value[1] \div 10) + 1} :
                  Abs(n - opt.value[1]) < 5>>)
    [] OTHER -> opt

Meant ==
  [kind |-> "message", msg |-> sent.msg,
   values |-> [k \in DOMAIN sent.values |-> Conveyed(sent.msg.fields[k], sent.values[k])]]

\* What the receiver must be made for: talkers of two characters and types of three, as many
\* fields as a view has, a buffer that holds the longest payload, and handlers of which the first
\* for the type of a sentence is the one that is meant.
Receivable ==
  \A s \in Scenario : \A x \in Sends[s] :
    /\ Len(x.talker) = 2 /\ Len(x.msg.id) = 3 /\ Len(x.msg.fields) <= 32
    /\ Len(Body(x.talker, x.msg, Payload(x))) <= RxSize + 1
    /\ Matching(Handlers, x.msg.id) # <<>> /\ Head(Matching(Handlers, x.msg.id)) = x.msg

\* What the checksum can tell: an exclusive or does not change with a character that is zero, and
\* a payload that fills the framer's buffer to the last byte ends with or without a star.  And
\* nothing but a sentence brings the end of a line.
Detectable ==
  /\ Receivable
  /\ \A s \in Scenario : MaxFaults[s] > 0 =>
       /\ LF \notin Noise[s]
       /\ \A x \in Sends[s] :
            LET body == Body(x.talker, x.msg, Payload(x))
            IN  Len(body) <= RxSize /\ \A i \in 1..Len(body) : body[i] # 0

\* A sentence that arrives as it was written reaches the handler of its type with every field
\* it was sent with, absent fields absent, whatever widths, signs and decimals were written.
IntactDelivered == line = <<>> /\ sent # Nothing /\ ~damaged => got = Meant

\* One lost or changed byte is never delivered as something that was not sent: the exclusive
\* or, the two digits and the end of the line catch it wherever it hits
\* (code-analysis.md: "Validates checksums (XOR) of every message").
DamageDetected ==
  got.kind = "message" /\ faults.lost + faults.changed <= 1 /\ faults.cut = 0 => got = Meant

\* A damaged sentence, or one that serialize() has cut short without telling, costs at most
\* the next: the framer has found its way back when the one after it begins.
LossCostsTwoSentences == since = 2 => ~damaged

\* A sentence with a fix has arrived.
FixArrived == line = <<>> /\ sent # Nothing /\ ~damaged /\ sent.fix # NoFix

\* The time that set_timestamp() puts into a sentence with a date is the time that
\* get_timestamp() takes out at the other end, at the ends of days, months and years too: a
\* time in whole seconds, and where the year has two digits one of this century.  Sentences
\* with a time and no date give none.
TimestampArrives ==
  FixArrived /\ Has(sent.msg, "utc_time") /\ sent.fix.time.tick = 0 =>
    LET tp == get_timestamp(got.msg, got.values)
        year == year_month_day(sent.fix.time.day).year
    IN  IF Has(sent.msg, "year") \/ (Has(sent.msg, "date") /\ year \in 2000..2099)
        THEN tp = Some(<<sent.fix.time>>)
        ELSE Has(sent.msg, "date") \/ tp = None

\* The position that arrives is the one that was sent, in the right hemisphere, to half of the
\* last decimal of a minute: on both sides of the equator and the meridian, and where minutes
\* are rounded up to a whole degree.
PositionArrives ==
  FixArrived /\ Has(sent.msg, "latitude") =>
    LET latitude == get_latitude_deg(got.msg, got.values)
        longitude == get_longitude_deg(got.msg, got.values)
    IN  /\ latitude # None /\ Abs(latitude.value[1] - sent.fix.latitude) <= 5
        /\ longitude # None /\ Abs(longitude.value[1] - sent.fix.longitude) <= 5
===============================================================================
