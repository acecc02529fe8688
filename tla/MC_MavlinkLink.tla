---------------------------- MODULE MC_MavlinkLink -----------------------------
EXTENDS MavlinkLink

\* Field values: zero, a small number, whose upper bytes are zero, and all bytes a start
\* marker.
Zero(w) == [i \in 1..w |-> 0]
Small(w) == [i \in 1..w |-> IF i = 1 THEN 5 ELSE 0]
Markers(w) == [i \in 1..w |-> 253]

\* The fields of m for which Set holds have a value and the rest are zero.
Partly(m, F(_), Set(_)) ==
  [i \in 1..Len(m.fields) |-> IF Set(i) THEN F(m.fields[i].width) ELSE Zero(m.fields[i].width)]

\* The first k fields have a value, so that every message is truncated after, before and
\* within every field; and a message with the last field only.
Filled(m, F(_)) == {Partly(m, F, LAMBDA i : i <= k) : k \in 0..Len(m.fields)}
LastOnly(m, F(_)) == {Partly(m, F, LAMBDA i : i = Len(m.fields))}

Of(m, values) == {[msg |-> m, values |-> v, size |-> 280] : v \in values}

\* Each message with each of these values on an undamaged line, and a buffer that is one byte
\* too small.
EveryMessage ==
  UNION {Of(m, Filled(m, Small) \union Filled(m, Markers) \union LastOnly(m, Small)) :
         m \in Payloads}
TooSmall == {[s EXCEPT !.size = 279] : s \in Of(ParamRequestList, LastOnly(ParamRequestList, Small))}

\* Frames with one to three bytes of payload on a line that damages one byte.
ShortFrames ==
  UNION {Of(m, Filled(m, Small)) : m \in {ParamRequestList, CommandAck}}

MCSends ==
  [s \in Scenario |-> IF s = "all" THEN EveryMessage \union TooSmall ELSE ShortFrames]
MCMaxFrames == [s \in Scenario |-> IF s = "all" THEN 1 ELSE 3]
MCMaxFaults == [s \in Scenario |-> IF s = "all" THEN 0 ELSE 1]
MCNoise == [s \in Scenario |-> IF s = "all" THEN {7} ELSE {}]

\* Only that it is a byte that differs from message to message matters here.
MCCrcExtra == [id \in {m.id : m \in Payloads} |-> (50 + id) % 256]
===============================================================================
