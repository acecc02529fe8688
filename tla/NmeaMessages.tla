----------------------------- MODULE NmeaMessages ------------------------------
(***************************************************************************)
(* The sentences of nmea0183/payloads: for each struct the characters of    *)
(* its MessageId and the fields boost::pfr walks, in declaration order.     *)
(***************************************************************************)
EXTENDS Naturals, Sequences

Float(precision, width) == [type |-> "float", precision |-> precision, width |-> width]
Integer(width) == [type |-> "int", precision |-> 0, width |-> width]
Enum == [type |-> "char", precision |-> 0, width |-> 0]
String == [type |-> "text", precision |-> 0, width |-> 0]

Repeat(n, field) == [i \in 1..n |-> field]

\* Fields that several sentences have.
UtcTime == Float(2, 9)
Latitude == <<Float(4, 9), Enum>>
Longitude == <<Float(4, 10), Enum>>

DTM == [id |-> <<68, 84, 77>>,
        fields |->
          <<String, String, Float(4, 0), Enum, Float(4, 0), Enum, Float(1, 0), String>>]
GBS == [id |-> <<71, 66, 83>>,
        fields |->
          <<UtcTime>> \o Repeat(3, Float(1, 0)) \o <<Integer(2), Float(3, 0)>>
          \o Repeat(2, Float(1, 0))]
GGA == [id |-> <<71, 71, 65>>,
        fields |->
          <<UtcTime>> \o Latitude \o Longitude
          \o <<Enum, Integer(2), Float(1, 0), Float(1, 0), Enum, Float(1, 0), Enum>>
          \o <<Float(1, 0), Integer(4)>>]
GLL == [id |-> <<71, 76, 76>>, fields |-> Latitude \o Longitude \o <<UtcTime, Enum, Enum>>]
GNS == [id |-> <<71, 78, 83>>,
        fields |->
          <<UtcTime>> \o Latitude \o Longitude
          \o <<String, Integer(2)>> \o Repeat(4, Float(1, 0)) \o <<Integer(4), Enum>>]
GSA == [id |-> <<71, 83, 65>>,
        fields |->
          <<Enum, Enum>> \o Repeat(12, Integer(2)) \o Repeat(3, Float(1, 0))]
GST == [id |-> <<71, 83, 84>>, fields |-> <<UtcTime>> \o Repeat(7, Float(1, 0))]
HDT == [id |-> <<72, 68, 84>>, fields |-> <<Float(1, 0), Enum>>]
RMC == [id |-> <<82, 77, 67>>,
        fields |->
          <<UtcTime, Enum>> \o Latitude \o Longitude
          \o <<Float(1, 0), Float(1, 0), Integer(6), Float(1, 0), Enum, Enum>>]
ROT == [id |-> <<82, 79, 84>>, fields |-> <<Float(1, 0), Enum>>]
VTG == [id |-> <<86, 84, 71>>,
        fields |->
          <<Float(1, 0), Enum, Float(1, 0), Enum, Float(1, 0), Enum, Float(1, 0), Enum, Enum>>]
ZDA == [id |-> <<90, 68, 65>>,
        fields |-> <<UtcTime, Integer(2), Integer(2), Integer(4), Integer(2), Integer(2)>>]

Payloads == {DTM, GBS, GGA, GLL, GNS, GSA, GST, HDT, RMC, ROT, VTG, ZDA}
===============================================================================
