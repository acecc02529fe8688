----------------------------- MODULE NmeaUtilities -----------------------------
(***************************************************************************)
(* nmea0183/utilities.hpp: times and positions to and from the fields of a  *)
(* payload.                                                                 *)
(*                                                                          *)
(* A time point is a day since 1970, a second of that day and a tick of     *)
(* system_clock within it; leap seconds are left out, as the clock leaves   *)
(* them out.  An angle counts hundred-thousandths of a minute, which is     *)
(* what NmeaCodec's numbers for latitudes and longitudes count as well;     *)
(* floating point is exact on that grid.                                    *)
(***************************************************************************)
EXTENDS NmeaCodec

CONSTANTS TicksPerSecond,  \* system_clock::period: 10^9 or 10^7 on real systems
          LastYear         \* bound: years a time point may lie in

ASSUME TickAssumption == TicksPerSecond \in Nat \ {0}
ASSUME YearAssumption == LastYear \in Nat /\ LastYear >= 1970

\* Where the structs have the fields whose names the templates look for.
RmcFields == [utc_time |-> 1, latitude |-> 3, latitude_direction |-> 4, longitude |-> 5,
              longitude_direction |-> 6, date |-> 9]
ZdaFields == [utc_time |-> 1, day |-> 2, month |-> 3, year |-> 4]
GgaFields == [utc_time |-> 1, latitude |-> 2, latitude_direction |-> 3, longitude |-> 4,
              longitude_direction |-> 5]
GnsFields == [utc_time |-> 1, latitude |-> 2, latitude_direction |-> 3, longitude |-> 4,
              longitude_direction |-> 5]
GllFields == [latitude |-> 1, latitude_direction |-> 2, longitude |-> 3,
              longitude_direction |-> 4, utc_time |-> 5]
GbsFields == [utc_time |-> 1]
GstFields == [utc_time |-> 1]

\* Which field of a payload a name finds.
FieldNo(m) ==
  CASE m = RMC -> RmcFields [] m = ZDA -> ZdaFields [] m = GGA -> GgaFields
    [] m = GNS -> GnsFields [] m = GLL -> GllFields
    [] m = GBS -> GbsFields [] m = GST -> GstFields

Has(m, name) == name \in DOMAIN FieldNo(m)
Field(m, values, name) == values[FieldNo(m)[name]]
Number(m, values, name) == Field(m, values, name).value[1]
Missing(m, values, names) == \E name \in names : Field(m, values, name).kind = "none"
With(m, values, name, n) == [values EXCEPT ![FieldNo(m)[name]] = Some(<<n>>)]

-------------------------------------------------------------------------------
(* External: std::chrono's calendar *)

Leap(y) == y % 4 = 0 /\ (y % 100 # 0 \/ y % 400 = 0)
MonthDays(y, m) ==
  CASE m = 2 -> IF Leap(y) THEN 29 ELSE 28
    [] m \in {4, 6, 9, 11} -> 30
    [] OTHER -> 31
ok(date) == date.month \in 1..12 /\ date.day \in 1..MonthDays(date.year, date.month)

\* Days from 1970-01-01 to the first of a year, of a month, and to a date.
YearStart(y) ==
  365 * (y - 1970) + (y - 1969) \div 4 - (y - 1901) \div 100 + (y - 1601) \div 400
MonthStart(y, m) ==
  LET upTo[k \in 0..11] == IF k = 0 THEN YearStart(y) ELSE upTo[k - 1] + MonthDays(y, k)
  IN  upTo[m - 1]
sys_days(date) == MonthStart(date.year, date.month) + date.day - 1

\* The time points of the years up to the last.
DaySeconds == 86400
TimePoint == [day : 0..YearStart(LastYear + 1) - 1, second : 0..DaySeconds - 1,
              tick : 0..TicksPerSecond - 1]

year_month_day(day) ==
  LET y == Max({k \in 1970..LastYear : YearStart(k) <= day})
      m == Max({k \in 1..12 : MonthStart(y, k) <= day})
  IN  [year |-> y, month |-> m, day |-> day - MonthStart(y, m) + 1]

-------------------------------------------------------------------------------
(* Times: utc_time counts thousandths of a second behind hours and minutes *)

\* The date of the payload, if it has one and the fields are there; two digits of a year are
\* in this century.
Date(m, values) ==
  LET ddmmyy == Number(m, values, "date")
  IN  IF Has(m, "date")
      THEN IF Missing(m, values, {"date"}) THEN None
           ELSE Some(<<[year |-> (ddmmyy % 100) + 2000, month |-> (ddmmyy \div 100) % 100,
                        day |-> ddmmyy \div 10000]>>)
      ELSE IF ~({"day", "month", "year"} \subseteq DOMAIN FieldNo(m))
                \/ Missing(m, values, {"day", "month", "year"})
      THEN None
      ELSE Some(<<[year |-> Number(m, values, "year"), month |-> Number(m, values, "month"),
                   day |-> Number(m, values, "day")]>>)

\* Hours and minutes are not checked: what is more than a day goes on to the next.
get_timestamp(m, values) ==
  LET date == Date(m, values)
      nmea_time == Number(m, values, "utc_time")
      hours == nmea_time \div 10000000
      minutes == (nmea_time % 10000000) \div 100000
      thousandths == nmea_time % 100000
      seconds == 3600 * hours + 60 * minutes + thousandths \div 1000
  IN  IF Missing(m, values, {"utc_time"}) \/ date = None THEN None
      ELSE IF ~ok(date.value[1]) THEN None
      ELSE Some(<<[day |-> sys_days(date.value[1]) + seconds \div DaySeconds,
                   second |-> seconds % DaySeconds,
                   tick |-> ((thousandths % 1000) * TicksPerSecond) \div 1000]>>)

\* The date is written as the payload has it: in one number, in three, or not at all.
WithDate(m, values, date) ==
  IF Has(m, "date")
  THEN With(m, values, "date", 10000 * date.day + 100 * date.month + (date.year % 100))
  ELSE IF {"day", "month", "year"} \subseteq DOMAIN FieldNo(m)
  THEN With(m, With(m, With(m, values, "day", date.day), "month", date.month), "year", date.year)
  ELSE values

\* Bug: the minutes are put where the hundreds of seconds would be.
BugMisplacesMinutes(m, values, tp) ==
  LET nmea_time == 10000000 * (tp.second \div 3600) + 60000 * ((tp.second \div 60) % 60)
                     + 1000 * ((tp.second % 60) + tp.tick)
  IN  WithDate(m, With(m, values, "utc_time", nmea_time), year_month_day(tp.day))

\* The ticks are added to the seconds as they are.
set_timestamp(m, values, tp) ==
  LET nmea_time == 10000000 * (tp.second \div 3600) + 100000 * ((tp.second \div 60) % 60)
                     + 1000 * ((tp.second % 60) + tp.tick)
  IN  WithDate(m, With(m, values, "utc_time", nmea_time), year_month_day(tp.day))

-------------------------------------------------------------------------------
(* Coordinates *)

Minute == 100000
Degree == 60 * Minute

\* DirectionIndicator
North == 78
South == 83
East == 69
West == 87

to_decimal(nmea_val, dir) ==
  LET degrees == nmea_val \div (100 * Minute)
      minutes == nmea_val % (100 * Minute)
      decimal == degrees * Degree + minutes
  IN  IF dir \in {South, West} THEN -decimal ELSE decimal

\* Bug: the sign is left on the degrees and minutes as well.
BugKeepsSign(decimal) == 100 * Minute * (decimal \div Degree) + (decimal % Degree)

\* Degrees and minutes of the absolute value; from_decimal_lat() and from_decimal_lon() differ
\* in the direction they return beside it.
from_decimal(decimal) ==
  100 * Minute * (Abs(decimal) \div Degree) + (Abs(decimal) % Degree)

get_latitude_deg(m, values) ==
  IF Missing(m, values, {"latitude", "latitude_direction"}) THEN None
  ELSE Some(<<to_decimal(Number(m, values, "latitude"), Number(m, values, "latitude_direction"))>>)

get_longitude_deg(m, values) ==
  IF Missing(m, values, {"longitude", "longitude_direction"}) THEN None
  ELSE Some(<<to_decimal(Number(m, values, "longitude"), Number(m, values, "longitude_direction"))>>)

set_latitude_deg(m, values, latitude) ==
  With(m, With(m, values, "latitude", from_decimal(latitude)),
       "latitude_direction", IF latitude >= 0 THEN North ELSE South)

set_longitude_deg(m, values, longitude) ==
  With(m, With(m, values, "longitude", from_decimal(longitude)),
       "longitude_direction", IF longitude >= 0 THEN East ELSE West)
===============================================================================
