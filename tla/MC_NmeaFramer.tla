---------------------------- MODULE MC_NmeaFramer -----------------------------
EXTENDS NmeaFramerRefinement

\* '$'  ','  '*'  LF  CR  and the two digits '0' and '3', whose exclusive or is 03: with
\* them the checksum of many payloads can be written.
MCChar == {DOLLAR, COMMA, STAR, LF, CR, 48, 51}
===============================================================================
