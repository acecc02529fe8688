--------------------------- MODULE MC_MavlinkFramer ---------------------------
EXTENDS MavlinkFramerRefinement

\* Both start markers and noise; payloads of 0, 1, 4 and 5 bytes; both values of the flag bit
\* and, for 2, of a flag the framer does not know; two values for any other byte, one of
\* them a start marker in the wrong place.
MCArrives ==
  [l \in Location |->
    CASE l = "stx" -> {0, STX1, STX2}
      [] l = "len" -> {0, 1, 4, 5}
      [] l = "inc" -> {0, 1, 2}
      [] l \in {"cmp", "crc1", "crc2"} -> {0}
      [] OTHER -> {1, STX2}]
===============================================================================
