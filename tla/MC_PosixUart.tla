----------------------------- MODULE MC_PosixUart ------------------------------
EXTENDS PosixUart, TLC

CONSTANTS u1, u2, d1, f1, f2, f3

\* Two objects on one terminal, three descriptors for them and the rest of the process.
OneDevice == [u \in Uart |-> d1]
Symmetry == Permutations(Descriptor) \union Permutations(Uart)

Nothing == [s \in Setting |-> {}]
PoweredOn == [Default EXCEPT !.baudrate = "b115200"]

\* The speed, which the driver may not support, and the parity.
LineRequests == [Nothing EXCEPT !["baudrate"] = {"b115200"}, !["parity"] = {"odd"}]

\* Only the baud rate is set, to one of two values.
BaudRequests == [Nothing EXCEPT !["baudrate"] = {"b57600", "b115200"}]

\* A value or two for every setting, and the conversions' edges: 25630 ms is 256 tenths.
AllRequests ==
  [s \in Setting |->
    CASE s = "baudrate" -> {"b115200", "cast"}
      [] s = "charactersize" -> {"cs7", "cs16"}
      [] s = "parity" -> {"odd", "mark"}
      [] s = "stopbits" -> {"sb1", "sb1_5", "sb2"}
      [] s = "timeout" -> {50, 25630}]

\* Drivers without the highest speed, and without odd parity.
NoHighSpeed == [Nothing EXCEPT !["baudrate"] = {"b115200"}]
NoOddParity == [Nothing EXCEPT !["parity"] = {"odd"}]
===============================================================================
