------------------------------- MODULE PushByte -------------------------------
(***************************************************************************)
(* What push_byte() promises its caller: one call hands over one byte, and  *)
(* the answer of that call is the report, if any, that this byte caused.    *)
(* There is no queue, no delay and no second report per byte.               *)
(***************************************************************************)
EXTENDS Naturals, Sequences

CONSTANTS Byte,         \* the bytes a caller may push
          NoReport,     \* std::nullopt
          Reaction(_),  \* what the framer says to the last of the bytes it has taken
          MaxPush       \* bound on the calls of a run

VARIABLES taken,    \* the bytes the framer has been handed, in order
          answer    \* what the last call returned

vars == <<taken, answer>>

Init == taken = <<>> /\ answer = NoReport

Push(c) ==
  /\ Len(taken) < MaxPush
  /\ taken' = Append(taken, c)
  /\ answer' = Reaction(taken')

Next == \E c \in Byte : Push(c)

Spec == Init /\ [][Next]_vars
===============================================================================
