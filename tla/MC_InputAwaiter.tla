--------------------------- MODULE MC_InputAwaiter ----------------------------
(* Two bytes, a view and an error, and six calls: enough for every pair of      *)
(* consecutive calls to end in a report, in none, or in one of each.             *)
EXTENDS InputAwaiter

CONSTANTS b1, b2, view, error

\* A body that reports twice in a row, after a silence, and not at all: b1 completes a
\* view, b2 right after b1 is an error, any other b2 says nothing.
MCReaction(s) ==
  LET n == Len(s) IN
  CASE s[n] = b1 -> view
    [] s[n] = b2 /\ n > 1 /\ s[n - 1] = b1 -> error
    [] OTHER -> NoReport

\* A caller that stops after MaxPush calls is not a deadlock of the hand-off.
Quiescent == caller = "idle" /\ Len(pushed) = MaxPush
MCNext == Next \/ (Quiescent /\ UNCHANGED vars)
MCSpec == Init /\ [][MCNext]_vars /\ Fairness
===============================================================================
