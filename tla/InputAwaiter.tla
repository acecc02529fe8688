----------------------------- MODULE InputAwaiter -----------------------------
(***************************************************************************)
(* The hand-off between push_byte() and the framer coroutine, shared word   *)
(* for word by nmea0183/framer.hpp and mavlink/framer.hpp.  The coroutine   *)
(* and its caller run on one thread, but control passes between them in the *)
(* middle of both: at a co_await the coroutine suspends (unless it has just *)
(* yielded), at a co_yield it always suspends, and resume() continues it    *)
(* wherever it was.  The three promise fields current_input,                *)
(* current_output and just_yielded are the whole protocol.                  *)
(*                                                                          *)
(* The body of the coroutine is left open: what it says to a byte is some   *)
(* function Reaction of the bytes it has taken so far.  It yields that      *)
(* report, or has none and goes on to its next co_await; after a yield it   *)
(* goes on to its next co_await.  Both create_framer() bodies do that.      *)
(***************************************************************************)
EXTENDS Naturals, Sequences

CONSTANTS Byte,         \* the bytes a caller may push
          Report,       \* what the body may yield
          NoReport,     \* std::nullopt
          Reaction(_),  \* the body: what it says to the last of the bytes it has taken
          MaxPush       \* bound on the calls of a run

ASSUME ReportAssumption == NoReport \notin Report
ASSUME MaxPushAssumption == MaxPush \in Nat
ASSUME ReactionAssumption ==
  \A n \in 1..MaxPush : \A s \in [1..n -> Byte] : Reaction(s) \in Report \union {NoReport}

VARIABLES
  caller,          \* "idle": outside push_byte(); "inside": waiting for resume() to return
  coroutine,       \* where the coroutine is, see Location
  current_input,   \* promise_type::current_input
  current_output,  \* promise_type::current_output
  just_yielded,    \* promise_type::just_yielded
  answer,          \* the value the last push_byte() returned
  pushed,          \* history: the bytes given to push_byte()
  consumed,        \* history: the bytes await_resume() returned to the body
  yielded,         \* history: the reports the body yielded
  answers          \* history: the reports push_byte() returned

promise == <<current_input, current_output, just_yielded>>
vars == <<caller, coroutine, promise, answer, pushed, consumed, yielded, answers>>

(***************************************************************************)
(* "await":   suspended in a co_await (await_ready() said FALSE)            *)
(* "yield":   suspended in a co_yield                                       *)
(* "resumed": running, continued after a co_yield                           *)
(* "body":    running, with the byte await_resume() gave it                 *)
(***************************************************************************)
Location == {"await", "yield", "resumed", "body"}
Suspended == coroutine \in {"await", "yield"}

TypeOK ==
  /\ caller \in {"idle", "inside"}
  /\ coroutine \in Location
  /\ current_input \in Byte
  /\ current_output \in Report \union {NoReport}
  /\ just_yielded \in BOOLEAN
  /\ answer \in Report \union {NoReport}
  /\ pushed \in Seq(Byte) /\ consumed \in Seq(Byte)
  /\ yielded \in Seq(Report) /\ answers \in Seq(Report)
  /\ Len(pushed) <= MaxPush

\* create_framer(): initial_suspend() never suspends, so the body has run to its
\* first co_await, which suspended; current_input is uninitialised.
Init ==
  /\ caller = "idle" /\ coroutine = "await"
  /\ current_input \in Byte
  /\ current_output = NoReport /\ just_yielded = FALSE
  /\ answer = NoReport
  /\ pushed = <<>> /\ consumed = <<>> /\ yielded = <<>> /\ answers = <<>>

\* await_resume(): the byte in current_input reaches the body.
AwaitResume(c) ==
  /\ consumed' = Append(consumed, c)
  /\ coroutine' = "body"

\* Bug: current_output is not cleared, so a report is returned again.
BugKeepsOutput(c) ==
  /\ caller = "idle" /\ Len(pushed) < MaxPush
  /\ caller' = "inside"
  /\ current_input' = c /\ UNCHANGED current_output
  /\ pushed' = Append(pushed, c)
  /\ \/ coroutine = "await" /\ AwaitResume(c)
     \/ coroutine = "yield" /\ coroutine' = "resumed" /\ UNCHANGED consumed
  /\ UNCHANGED <<just_yielded, answer, yielded, answers>>

\* push_byte(c) up to and including handle.resume(): a coroutine suspended in a
\* co_await continues in await_resume(), one suspended in a co_yield after it.
push_byte(c) ==
  /\ caller = "idle" /\ Len(pushed) < MaxPush
  /\ caller' = "inside"
  /\ current_input' = c /\ current_output' = NoReport
  /\ pushed' = Append(pushed, c)
  /\ \/ coroutine = "await" /\ AwaitResume(c)
     \/ coroutine = "yield" /\ coroutine' = "resumed" /\ UNCHANGED consumed
  /\ UNCHANGED <<just_yielded, answer, yielded, answers>>

\* The body reaches a co_await: await_ready() consumes the flag and goes straight
\* on to await_resume(), or suspends and control returns to push_byte().
await_ready ==
  /\ \/ coroutine = "resumed"
     \/ coroutine = "body" /\ Reaction(consumed) = NoReport
  /\ just_yielded' = FALSE
  /\ IF just_yielded THEN AwaitResume(current_input)
                     ELSE coroutine' = "await" /\ UNCHANGED consumed
  /\ UNCHANGED <<caller, current_input, current_output, answer, pushed, yielded, answers>>

\* Bug: an overload of yield_value() that forgets the flag.
BugForgetsFlag(r) ==
  /\ coroutine = "body" /\ r = Reaction(consumed)
  /\ current_output' = r /\ UNCHANGED just_yielded
  /\ yielded' = Append(yielded, r)
  /\ coroutine' = "yield"
  /\ UNCHANGED <<caller, current_input, answer, pushed, consumed, answers>>

\* The body yields a view or an error for the byte it has, and suspends.
yield_value(r) ==
  /\ coroutine = "body" /\ r = Reaction(consumed)
  /\ current_output' = r /\ just_yielded' = TRUE
  /\ yielded' = Append(yielded, r)
  /\ coroutine' = "yield"
  /\ UNCHANGED <<caller, current_input, answer, pushed, consumed, answers>>

\* Bug: push_byte() waits for the next co_await, a co_yield is not enough.
BugWaitsForAwait ==
  /\ caller = "inside" /\ coroutine = "await"
  /\ caller' = "idle"
  /\ answer' = current_output
  /\ answers' = IF current_output = NoReport THEN answers ELSE Append(answers, current_output)
  /\ UNCHANGED <<coroutine, promise, pushed, consumed, yielded>>

\* resume() has returned: push_byte() moves current_output out.
push_byte_return ==
  /\ caller = "inside" /\ Suspended
  /\ caller' = "idle"
  /\ answer' = current_output
  /\ answers' = IF current_output = NoReport THEN answers ELSE Append(answers, current_output)
  /\ UNCHANGED <<coroutine, promise, pushed, consumed, yielded>>

Next ==
  \/ \E c \in Byte : push_byte(c)
  \/ await_ready
  \/ \E r \in Report : yield_value(r)
  \/ push_byte_return

\* A running thread keeps running; whether the caller pushes again is its own choice.
Fairness ==
  /\ WF_vars(await_ready)
  /\ WF_vars(\E r \in Report : yield_value(r))
  /\ WF_vars(push_byte_return)

Spec == Init /\ [][Next]_vars /\ Fairness

-------------------------------------------------------------------------------
(* Properties *)

\* Between two calls the body has taken exactly the bytes that were pushed, each once
\* and in order: no byte is lost to a suspended co_yield and none is read twice.
ConsumedInOrder == caller = "idle" => consumed = pushed

\* Between two calls every report the body yielded has been returned, once and in order:
\* clearing current_output at the start of a call never discards a report nobody has seen.
NoReportLost == caller = "idle" => answers = yielded

\* Every call returns: the hand-off never leaves both sides waiting for each other.
EveryPushReturns == caller = "inside" ~> caller = "idle"

\* Seen from outside, the hand-off is a synchronous call: one byte in, and out comes what
\* the body says to exactly that byte.  The bytes taken are those of the calls that have
\* returned.
Returned == IF caller = "idle" THEN pushed ELSE SubSeq(pushed, 1, Len(pushed) - 1)
Synchronous == INSTANCE PushByte WITH taken <- Returned
PushIsSynchronous == Synchronous!Spec

-------------------------------------------------------------------------------
(* The inductive invariant behind the first two properties: who holds the byte and the *)
(* report at each location of the coroutine.                                            *)

\* just_yielded is set exactly while the body has not yet reached the co_await that
\* follows its last co_yield.
FlagInv == just_yielded <=> coroutine \in {"yield", "resumed"}

\* A running coroutine has a caller waiting for it.
ControlInv == caller = "idle" => Suspended

\* Every call handed over a byte.
CallInv == caller = "inside" => pushed # <<>>

\* The pushed byte that has not been taken, if there is one, is in current_input.
ByteInv ==
  IF coroutine = "resumed" THEN pushed = Append(consumed, current_input)
                           ELSE consumed = pushed

\* The yielded report that has not been returned, if there is one, is in current_output.
ReportInv ==
  IF caller = "inside" /\ coroutine = "yield"
  THEN /\ current_output \in Report
       /\ yielded = Append(answers, current_output)
  ELSE /\ caller = "inside" => current_output = NoReport
       /\ yielded = answers

\* What push_byte() will return, or has just returned, is what the body says to the last
\* of the bytes it has been given.
AnswerInv ==
  /\ caller = "inside" /\ Suspended => current_output = Reaction(pushed)
  /\ caller = "idle" /\ pushed # <<>> => answer = Reaction(pushed)

HandOffInv == TypeOK /\ FlagInv /\ ControlInv /\ ByteInv /\ ReportInv /\ AnswerInv /\ CallInv
===============================================================================
