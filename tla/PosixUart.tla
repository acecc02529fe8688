------------------------------ MODULE PosixUart -------------------------------
(***************************************************************************)
(* uart/posixuart.hpp and posixuart.cpp: PosixUART objects over the         *)
(* descriptor table of their process and the terminals of the machine.      *)
(*                                                                          *)
(* An object is used by one thread at a time, as the documentation asks;    *)
(* objects of different threads interleave at their system calls.  A step   *)
(* is one system call with the code up to the next one.  The kernel and the *)
(* rest of the process are external: a call may fail, descriptors come and  *)
(* go, bytes arrive and leave.                                              *)
(***************************************************************************)
EXTENDS Integers, FiniteSets

CONSTANTS Uart,        \* the objects
          Device, DeviceOf,  \* terminals; the one each object's device name names
          Descriptor,  \* descriptors the process may have besides its first ones
          NoHandle,    \* -1
          Requests,    \* for each setting, the values callers ask for
          Unsupported, \* for each setting, the values the drivers leave as they are
          PowerOn,     \* settings of a terminal no object has configured
          QueueSize    \* bytes a terminal queues in each direction

Setting == {"baudrate", "charactersize", "parity", "stopbits", "timeout"}

ASSUME DeviceAssumption == DeviceOf \in [Uart -> Device]
ASSUME HandleAssumption == NoHandle \notin Descriptor /\ IsFiniteSet(Descriptor)
ASSUME TableAssumption == "free" \notin Uart /\ "other" \notin Uart
ASSUME QueueAssumption == QueueSize \in Nat

VARIABLES
  uarthandle, isopen, settings,   \* the members of each object, one setting per member
  pc,        \* the system call each object is about to make, "idle" between calls
  call,      \* the member function being executed
  tios,      \* configure()'s local: what it read of the terminal and is to write back
  result,    \* what the last open() or setter returned
  io,        \* the last read() or write(): whose, which, and what it returned
  failures,  \* history: the open() calls of each object whose configure() failed
  fdtable,   \* external: what each descriptor of the process is open on, and for whom
  termios,   \* external: the settings in force at each terminal
  configured,  \* history: the object whose tcsetattr() reached each terminal last
  rx, tx     \* external: how many bytes each terminal has queued

members == <<uarthandle, isopen, settings>>
control == <<pc, call, tios, result, failures>>
terminals == <<termios, configured, rx, tx>>
kernel == <<fdtable, terminals>>
vars == <<members, control, io, kernel>>

-------------------------------------------------------------------------------
(* The conversions of the setters and getters *)

\* Enumerators the conversion tables lack, and one cast from a number.
Unknown == {"b14400", "b56000", "b128000", "b256000", "cs16", "mark", "space", "cast"}
Accepted(s, v) == s \in {"baudrate", "charactersize", "parity"} => v \notin Unknown

\* Bug: the quotient is narrowed to uint8_t before it is clamped.
BugNarrowsFirst(ms) ==
  IF ms <= 0 THEN 0 ELSE LET d == (ms \div 100) % 256 IN IF d < 1 THEN 1 ELSE d

\* std::clamp(timeout / 100L, 1L, 255L) of a positive timeout in milliseconds.
Deciseconds(ms) ==
  IF ms <= 0 THEN 0
  ELSE LET d == ms \div 100 IN IF d < 1 THEN 1 ELSE IF d > 255 THEN 255 ELSE d

\* What a setter keeps of an accepted value, and what the timeout's getter makes of it.
Stored(s, v) ==
  CASE s = "stopbits" -> IF v = "sb1" THEN "sb1" ELSE "sb2"
    [] s = "timeout" -> Deciseconds(v)
    [] OTHER -> v
Milliseconds(deciseconds) == 100 * deciseconds

Default == [baudrate |-> "b9600", charactersize |-> "cs8", parity |-> "none",
            stopbits |-> "sb1", timeout |-> 0]

NoCall == [op |-> "none"]
OpenCall == [op |-> "open"]
SetCall(s, v) == [op |-> "set", setting |-> s, value |-> v]

Kept(s) == {Stored(s, v) : v \in {w \in Requests[s] : Accepted(s, w)}} \union {Default[s]}

\* The types of what opening and closing change.
TableTypeOK ==
  /\ uarthandle \in [Uart -> Descriptor \union {NoHandle}]
  /\ isopen \in [Uart -> BOOLEAN]
  /\ pc \in [Uart -> {"idle", "open", "tcgetattr", "tcflush", "tcsetattr"}]
  /\ failures \in [Uart -> Nat]
  /\ fdtable \in [Descriptor -> Uart \union {"free", "other"}]

TypeOK ==
  /\ TableTypeOK
  /\ \A u \in Uart, s \in Setting : settings[u][s] \in Kept(s) /\ tios[u][s] \in Kept(s)
  /\ \A u \in Uart : call[u].op \in CASE pc[u] = "idle" -> {"none"}
                                       [] pc[u] = "open" -> {"open"}
                                       [] OTHER -> {"open", "set"}
  /\ result \in [Uart -> {"none", "true", "false", "error"}]
  /\ configured \in [Device -> Uart \union {NoHandle}]
  /\ rx \in [Device -> 0..QueueSize] /\ tx \in [Device -> 0..QueueSize]

Init ==
  /\ uarthandle = [u \in Uart |-> NoHandle]
  /\ isopen = [u \in Uart |-> FALSE]
  /\ settings = [u \in Uart |-> Default]
  /\ pc = [u \in Uart |-> "idle"]
  /\ call = [u \in Uart |-> NoCall]
  /\ tios = [u \in Uart |-> Default]
  /\ result = [u \in Uart |-> "none"]
  /\ io = [uart |-> NoHandle, op |-> "none", n |-> 0]
  /\ failures = [u \in Uart |-> 0]
  /\ fdtable = [f \in Descriptor |-> "free"]
  /\ termios = [d \in Device |-> PowerOn]
  /\ configured = [d \in Device |-> NoHandle]
  /\ rx = [d \in Device |-> 0] /\ tx = [d \in Device |-> 0]

-------------------------------------------------------------------------------
(* open(), close(), configure() and the setters *)

\* Enter a member function whose next system call is c, or return r from it.
Goto(u, c, f) ==
  /\ pc' = [pc EXCEPT ![u] = c] /\ call' = [call EXCEPT ![u] = f]
  /\ UNCHANGED result
Return(u, r) ==
  /\ pc' = [pc EXCEPT ![u] = "idle"] /\ call' = [call EXCEPT ![u] = NoCall]
  /\ result' = [result EXCEPT ![u] = r]

\* Bug: the handle is kept after it has been closed.
BugKeepsHandle(u, open) ==
  /\ isopen' = [isopen EXCEPT ![u] = FALSE]
  /\ fdtable' = IF open THEN [fdtable EXCEPT ![uarthandle[u]] = "free"] ELSE fdtable
  /\ UNCHANGED uarthandle

\* Bug: isopen_ is kept as well, so the next close() closes whatever has the number by then.
BugClosesAgain(u, open) ==
  /\ fdtable' = IF open THEN [fdtable EXCEPT ![uarthandle[u]] = "free"] ELSE fdtable
  /\ UNCHANGED <<uarthandle, isopen>>

\* The body of close(), given the value of isopen_ it tests.
CloseHandle(u, open) ==
  /\ isopen' = [isopen EXCEPT ![u] = FALSE]
  /\ uarthandle' = IF open THEN [uarthandle EXCEPT ![u] = NoHandle] ELSE uarthandle
  /\ fdtable' = IF open THEN [fdtable EXCEPT ![uarthandle[u]] = "free"] ELSE fdtable

close(u) ==
  /\ pc[u] = "idle"
  /\ CloseHandle(u, isopen[u])
  /\ UNCHANGED <<settings, control, io, terminals>>

\* The end of the object's life and a new object in its place.
Destroy(u) ==
  /\ pc[u] = "idle"
  /\ fdtable' = IF isopen[u] THEN [fdtable EXCEPT ![uarthandle[u]] = "free"] ELSE fdtable
  /\ isopen' = [isopen EXCEPT ![u] = FALSE]
  /\ uarthandle' = [uarthandle EXCEPT ![u] = NoHandle]
  /\ settings' = [settings EXCEPT ![u] = Default]
  /\ result' = [result EXCEPT ![u] = "none"]
  /\ UNCHANGED <<pc, call, tios, failures, io, terminals>>

\* Bug: an open port is not closed first.
BugOpensTwice(u) ==
  /\ pc[u] = "idle"
  /\ Goto(u, "open", OpenCall)
  /\ UNCHANGED <<members, tios, failures, io, kernel>>

\* open(): an open port is closed first.
open(u) ==
  /\ pc[u] = "idle"
  /\ CloseHandle(u, isopen[u])
  /\ Goto(u, "open", OpenCall)
  /\ UNCHANGED <<settings, tios, failures, io, terminals>>

SysOpen(u) ==
  /\ pc[u] = "open"
  /\ \/ /\ uarthandle' = [uarthandle EXCEPT ![u] = NoHandle]
        /\ isopen' = [isopen EXCEPT ![u] = FALSE]
        /\ Return(u, "error") /\ UNCHANGED fdtable
     \/ \E f \in Descriptor :
          /\ fdtable[f] = "free"
          /\ fdtable' = [fdtable EXCEPT ![f] = u]
          /\ uarthandle' = [uarthandle EXCEPT ![u] = f]
          /\ isopen' = [isopen EXCEPT ![u] = TRUE]
          /\ Goto(u, "tcgetattr", OpenCall)
  /\ UNCHANGED <<settings, tios, failures, io, terminals>>

\* Bug: a setter that leaves configure() to the next open().
BugDoesNotConfigure(u, s, v) ==
  /\ pc[u] = "idle" /\ Accepted(s, v)
  /\ settings' = [settings EXCEPT ![u][s] = Stored(s, v)]
  /\ Return(u, IF isopen[u] THEN "true" ELSE "false")
  /\ UNCHANGED <<uarthandle, isopen, tios, failures, io, kernel>>

\* Bug: a value without an entry in the table is stored as well.
BugStoresAnyValue(u, s, v) ==
  /\ pc[u] = "idle"
  /\ settings' = [settings EXCEPT ![u][s] = Stored(s, v)]
  /\ IF isopen[u] THEN Goto(u, "tcgetattr", SetCall(s, v)) ELSE Return(u, "false")
  /\ UNCHANGED <<uarthandle, isopen, tios, failures, io, kernel>>

\* A setter changes its member before it configures the port.
Set(u, s, v) ==
  /\ pc[u] = "idle"
  /\ IF Accepted(s, v)
     THEN /\ settings' = [settings EXCEPT ![u][s] = Stored(s, v)]
          /\ IF isopen[u] THEN Goto(u, "tcgetattr", SetCall(s, v)) ELSE Return(u, "false")
     ELSE Return(u, "error") /\ UNCHANGED settings
  /\ UNCHANGED <<uarthandle, isopen, tios, failures, io, kernel>>

\* configure() returns: open() takes over its result, and closes a port that could not be
\* configured; by then isopen_ is false.
EndConfigure(u, r) ==
  /\ Return(u, r)
  /\ tios' = [tios EXCEPT ![u] = Default]
  /\ IF call[u].op = "open" /\ r # "true"
     THEN /\ CloseHandle(u, FALSE)
          /\ failures' = [failures EXCEPT ![u] = @ + 1]
     ELSE UNCHANGED <<isopen, uarthandle, fdtable, failures>>
  /\ UNCHANGED <<settings, io>>

Configuring(u) == pc[u] \in {"tcgetattr", "tcflush", "tcsetattr"}

ConfigureFails(u) ==
  /\ Configuring(u)
  /\ EndConfigure(u, "error")
  /\ UNCHANGED terminals

\* Bug: a setter writes back what it read of the terminal, with its own setting changed.
BugKeepsTheRest(u) ==
  /\ pc[u] = "tcgetattr"
  /\ tios' = [tios EXCEPT ![u] =
       [s \in Setting |-> IF call[u].op = "open" \/ call[u].setting = s
                          THEN settings[u][s] ELSE termios[DeviceOf[u]][s]]]
  /\ Goto(u, "tcflush", call[u])
  /\ UNCHANGED <<members, failures, io, kernel>>

\* The terminal's settings are read, and every one that is modelled is overwritten from the
\* members at once; only special characters, which raw input ignores, keep what was read.
SysTcgetattr(u) ==
  /\ pc[u] = "tcgetattr"
  /\ tios' = [tios EXCEPT ![u] = settings[u]]
  /\ Goto(u, "tcflush", call[u])
  /\ UNCHANGED <<members, failures, io, kernel>>

\* Both queues of the terminal are discarded, whether the settings can be applied or not.
SysTcflush(u) ==
  /\ pc[u] = "tcflush"
  /\ Goto(u, "tcsetattr", call[u])
  /\ rx' = [rx EXCEPT ![DeviceOf[u]] = 0]
  /\ tx' = [tx EXCEPT ![DeviceOf[u]] = 0]
  /\ UNCHANGED <<members, tios, failures, io, fdtable, termios, configured>>

\* tcsetattr() succeeds if it can carry out any of the changes.
SysTcsetattr(u) ==
  LET d == DeviceOf[u]
  IN  /\ pc[u] = "tcsetattr"
      /\ termios' = [termios EXCEPT ![d] =
           [s \in Setting |-> IF tios[u][s] \in Unsupported[s]
                              THEN termios[d][s] ELSE tios[u][s]]]
      /\ configured' = [configured EXCEPT ![d] = u]
      /\ EndConfigure(u, "true")
      /\ UNCHANGED <<rx, tx>>

-------------------------------------------------------------------------------
(* read() and write(): one system call on whatever descriptor uarthandle_ holds *)

Valid(h) == h # NoHandle /\ fdtable[h] \in Uart
Terminal(h) == DeviceOf[fdtable[h]]
Transfer(u, op, n) == io' = [uart |-> u, op |-> op, n |-> n]
Least(a, b) == IF a < b THEN a ELSE b

\* The bytes that are there; none, when the timeout expires, only once some configure() has
\* set VMIN to 0.
read(u, readsize) ==
  LET h == uarthandle[u]
  IN  /\ pc[u] = "idle"
      /\ \/ Transfer(u, "read", -1) /\ UNCHANGED rx
         \/ /\ Valid(h)
            /\ LET got == Least(readsize, rx[Terminal(h)])
               IN  /\ got = 0 => configured[Terminal(h)] # NoHandle
                   /\ Transfer(u, "read", got)
                   /\ rx' = [rx EXCEPT ![Terminal(h)] = @ - got]
      /\ UNCHANGED <<members, control, fdtable, termios, configured, tx>>

write(u, size) ==
  LET h == uarthandle[u]
  IN  /\ pc[u] = "idle"
      /\ \/ Transfer(u, "write", -1) /\ UNCHANGED tx
         \/ \E k \in 1..size :
              /\ Valid(h) /\ k <= QueueSize - tx[Terminal(h)]
              /\ Transfer(u, "write", k)
              /\ tx' = [tx EXCEPT ![Terminal(h)] = @ + k]
      /\ UNCHANGED <<members, control, fdtable, termios, configured, rx>>

-------------------------------------------------------------------------------
(* External: the rest of the process, and the line *)

OtherOpens(f) ==
  /\ fdtable[f] = "free" /\ fdtable' = [fdtable EXCEPT ![f] = "other"]
  /\ UNCHANGED <<members, control, io, terminals>>

OtherCloses(f) ==
  /\ fdtable[f] = "other" /\ fdtable' = [fdtable EXCEPT ![f] = "free"]
  /\ UNCHANGED <<members, control, io, terminals>>

ByteArrives(d) ==
  /\ rx[d] < QueueSize /\ rx' = [rx EXCEPT ![d] = @ + 1]
  /\ UNCHANGED <<members, control, io, fdtable, termios, configured, tx>>

ByteLeaves(d) ==
  /\ tx[d] > 0 /\ tx' = [tx EXCEPT ![d] = @ - 1]
  /\ UNCHANGED <<members, control, io, fdtable, termios, configured, rx>>

MemberFunction(u) ==
  \/ open(u) \/ SysOpen(u) \/ close(u) \/ Destroy(u)
  \/ \E s \in Setting : \E v \in Requests[s] : Set(u, s, v)
  \/ ConfigureFails(u) \/ SysTcgetattr(u) \/ SysTcflush(u) \/ SysTcsetattr(u)
  \/ \E n \in 1..QueueSize : read(u, n) \/ write(u, n)

Environment ==
  \/ \E f \in Descriptor : OtherOpens(f) \/ OtherCloses(f)
  \/ \E d \in Device : ByteArrives(d) \/ ByteLeaves(d)

Next == (\E u \in Uart : MemberFunction(u)) \/ Environment

Spec == Init /\ [][Next]_vars

-------------------------------------------------------------------------------
(* Properties *)

\* No handle is ever stale: what uarthandle_ names is a descriptor that this object opened
\* and that is still open, though descriptors are reused by other objects and by the rest of
\* the process; an open port has such a handle.
HandleIsOwn ==
  \A u \in Uart :
    /\ uarthandle[u] # NoHandle => fdtable[uarthandle[u]] = u
    /\ isopen[u] => uarthandle[u] # NoHandle

\* No member function, close() and the destructor included, closes or takes a descriptor
\* that belongs to the rest of the process or to another object.
ForeignUntouched ==
  [][\A f \in Descriptor, u \in Uart :
       MemberFunction(u) /\ fdtable'[f] # fdtable[f] =>
         \/ fdtable[f] = u /\ fdtable'[f] = "free"
         \/ fdtable[f] = "free" /\ fdtable'[f] = u]_vars

\* Where the descriptors of an object are: one for the open port, and one for every open()
\* whose configure() failed, which nothing ever closes.
DescriptorsAccounted ==
  \A u \in Uart :
    Cardinality({f \in Descriptor : fdtable[f] = u}) =
      failures[u] + (IF isopen[u] THEN 1 ELSE 0)

\* A setting of the object is in force at its terminal, as far as the driver goes.
SettingInForce(u, s, terminal) ==
  settings[u][s] \in Unsupported[s] \/ terminal[s] = settings[u][s]
InForce(u, terminal) == \A s \in Setting : SettingInForce(u, s, terminal)

\* On a terminal that objects share, the open object that configured it last has everything
\* that was set on it in force there, but for the setter it is in the middle of and unless its
\* last call failed: what others set, read before their own tcsetattr(), began and failed
\* with, or closed is never mixed in, and neither are its own earlier failures.
ConfigurationStands ==
  \A u \in Uart :
    (/\ isopen[u] /\ configured[DeviceOf[u]] = u
     /\ result[u] # "error" /\ call[u].op # "open")
      => \A s \in Setting :
           \/ call[u].op = "set" /\ call[u].setting = s
           \/ SettingInForce(u, s, termios[DeviceOf[u]])

\* The getters of an open port differ from the terminal only after a failure the caller was
\* told of: the last open() or setter returned an error.
OutOfSyncReported ==
  \A u \in Uart :
    (/\ isopen[u] /\ pc[u] = "idle"
     /\ \A v \in Uart \ {u} : DeviceOf[v] # DeviceOf[u]
     /\ ~InForce(u, termios[DeviceOf[u]]))
      => result[u] = "error"

\* When set_timeout() returns true for a positive timeout, the port waits for at least a
\* tenth of a second, no longer than that or the request, and less by a tenth only at the
\* longest wait there is; the rounding, the clamp and the narrowing to 8 bits keep it so.
TimeoutInForce ==
  [][\A u \in Uart :
       (/\ pc[u] = "tcsetattr" /\ call[u].op = "set" /\ call[u].setting = "timeout"
        /\ pc'[u] = "idle" /\ result'[u] = "true" /\ call[u].value > 0)
       => LET asked == call[u].value
              got == Milliseconds(termios'[DeviceOf[u]].timeout)
          IN  /\ got > 0
              /\ got <= asked \/ got = 100
              /\ asked - got < 100 \/ got = 25500]_vars

\* read() on a port that is not open fails (tests/uart/test_posixuart.cpp).
ClosedReadsFail ==
  [][\A u \in Uart, n \in 1..QueueSize :
       read(u, n) /\ io'.uart = u /\ ~isopen[u] => io'.n = -1]_vars

\* Between the system calls of open() and configure() the port is closed or open as the
\* code they came from left it.
CallInv ==
  \A u \in Uart : /\ pc[u] = "open" => ~isopen[u]
                  /\ Configuring(u) => isopen[u]

UartInv == TypeOK /\ CallInv
===============================================================================
