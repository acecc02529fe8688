------------------------------ MODULE Win32Uart -------------------------------
(***************************************************************************)
(* uart/win32uart.hpp and win32uart.cpp: Win32UART objects over the handle  *)
(* table of their process and the ports of the machine.                     *)
(*                                                                          *)
(* As in PosixUart a step is one system call with the code up to the next   *)
(* one, and objects of different threads interleave at these calls.  The    *)
(* kernel and the rest of the process are external: any call may fail, and  *)
(* a handle that was closed is given to whoever opens something next.       *)
(* NULL and INVALID_HANDLE_VALUE are both NoHandle: no call accepts either. *)
(***************************************************************************)
EXTENDS Integers, FiniteSets

CONSTANTS Uart,        \* the objects
          Device, DeviceOf,  \* ports; the one each object's device name names
          Handle,      \* the handles that the process may have
          NoHandle,
          Requests,    \* for each object and setting, the values its callers ask for
          PowerOn, PowerOnTimeouts,  \* what a port nobody has configured has
          DwordSize    \* how many values a DWORD has

LineSetting == {"baudrate", "charactersize", "parity", "stopbits"}

ASSUME DeviceAssumption == DeviceOf \in [Uart -> Device]
ASSUME HandleAssumption == NoHandle \notin Handle /\ IsFiniteSet(Handle)
ASSUME TableAssumption == "free" \notin Uart /\ "other" \notin Uart
ASSUME DwordAssumption == DwordSize \in Nat \ {0}
ASSUME RequestAssumption == \A u \in Uart : Requests[u]["timeout"] \subseteq Int

VARIABLES
  uarthandle, isopen, settings,  \* the members of each object, one setting per member
  pc,        \* the system call each object is about to make, "idle" between calls
  call,      \* the member function being executed
  result,    \* history: what the last open(), set_timeout() and other setter returned
  closed,    \* history: whether CloseHandle() was called on what uarthandle_ holds
  failures,  \* history: the open() calls of each object whose configure() failed
  strayed,   \* history: a system call was made on a handle that belongs to someone else
  table,     \* external: for whom each handle of the process is open
  dcb, timeouts  \* external: the settings and the timeouts in force at each port

members == <<uarthandle, isopen, settings>>
control == <<pc, call, result>>
history == <<closed, failures, strayed>>
ports == <<dcb, timeouts>>
vars == <<members, control, history, table, ports>>

-------------------------------------------------------------------------------
(* The conversions of the setters *)

BaudRate == {110, 300, 600, 1200, 2400, 4800, 9600, 14400, 19200, 38400, 56000, 57600,
             115200, 128000, 256000}

\* What the tables have an entry for; set_stopbits() takes everything else for one stop bit.
Accepted(s, v) ==
  CASE s = "baudrate" -> v \in BaudRate
    [] s = "charactersize" -> v \in {"cs5", "cs6", "cs7", "cs8", "cs16"}
    [] s = "parity" -> v \in {"none", "even", "odd", "mark", "space"}
    [] OTHER -> TRUE
Stored(s, v) == IF s = "stopbits" /\ v \notin {"sb1_5", "sb2"} THEN "sb1" ELSE v

Default == [baudrate |-> 9600, charactersize |-> "cs8", parity |-> "none",
            stopbits |-> "sb1", timeout |-> 0]
Line(m) == [s \in LineSetting |-> m[s]]

\* Milliseconds for a byte: the bit time is 1.1e-3 over the baud rate, truncated to a DWORD,
\* and never less than one.
Multiplier(baud) == LET d == (11 \div baud) \div 10000 IN IF d < 1 THEN 1 ELSE d

\* The COMMTIMEOUTS for a total timeout in milliseconds, which a DWORD narrows.
CommTimeouts(ms, baud) == [constant |-> ms % DwordSize, multiplier |-> Multiplier(baud)]

Outcome == {"none", "true", "false", "error"}
\* A call in progress, with the argument of set_timeout().
Call == [op : {"none", "open", "line", "timeout"}, ms : Int]
NoCall == [op |-> "none", ms |-> 0]
OpenCall == [op |-> "open", ms |-> 0]
LineCall == [op |-> "line", ms |-> 0]
TimeoutCall(ms) == [op |-> "timeout", ms |-> ms]

Kept(u, s) ==
  {Stored(s, v) : v \in {w \in Requests[u][s] : Accepted(s, w)}} \union {Default[s]}

\* The types of what opening and closing change.
TableTypeOK ==
  /\ uarthandle \in [Uart -> Handle \union {NoHandle}]
  /\ isopen \in [Uart -> BOOLEAN]
  /\ pc \in [Uart -> {"idle", "CreateFile", "SetCommTimeouts", "GetCommState", "SetCommState"}]
  /\ call \in [Uart -> Call]
  /\ closed \in [Uart -> BOOLEAN] /\ failures \in [Uart -> Nat] /\ strayed \in BOOLEAN
  /\ table \in [Handle -> Uart \union {"free", "other"}]

TypeOK ==
  /\ TableTypeOK
  /\ \A u \in Uart : \A s \in DOMAIN Default : settings[u][s] \in Kept(u, s)
  /\ \A u \in Uart : call[u].op \in CASE pc[u] = "idle" -> {"none"}
                                       [] pc[u] = "CreateFile" -> {"open"}
                                       [] pc[u] = "SetCommTimeouts" -> {"open", "timeout"}
                                       [] OTHER -> {"open", "line"}
  /\ result \in [Uart -> [{"open", "line", "timeout"} -> Outcome]]
  /\ \A d \in Device : timeouts[d] = PowerOnTimeouts \/ timeouts[d].multiplier > 0

Init ==
  /\ uarthandle = [u \in Uart |-> NoHandle]
  /\ isopen = [u \in Uart |-> FALSE]
  /\ settings = [u \in Uart |-> Default]
  /\ pc = [u \in Uart |-> "idle"]
  /\ call = [u \in Uart |-> NoCall]
  /\ result = [u \in Uart |-> [c \in {"open", "line", "timeout"} |-> "none"]]
  /\ closed = [u \in Uart |-> FALSE]
  /\ failures = [u \in Uart |-> 0]
  /\ strayed = FALSE
  /\ table = [h \in Handle |-> "free"]
  /\ dcb = [d \in Device |-> PowerOn]
  /\ timeouts = [d \in Device |-> PowerOnTimeouts]

-------------------------------------------------------------------------------
(* System calls on the handle of an object *)

Foreign(u) == uarthandle[u] # NoHandle /\ table[uarthandle[u]] \notin {u, "free"}
Uses(u) == strayed' = (strayed \/ Foreign(u))

\* The handle is open on a port, for this object or for another one.
IsPort(u) == uarthandle[u] # NoHandle /\ table[uarthandle[u]] \in Uart
Port(u) == DeviceOf[table[uarthandle[u]]]

Goto(u, c, f) ==
  /\ pc' = [pc EXCEPT ![u] = c] /\ call' = [call EXCEPT ![u] = f]
  /\ UNCHANGED result
Return(u, kinds, r) ==
  /\ pc' = [pc EXCEPT ![u] = "idle"] /\ call' = [call EXCEPT ![u] = NoCall]
  /\ result' = [result EXCEPT ![u] = [c \in DOMAIN @ |-> IF c \in kinds THEN r ELSE @[c]]]

\* CloseHandle() of whatever has the number of uarthandle_ by now.
CloseHandle(u) ==
  /\ Uses(u)
  /\ table' = IF uarthandle[u] = NoHandle THEN table
              ELSE [table EXCEPT ![uarthandle[u]] = "free"]

\* The body of close(): it forgets neither the handle nor that the port was open.
CloseBody(u) ==
  IF isopen[u] THEN CloseHandle(u) ELSE UNCHANGED <<table, strayed>>

-------------------------------------------------------------------------------
(* open(), close() and the destructor *)

close(u) ==
  /\ pc[u] = "idle"
  /\ CloseBody(u)
  /\ closed' = [closed EXCEPT ![u] = @ \/ isopen[u]]
  /\ UNCHANGED <<members, control, failures, ports>>

\* The end of the object's life, and a new object in its place.
Destroy(u) ==
  /\ pc[u] = "idle"
  /\ CloseBody(u)
  /\ uarthandle' = [uarthandle EXCEPT ![u] = NoHandle]
  /\ isopen' = [isopen EXCEPT ![u] = FALSE]
  /\ settings' = [settings EXCEPT ![u] = Default]
  /\ closed' = [closed EXCEPT ![u] = FALSE]
  /\ Return(u, {"open", "line", "timeout"}, "none")
  /\ UNCHANGED <<failures, ports>>

\* Bug: an open port is not closed first.
BugOpensTwice(u) ==
  /\ pc[u] = "idle"
  /\ Goto(u, "CreateFile", OpenCall)
  /\ UNCHANGED <<members, history, table, ports>>

open(u) ==
  /\ pc[u] = "idle"
  /\ CloseBody(u)
  /\ closed' = [closed EXCEPT ![u] = @ \/ isopen[u]]
  /\ Goto(u, "CreateFile", OpenCall)
  /\ UNCHANGED <<members, failures, ports>>

\* The port is opened for this handle alone: no other handle of the process may be open on it.
Shareable(d) == \A h \in Handle : table[h] \in Uart => DeviceOf[table[h]] # d

\* Bug: the member is assigned only when the call succeeds.
BugKeepsOldHandle(u) ==
  /\ pc[u] = "CreateFile"
  /\ closed' = [closed EXCEPT ![u] = FALSE]
  /\ \/ /\ isopen' = [isopen EXCEPT ![u] = FALSE]
        /\ Return(u, {"open", "line", "timeout"}, "error")
        /\ UNCHANGED <<uarthandle, table>>
     \/ \E h \in Handle :
          /\ table[h] = "free" /\ Shareable(DeviceOf[u])
          /\ table' = [table EXCEPT ![h] = u]
          /\ uarthandle' = [uarthandle EXCEPT ![u] = h]
          /\ isopen' = [isopen EXCEPT ![u] = TRUE]
          /\ Goto(u, "SetCommTimeouts", OpenCall)
  /\ UNCHANGED <<settings, failures, strayed, ports>>

\* Bug: isopen_ is left as it was when the call fails.
BugStaysOpen(u) ==
  /\ pc[u] = "CreateFile"
  /\ closed' = [closed EXCEPT ![u] = FALSE]
  /\ \/ /\ uarthandle' = [uarthandle EXCEPT ![u] = NoHandle]
        /\ Return(u, {"open", "line", "timeout"}, "error")
        /\ UNCHANGED <<isopen, table>>
     \/ \E h \in Handle :
          /\ table[h] = "free" /\ Shareable(DeviceOf[u])
          /\ table' = [table EXCEPT ![h] = u]
          /\ uarthandle' = [uarthandle EXCEPT ![u] = h]
          /\ isopen' = [isopen EXCEPT ![u] = TRUE]
          /\ Goto(u, "SetCommTimeouts", OpenCall)
  /\ UNCHANGED <<settings, failures, strayed, ports>>

CreateFile(u) ==
  /\ pc[u] = "CreateFile"
  /\ closed' = [closed EXCEPT ![u] = FALSE]
  /\ \/ /\ uarthandle' = [uarthandle EXCEPT ![u] = NoHandle]
        /\ isopen' = [isopen EXCEPT ![u] = FALSE]
        /\ Return(u, {"open", "line", "timeout"}, "error")
        /\ UNCHANGED table
     \/ \E h \in Handle :
          /\ table[h] = "free" /\ Shareable(DeviceOf[u])
          /\ table' = [table EXCEPT ![h] = u]
          /\ uarthandle' = [uarthandle EXCEPT ![u] = h]
          /\ isopen' = [isopen EXCEPT ![u] = TRUE]
          /\ Goto(u, "SetCommTimeouts", OpenCall)
  /\ UNCHANGED <<settings, failures, strayed, ports>>

-------------------------------------------------------------------------------
(* Timeouts *)

\* Bug: the member is changed before the port is.
BugStoresFirst(u, ms) ==
  /\ pc[u] = "idle"
  /\ settings' = [settings EXCEPT ![u].timeout = ms]
  /\ IF isopen[u] THEN Goto(u, "SetCommTimeouts", TimeoutCall(ms)) ELSE Return(u, {"timeout"}, "true")
  /\ UNCHANGED <<uarthandle, isopen, history, table, ports>>

set_timeout(u, ms) ==
  /\ pc[u] = "idle"
  /\ IF isopen[u]
     THEN Goto(u, "SetCommTimeouts", TimeoutCall(ms)) /\ UNCHANGED settings
     ELSE /\ settings' = [settings EXCEPT ![u].timeout = ms]
          /\ Return(u, {"timeout"}, "true")
  /\ UNCHANGED <<uarthandle, isopen, history, table, ports>>

\* open() goes on with the timeouts that were set before it; a setter changes its member last.
SetCommTimeouts(u) ==
  LET opening == call[u].op = "open"
      ms == IF opening THEN settings[u].timeout ELSE call[u].ms
  IN  /\ pc[u] = "SetCommTimeouts" /\ IsPort(u) /\ Uses(u)
      /\ timeouts' = [timeouts EXCEPT ![Port(u)] = CommTimeouts(ms, settings[u].baudrate)]
      /\ settings' = [settings EXCEPT ![u].timeout = ms]
      /\ IF opening THEN Goto(u, "GetCommState", OpenCall) ELSE Return(u, {"timeout"}, "true")
      /\ UNCHANGED <<uarthandle, isopen, closed, failures, table, dcb>>

\* A port whose timeouts cannot be set stays open, and open() returns false for it.
SetCommTimeoutsFails(u) ==
  /\ pc[u] = "SetCommTimeouts" /\ Uses(u)
  /\ IF call[u].op = "open"
     THEN Return(u, {"open", "line", "timeout"}, "false")
     ELSE Return(u, {"timeout"}, "error")
  /\ UNCHANGED <<members, closed, failures, table, ports>>

-------------------------------------------------------------------------------
(* The other setters, and configure() *)

Set(u, s, v) ==
  /\ pc[u] = "idle"
  /\ IF Accepted(s, v)
     THEN /\ settings' = [settings EXCEPT ![u][s] = Stored(s, v)]
          /\ IF isopen[u] THEN Goto(u, "GetCommState", LineCall) ELSE Return(u, {"line"}, "false")
     ELSE Return(u, {"line"}, "error") /\ UNCHANGED settings
  /\ UNCHANGED <<uarthandle, isopen, history, table, ports>>

\* configure() returns: open() takes over its result.  When it is an error isopen_ is false
\* by the time close() looks at it, and the handle stays open.
EndConfigure(u, r) ==
  IF call[u].op = "open"
  THEN /\ Return(u, {"open", "line", "timeout"}, r)
       /\ isopen' = [isopen EXCEPT ![u] = (r = "true")]
       /\ failures' = IF r = "true" THEN failures ELSE [failures EXCEPT ![u] = @ + 1]
  ELSE Return(u, {"line"}, r) /\ UNCHANGED <<isopen, failures>>

ConfigureFails(u) ==
  /\ pc[u] \in {"GetCommState", "SetCommState"} /\ Uses(u)
  /\ EndConfigure(u, "error")
  /\ UNCHANGED <<uarthandle, settings, closed, table, ports>>

GetCommState(u) ==
  /\ pc[u] = "GetCommState" /\ IsPort(u) /\ Uses(u)
  /\ Goto(u, "SetCommState", call[u])
  /\ UNCHANGED <<members, closed, failures, table, ports>>

\* The driver takes all of the settings or none of them.
SetCommState(u) ==
  /\ pc[u] = "SetCommState" /\ IsPort(u) /\ Uses(u)
  /\ dcb' = [dcb EXCEPT ![Port(u)] = Line(settings[u])]
  /\ EndConfigure(u, "true")
  /\ UNCHANGED <<uarthandle, settings, closed, table, timeouts>>

-------------------------------------------------------------------------------
(* read() and write(): one system call on whatever uarthandle_ holds, open or not.  What they
   transfer, at most as many bytes as a DWORD counts, is left out: only whose port it is. *)

read(u) == pc[u] = "idle" /\ Uses(u) /\ UNCHANGED <<members, control, closed, failures, table, ports>>

write(u) == pc[u] = "idle" /\ Uses(u) /\ UNCHANGED <<members, control, closed, failures, table, ports>>

-------------------------------------------------------------------------------
(* External: the rest of the process *)

OtherOpens(h) ==
  /\ table[h] = "free" /\ table' = [table EXCEPT ![h] = "other"]
  /\ UNCHANGED <<members, control, history, ports>>

OtherCloses(h) ==
  /\ table[h] = "other" /\ table' = [table EXCEPT ![h] = "free"]
  /\ UNCHANGED <<members, control, history, ports>>

MemberFunction(u) ==
  \/ open(u) \/ CreateFile(u) \/ close(u) \/ Destroy(u)
  \/ \E ms \in Requests[u]["timeout"] : set_timeout(u, ms)
  \/ SetCommTimeouts(u) \/ SetCommTimeoutsFails(u)
  \/ \E s \in LineSetting : \E v \in Requests[u][s] : Set(u, s, v)
  \/ ConfigureFails(u) \/ GetCommState(u) \/ SetCommState(u)
  \/ read(u) \/ write(u)

Environment == \E h \in Handle : OtherOpens(h) \/ OtherCloses(h)

Next == (\E u \in Uart : MemberFunction(u)) \/ Environment

Spec == Init /\ [][Next]_vars

-------------------------------------------------------------------------------
(* Properties *)

Open(u) == isopen[u] /\ ~closed[u]

\* What the system calls of open() and configure() find: CreateFile() finds no port open, the
\* others do, and within open() it is the one just opened.  Nothing forgets a handle that
\* can be closed, so that it is there after close() as well.
CallInv ==
  \A u \in Uart :
    /\ pc[u] = "CreateFile" => ~Open(u)
    /\ pc[u] \in {"SetCommTimeouts", "GetCommState", "SetCommState"} =>
         isopen[u] /\ (call[u].op = "open" => ~closed[u])
    /\ closed[u] => isopen[u]
    /\ isopen[u] => uarthandle[u] # NoHandle

UartInv == TypeOK /\ CallInv

\* A handle that close() was not called on is the object's own: as long as no object whose
\* close() was called has been used, destroyed or opened again after its handle had gone to
\* somebody else, no open port loses its handle, however handles are reused.  Only an
\* explicit close() starts the trouble: open() and the destructor close what is theirs.
HandleOwnUntilClosed ==
  ~strayed => \A u \in Uart :
                uarthandle[u] # NoHandle /\ ~closed[u] => table[uarthandle[u]] = u

\* Where the handles of an object are: one for the open port, and one for every open() whose
\* configure() failed, which nothing ever closes.
HandlesAccounted ==
  ~strayed => \A u \in Uart :
                Cardinality({h \in Handle : table[h] = u}) =
                  failures[u] + (IF Open(u) THEN 1 ELSE 0)

\* The members of an open port, and the getters with them, tell what is in force at the port
\* unless the last call that should have applied it reported a failure: open() or a setter
\* for the settings of the line, whatever was set before; for the timeout open() or
\* set_timeout(), and a set_timeout() that fails changes neither (as long as a DWORD has room
\* for it).  Only stopbits() knows no 1.5 and returns 2 for it.
MembersTellWhatIsInForce ==
  ~strayed =>
    \A u \in Uart :
      LET d == DeviceOf[u]
          ms == settings[u].timeout
      IN  Open(u) /\ pc[u] = "idle" =>
            /\ result[u]["line"] = "true" => dcb[d] = Line(settings[u])
            /\ "true" \in {result[u]["open"], result[u]["timeout"]} /\ ms \in 0..DwordSize - 1
                 => timeouts[d].constant = ms
===============================================================================
