-------------------------- MODULE Win32Uart_proofs ---------------------------
(***************************************************************************)
(* Win32UART for any number of objects, ports and handles: until an object  *)
(* whose close() was called strays, handles are the objects' own, every one *)
(* is accounted for, and members and ports agree.                           *)
(***************************************************************************)
EXTENDS Win32Uart, FiniteSetTheorems, TLAPS

\* A handle is its object's until close() is called on it, and never again after that.
OwnInv ==
  ~strayed => \A u \in Uart :
                uarthandle[u] # NoHandle =>
                  IF closed[u] THEN table[uarthandle[u]] # u ELSE table[uarthandle[u]] = u

TableInv == TableTypeOK /\ CallInv /\ OwnInv

LEMMA CallTypes ==
  /\ NoCall \in Call /\ OpenCall \in Call /\ LineCall \in Call
  /\ \A ms \in Int : TimeoutCall(ms) \in Call
  /\ OpenCall.op = "open" /\ LineCall.op = "line"
  /\ \A ms \in Int : TimeoutCall(ms).op = "timeout"
BY DEF NoCall, OpenCall, LineCall, TimeoutCall, Call

LEMMA InitTable == Init => TableInv
<1> SUFFICES ASSUME Init PROVE TableInv
  OBVIOUS
<1>1. TableTypeOK
  BY CallTypes DEF Init, TableTypeOK
<1>2. CallInv /\ OwnInv
  BY DEF Init, CallInv, OwnInv, Open
<1> QED
  BY <1>1, <1>2 DEF TableInv

\* What an action does when it changes neither the table nor what it is compared with.
LEMMA QuietStep ==
  ASSUME TableInv, NEW u \in Uart, UNCHANGED <<uarthandle, isopen, closed, table>>,
         failures' = failures, strayed' \in BOOLEAN, strayed => strayed',
         NEW c \in {"idle", "SetCommTimeouts", "GetCommState", "SetCommState"},
         NEW f \in Call, pc' = [pc EXCEPT ![u] = c], call' = [call EXCEPT ![u] = f],
         c # "idle" => isopen[u] /\ (f.op = "open" => ~closed[u])
  PROVE  TableInv'
BY DEF TableInv, TableTypeOK, CallInv, OwnInv, Open

\* The body of close() frees what the object owns, or strays.
LEMMA CloseBodyStep ==
  ASSUME TableInv, NEW u \in Uart, CloseBody(u)
  PROVE  /\ strayed' \in BOOLEAN /\ (strayed => strayed')
         /\ table' \in [Handle -> Uart \union {"free", "other"}]
         /\ ~strayed' =>
              /\ \A h \in Handle : table'[h] = IF Open(u) /\ h = uarthandle[u] THEN "free" ELSE table[h]
              /\ Open(u) => table[uarthandle[u]] = u
<1> USE HandleAssumption, TableAssumption DEF TableInv, TableTypeOK
<1>1. CASE ~isopen[u]
  BY <1>1 DEF CloseBody, Open
<1>2. CASE isopen[u]
  <2>1. uarthandle[u] \in Handle
    BY <1>2 DEF CallInv
  <2>2. /\ strayed' = (strayed \/ Foreign(u))
        /\ table' = [table EXCEPT ![uarthandle[u]] = "free"]
    BY <1>2, <2>1 DEF CloseBody, CloseHandle, Uses
  <2>3. CASE closed[u]
    BY <1>2, <2>1, <2>2, <2>3 DEF OwnInv, Open, Foreign
  <2>4. CASE ~closed[u]
    BY <1>2, <2>1, <2>2, <2>4 DEF OwnInv, Open, Foreign
  <2> QED
    BY <2>3, <2>4
<1> QED
  BY <1>1, <1>2

\* read(), write(), the setters and the calls that only ask or set something at the port.
QuietAction(u) ==
  \/ \E ms \in Requests[u]["timeout"] : set_timeout(u, ms)
  \/ SetCommTimeouts(u) \/ SetCommTimeoutsFails(u)
  \/ \E s \in LineSetting : \E v \in Requests[u][s] : Set(u, s, v)
  \/ GetCommState(u) \/ read(u) \/ write(u)

LEMMA QuietActionStep ==
  ASSUME TableInv, NEW u \in Uart, QuietAction(u)
  PROVE  /\ TableInv'
         /\ UNCHANGED <<uarthandle, isopen, closed, table, failures>>
<1> USE CallTypes
<1>1. call[u] \in Call /\ pc = [pc EXCEPT ![u] = pc[u]] /\ call = [call EXCEPT ![u] = call[u]]
  BY DEF TableInv, TableTypeOK
<1>2. CASE \E ms \in Requests[u]["timeout"] : set_timeout(u, ms)
  <2>1. PICK ms \in Int : set_timeout(u, ms)
    BY <1>2, RequestAssumption
  <2>2. CASE isopen[u]
    <3>1. UNCHANGED <<uarthandle, isopen, closed, table, failures, strayed>>
      BY <2>1 DEF set_timeout, history
    <3>2. /\ pc' = [pc EXCEPT ![u] = "SetCommTimeouts"]
          /\ call' = [call EXCEPT ![u] = TimeoutCall(ms)]
      BY <2>1, <2>2 DEF set_timeout, Goto
    <3> QED
      BY <2>2, <3>1, <3>2, QuietStep DEF TableInv, TableTypeOK
  <2>3. CASE ~isopen[u]
    BY <2>1, <2>3, QuietStep DEF set_timeout, Return, history, TableInv, TableTypeOK
  <2> QED
    BY <2>2, <2>3
<1>3. CASE SetCommTimeouts(u)
  <2>1. /\ UNCHANGED <<uarthandle, isopen, closed, table, failures>>
        /\ strayed' = (strayed \/ Foreign(u)) /\ pc[u] = "SetCommTimeouts"
    BY <1>3 DEF SetCommTimeouts, Uses
  <2>2. isopen[u] /\ (call[u].op = "open" => ~closed[u]) /\ strayed' \in BOOLEAN
    BY <2>1 DEF TableInv, TableTypeOK, CallInv, Foreign
  <2>3. CASE call[u].op = "open"
    <3>1. pc' = [pc EXCEPT ![u] = "GetCommState"] /\ call' = [call EXCEPT ![u] = OpenCall]
      BY <1>3, <2>3 DEF SetCommTimeouts, Goto
    <3> QED
      BY <2>1, <2>2, <2>3, <3>1, QuietStep
  <2>4. CASE call[u].op # "open"
    <3>1. pc' = [pc EXCEPT ![u] = "idle"] /\ call' = [call EXCEPT ![u] = NoCall]
      BY <1>3, <2>4 DEF SetCommTimeouts, Return
    <3> QED
      BY <2>1, <2>2, <3>1, QuietStep
  <2> QED
    BY <2>3, <2>4
<1>4. CASE SetCommTimeoutsFails(u)
  <2>1. /\ UNCHANGED <<uarthandle, isopen, closed, table, failures>>
        /\ strayed' = (strayed \/ Foreign(u))
    BY <1>4 DEF SetCommTimeoutsFails, Uses, members
  <2>2. pc' = [pc EXCEPT ![u] = "idle"] /\ call' = [call EXCEPT ![u] = NoCall]
    BY <1>4 DEF SetCommTimeoutsFails, Return
  <2>3. strayed' \in BOOLEAN
    BY <2>1 DEF TableInv, TableTypeOK, Foreign
  <2> QED
    BY <2>1, <2>2, <2>3, QuietStep
<1>5. ASSUME NEW s \in LineSetting, NEW v \in Requests[u][s], Set(u, s, v)
      PROVE  TableInv' /\ UNCHANGED <<uarthandle, isopen, closed, table, failures>>
  <2>1. UNCHANGED <<uarthandle, isopen, closed, table, failures, strayed>>
    BY <1>5 DEF Set, history
  <2>2. \/ /\ isopen[u] /\ pc' = [pc EXCEPT ![u] = "GetCommState"]
           /\ call' = [call EXCEPT ![u] = LineCall]
        \/ pc' = [pc EXCEPT ![u] = "idle"] /\ call' = [call EXCEPT ![u] = NoCall]
    BY <1>5 DEF Set, Goto, Return
  <2> QED
    BY <2>1, <2>2, QuietStep DEF TableInv, TableTypeOK
<1>6. CASE GetCommState(u)
  <2>1. /\ UNCHANGED <<uarthandle, isopen, closed, table, failures>>
        /\ strayed' = (strayed \/ Foreign(u)) /\ pc[u] = "GetCommState"
        /\ pc' = [pc EXCEPT ![u] = "SetCommState"] /\ call' = [call EXCEPT ![u] = call[u]]
    BY <1>6 DEF GetCommState, Uses, members, Goto
  <2>2. isopen[u] /\ (call[u].op = "open" => ~closed[u]) /\ strayed' \in BOOLEAN
    BY <2>1 DEF TableInv, TableTypeOK, CallInv, Foreign
  <2> QED
    BY <1>1, <2>1, <2>2, QuietStep
<1>7. CASE read(u) \/ write(u)
  <2>1. /\ UNCHANGED <<uarthandle, isopen, closed, table, failures, pc, call>>
        /\ strayed' = (strayed \/ Foreign(u)) /\ pc[u] = "idle"
    BY <1>7 DEF read, write, Uses, members, control
  <2>2. strayed' \in BOOLEAN
    BY <2>1 DEF TableInv, TableTypeOK, Foreign
  <2> QED
    BY <1>1, <2>1, <2>2, QuietStep
<1> QED
  BY <1>2, <1>3, <1>4, <1>5, <1>6, <1>7 DEF QuietAction

-------------------------------------------------------------------------------
(* The steps that change who holds which handle *)

Frees(u) ==
  /\ Open(u) /\ ~Open(u)' /\ table[uarthandle[u]] = u
  /\ table' = [table EXCEPT ![uarthandle[u]] = "free"] /\ failures' = failures
Takes(u, h) ==
  /\ ~Open(u) /\ Open(u)' /\ table[h] = "free"
  /\ table' = [table EXCEPT ![h] = u] /\ failures' = failures
Abandons(u) ==
  /\ Open(u) /\ ~Open(u)' /\ table' = table
  /\ failures' = [failures EXCEPT ![u] = @ + 1]
Stays(u) == Open(u)' = Open(u) /\ table' = table /\ failures' = failures

\* What a step of object u does, and that it opens and closes no other object.
Change(u) ==
  /\ Frees(u) \/ (\E h \in Handle : Takes(u, h)) \/ Abandons(u) \/ Stays(u)
  /\ \A v \in Uart \ {u} : Open(v)' = Open(v)

LEMMA QuietChange ==
  ASSUME NEW u \in Uart, UNCHANGED <<uarthandle, isopen, closed, table, failures>>
  PROVE  Change(u)
BY DEF Change, Stays, Open

LEMMA CloseStep ==
  ASSUME TableInv, NEW u \in Uart, close(u)
  PROVE  TableInv' /\ (~strayed' => Change(u))
<1> USE HandleAssumption, TableAssumption
<1>1. /\ strayed' \in BOOLEAN /\ (strayed => strayed')
      /\ table' \in [Handle -> Uart \union {"free", "other"}]
      /\ ~strayed' =>
           /\ \A h \in Handle : table'[h] = IF Open(u) /\ h = uarthandle[u] THEN "free" ELSE table[h]
           /\ Open(u) => table[uarthandle[u]] = u
  BY CloseBodyStep DEF close
<1>2. /\ UNCHANGED <<uarthandle, isopen, pc, call, failures>> /\ pc[u] = "idle"
      /\ closed' = [closed EXCEPT ![u] = @ \/ isopen[u]]
  BY DEF close, members, control
<1>3. TableTypeOK'
  BY <1>1, <1>2 DEF TableInv, TableTypeOK
<1>4. CallInv'
  BY <1>2 DEF TableInv, TableTypeOK, CallInv, Open
<1>5. OwnInv'
  BY <1>1, <1>2 DEF TableInv, TableTypeOK, OwnInv, CallInv, Open
<1>6. ASSUME ~strayed' PROVE Change(u)
  BY <1>1, <1>2, <1>6 DEF Change, Frees, Stays, Open, TableInv, TableTypeOK, CallInv
<1> QED
  BY <1>3, <1>4, <1>5, <1>6 DEF TableInv

LEMMA OpenStep ==
  ASSUME TableInv, NEW u \in Uart, open(u)
  PROVE  TableInv' /\ (~strayed' => Change(u))
<1> USE HandleAssumption, TableAssumption, CallTypes
<1>1. /\ strayed' \in BOOLEAN /\ (strayed => strayed')
      /\ table' \in [Handle -> Uart \union {"free", "other"}]
      /\ ~strayed' =>
           /\ \A h \in Handle : table'[h] = IF Open(u) /\ h = uarthandle[u] THEN "free" ELSE table[h]
           /\ Open(u) => table[uarthandle[u]] = u
  BY CloseBodyStep DEF open
<1>2. /\ UNCHANGED <<uarthandle, isopen, failures>> /\ pc[u] = "idle"
      /\ closed' = [closed EXCEPT ![u] = @ \/ isopen[u]]
      /\ pc' = [pc EXCEPT ![u] = "CreateFile"] /\ call' = [call EXCEPT ![u] = OpenCall]
  BY DEF open, members, Goto
<1>3. TableTypeOK'
  BY <1>1, <1>2 DEF TableInv, TableTypeOK
<1>4. CallInv'
  BY <1>2 DEF TableInv, TableTypeOK, CallInv, Open
<1>5. OwnInv'
  BY <1>1, <1>2 DEF TableInv, TableTypeOK, OwnInv, CallInv, Open
<1>6. ASSUME ~strayed' PROVE Change(u)
  BY <1>1, <1>2, <1>6 DEF Change, Frees, Stays, Open, TableInv, TableTypeOK, CallInv
<1> QED
  BY <1>3, <1>4, <1>5, <1>6 DEF TableInv

LEMMA DestroyStep ==
  ASSUME TableInv, NEW u \in Uart, Destroy(u)
  PROVE  TableInv' /\ (~strayed' => Change(u))
<1> USE HandleAssumption, TableAssumption, CallTypes
<1>1. /\ strayed' \in BOOLEAN /\ (strayed => strayed')
      /\ table' \in [Handle -> Uart \union {"free", "other"}]
      /\ ~strayed' =>
           /\ \A h \in Handle : table'[h] = IF Open(u) /\ h = uarthandle[u] THEN "free" ELSE table[h]
           /\ Open(u) => table[uarthandle[u]] = u
  BY CloseBodyStep DEF Destroy
<1>2. /\ UNCHANGED failures /\ pc[u] = "idle"
      /\ uarthandle' = [uarthandle EXCEPT ![u] = NoHandle]
      /\ isopen' = [isopen EXCEPT ![u] = FALSE] /\ closed' = [closed EXCEPT ![u] = FALSE]
      /\ pc' = [pc EXCEPT ![u] = "idle"] /\ call' = [call EXCEPT ![u] = NoCall]
  BY DEF Destroy, Return
<1>3. TableTypeOK'
  BY <1>1, <1>2 DEF TableInv, TableTypeOK
<1>4. CallInv'
  BY <1>2 DEF TableInv, TableTypeOK, CallInv, Open
<1>5. OwnInv'
  BY <1>1, <1>2 DEF TableInv, TableTypeOK, OwnInv, CallInv, Open
<1>6. ASSUME ~strayed' PROVE Change(u)
  BY <1>1, <1>2, <1>6 DEF Change, Frees, Stays, Open, TableInv, TableTypeOK, CallInv
<1> QED
  BY <1>3, <1>4, <1>5, <1>6 DEF TableInv

LEMMA CreateFileStep ==
  ASSUME TableInv, NEW u \in Uart, CreateFile(u)
  PROVE  TableInv' /\ Change(u)
<1> USE HandleAssumption, TableAssumption, CallTypes
<1>1. /\ pc[u] = "CreateFile" /\ ~Open(u) /\ UNCHANGED <<failures, strayed>>
      /\ closed' = [closed EXCEPT ![u] = FALSE]
  BY DEF CreateFile, TableInv, CallInv
<1>2. CASE /\ uarthandle' = [uarthandle EXCEPT ![u] = NoHandle]
           /\ isopen' = [isopen EXCEPT ![u] = FALSE]
           /\ Return(u, {"open", "line", "timeout"}, "error") /\ UNCHANGED table
  <2>1. pc' = [pc EXCEPT ![u] = "idle"] /\ call' = [call EXCEPT ![u] = NoCall]
    BY <1>2 DEF Return
  <2>2. TableTypeOK'
    BY <1>1, <1>2, <2>1 DEF TableInv, TableTypeOK
  <2>3. CallInv'
    BY <1>1, <1>2, <2>1 DEF TableInv, TableTypeOK, CallInv, Open
  <2>4. OwnInv'
    BY <1>1, <1>2 DEF TableInv, TableTypeOK, OwnInv
  <2>5. Change(u)
    BY <1>1, <1>2 DEF Change, Stays, Open, TableInv, TableTypeOK
  <2> QED
    BY <2>2, <2>3, <2>4, <2>5 DEF TableInv
<1>3. ASSUME NEW h \in Handle, table[h] = "free", table' = [table EXCEPT ![h] = u],
             uarthandle' = [uarthandle EXCEPT ![u] = h],
             isopen' = [isopen EXCEPT ![u] = TRUE], Goto(u, "SetCommTimeouts", OpenCall)
      PROVE  TableInv' /\ Change(u)
  <2>1. pc' = [pc EXCEPT ![u] = "SetCommTimeouts"] /\ call' = [call EXCEPT ![u] = OpenCall]
    BY <1>3 DEF Goto
  <2>2. TableTypeOK'
    BY <1>1, <1>3, <2>1 DEF TableInv, TableTypeOK
  <2>3. CallInv'
    BY <1>1, <1>3, <2>1 DEF TableInv, TableTypeOK, CallInv, Open
  <2>4. OwnInv'
    BY <1>1, <1>3 DEF TableInv, TableTypeOK, OwnInv
  <2>5. Takes(u, h)
    BY <1>1, <1>3 DEF Takes, Open, TableInv, TableTypeOK
  <2>6. \A v \in Uart \ {u} : Open(v)' = Open(v)
    BY <1>1, <1>3 DEF Open, TableInv, TableTypeOK
  <2> QED
    BY <2>2, <2>3, <2>4, <2>5, <2>6 DEF TableInv, Change
<1> QED
  BY <1>2, <1>3 DEF CreateFile

LEMMA EndConfigureStep ==
  ASSUME TableInv, NEW u \in Uart, ConfigureFails(u) \/ SetCommState(u)
  PROVE  TableInv' /\ Change(u)
<1> USE HandleAssumption, TableAssumption, CallTypes
<1>1. PICK r \in {"true", "error"} : EndConfigure(u, r)
  BY DEF ConfigureFails, SetCommState
<1>2. /\ pc[u] \in {"GetCommState", "SetCommState"} /\ strayed' = (strayed \/ Foreign(u))
      /\ UNCHANGED <<uarthandle, closed, table>>
  BY DEF ConfigureFails, SetCommState, Uses
<1>3. /\ pc' = [pc EXCEPT ![u] = "idle"] /\ call' = [call EXCEPT ![u] = NoCall]
      /\ \/ UNCHANGED <<isopen, failures>>
         \/ /\ call[u].op = "open" /\ r = "error" /\ isopen' = [isopen EXCEPT ![u] = FALSE]
            /\ failures' = [failures EXCEPT ![u] = @ + 1]
  <2>1. isopen[u]
    BY <1>2 DEF TableInv, CallInv
  <2>2. CASE call[u].op # "open"
    BY <1>1, <2>2 DEF EndConfigure, Return
  <2>3. CASE call[u].op = "open"
    <3>1. /\ pc' = [pc EXCEPT ![u] = "idle"] /\ call' = [call EXCEPT ![u] = NoCall]
          /\ isopen' = [isopen EXCEPT ![u] = (r = "true")]
          /\ failures' = IF r = "true" THEN failures ELSE [failures EXCEPT ![u] = @ + 1]
      BY <1>1, <2>3 DEF EndConfigure, Return
    <3>2. CASE r = "true"
      <4>1. isopen' = [isopen EXCEPT ![u] = TRUE]
        BY <3>1, <3>2
      <4>2. isopen' = isopen
        BY <2>1, <4>1 DEF TableInv, TableTypeOK
      <4> QED
        BY <3>1, <3>2, <4>2
    <3>3. CASE r = "error"
      BY <2>3, <3>1, <3>3
    <3> QED
      BY <3>2, <3>3
  <2> QED
    BY <2>2, <2>3
<1>4. isopen[u] /\ (call[u].op = "open" => ~closed[u]) /\ strayed' \in BOOLEAN
  BY <1>2 DEF TableInv, TableTypeOK, CallInv, Foreign
<1>5. TableTypeOK'
  <2>1. isopen \in [Uart -> BOOLEAN] /\ failures \in [Uart -> Nat]
    BY DEF TableInv, TableTypeOK
  <2>2. isopen' \in [Uart -> BOOLEAN]
    BY <1>3, <2>1
  <2>3. failures' \in [Uart -> Nat]
    BY <1>3, <2>1
  <2> QED
    BY <1>2, <1>3, <1>4, <2>2, <2>3 DEF TableInv, TableTypeOK
<1>6. CallInv'
  BY <1>2, <1>3, <1>4 DEF TableInv, TableTypeOK, CallInv, Open
<1>7. OwnInv'
  BY <1>2, <1>3 DEF TableInv, OwnInv
<1>8. Change(u)
  BY <1>2, <1>3, <1>4 DEF Change, Stays, Abandons, Open, TableInv, TableTypeOK
<1> QED
  BY <1>5, <1>6, <1>7, <1>8 DEF TableInv

\* The rest of the process takes free handles and frees its own.
EnvironmentChange ==
  /\ UNCHANGED <<uarthandle, isopen, pc, call, closed, failures, strayed>>
  /\ \/ UNCHANGED table
     \/ \E h \in Handle :
          \/ table[h] = "free" /\ table' = [table EXCEPT ![h] = "other"]
          \/ table[h] = "other" /\ table' = [table EXCEPT ![h] = "free"]

LEMMA EnvironmentStep ==
  ASSUME TableInv, Environment \/ UNCHANGED vars
  PROVE  TableInv' /\ EnvironmentChange
<1>1. EnvironmentChange
  BY DEF Environment, OtherOpens, OtherCloses, EnvironmentChange, vars, members, control, history
<1>2. TableInv'
  BY <1>1, HandleAssumption, TableAssumption
  DEF EnvironmentChange, TableInv, TableTypeOK, CallInv, OwnInv, Open
<1> QED
  BY <1>1, <1>2

LEMMA MemberStep ==
  ASSUME TableInv, NEW u \in Uart, MemberFunction(u)
  PROVE  TableInv' /\ (~strayed' => Change(u))
<1>1. \/ open(u) \/ CreateFile(u) \/ close(u) \/ Destroy(u)
      \/ ConfigureFails(u) \/ SetCommState(u) \/ QuietAction(u)
  BY DEF MemberFunction, QuietAction
<1> QED
  BY <1>1, OpenStep, CreateFileStep, CloseStep, DestroyStep, EndConfigureStep, QuietActionStep,
     QuietChange

LEMMA NextTable == TableInv /\ [Next]_vars => TableInv'
BY MemberStep, EnvironmentStep DEF Next

THEOREM TableInvariant == Spec => []TableInv
  BY InitTable, NextTable, PTL DEF Spec

\* Until an object strays nobody loses a handle on which close() was not called.
THEOREM HandlesAreOwn == Spec => []HandleOwnUntilClosed
<1>1. TableInv => HandleOwnUntilClosed
  BY DEF TableInv, OwnInv, HandleOwnUntilClosed
<1> QED
  BY <1>1, TableInvariant, PTL

-------------------------------------------------------------------------------
(* Counting handles *)

Owned(u) == {h \in Handle : table[h] = u}
Expected(u) == failures[u] + (IF Open(u) THEN 1 ELSE 0)

LEMMA OwnedFinite == \A u \in Uart : IsFiniteSet(Owned(u)) /\ Cardinality(Owned(u)) \in Nat
BY HandleAssumption, FS_Subset, FS_CardinalityType DEF Owned

LEMMA AccountStep ==
  ASSUME TableInv, TableInv', \A v \in Uart : Cardinality(Owned(v)) = Expected(v),
         NEW u \in Uart, Change(u), NEW v \in Uart
  PROVE  Cardinality(Owned(v)') = Expected(v)'
<1> USE TableAssumption
<1>1. /\ table \in [Handle -> Uart \union {"free", "other"}] /\ failures \in [Uart -> Nat]
      /\ uarthandle \in [Uart -> Handle \union {NoHandle}]
      /\ Open(u) => uarthandle[u] \in Handle
      /\ \A w \in Uart : Cardinality(Owned(w)) = Expected(w)
  BY DEF TableInv, TableTypeOK, CallInv, Open
<1>2. CASE v # u
  <2>1. Owned(v)' = Owned(v)
    BY <1>1, <1>2 DEF Change, Frees, Takes, Abandons, Stays, Owned
  <2>2. Expected(v)' = Expected(v)
    BY <1>1, <1>2 DEF Change, Frees, Takes, Abandons, Stays, Expected
  <2> QED
    BY <1>1, <2>1, <2>2
<1>3. CASE v = u /\ Stays(u)
  <2>1. Owned(u)' = Owned(u) /\ Expected(u)' = Expected(u)
    BY <1>3 DEF Stays, Owned, Expected
  <2> QED
    BY <1>1, <1>3, <2>1
<1>4. CASE v = u /\ Abandons(u)
  <2>1. Owned(u)' = Owned(u)
    BY <1>4 DEF Abandons, Owned
  <2>2. Expected(u)' = Expected(u)
    BY <1>1, <1>4 DEF Abandons, Expected
  <2> QED
    BY <1>1, <1>4, <2>1, <2>2
<1>5. CASE v = u /\ Frees(u)
  <2>1. uarthandle[u] \in Owned(u) /\ Owned(u)' = Owned(u) \ {uarthandle[u]}
    BY <1>1, <1>5 DEF Frees, Owned
  <2>2. Cardinality(Owned(u)') = Cardinality(Owned(u)) - 1
    BY <2>1, OwnedFinite, FS_RemoveElement
  <2>3. Expected(u) = failures[u] + 1 /\ Expected(u)' = failures[u]
    BY <1>1, <1>5 DEF Frees, Expected
  <2> QED
    BY <1>1, <1>5, <2>2, <2>3
<1>6. ASSUME v = u, NEW h \in Handle, Takes(u, h) PROVE Cardinality(Owned(v)') = Expected(v)'
  <2>1. h \notin Owned(u) /\ Owned(u)' = Owned(u) \union {h}
    BY <1>1, <1>6 DEF Takes, Owned
  <2>2. Cardinality(Owned(u)') = Cardinality(Owned(u)) + 1
    BY <2>1, OwnedFinite, FS_AddElement
  <2>3. Expected(u) = failures[u] /\ Expected(u)' = failures[u] + 1
    BY <1>1, <1>6 DEF Takes, Expected
  <2> QED
    BY <1>1, <1>6, <2>2, <2>3
<1> QED
  BY <1>2, <1>3, <1>4, <1>5, <1>6 DEF Change

LEMMA AccountEnvironment ==
  ASSUME TableInv, NEW v \in Uart, EnvironmentChange
  PROVE  Owned(v)' = Owned(v) /\ Expected(v)' = Expected(v)
BY TableAssumption DEF EnvironmentChange, Owned, Expected, Open, TableInv, TableTypeOK

LEMMA StrayedStays == ASSUME TableInv, [Next]_vars PROVE strayed => strayed'
<1>1. ASSUME NEW u \in Uart, MemberFunction(u) PROVE strayed => strayed'
  BY <1>1, CloseBodyStep
  DEF MemberFunction, open, close, Destroy, CreateFile, set_timeout, SetCommTimeouts,
      SetCommTimeoutsFails, Set, ConfigureFails, GetCommState, SetCommState, read, write, Uses,
      history
<1> QED
  BY <1>1, EnvironmentStep DEF Next, EnvironmentChange

\* Every handle an object holds is the open port's or was left behind by an open() that could
\* not configure the port.
THEOREM HandlesCounted == Spec => []HandlesAccounted
<1>1. HandlesAccounted <=> (~strayed => \A v \in Uart : Cardinality(Owned(v)) = Expected(v))
  BY DEF HandlesAccounted, Owned, Expected
<1>2. Init => HandlesAccounted
  <2> SUFFICES ASSUME Init, NEW u \in Uart PROVE Cardinality(Owned(u)) = Expected(u)
    BY <1>1
  <2>1. Owned(u) = {}
    BY TableAssumption DEF Init, Owned
  <2> QED
    BY <2>1, FS_EmptySet DEF Init, Expected, Open
<1>3. TableInv /\ HandlesAccounted /\ [Next]_vars => HandlesAccounted'
  <2> SUFFICES ASSUME TableInv, [Next]_vars, ~strayed', NEW v \in Uart,
                      ~strayed => \A w \in Uart : Cardinality(Owned(w)) = Expected(w)
               PROVE  Cardinality(Owned(v)') = Expected(v)'
    BY <1>1 DEF HandlesAccounted, Owned, Expected
  <2>1. \A w \in Uart : Cardinality(Owned(w)) = Expected(w)
    BY StrayedStays
  <2>2. ASSUME NEW u \in Uart, MemberFunction(u) PROVE Cardinality(Owned(v)') = Expected(v)'
    BY <2>1, <2>2, MemberStep, AccountStep
  <2>3. CASE Environment \/ UNCHANGED vars
    <3>1. Owned(v)' = Owned(v) /\ Expected(v)' = Expected(v)
      BY <2>3, EnvironmentStep, AccountEnvironment
    <3> QED
      BY <2>1, <3>1
  <2> QED
    BY <2>2, <2>3 DEF Next
<1> QED
  BY <1>2, <1>3, TableInvariant, PTL DEF Spec

-------------------------------------------------------------------------------
(* What calls return, what members hold and what is in force at the ports *)

Names == {"open", "line", "timeout"}
Settings == LineSetting \union {"timeout"}

\* Shapes alone: what the values are is ValuesKept.
Shape ==
  /\ settings = [u \in Uart |-> [s \in Settings |-> settings[u][s]]]
  /\ result \in [Uart -> [Names -> Outcome]]
  /\ dcb = [d \in Device |-> dcb[d]] /\ timeouts = [d \in Device |-> timeouts[d]]

\* Which call each system call is made for, and that its argument is one that was asked for.
OpInv ==
  \A u \in Uart :
    /\ call[u].op \in CASE pc[u] = "idle" -> {"none"}
                        [] pc[u] = "CreateFile" -> {"open"}
                        [] pc[u] = "SetCommTimeouts" -> {"open", "timeout"}
                        [] OTHER -> {"open", "line"}
    /\ call[u].op = "timeout" => call[u].ms \in Kept(u, "timeout")

ValuesKept ==
  /\ \A u \in Uart : \A s \in Settings : settings[u][s] \in Kept(u, s)
  /\ \A d \in Device : timeouts[d] = PowerOnTimeouts \/ timeouts[d].multiplier > 0

\* A port is open through one handle at most, so that nobody else changes what is in force
\* at the port of an open object.
Exclusive ==
  \A g, h \in Handle :
    table[g] \in Uart /\ table[h] \in Uart /\ DeviceOf[table[g]] = DeviceOf[table[h]] => g = h

ValueInv == Shape /\ OpInv /\ ValuesKept /\ Exclusive

LEMMA SettingNames ==
  /\ Default = [s \in Settings |-> Default[s]] /\ "timeout" \notin LineSetting
  /\ \A u \in Uart, s \in Settings : Default[s] \in Kept(u, s)
  /\ \A m1, m2 : (\A s \in LineSetting : m1[s] = m2[s]) => Line(m1) = Line(m2)
BY DEF Default, Settings, LineSetting, Kept, Line

LEMMA SettingChanged ==
  ASSUME Shape, NEW u \in Uart, NEW s \in Settings, NEW x,
         settings' = [settings EXCEPT ![u][s] = x]
  PROVE  /\ settings'[u][s] = x
         /\ \A t \in Settings \ {s} : settings'[u][t] = settings[u][t]
         /\ \A v \in Uart \ {u} : settings'[v] = settings[v]
         /\ settings' = [v \in Uart |-> [t \in Settings |-> settings'[v][t]]]
BY DEF Shape

LEMMA TimeoutChanged ==
  ASSUME Shape, NEW u \in Uart, NEW STATE ms, settings' = [settings EXCEPT ![u]["timeout"] = ms]
  PROVE  /\ settings'[u]["timeout"] = ms
         /\ \A t \in Settings \ {"timeout"} : settings'[u][t] = settings[u][t]
BY SettingNames DEF Shape, Settings

LEMMA Returned ==
  ASSUME Shape, NEW u \in Uart, NEW kinds \in SUBSET Names, NEW r \in Outcome,
         Return(u, kinds, r), pc \in [Uart -> {"idle", "CreateFile", "SetCommTimeouts", "GetCommState", "SetCommState"}],
         call \in [Uart -> Call]
  PROVE  /\ result' \in [Uart -> [Names -> Outcome]]
         /\ pc'[u] = "idle" /\ call'[u] = NoCall
         /\ \A c \in Names : result'[u][c] = IF c \in kinds THEN r ELSE result[u][c]
         /\ \A v \in Uart \ {u} : UNCHANGED <<pc[v], call[v], result[v]>>
BY DEF Shape, Return

LEMMA Gone ==
  ASSUME Shape, NEW u \in Uart, NEW c, NEW f, Goto(u, c, f), TableTypeOK
  PROVE  /\ pc'[u] = c /\ call'[u] = f /\ result' = result
         /\ \A v \in Uart \ {u} : UNCHANGED <<pc[v], call[v], result[v]>>
BY DEF Goto, TableTypeOK

\* The port that a call acts on without straying is the object's own.
LEMMA OwnPort ==
  ASSUME TableInv, NEW u \in Uart, IsPort(u), Uses(u), ~strayed'
  PROVE  /\ uarthandle[u] \in Handle /\ table[uarthandle[u]] = u
         /\ Port(u) = DeviceOf[u] /\ DeviceOf[u] \in Device /\ ~strayed
BY TableAssumption, DeviceAssumption DEF IsPort, Uses, Foreign, Port, TableInv, TableTypeOK

LEMMA PortsDiffer ==
  ASSUME TableInv, Exclusive, ~strayed, NEW u \in Uart, NEW v \in Uart \ {u}, Open(v),
         uarthandle[u] \in Handle, table[uarthandle[u]] = u
  PROVE  DeviceOf[u] # DeviceOf[v]
BY HandleAssumption DEF Exclusive, TableInv, TableTypeOK, CallInv, OwnInv, Open

\* Whatever a call of u does, it neither touches the members of another object nor what is
\* in force at another open port.
LEMMA OthersStay ==
  ASSUME TableInv, Shape, Exclusive, NEW u \in Uart, NEW v \in Uart \ {u}, MemberFunction(u), ~strayed'
  PROVE  /\ UNCHANGED <<settings[v], result[v], pc[v], call[v]>> /\ Open(v)' = Open(v)
         /\ Open(v) => UNCHANGED <<dcb[DeviceOf[v]], timeouts[DeviceOf[v]]>>
<1>1. Open(v)' = Open(v)
  BY MemberStep DEF Change
<1>2. TableTypeOK /\ pc \in [Uart -> {"idle", "CreateFile", "SetCommTimeouts", "GetCommState", "SetCommState"}]
      /\ call \in [Uart -> Call]
  BY DEF TableInv, TableTypeOK
<1>3. DOMAIN settings = Uart /\ DOMAIN result = Uart /\ DOMAIN pc = Uart /\ DOMAIN call = Uart
  BY <1>2 DEF Shape
<1>4. UNCHANGED <<settings[v], result[v], pc[v], call[v]>>
  <2>1. CASE open(u) \/ close(u)
    BY <1>3, <2>1 DEF open, close, Goto, members, control
  <2>2. CASE CreateFile(u)
    BY <1>3, <2>2 DEF CreateFile, Goto, Return
  <2>3. CASE Destroy(u)
    BY <1>3, <2>3 DEF Destroy, Return
  <2>4. ASSUME NEW ms, set_timeout(u, ms) PROVE UNCHANGED <<settings[v], result[v], pc[v], call[v]>>
    BY <1>3, <2>4 DEF set_timeout, Goto, Return
  <2>5. CASE SetCommTimeouts(u) \/ SetCommTimeoutsFails(u)
    BY <1>3, <2>5 DEF SetCommTimeouts, SetCommTimeoutsFails, Goto, Return, members
  <2>6. ASSUME NEW s, NEW x, Set(u, s, x) PROVE UNCHANGED <<settings[v], result[v], pc[v], call[v]>>
    BY <1>3, <2>6 DEF Set, Goto, Return
  <2>7. CASE ConfigureFails(u) \/ GetCommState(u) \/ SetCommState(u)
    BY <1>3, <2>7 DEF ConfigureFails, GetCommState, SetCommState, EndConfigure, Goto, Return, members
  <2>8. CASE read(u) \/ write(u)
    BY <2>8 DEF read, write, members, control
  <2> QED
    BY <2>1, <2>2, <2>3, <2>4, <2>5, <2>6, <2>7, <2>8 DEF MemberFunction
<1>5. ASSUME Open(v) PROVE UNCHANGED <<dcb[DeviceOf[v]], timeouts[DeviceOf[v]]>>
  <2>1. CASE SetCommTimeouts(u) \/ SetCommState(u)
    <3>1. IsPort(u) /\ Uses(u)
      BY <2>1 DEF SetCommTimeouts, SetCommState
    <3>2. Port(u) = DeviceOf[u] /\ DeviceOf[u] # DeviceOf[v]
      BY <1>5, <3>1, OwnPort, PortsDiffer
    <3>3. /\ \E x : dcb' = [dcb EXCEPT ![Port(u)] = x] \/ dcb' = dcb
          /\ \E x : timeouts' = [timeouts EXCEPT ![Port(u)] = x] \/ timeouts' = timeouts
      BY <2>1 DEF SetCommTimeouts, SetCommState
    <3>4. DeviceOf[v] \in Device
      BY DeviceAssumption
    <3> QED
      BY <3>2, <3>3, <3>4 DEF Shape
  <2>2. CASE ~(SetCommTimeouts(u) \/ SetCommState(u))
    <3>1. UNCHANGED ports
      BY <2>2 DEF MemberFunction, open, close, CreateFile, Destroy, set_timeout, SetCommTimeoutsFails,
                  Set, ConfigureFails, GetCommState, read, write
    <3> QED
      BY <3>1 DEF ports
  <2> QED
    BY <2>1, <2>2
<1> QED
  BY <1>1, <1>4, <1>5

-------------------------------------------------------------------------------
(* UartInv *)

LEMMA InitValues == Init => ValueInv
<1> SUFFICES ASSUME Init PROVE ValueInv
  OBVIOUS
<1>1. Shape
  <2>1. settings = [u \in Uart |-> [s \in Settings |-> settings[u][s]]]
    BY SettingNames DEF Init
  <2>2. result \in [Uart -> [Names -> Outcome]]
    BY DEF Init, Names, Outcome
  <2> QED
    BY <2>1, <2>2 DEF Init, Shape
<1>2. OpInv
  BY DEF Init, OpInv, NoCall
<1>3. ValuesKept
  BY SettingNames DEF Init, ValuesKept
<1>4. Exclusive
  BY TableAssumption DEF Init, Exclusive
<1> QED
  BY <1>1, <1>2, <1>3, <1>4 DEF ValueInv

LEMMA MultiplierPositive ==
  ASSUME NEW u \in Uart, NEW baud \in Kept(u, "baudrate")
  PROVE  Multiplier(baud) > 0
<1>1. baud \in Nat \ {0}
  BY DEF Kept, Stored, Accepted, BaudRate, Default
<1>2. (11 \div baud) \in Nat
  BY <1>1
<1>3. (11 \div baud) \div 10000 \in Int
  BY <1>2
<1> QED
  BY <1>3 DEF Multiplier

\* The types of a step that leaves ports alone, and changes of its object what the arguments say.
LEMMA ValueStep ==
  ASSUME TableInv, ValueInv, NEW u \in Uart, MemberFunction(u)
  PROVE  Shape' /\ OpInv' /\ ValuesKept'
<1> USE CallTypes
<1>0. /\ TableTypeOK /\ Shape /\ OpInv /\ ValuesKept
      /\ pc \in [Uart -> {"idle", "CreateFile", "SetCommTimeouts", "GetCommState", "SetCommState"}]
      /\ call \in [Uart -> Call] /\ isopen \in [Uart -> BOOLEAN]
      /\ {"open", "line", "timeout"} \in SUBSET Names /\ {"line"} \in SUBSET Names
      /\ {"timeout"} \in SUBSET Names
  BY DEF TableInv, TableTypeOK, ValueInv, Names
<1>1. ASSUME UNCHANGED <<settings, ports, pc, call, result>> PROVE Shape' /\ OpInv' /\ ValuesKept'
  BY <1>0, <1>1 DEF Shape, OpInv, ValuesKept, ports, Kept
<1>2. ASSUME NEW c, NEW f, Goto(u, c, f), UNCHANGED <<settings, ports>>,
             f.op \in CASE c = "idle" -> {"none"}
                        [] c = "CreateFile" -> {"open"}
                        [] c = "SetCommTimeouts" -> {"open", "timeout"}
                        [] OTHER -> {"open", "line"},
             f.op = "timeout" => f.ms \in Kept(u, "timeout")
      PROVE  Shape' /\ OpInv' /\ ValuesKept'
  <2>1. /\ pc'[u] = c /\ call'[u] = f /\ result' = result
        /\ \A v \in Uart \ {u} : UNCHANGED <<pc[v], call[v], result[v]>>
    BY <1>0, <1>2, Gone
  <2> QED
    BY <1>0, <1>2, <2>1 DEF Shape, OpInv, ValuesKept, ports
<1>3. ASSUME NEW kinds \in SUBSET Names, NEW r \in Outcome, Return(u, kinds, r)
      PROVE  result' \in [Uart -> [Names -> Outcome]] /\ OpInv'
  <2>1. /\ result' \in [Uart -> [Names -> Outcome]]
        /\ pc'[u] = "idle" /\ call'[u] = NoCall
        /\ \A v \in Uart \ {u} : UNCHANGED <<pc[v], call[v], result[v]>>
    BY <1>0, <1>3, Returned
  <2> QED
    BY <1>0, <2>1 DEF OpInv, NoCall
<1>4. ASSUME NEW s \in Settings, NEW x \in Kept(u, s), settings' = [settings EXCEPT ![u][s] = x]
      PROVE  /\ settings' = [v \in Uart |-> [t \in Settings |-> settings'[v][t]]]
             /\ \A v \in Uart : \A t \in Settings : settings'[v][t] \in Kept(v, t)
  <2>1. /\ settings'[u][s] = x
        /\ \A t \in Settings \ {s} : settings'[u][t] = settings[u][t]
        /\ \A v \in Uart \ {u} : settings'[v] = settings[v]
        /\ settings' = [v \in Uart |-> [t \in Settings |-> settings'[v][t]]]
    BY <1>0, <1>4, SettingChanged
  <2>2. \A v \in Uart : \A t \in Settings : settings[v][t] \in Kept(v, t)
    BY <1>0 DEF ValuesKept
  <2>3. ASSUME NEW t \in Settings PROVE settings'[u][t] \in Kept(u, t)
    BY <2>1, <2>2
  <2>4. ASSUME NEW v \in Uart \ {u}, NEW t \in Settings PROVE settings'[v][t] \in Kept(v, t)
    BY <2>1, <2>2
  <2> QED
    BY <2>1, <2>3, <2>4
<1>5. CASE open(u)
  BY <1>2, <1>5 DEF open, members, OpenCall
<1>6. CASE close(u) \/ read(u) \/ write(u)
  BY <1>1, <1>6 DEF close, read, write, members, control, ports
<1>7. CASE CreateFile(u)
  <2>1. UNCHANGED <<settings, ports>>
    BY <1>7 DEF CreateFile
  <2>2. CASE Goto(u, "SetCommTimeouts", OpenCall)
    BY <1>2, <2>1, <2>2 DEF OpenCall
  <2>3. CASE Return(u, {"open", "line", "timeout"}, "error")
    BY <1>0, <1>3, <2>1, <2>3 DEF Shape, ValuesKept, ports, Outcome
  <2> QED
    BY <1>7, <2>2, <2>3 DEF CreateFile
<1>8. CASE Destroy(u)
  <2>1. /\ settings' = [settings EXCEPT ![u] = Default] /\ UNCHANGED <<dcb, timeouts>>
        /\ Return(u, {"open", "line", "timeout"}, "none")
    BY <1>8 DEF Destroy, ports
  <2>2. /\ settings' = [v \in Uart |-> [t \in Settings |-> settings'[v][t]]]
        /\ \A v \in Uart : \A t \in Settings : settings'[v][t] \in Kept(v, t)
    <3>1. settings'[u] = Default /\ \A v \in Uart \ {u} : settings'[v] = settings[v]
      BY <1>0, <2>1 DEF Shape
    <3>2. DOMAIN settings' = Uart /\ settings' = [v \in Uart |-> settings'[v]]
      BY <1>0, <2>1 DEF Shape
    <3>3. \A v \in Uart \ {u} : settings[v] = [t \in Settings |-> settings[v][t]]
      BY <1>0 DEF Shape
    <3>4. \A v \in Uart : settings'[v] = [t \in Settings |-> settings'[v][t]]
      BY <3>1, <3>3, SettingNames
    <3>5. ASSUME NEW t \in Settings PROVE settings'[u][t] \in Kept(u, t)
      BY <3>1, SettingNames
    <3>6. ASSUME NEW v \in Uart \ {u}, NEW t \in Settings PROVE settings'[v][t] \in Kept(v, t)
      BY <1>0, <3>1 DEF ValuesKept
    <3>7. settings' = [v \in Uart |-> [t \in Settings |-> settings'[v][t]]]
      BY <3>2, <3>4
    <3> QED
      BY <3>5, <3>6, <3>7
  <2>3. result' \in [Uart -> [Names -> Outcome]] /\ OpInv'
    BY <1>0, <1>3, <2>1 DEF Outcome
  <2> QED
    BY <1>0, <2>1, <2>2, <2>3 DEF Shape, ValuesKept
<1>9. ASSUME NEW ms \in Requests[u]["timeout"], set_timeout(u, ms) PROVE Shape' /\ OpInv' /\ ValuesKept'
  <2>1. ms \in Kept(u, "timeout") /\ "timeout" \in Settings
    BY <1>9 DEF Kept, Accepted, Stored, Settings
  <2>2. CASE isopen[u]
    BY <1>2, <1>9, <2>1, <2>2 DEF set_timeout, TimeoutCall
  <2>3. CASE ~isopen[u]
    <3>1. /\ settings' = [settings EXCEPT ![u]["timeout"] = ms] /\ UNCHANGED <<dcb, timeouts>>
          /\ Return(u, {"timeout"}, "true")
      BY <1>9, <2>3 DEF set_timeout, ports
    <3>2. result' \in [Uart -> [Names -> Outcome]] /\ OpInv'
      BY <1>0, <1>3, <3>1 DEF Outcome
    <3> QED
      BY <1>0, <1>4, <2>1, <3>1, <3>2 DEF Shape, ValuesKept
  <2> QED
    BY <2>2, <2>3
<1>10. CASE SetCommTimeouts(u)
  <2> DEFINE ms == IF call[u].op = "open" THEN settings[u].timeout ELSE call[u].ms
             x == CommTimeouts(ms, settings[u].baudrate)
  <2>1. /\ timeouts' = [timeouts EXCEPT ![Port(u)] = x] /\ dcb' = dcb
        /\ settings' = [settings EXCEPT ![u]["timeout"] = ms]
    BY <1>10 DEF SetCommTimeouts
  <2>2. call[u].op \in {"open", "timeout"}
    BY <1>0, <1>10 DEF SetCommTimeouts, OpInv
  <2>3. ms \in Kept(u, "timeout") /\ "timeout" \in Settings /\ "baudrate" \in Settings
    BY <1>0, <2>2 DEF OpInv, ValuesKept, Settings, LineSetting
  <2>4. x.multiplier > 0
    BY <1>0, <2>3, MultiplierPositive DEF ValuesKept, CommTimeouts
  <2>5. result' \in [Uart -> [Names -> Outcome]] /\ OpInv'
    <3>1. CASE Goto(u, "GetCommState", OpenCall)
      BY <1>0, <3>1, Gone DEF OpInv, Shape, OpenCall
    <3>2. CASE Return(u, {"timeout"}, "true")
      BY <1>0, <1>3, <3>2 DEF Outcome
    <3> QED
      BY <1>10, <3>1, <3>2 DEF SetCommTimeouts
  <2> HIDE DEF ms, x
  <2>6. /\ timeouts' = [d \in Device |-> timeouts'[d]]
        /\ \A d \in Device : timeouts'[d] = PowerOnTimeouts \/ timeouts'[d].multiplier > 0
    BY <1>0, <2>1, <2>4 DEF Shape, ValuesKept
  <2>7. /\ settings' = [v \in Uart |-> [t \in Settings |-> settings'[v][t]]]
        /\ \A v \in Uart : \A t \in Settings : settings'[v][t] \in Kept(v, t)
    BY <1>4, <2>1, <2>3
  <2> QED
    BY <1>0, <2>1, <2>5, <2>6, <2>7 DEF Shape, ValuesKept
<1>11. CASE SetCommTimeoutsFails(u)
  <2>1. \E kinds \in SUBSET Names, r \in Outcome : Return(u, kinds, r)
    BY <1>0, <1>11 DEF SetCommTimeoutsFails, Outcome
  <2>2. UNCHANGED <<settings, dcb, timeouts>>
    BY <1>11 DEF SetCommTimeoutsFails, members, ports
  <2> QED
    BY <1>0, <1>3, <2>1, <2>2 DEF Shape, ValuesKept
<1>12. ASSUME NEW s \in LineSetting, NEW x \in Requests[u][s], Set(u, s, x)
       PROVE  Shape' /\ OpInv' /\ ValuesKept'
  <2>1. UNCHANGED <<dcb, timeouts>>
    BY <1>12 DEF Set, ports
  <2>2. /\ settings' = [v \in Uart |-> [t \in Settings |-> settings'[v][t]]]
        /\ \A v \in Uart : \A t \in Settings : settings'[v][t] \in Kept(v, t)
    <3>1. CASE Accepted(s, x)
      <4>1. settings' = [settings EXCEPT ![u][s] = Stored(s, x)]
        BY <1>12, <3>1 DEF Set
      <4>2. Stored(s, x) \in Kept(u, s) /\ s \in Settings
        BY <1>12, <3>1 DEF Kept, Settings
      <4> QED
        BY <1>4, <4>1, <4>2
    <3>2. CASE ~Accepted(s, x)
      BY <1>0, <1>12, <3>2 DEF Set, Shape, ValuesKept
    <3> QED
      BY <3>1, <3>2
  <2>3. result' \in [Uart -> [Names -> Outcome]] /\ OpInv'
    <3>1. CASE Goto(u, "GetCommState", LineCall)
      BY <1>0, <3>1, Gone DEF OpInv, Shape, LineCall
    <3>2. CASE \E r \in {"false", "error"} : Return(u, {"line"}, r)
      BY <1>0, <1>3, <3>2 DEF Outcome
    <3> QED
      BY <1>12, <3>1, <3>2 DEF Set
  <2> QED
    BY <1>0, <2>1, <2>2, <2>3 DEF Shape, ValuesKept
<1>13. CASE GetCommState(u)
  <2>1. call[u].op \in {"open", "line"} /\ Goto(u, "SetCommState", call[u])
    BY <1>0, <1>13 DEF GetCommState, OpInv
  <2> QED
    BY <1>2, <1>13, <2>1 DEF GetCommState, members
<1>14. CASE ConfigureFails(u) \/ SetCommState(u)
  <2>1. \E kinds \in SUBSET Names, r \in Outcome : Return(u, kinds, r)
    BY <1>0, <1>14 DEF ConfigureFails, SetCommState, EndConfigure, Outcome
  <2>2. /\ UNCHANGED <<settings, timeouts>>
        /\ \E x : dcb' = [dcb EXCEPT ![Port(u)] = x] \/ dcb' = dcb
    BY <1>14 DEF ConfigureFails, SetCommState, ports
  <2>3. dcb' = [d \in Device |-> dcb'[d]]
    BY <1>0, <2>2 DEF Shape
  <2> QED
    BY <1>0, <1>3, <2>1, <2>2, <2>3 DEF Shape, ValuesKept
<1> QED
  BY <1>5, <1>6, <1>7, <1>8, <1>9, <1>10, <1>11, <1>12, <1>13, <1>14 DEF MemberFunction

LEMMA ExclusiveStep ==
  ASSUME TableInv, Exclusive, [Next]_vars
  PROVE  Exclusive'
<1> USE TableAssumption, DeviceAssumption
<1>1. table \in [Handle -> Uart \union {"free", "other"}]
  BY DEF TableInv, TableTypeOK
<1>2. ASSUME NEW f, table' = [table EXCEPT ![f] = "free"] \/ table' = [table EXCEPT ![f] = "other"]
      PROVE  Exclusive'
  BY <1>1, <1>2 DEF Exclusive
<1>3. ASSUME UNCHANGED table PROVE Exclusive'
  BY <1>3 DEF Exclusive
<1>4. ASSUME NEW u \in Uart, NEW f \in Handle, Shareable(DeviceOf[u]), table' = [table EXCEPT ![f] = u]
      PROVE  Exclusive'
  BY <1>1, <1>4 DEF Exclusive, Shareable
<1>5. ASSUME NEW u \in Uart, CloseBody(u) PROVE Exclusive'
  BY <1>2, <1>3, <1>5 DEF CloseBody, CloseHandle
<1>6. ASSUME NEW u \in Uart, MemberFunction(u) PROVE Exclusive'
  <2>1. CASE open(u) \/ close(u) \/ Destroy(u)
    BY <1>5, <2>1 DEF open, close, Destroy
  <2>2. CASE CreateFile(u)
    BY <1>3, <1>4, <2>2 DEF CreateFile
  <2>3. CASE ~(open(u) \/ close(u) \/ Destroy(u) \/ CreateFile(u))
    <3>1. UNCHANGED table
      BY <1>6, <2>3
      DEF MemberFunction, set_timeout, SetCommTimeouts, SetCommTimeoutsFails, Set, ConfigureFails,
          GetCommState, SetCommState, read, write
    <3> QED
      BY <1>3, <3>1
  <2> QED
    BY <2>1, <2>2, <2>3
<1>7. ASSUME NEW h \in Handle, OtherOpens(h) \/ OtherCloses(h) PROVE Exclusive'
  BY <1>2, <1>7 DEF OtherOpens, OtherCloses
<1> QED
  BY <1>3, <1>6, <1>7 DEF Next, Environment, vars

LEMMA EnvironmentKeeps ==
  ASSUME Environment \/ UNCHANGED vars
  PROVE  UNCHANGED <<settings, result, pc, call, dcb, timeouts>>
BY DEF Environment, OtherOpens, OtherCloses, vars, members, control, ports

LEMMA NextValues == TableInv /\ ValueInv /\ [Next]_vars => ValueInv'
<1> SUFFICES ASSUME TableInv, ValueInv, [Next]_vars PROVE ValueInv'
  OBVIOUS
<1>1. Exclusive'
  BY ExclusiveStep DEF ValueInv
<1>2. ASSUME NEW u \in Uart, MemberFunction(u) PROVE Shape' /\ OpInv' /\ ValuesKept'
  BY <1>2, ValueStep
<1>3. ASSUME Environment \/ UNCHANGED vars PROVE Shape' /\ OpInv' /\ ValuesKept'
  <2>1. UNCHANGED <<settings, result, pc, call, dcb, timeouts>>
    BY <1>3, EnvironmentKeeps
  <2>2. Shape'
    BY <2>1 DEF ValueInv, Shape
  <2>3. OpInv'
    BY <2>1 DEF ValueInv, OpInv
  <2>4. ValuesKept'
    BY <2>1 DEF ValueInv, ValuesKept
  <2> QED
    BY <2>2, <2>3, <2>4
<1> QED
  BY <1>1, <1>2, <1>3 DEF Next, ValueInv

THEOREM ValueInvariant == Spec => []ValueInv
  BY InitValues, NextValues, TableInvariant, PTL DEF Spec

\* At every system call the members have their types and the port is open or not as the call
\* needs it.
THEOREM CallsFitTheirPort == Spec => []UartInv
<1>1. TableInv /\ ValueInv => UartInv
  <2> SUFFICES ASSUME TableInv, ValueInv PROVE TypeOK
    BY DEF TableInv, UartInv
  <2>1. DOMAIN Default = Settings /\ Names = {"open", "line", "timeout"}
    BY DEF Default, Settings, LineSetting, Names
  <2> QED
    BY <2>1 DEF TableInv, ValueInv, Shape, OpInv, ValuesKept, TypeOK
<1> QED
  BY <1>1, TableInvariant, ValueInvariant, PTL

-------------------------------------------------------------------------------
(* What is in force *)

\* A setter of the line that is on its way is about to bring members and port together.
LineInForce(u) ==
  Open(u) /\ (pc[u] = "idle" \/ call[u].op = "timeout") /\ result[u]["line"] = "true" =>
    dcb[DeviceOf[u]] = Line(settings[u])

\* Within open() the timeouts are in force from the first system call on the handle on.
TimeoutInForce(u) ==
  /\ Open(u) /\ settings[u]["timeout"] \in 0..DwordSize - 1
  /\ IF call[u].op = "open" THEN pc[u] \in {"GetCommState", "SetCommState"}
     ELSE "true" \in {result[u]["open"], result[u]["timeout"]}
  => timeouts[DeviceOf[u]].constant = settings[u]["timeout"]

InForceInv == ~strayed => \A u \in Uart : LineInForce(u) /\ TimeoutInForce(u)

\* For the object that makes the step; OthersStay is about the rest.
LEMMA InForceStep ==
  ASSUME TableInv, ValueInv, NEW u \in Uart, MemberFunction(u), ~strayed', ~strayed,
         LineInForce(u), TimeoutInForce(u)
  PROVE  LineInForce(u)' /\ TimeoutInForce(u)'
<1> USE CallTypes
<1>0. /\ TableTypeOK /\ Shape /\ OpInv
      /\ pc \in [Uart -> {"idle", "CreateFile", "SetCommTimeouts", "GetCommState", "SetCommState"}]
      /\ call \in [Uart -> Call] /\ isopen \in [Uart -> BOOLEAN] /\ closed \in [Uart -> BOOLEAN]
      /\ {"open", "line", "timeout"} \in SUBSET Names /\ {"line"} \in SUBSET Names
      /\ {"timeout"} \in SUBSET Names /\ "line" \in Names /\ "open" \in Names /\ "timeout" \in Names
      /\ "timeout" \in Settings /\ NoCall.op = "none"
  BY DEF TableInv, TableTypeOK, ValueInv, Names, Settings, NoCall
<1>1. ASSUME ~Open(u)' PROVE LineInForce(u)' /\ TimeoutInForce(u)'
  BY <1>1 DEF LineInForce, TimeoutInForce
<1>2. CASE close(u) \/ open(u) \/ Destroy(u)
  <2>1. ~Open(u)'
    BY <1>0, <1>2 DEF close, open, Destroy, Open, members
  <2> QED
    BY <1>1, <2>1
<1>3. CASE CreateFile(u)
  <2>1. CASE Goto(u, "SetCommTimeouts", OpenCall)
    <3>1. pc'[u] = "SetCommTimeouts" /\ call'[u] = OpenCall
      BY <1>0, <2>1, Gone
    <3> QED
      BY <3>1 DEF LineInForce, TimeoutInForce
  <2>2. CASE isopen' = [isopen EXCEPT ![u] = FALSE]
    <3>1. ~Open(u)'
      BY <1>0, <2>2 DEF Open
    <3> QED
      BY <1>1, <3>1
  <2> QED
    BY <1>3, <2>1, <2>2 DEF CreateFile
<1>4. ASSUME NEW ms, set_timeout(u, ms) PROVE LineInForce(u)' /\ TimeoutInForce(u)'
  <2>1. CASE isopen[u]
    <3>1. pc[u] = "idle" /\ Goto(u, "SetCommTimeouts", TimeoutCall(ms))
          /\ UNCHANGED <<settings, isopen, closed, dcb, timeouts>>
      BY <1>4, <2>1 DEF set_timeout, history, ports
    <3>2. call'[u].op = "timeout" /\ result' = result
      BY <1>0, <3>1, Gone DEF TimeoutCall
    <3>3. call[u].op = "none"
      BY <1>0, <3>1 DEF OpInv
    <3> QED
      BY <3>1, <3>2, <3>3 DEF LineInForce, TimeoutInForce, Open
  <2>2. CASE ~isopen[u]
    <3>1. ~Open(u)'
      BY <1>0, <1>4, <2>2 DEF set_timeout, Open
    <3> QED
      BY <1>1, <3>1
  <2> QED
    BY <2>1, <2>2
<1>5. CASE SetCommTimeouts(u)
  <2> DEFINE ms == IF call[u].op = "open" THEN settings[u].timeout ELSE call[u].ms
             x == CommTimeouts(ms, settings[u].baudrate)
  <2>1. /\ Port(u) = DeviceOf[u] /\ DeviceOf[u] \in Device
        /\ timeouts' = [timeouts EXCEPT ![Port(u)] = x] /\ dcb' = dcb
        /\ settings' = [settings EXCEPT ![u]["timeout"] = ms] /\ UNCHANGED <<isopen, closed>>
    BY <1>5, OwnPort DEF SetCommTimeouts
  <2>2. timeouts'[DeviceOf[u]] = x
    BY <1>0, <2>1 DEF Shape
  <2>3. ms \in 0..DwordSize - 1 => x.constant = ms
    BY DwordAssumption DEF CommTimeouts
  <2> HIDE DEF ms, x
  <2>4. settings'[u]["timeout"] = ms
        /\ \A t \in Settings \ {"timeout"} : settings'[u][t] = settings[u][t]
    BY <1>0, <2>1, TimeoutChanged
  <2>5. TimeoutInForce(u)'
    BY <2>2, <2>3, <2>4 DEF TimeoutInForce
  <2>6. LineInForce(u)'
    <3>1. CASE Goto(u, "GetCommState", OpenCall)
      <4>1. pc'[u] = "GetCommState" /\ call'[u] = OpenCall
        BY <1>0, <3>1, Gone
      <4> QED
        BY <4>1 DEF LineInForce
    <3>2. CASE call[u].op # "open" /\ Return(u, {"timeout"}, "true")
      <4>1. call[u].op = "timeout"
        BY <1>0, <1>5, <3>2 DEF SetCommTimeouts, OpInv
      <4>2. result'[u]["line"] = result[u]["line"]
        BY <1>0, <3>2, Returned DEF Outcome
      <4>3. Line(settings'[u]) = Line(settings[u])
        BY <2>4, SettingNames DEF Settings
      <4> QED
        BY <2>1, <4>1, <4>2, <4>3 DEF LineInForce, Open
    <3> QED
      BY <1>5, <3>1, <3>2 DEF SetCommTimeouts
  <2> QED
    BY <2>5, <2>6
<1>6. CASE SetCommTimeoutsFails(u)
  <2>1. UNCHANGED <<settings, isopen, closed, dcb, timeouts>> /\ pc[u] = "SetCommTimeouts"
    BY <1>6 DEF SetCommTimeoutsFails, members, ports
  <2>2. CASE call[u].op = "open"
    <3>1. Return(u, {"open", "line", "timeout"}, "false")
      BY <1>6, <2>2 DEF SetCommTimeoutsFails
    <3>2. call'[u] = NoCall /\ \A c \in Names : result'[u][c] = "false"
      BY <1>0, <3>1, Returned DEF Outcome, Names
    <3> QED
      BY <1>0, <3>2 DEF LineInForce, TimeoutInForce
  <2>3. CASE call[u].op # "open"
    <3>1. Return(u, {"timeout"}, "error") /\ call[u].op = "timeout"
      BY <1>0, <1>6, <2>1, <2>3 DEF SetCommTimeoutsFails, OpInv
    <3>2. /\ call'[u] = NoCall /\ result'[u]["line"] = result[u]["line"]
          /\ result'[u]["open"] = result[u]["open"] /\ result'[u]["timeout"] = "error"
      BY <1>0, <3>1, Returned DEF Outcome
    <3> QED
      BY <1>0, <2>1, <3>1, <3>2 DEF LineInForce, TimeoutInForce, Open
  <2> QED
    BY <2>2, <2>3
<1>7. ASSUME NEW s \in LineSetting, NEW v, Set(u, s, v) PROVE LineInForce(u)' /\ TimeoutInForce(u)'
  <2>1. UNCHANGED <<isopen, closed, dcb, timeouts>> /\ pc[u] = "idle" /\ call[u].op = "none"
    BY <1>0, <1>7 DEF Set, history, ports, OpInv
  <2>2. settings'[u]["timeout"] = settings[u]["timeout"]
    <3>1. s \in Settings /\ "timeout" \in Settings \ {s}
      BY SettingNames DEF Settings, LineSetting
    <3>2. CASE settings' = [settings EXCEPT ![u][s] = Stored(s, v)]
      BY <1>0, <3>1, <3>2, SettingChanged
    <3>3. CASE UNCHANGED settings
      BY <3>3
    <3> QED
      BY <1>7, <3>2, <3>3 DEF Set
  <2>3. CASE Goto(u, "GetCommState", LineCall)
    <3>1. pc'[u] = "GetCommState" /\ call'[u] = LineCall /\ result' = result
      BY <1>0, <2>3, Gone
    <3> QED
      BY <2>1, <2>2, <3>1 DEF LineInForce, TimeoutInForce, Open
  <2>4. CASE \E r \in {"false", "error"} : Return(u, {"line"}, r)
    <3>1. PICK r \in {"false", "error"} : Return(u, {"line"}, r)
      BY <2>4
    <3>2. /\ call'[u] = NoCall /\ result'[u]["line"] = r
          /\ result'[u]["open"] = result[u]["open"] /\ result'[u]["timeout"] = result[u]["timeout"]
      BY <1>0, <3>1, Returned DEF Outcome
    <3> QED
      BY <1>0, <2>1, <2>2, <3>2 DEF LineInForce, TimeoutInForce, Open
  <2> QED
    BY <1>7, <2>3, <2>4 DEF Set
<1>8. CASE GetCommState(u)
  <2>1. /\ UNCHANGED <<settings, isopen, closed, dcb, timeouts>> /\ pc[u] = "GetCommState"
        /\ pc'[u] = "SetCommState" /\ call'[u] = call[u] /\ result' = result
    BY <1>0, <1>8, Gone DEF GetCommState, members, ports
  <2>2. call[u].op \in {"open", "line"}
    BY <1>0, <2>1 DEF OpInv
  <2> QED
    BY <2>1, <2>2 DEF LineInForce, TimeoutInForce, Open
<1>9. ASSUME NEW r \in {"true", "error"}, EndConfigure(u, r), UNCHANGED <<settings, closed, timeouts>>,
             pc[u] \in {"GetCommState", "SetCommState"},
             r = "true" => dcb'[DeviceOf[u]] = Line(settings[u])
      PROVE  LineInForce(u)' /\ TimeoutInForce(u)'
  <2>1. call[u].op \in {"open", "line"}
    BY <1>0, <1>9 DEF OpInv
  <2>2. CASE call[u].op = "open"
    <3>1. /\ Return(u, {"open", "line", "timeout"}, r)
          /\ isopen' = [isopen EXCEPT ![u] = (r = "true")]
      BY <1>9, <2>2 DEF EndConfigure
    <3>2. CASE r = "error"
      <4>1. ~Open(u)'
        BY <1>0, <3>1, <3>2 DEF Open
      <4> QED
        BY <1>1, <4>1
    <3>3. CASE r = "true"
      <4>1. isopen[u] /\ ~closed[u]
        BY <1>9, <2>2 DEF TableInv, CallInv
      <4>2. TimeoutInForce(u)'
        BY <1>9, <2>2, <4>1 DEF TimeoutInForce, Open
      <4>3. LineInForce(u)'
        BY <1>9, <3>3 DEF LineInForce
      <4> QED
        BY <4>2, <4>3
    <3> QED
      BY <3>2, <3>3
  <2>3. CASE call[u].op = "line"
    <3>1. Return(u, {"line"}, r) /\ UNCHANGED isopen
      BY <1>9, <2>3 DEF EndConfigure
    <3>2. /\ call'[u] = NoCall /\ result'[u]["line"] = r
          /\ result'[u]["open"] = result[u]["open"] /\ result'[u]["timeout"] = result[u]["timeout"]
      BY <1>0, <3>1, Returned DEF Outcome
    <3> QED
      BY <1>0, <1>9, <2>3, <3>1, <3>2 DEF LineInForce, TimeoutInForce, Open
  <2> QED
    BY <2>1, <2>2, <2>3
<1>10. CASE ConfigureFails(u)
  BY <1>9, <1>10 DEF ConfigureFails, ports
<1>11. CASE SetCommState(u)
  <2>1. Port(u) = DeviceOf[u] /\ DeviceOf[u] \in Device
    BY <1>11, OwnPort DEF SetCommState
  <2>2. dcb'[DeviceOf[u]] = Line(settings[u])
    BY <1>0, <1>11, <2>1 DEF SetCommState, Shape
  <2> QED
    BY <1>9, <1>11, <2>2 DEF SetCommState
<1>12. CASE read(u) \/ write(u)
  <2>1. UNCHANGED <<settings, isopen, closed, dcb, timeouts, pc, call, result>>
    BY <1>12 DEF read, write, members, control, ports
  <2> QED
    BY <2>1 DEF LineInForce, TimeoutInForce, Open
<1> QED
  BY <1>2, <1>3, <1>4, <1>5, <1>6, <1>7, <1>8, <1>10, <1>11, <1>12 DEF MemberFunction

\* Members and ports agree wherever no call has reported that they may not.
THEOREM MembersInForce == Spec => []MembersTellWhatIsInForce
<1>1. Init => InForceInv
  BY DEF Init, InForceInv, LineInForce, TimeoutInForce, Open
<1>2. TableInv /\ ValueInv /\ InForceInv /\ [Next]_vars => InForceInv'
  <2> SUFFICES ASSUME TableInv, ValueInv, InForceInv, [Next]_vars, ~strayed', NEW v \in Uart
               PROVE  LineInForce(v)' /\ TimeoutInForce(v)'
    BY DEF InForceInv
  <2>1. ~strayed /\ LineInForce(v) /\ TimeoutInForce(v)
    BY StrayedStays DEF InForceInv
  <2>2. CASE MemberFunction(v)
    BY <2>1, <2>2, InForceStep
  <2>3. ASSUME NEW u \in Uart, u # v, MemberFunction(u) PROVE LineInForce(v)' /\ TimeoutInForce(v)'
    <3>1. /\ UNCHANGED <<settings[v], result[v], pc[v], call[v]>> /\ Open(v)' = Open(v)
          /\ Open(v) => UNCHANGED <<dcb[DeviceOf[v]], timeouts[DeviceOf[v]]>>
      BY <2>3, OthersStay DEF ValueInv
    <3> QED
      BY <2>1, <3>1 DEF LineInForce, TimeoutInForce
  <2>4. CASE Environment \/ UNCHANGED vars
    <3>1. UNCHANGED <<settings, result, pc, call, dcb, timeouts, isopen, closed>>
      BY <2>4, EnvironmentKeeps, EnvironmentStep DEF EnvironmentChange
    <3> QED
      BY <2>1, <3>1 DEF LineInForce, TimeoutInForce, Open
  <2> QED
    BY <2>2, <2>3, <2>4 DEF Next
<1>3. ValueInv /\ InForceInv => MembersTellWhatIsInForce
  BY DEF ValueInv, OpInv, InForceInv, MembersTellWhatIsInForce, LineInForce, TimeoutInForce
<1> QED
  BY <1>1, <1>2, <1>3, TableInvariant, ValueInvariant, PTL DEF Spec
===============================================================================
