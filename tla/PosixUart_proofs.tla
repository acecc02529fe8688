-------------------------- MODULE PosixUart_proofs ----------------------------
(***************************************************************************)
(* PosixUART for any number of objects, terminals and descriptors, any      *)
(* requests and drivers.  First the descriptors: handles are never stale,   *)
(* nothing foreign is ever closed, and every descriptor an object holds is  *)
(* accounted for.  Then the settings: what is in force at a terminal that   *)
(* objects share, and when the getters may differ from it.                  *)
(***************************************************************************)
EXTENDS PosixUart, FiniteSetTheorems, TLAPS

Table == <<uarthandle, isopen, pc, failures, fdtable>>
TableInv == TableTypeOK /\ HandleIsOwn /\ CallInv

\* The ways in which a step changes who holds which descriptor.
Closes(u) == isopen[u] /\ CloseHandle(u, TRUE)
Opens(u, f) ==
  /\ ~isopen[u] /\ fdtable[f] = "free"
  /\ fdtable' = [fdtable EXCEPT ![f] = u]
  /\ uarthandle' = [uarthandle EXCEPT ![u] = f]
  /\ isopen' = [isopen EXCEPT ![u] = TRUE]
Gives(u) ==
  /\ ~isopen[u] /\ UNCHANGED <<isopen, fdtable>>
  /\ uarthandle' = [uarthandle EXCEPT ![u] = NoHandle]
Abandons(u) ==
  /\ isopen[u] /\ isopen' = [isopen EXCEPT ![u] = FALSE]
  /\ UNCHANGED <<uarthandle, fdtable>>
Stays == UNCHANGED <<uarthandle, isopen, fdtable>>

\* What a step of object u does: a change of the table, where it leaves u, and whether it
\* counts as a failed open().
Change(u) ==
  /\ \/ /\ Closes(u) \/ Gives(u) \/ (~isopen[u] /\ Stays)
        /\ pc[u] \in {"idle", "open"} /\ UNCHANGED failures
        /\ pc' = [pc EXCEPT ![u] = "idle"] \/ pc' = [pc EXCEPT ![u] = "open"]
     \/ /\ \E f \in Descriptor : Opens(u, f)
        /\ pc[u] = "open" /\ UNCHANGED failures
        /\ pc' = [pc EXCEPT ![u] = "tcgetattr"]
     \/ /\ Abandons(u) /\ failures' = [failures EXCEPT ![u] = @ + 1]
        /\ pc' = [pc EXCEPT ![u] = "idle"]
     \/ /\ Stays /\ UNCHANGED failures
        /\ \/ UNCHANGED pc
           \/ pc' = [pc EXCEPT ![u] = "idle"]
           \/ /\ isopen[u]
              /\ \E c \in {"tcgetattr", "tcflush", "tcsetattr"} : pc' = [pc EXCEPT ![u] = c]

LEMMA CloseHandleChange ==
  ASSUME TableInv, NEW u \in Uart, CloseHandle(u, isopen[u])
  PROVE  Closes(u) \/ (~isopen[u] /\ Stays)
<1>1. CASE isopen[u]
  BY <1>1 DEF Closes, CloseHandle
<1>2. CASE ~isopen[u]
  BY <1>2 DEF CloseHandle, Stays, TableInv, TableTypeOK
<1> QED
  BY <1>1, <1>2

LEMMA MemberFunctionChange ==
  ASSUME TableInv, NEW u \in Uart, MemberFunction(u)
  PROVE  Change(u)
<1>1. CASE open(u)
  <2>1. CloseHandle(u, isopen[u]) /\ pc[u] = "idle" /\ pc' = [pc EXCEPT ![u] = "open"]
        /\ UNCHANGED failures
    BY <1>1 DEF open, Goto
  <2>2. Closes(u) \/ (~isopen[u] /\ Stays)
    BY <2>1, CloseHandleChange
  <2> QED
    BY <2>1, <2>2 DEF Change
<1>2. CASE close(u)
  <2>1. CloseHandle(u, isopen[u]) /\ pc[u] = "idle" /\ UNCHANGED <<pc, failures>>
    BY <1>2 DEF close, control
  <2>2. pc' = [pc EXCEPT ![u] = "idle"]
    BY <2>1 DEF TableInv, TableTypeOK
  <2>3. Closes(u) \/ (~isopen[u] /\ Stays)
    BY <2>1, CloseHandleChange
  <2> QED
    BY <2>1, <2>2, <2>3 DEF Change
<1>3. CASE Destroy(u)
  <2>1. pc[u] = "idle" /\ UNCHANGED <<pc, failures>>
    BY <1>3 DEF Destroy
  <2>2. pc' = [pc EXCEPT ![u] = "idle"]
    BY <2>1 DEF TableInv, TableTypeOK
  <2>3. CASE isopen[u]
    <3>1. Closes(u)
      BY <1>3, <2>3 DEF Destroy, Closes, CloseHandle
    <3> QED
      BY <2>1, <2>2, <3>1 DEF Change
  <2>4. CASE ~isopen[u]
    <3>1. isopen' = isopen
      BY <1>3, <2>4 DEF Destroy, TableInv, TableTypeOK
    <3> QED
      <4>1. Gives(u)
        BY <1>3, <2>4, <3>1 DEF Destroy, Gives
      <4> QED
        BY <2>1, <2>2, <4>1 DEF Change
  <2> QED
    BY <2>3, <2>4
<1>4. CASE SysOpen(u)
  <2>1. pc[u] = "open" /\ ~isopen[u] /\ UNCHANGED failures
    BY <1>4 DEF SysOpen, TableInv, CallInv
  <2>2. CASE /\ uarthandle' = [uarthandle EXCEPT ![u] = NoHandle]
             /\ isopen' = [isopen EXCEPT ![u] = FALSE]
             /\ Return(u, "error") /\ UNCHANGED fdtable
    <3>1. isopen' = isopen
      BY <2>1, <2>2 DEF TableInv, TableTypeOK
    <3> QED
      <4>1. Gives(u) /\ pc' = [pc EXCEPT ![u] = "idle"]
        BY <2>1, <2>2, <3>1 DEF Return, Gives
      <4> QED
        BY <2>1, <4>1 DEF Change
  <2>3. CASE \E f \in Descriptor :
               /\ fdtable[f] = "free"
               /\ fdtable' = [fdtable EXCEPT ![f] = u]
               /\ uarthandle' = [uarthandle EXCEPT ![u] = f]
               /\ isopen' = [isopen EXCEPT ![u] = TRUE]
               /\ Goto(u, "tcgetattr", OpenCall)
    BY <2>1, <2>3 DEF Goto, Change, Opens
  <2> QED
    BY <1>4, <2>2, <2>3 DEF SysOpen
<1>5. ASSUME NEW s \in Setting, NEW v \in Requests[s], Set(u, s, v) PROVE Change(u)
  <2>1. Stays /\ UNCHANGED failures
    BY <1>5 DEF Set, kernel, Stays
  <2>2. \/ pc' = [pc EXCEPT ![u] = "idle"]
        \/ isopen[u] /\ pc' = [pc EXCEPT ![u] = "tcgetattr"]
    BY <1>5 DEF Set, Goto, Return
  <2> QED
    BY <2>1, <2>2 DEF Change
<1>6. ASSUME Configuring(u), NEW r, EndConfigure(u, r) PROVE Change(u)
  <2>1. isopen[u] /\ pc' = [pc EXCEPT ![u] = "idle"]
    BY <1>6 DEF EndConfigure, Return, TableInv, CallInv
  <2>2. CASE call[u].op = "open" /\ r # "true"
    BY <1>6, <2>1, <2>2 DEF EndConfigure, CloseHandle, Change, Abandons
  <2>3. CASE ~(call[u].op = "open" /\ r # "true")
    BY <1>6, <2>1, <2>3 DEF EndConfigure, Change, Stays
  <2> QED
    BY <2>2, <2>3
<1>7. CASE ConfigureFails(u)
  BY <1>6, <1>7 DEF ConfigureFails
<1>8. CASE SysTcsetattr(u)
  BY <1>6, <1>8 DEF SysTcsetattr, Configuring
<1>9. CASE SysTcgetattr(u) \/ SysTcflush(u)
  <2>1. isopen[u]
    BY <1>9 DEF SysTcgetattr, SysTcflush, TableInv, CallInv, Configuring
  <2>2. Stays /\ UNCHANGED failures
    BY <1>9 DEF SysTcgetattr, SysTcflush, members, kernel, Stays
  <2>3. pc' = [pc EXCEPT ![u] = "tcflush"] \/ pc' = [pc EXCEPT ![u] = "tcsetattr"]
    BY <1>9 DEF SysTcgetattr, SysTcflush, Goto
  <2> QED
    BY <2>1, <2>2, <2>3 DEF Change
<1>10. ASSUME NEW n \in 1..QueueSize, read(u, n) \/ write(u, n) PROVE Change(u)
  BY <1>10 DEF read, write, members, control, Change, Stays
<1> QED
  BY <1>1, <1>2, <1>3, <1>4, <1>5, <1>7, <1>8, <1>9, <1>10 DEF MemberFunction

\* The rest of the process only takes free descriptors and frees its own.
EnvironmentChange ==
  /\ UNCHANGED <<uarthandle, isopen, pc, failures>>
  /\ \/ UNCHANGED fdtable
     \/ \E f \in Descriptor :
          \/ fdtable[f] = "free" /\ fdtable' = [fdtable EXCEPT ![f] = "other"]
          \/ fdtable[f] = "other" /\ fdtable' = [fdtable EXCEPT ![f] = "free"]

LEMMA EnvironmentStep == Environment \/ UNCHANGED vars => EnvironmentChange
BY DEF Environment, OtherOpens, OtherCloses, ByteArrives, ByteLeaves, EnvironmentChange,
       vars, members, control, kernel

LEMMA StepShapes ==
  ASSUME TableInv, [Next]_vars
  PROVE  (\E u \in Uart : Change(u)) \/ EnvironmentChange
BY MemberFunctionChange, EnvironmentStep DEF Next

LEMMA InitTable == Init => TableInv
BY DEF Init, TableInv, TableTypeOK, HandleIsOwn, CallInv, Configuring

\* The five changes of the table keep handles fresh: a descriptor is taken when free, and its
\* handle is dropped when it is closed.
LEMMA TableStep ==
  ASSUME TableInv, NEW u \in Uart,
         \/ Closes(u) \/ Gives(u) \/ Abandons(u) \/ Stays
         \/ \E f \in Descriptor : Opens(u, f)
  PROVE  /\ uarthandle' \in [Uart -> Descriptor \union {NoHandle}]
         /\ isopen' \in [Uart -> BOOLEAN]
         /\ fdtable' \in [Descriptor -> Uart \union {"free", "other"}]
         /\ HandleIsOwn'
<1> USE HandleAssumption, TableAssumption DEF TableInv, TableTypeOK, HandleIsOwn
<1>1. CASE Closes(u)
  <2>1. uarthandle[u] \in Descriptor /\ fdtable[uarthandle[u]] = u
    BY <1>1 DEF Closes
  <2> QED
    BY <1>1, <2>1 DEF Closes, CloseHandle
<1>2. CASE Gives(u)
  BY <1>2 DEF Gives
<1>3. CASE Abandons(u)
  BY <1>3 DEF Abandons
<1>4. CASE Stays
  BY <1>4 DEF Stays
<1>5. ASSUME NEW f \in Descriptor, Opens(u, f)
      PROVE  /\ uarthandle' \in [Uart -> Descriptor \union {NoHandle}]
             /\ isopen' \in [Uart -> BOOLEAN]
             /\ fdtable' \in [Descriptor -> Uart \union {"free", "other"}]
             /\ HandleIsOwn'
  BY <1>5 DEF Opens
<1> QED
  BY <1>1, <1>2, <1>3, <1>4, <1>5

LEMMA NextTable == TableInv /\ [Next]_vars => TableInv'
<1> SUFFICES ASSUME TableInv, [Next]_vars PROVE TableInv'
  OBVIOUS
<1>1. ASSUME NEW u \in Uart, Change(u) PROVE TableInv'
  <2>1. /\ uarthandle' \in [Uart -> Descriptor \union {NoHandle}]
        /\ isopen' \in [Uart -> BOOLEAN]
        /\ fdtable' \in [Descriptor -> Uart \union {"free", "other"}]
        /\ HandleIsOwn'
    BY <1>1, TableStep DEF Change
  <2>2. /\ pc' \in [Uart -> {"idle", "open", "tcgetattr", "tcflush", "tcsetattr"}]
        /\ failures' \in [Uart -> Nat]
    BY <1>1 DEF Change, TableInv, TableTypeOK
  <2>3. CallInv'
    BY <1>1 DEF Change, TableInv, TableTypeOK, CallInv, Configuring, Closes, CloseHandle,
                Gives, Opens, Abandons, Stays
  <2> QED
    BY <2>1, <2>2, <2>3 DEF TableInv, TableTypeOK
<1>2. CASE EnvironmentChange
  BY <1>2, HandleAssumption, TableAssumption
  DEF EnvironmentChange, TableInv, TableTypeOK, HandleIsOwn, CallInv, Configuring
<1> QED
  BY <1>1, <1>2, StepShapes

THEOREM TableInvariant == Spec => []TableInv
  BY InitTable, NextTable, PTL DEF Spec

\* No handle is ever stale, however objects and the rest of the process reuse descriptors.
THEOREM HandlesAreOwn == Spec => []HandleIsOwn
<1>1. TableInv => HandleIsOwn
  BY DEF TableInv
<1> QED
  BY <1>1, TableInvariant, PTL

\* No member function touches a descriptor of anyone else.
THEOREM NothingForeignCloses == Spec => ForeignUntouched
<1>1. TableInv /\ [Next]_vars =>
        [\A f \in Descriptor, u \in Uart :
           MemberFunction(u) /\ fdtable'[f] # fdtable[f] =>
             \/ fdtable[f] = u /\ fdtable'[f] = "free"
             \/ fdtable[f] = "free" /\ fdtable'[f] = u]_vars
  <2> SUFFICES ASSUME TableInv, NEW f \in Descriptor, NEW u \in Uart,
                      MemberFunction(u), fdtable'[f] # fdtable[f]
               PROVE  \/ fdtable[f] = u /\ fdtable'[f] = "free"
                      \/ fdtable[f] = "free" /\ fdtable'[f] = u
    OBVIOUS
  <2>1. Change(u)
    BY MemberFunctionChange
  <2>2. CASE Closes(u)
    BY <2>2 DEF Closes, CloseHandle, TableInv, TableTypeOK, HandleIsOwn
  <2>3. ASSUME NEW g \in Descriptor, Opens(u, g)
        PROVE  fdtable[f] = "free" /\ fdtable'[f] = u
    BY <2>3 DEF Opens, TableInv, TableTypeOK
  <2>4. Closes(u) \/ \E g \in Descriptor : Opens(u, g)
    BY <2>1 DEF Change, Gives, Abandons, Stays
  <2> QED
    BY <2>2, <2>3, <2>4
<1> QED
  BY <1>1, TableInvariant, PTL DEF Spec, ForeignUntouched

-------------------------------------------------------------------------------
(* Counting descriptors *)

Owned(u) == {f \in Descriptor : fdtable[f] = u}
Expected(u) == failures[u] + (IF isopen[u] THEN 1 ELSE 0)

LEMMA OwnedFinite == \A u \in Uart : IsFiniteSet(Owned(u)) /\ Cardinality(Owned(u)) \in Nat
BY HandleAssumption, FS_Subset, FS_CardinalityType DEF Owned

\* A step of object u moves its own count as it moves its open port and its failures, and
\* leaves the descriptors of the others alone.
LEMMA AccountStep ==
  ASSUME TableInv, DescriptorsAccounted, NEW u \in Uart, Change(u)
  PROVE  DescriptorsAccounted'
<1> USE TableAssumption
<1>0. /\ \A v \in Uart : Cardinality(Owned(v)) = Expected(v)
      /\ failures \in [Uart -> Nat] /\ isopen \in [Uart -> BOOLEAN]
      /\ fdtable \in [Descriptor -> Uart \union {"free", "other"}]
  BY DEF DescriptorsAccounted, Owned, Expected, TableInv, TableTypeOK
<1>1. SUFFICES ASSUME NEW v \in Uart PROVE Cardinality(Owned(v)') = Expected(v)'
  BY DEF DescriptorsAccounted, Owned, Expected
<1>2. ASSUME UNCHANGED <<fdtable, isopen, failures>>
      PROVE  Cardinality(Owned(v)') = Expected(v)'
  <2>1. Owned(v)' = Owned(v) /\ Expected(v)' = Expected(v)
    BY <1>2 DEF Owned, Expected
  <2> QED
    BY <1>0, <2>1
<1>3. CASE Closes(u) /\ UNCHANGED failures
  <2>1. /\ uarthandle[u] \in Owned(u)
        /\ fdtable' = [fdtable EXCEPT ![uarthandle[u]] = "free"]
        /\ isopen[u] /\ isopen' = [isopen EXCEPT ![u] = FALSE]
    BY <1>3 DEF Closes, CloseHandle, Owned, TableInv, TableTypeOK, HandleIsOwn
  <2>2. CASE v = u
    <3>1. Owned(u)' = Owned(u) \ {uarthandle[u]}
      BY <1>0, <2>1 DEF Owned
    <3>2. Cardinality(Owned(u)') = Cardinality(Owned(u)) - 1
      <4>1. IsFiniteSet(Owned(u))
        BY OwnedFinite
      <4> DEFINE S == Owned(u)
                 f == uarthandle[u]
      <4>2. f \in S /\ Owned(u)' = S \ {f} /\ IsFiniteSet(S)
        BY <2>1, <3>1, <4>1
      <4> HIDE DEF S, f
      <4>3. Cardinality(S \ {f}) = Cardinality(S) - 1
        BY <4>2, FS_RemoveElement
      <4> QED
        BY <4>2, <4>3, Zenon DEF S
    <3>3. Expected(u) = failures[u] + 1 /\ Expected(u)' = failures[u]
      BY <1>0, <1>3, <2>1 DEF Expected
    <3> QED
      BY <1>0, <2>2, <3>2, <3>3
  <2>3. CASE v # u
    <3>1. Owned(v)' = Owned(v)
      BY <1>0, <2>1, <2>3 DEF Owned
    <3>2. Expected(v)' = Expected(v)
      BY <1>0, <1>3, <2>1, <2>3 DEF Expected
    <3> QED
      BY <1>0, <3>1, <3>2
  <2> QED
    BY <2>2, <2>3
<1>4. ASSUME NEW f \in Descriptor, Opens(u, f), UNCHANGED failures
      PROVE  Cardinality(Owned(v)') = Expected(v)'
  <2>1. /\ f \notin Owned(u) /\ fdtable[f] = "free"
        /\ fdtable' = [fdtable EXCEPT ![f] = u]
        /\ ~isopen[u] /\ isopen' = [isopen EXCEPT ![u] = TRUE]
    BY <1>4 DEF Opens, Owned
  <2>2. CASE v = u
    <3>1. Owned(u)' = Owned(u) \union {f}
      BY <1>0, <2>1 DEF Owned
    <3>2. Cardinality(Owned(u)') = Cardinality(Owned(u)) + 1
      BY <2>1, <3>1, OwnedFinite, FS_AddElement
    <3>3. Expected(u) = failures[u] /\ Expected(u)' = failures[u] + 1
      BY <1>0, <1>4, <2>1 DEF Expected
    <3> QED
      BY <1>0, <2>2, <3>2, <3>3
  <2>3. CASE v # u
    <3>1. Owned(v)' = Owned(v)
      BY <1>0, <2>1, <2>3 DEF Owned
    <3>2. Expected(v)' = Expected(v)
      BY <1>0, <1>4, <2>1, <2>3 DEF Expected
    <3> QED
      BY <1>0, <3>1, <3>2
  <2> QED
    BY <2>2, <2>3
<1>5. CASE Abandons(u) /\ failures' = [failures EXCEPT ![u] = @ + 1]
  <2>1. Owned(v)' = Owned(v)
    BY <1>5 DEF Abandons, Owned
  <2>2. Expected(v)' = Expected(v)
    BY <1>0, <1>5 DEF Abandons, Expected
  <2> QED
    BY <1>0, <2>1, <2>2
<1>6. \/ UNCHANGED <<fdtable, isopen, failures>>
      \/ Closes(u) /\ UNCHANGED failures
      \/ (\E f \in Descriptor : Opens(u, f)) /\ UNCHANGED failures
      \/ Abandons(u) /\ failures' = [failures EXCEPT ![u] = @ + 1]
  BY DEF Change, Gives, Stays
<1> QED
  BY <1>2, <1>3, <1>4, <1>5, <1>6

LEMMA AccountEnvironment ==
  ASSUME TableInv, DescriptorsAccounted, EnvironmentChange
  PROVE  DescriptorsAccounted'
<1>1. \A v \in Uart : Owned(v)' = Owned(v)
  BY TableAssumption DEF EnvironmentChange, Owned, TableInv, TableTypeOK
<1>2. UNCHANGED <<failures, isopen>>
  BY DEF EnvironmentChange
<1> QED
  BY <1>1, <1>2 DEF DescriptorsAccounted, Owned

\* Every descriptor an object holds is the open port's or was left behind by an open() that
\* could not configure it.
THEOREM DescriptorsCounted == Spec => []DescriptorsAccounted
<1>1. Init => DescriptorsAccounted
  <2> SUFFICES ASSUME Init, NEW u \in Uart
               PROVE  Cardinality({f \in Descriptor : fdtable[f] = u}) =
                        failures[u] + (IF isopen[u] THEN 1 ELSE 0)
    BY DEF DescriptorsAccounted
  <2>1. {f \in Descriptor : fdtable[f] = u} = {}
    BY TableAssumption DEF Init
  <2>2. failures[u] = 0 /\ ~isopen[u]
    BY DEF Init
  <2> QED
    BY <2>1, <2>2, FS_EmptySet
<1>2. TableInv /\ DescriptorsAccounted /\ [Next]_vars => DescriptorsAccounted'
  BY StepShapes, AccountStep, AccountEnvironment
<1> QED
  BY <1>1, <1>2, TableInvariant, PTL DEF Spec

-------------------------------------------------------------------------------
(* What the settings, the calls and the terminals hold *)

\* A setter at work has stored what it was asked for.
CallKept(u) ==
  Configuring(u) /\ call[u].op = "set" =>
    \E s \in Setting : \E v \in Requests[s] :
      call[u] = SetCall(s, v) /\ settings[u][s] = Stored(s, v)

CallFits(u) ==
  call[u].op \in CASE pc[u] = "idle" -> {"none"}
                   [] pc[u] = "open" -> {"open"}
                   [] OTHER -> {"open", "set"}

\* What configure() is to write back is what is set on the object by then.
TiosKept(u) == pc[u] \in {"tcflush", "tcsetattr"} => tios[u] = settings[u]

ObjectInv(u) ==
  /\ DOMAIN settings[u] = Setting
  /\ \A s \in Setting : settings[u][s] \in Kept(s) /\ tios[u][s] \in Kept(s)
  /\ CallFits(u) /\ CallKept(u) /\ TiosKept(u)
  /\ result[u] \in {"none", "true", "false", "error"}

Shape ==
  /\ DOMAIN settings = Uart /\ DOMAIN call = Uart /\ DOMAIN tios = Uart
  /\ DOMAIN termios = Device /\ configured \in [Device -> Uart \union {NoHandle}]
  /\ result = [u \in Uart |-> result[u]]

ValueInv == Shape /\ \A u \in Uart : ObjectInv(u)

QueueInv == rx \in [Device -> 0..QueueSize] /\ tx \in [Device -> 0..QueueSize]

LEMMA InitValues == Init => ValueInv /\ QueueInv
<1> SUFFICES ASSUME Init PROVE ValueInv /\ QueueInv
  OBVIOUS
<1>1. DOMAIN Default = Setting
  BY DEF Default, Setting
<1>2. QueueInv
  BY QueueAssumption DEF Init, QueueInv
<1>3. Shape
  BY DEF Init, Shape
<1>4. ASSUME NEW u \in Uart PROVE ObjectInv(u)
  BY <1>1 DEF Init, ObjectInv, Kept, CallFits, CallKept, TiosKept, Configuring, NoCall
<1> QED
  BY <1>2, <1>3, <1>4 DEF ValueInv

\* Where a call leaves its object, and that it leaves the others alone.
LEMMA Returned ==
  ASSUME TableInv, Shape, NEW u \in Uart, NEW r, Return(u, r)
  PROVE  /\ pc'[u] = "idle" /\ call'[u] = NoCall /\ result'[u] = r
         /\ \A v \in Uart \ {u} :
              pc'[v] = pc[v] /\ call'[v] = call[v] /\ result'[v] = result[v]
         /\ DOMAIN call' = Uart /\ result' = [v \in Uart |-> result'[v]]
BY DEF Return, Shape, TableInv, TableTypeOK

LEMMA Gone ==
  ASSUME TableInv, Shape, NEW u \in Uart, NEW c, NEW STATE f, Goto(u, c, f)
  PROVE  /\ pc'[u] = c /\ call'[u] = f /\ result' = result
         /\ \A v \in Uart \ {u} : pc'[v] = pc[v] /\ call'[v] = call[v]
         /\ DOMAIN call' = Uart /\ result' = [v \in Uart |-> result'[v]]
BY DEF Goto, Shape, TableInv, TableTypeOK

\* The others of a member function: everything of theirs, and every terminal but its own.
Others(u) ==
  /\ \A v \in Uart \ {u} :
       /\ pc'[v] = pc[v] /\ call'[v] = call[v] /\ result'[v] = result[v]
       /\ settings'[v] = settings[v] /\ tios'[v] = tios[v] /\ isopen'[v] = isopen[v]
  /\ \A d \in Device \ {DeviceOf[u]} :
       termios'[d] = termios[d] /\ configured'[d] = configured[d]
  /\ UNCHANGED <<termios, configured>> \/ configured'[DeviceOf[u]] = u
  /\ Shape'

\* What a member function does to its own object: it leaves it alone or drops the port,
Rests(u) ==
  /\ pc'[u] = pc[u] /\ call'[u] = call[u] /\ result'[u] = result[u]
  /\ settings'[u] = settings[u] /\ tios'[u] = tios[u] /\ (isopen'[u] => isopen[u])
  /\ termios' = termios /\ configured' = configured
\* replaces it by a new one,
Replaced(u) ==
  /\ pc[u] = "idle" /\ pc'[u] = "idle" /\ call'[u] = call[u] /\ result'[u] = "none"
  /\ settings'[u] = Default /\ tios'[u] = tios[u] /\ ~isopen'[u] /\ termios' = termios
\* begins open(), fails, or goes on to configure(),
Opening(u) ==
  /\ \/ pc'[u] = "open" /\ call'[u] = OpenCall /\ result'[u] = result[u]
     \/ pc'[u] = "idle" /\ call'[u] = NoCall /\ result'[u] = "error"
     \/ pc'[u] = "tcgetattr" /\ call'[u] = OpenCall /\ result'[u] = result[u]
  /\ settings'[u] = settings[u] /\ tios'[u] \in {tios[u], Default} /\ termios' = termios
\* stores a setting,
Stores(u, s, v) ==
  /\ Accepted(s, v) /\ settings'[u] = [settings[u] EXCEPT ![s] = Stored(s, v)]
  /\ pc[u] = "idle" /\ tios'[u] = tios[u]
  /\ \/ isopen[u] /\ pc'[u] = "tcgetattr" /\ call'[u] = SetCall(s, v) /\ result'[u] = result[u]
     \/ ~isopen[u] /\ pc'[u] = "idle" /\ call'[u] = NoCall /\ result'[u] = "false"
  /\ isopen'[u] = isopen[u] /\ termios' = termios /\ configured' = configured
\* goes on with configure(), and is done.
GoesOn(u) ==
  /\ Configuring(u) /\ pc'[u] \in {"tcflush", "tcsetattr"}
  /\ call'[u] = call[u] /\ result'[u] = result[u]
  /\ settings'[u] = settings[u] /\ tios'[u] = settings[u] /\ isopen'[u] = isopen[u]
  /\ termios' = termios /\ configured' = configured
Applies(u) ==
  /\ pc[u] = "tcsetattr" /\ pc'[u] = "idle" /\ call'[u] = NoCall /\ result'[u] = "true"
  /\ settings'[u] = settings[u] /\ tios'[u] = Default
  /\ \A s \in Setting :
       termios'[DeviceOf[u]][s] =
         IF settings[u][s] \in Unsupported[s] THEN termios[DeviceOf[u]][s] ELSE settings[u][s]

Own(u) ==
  \/ Rests(u) \/ Replaced(u) \/ Opening(u) \/ GoesOn(u) \/ Applies(u)
  \/ \E s \in Setting : \E v \in Requests[s] : Stores(u, s, v)

LEMMA OpenSteps ==
  ASSUME TableInv, ValueInv, NEW u \in Uart, open(u) \/ SysOpen(u)
  PROVE  Others(u) /\ Own(u)
<1> USE DEF TableInv, TableTypeOK, ValueInv
<1>1. CASE open(u)
  <2>1. /\ pc'[u] = "open" /\ call'[u] = OpenCall /\ result' = result
        /\ \A v \in Uart \ {u} : pc'[v] = pc[v] /\ call'[v] = call[v]
        /\ DOMAIN call' = Uart /\ result' = [v \in Uart |-> result'[v]]
    BY <1>1, Gone DEF open
  <2>2. /\ UNCHANGED <<settings, tios, termios, configured>>
        /\ \A v \in Uart \ {u} : isopen'[v] = isopen[v]
    BY <1>1 DEF open, CloseHandle, terminals
  <2> QED
    BY <2>1, <2>2 DEF Others, Own, Opening, Shape
<1>2. CASE SysOpen(u)
  <2>1. /\ UNCHANGED <<settings, tios, termios, configured>>
        /\ \A v \in Uart \ {u} : isopen'[v] = isopen[v]
    BY <1>2 DEF SysOpen, terminals
  <2>2. CASE Return(u, "error")
    <3>1. /\ pc'[u] = "idle" /\ call'[u] = NoCall /\ result'[u] = "error"
          /\ \A v \in Uart \ {u} :
               pc'[v] = pc[v] /\ call'[v] = call[v] /\ result'[v] = result[v]
          /\ DOMAIN call' = Uart /\ result' = [v \in Uart |-> result'[v]]
      BY <2>2, Returned
    <3> QED
      BY <2>1, <3>1 DEF Others, Own, Opening, Shape
  <2>3. CASE Goto(u, "tcgetattr", OpenCall)
    <3>1. /\ pc'[u] = "tcgetattr" /\ call'[u] = OpenCall /\ result' = result
          /\ \A v \in Uart \ {u} : pc'[v] = pc[v] /\ call'[v] = call[v]
          /\ DOMAIN call' = Uart /\ result' = [v \in Uart |-> result'[v]]
      BY <2>3, Gone
    <3> QED
      BY <2>1, <3>1 DEF Others, Own, Opening, Shape
  <2> QED
    BY <1>2, <2>2, <2>3 DEF SysOpen
<1> QED
  BY <1>1, <1>2

LEMMA CloseSteps ==
  ASSUME TableInv, ValueInv, NEW u \in Uart, close(u) \/ Destroy(u)
  PROVE  Others(u) /\ Own(u)
<1> USE DEF TableInv, TableTypeOK, ValueInv
<1>1. CASE close(u)
  <2>1. /\ UNCHANGED <<pc, call, tios, result, settings, termios, configured>>
        /\ ~isopen'[u] /\ \A v \in Uart \ {u} : isopen'[v] = isopen[v]
    BY <1>1 DEF close, control, terminals, CloseHandle
  <2> QED
    BY <2>1 DEF Others, Own, Rests, Shape
<1>2. CASE Destroy(u)
  <2>1. /\ pc[u] = "idle" /\ UNCHANGED <<pc, call, tios, termios, configured>>
        /\ result' = [result EXCEPT ![u] = "none"]
        /\ settings' = [settings EXCEPT ![u] = Default]
        /\ ~isopen'[u] /\ \A v \in Uart \ {u} : isopen'[v] = isopen[v]
    BY <1>2 DEF Destroy, terminals
  <2>2. /\ result'[u] = "none" /\ settings'[u] = Default
        /\ \A v \in Uart \ {u} : result'[v] = result[v] /\ settings'[v] = settings[v]
        /\ Shape'
    BY <2>1 DEF Shape
  <2> QED
    BY <2>1, <2>2 DEF Others, Own, Replaced
<1> QED
  BY <1>1, <1>2

LEMMA SetStep ==
  ASSUME TableInv, ValueInv, NEW u \in Uart, NEW s \in Setting, NEW v \in Requests[s],
         Set(u, s, v)
  PROVE  Others(u) /\ Own(u)
<1> USE DEF TableInv, TableTypeOK, ValueInv
<1>1. pc[u] = "idle" /\ UNCHANGED <<isopen, tios, termios, configured>>
  BY DEF Set, kernel, terminals
<1>2. CASE Accepted(s, v)
  <2>1. /\ settings'[u] = [settings[u] EXCEPT ![s] = Stored(s, v)]
        /\ \A w \in Uart \ {u} : settings'[w] = settings[w]
        /\ DOMAIN settings' = Uart
    BY <1>2 DEF Set, Shape
  <2>2. CASE isopen[u]
    <3>1. /\ pc'[u] = "tcgetattr" /\ call'[u] = SetCall(s, v) /\ result' = result
          /\ \A w \in Uart \ {u} : pc'[w] = pc[w] /\ call'[w] = call[w]
          /\ DOMAIN call' = Uart /\ result' = [w \in Uart |-> result'[w]]
      BY <1>2, <2>2, Gone DEF Set
    <3> QED
      BY <1>1, <1>2, <2>1, <2>2, <3>1 DEF Others, Own, Stores, Opening, Shape
  <2>3. CASE ~isopen[u]
    <3>1. /\ pc'[u] = "idle" /\ call'[u] = NoCall /\ result'[u] = "false"
          /\ \A w \in Uart \ {u} :
               pc'[w] = pc[w] /\ call'[w] = call[w] /\ result'[w] = result[w]
          /\ DOMAIN call' = Uart /\ result' = [w \in Uart |-> result'[w]]
      BY <1>2, <2>3, Returned DEF Set
    <3> QED
      BY <1>1, <1>2, <2>1, <2>3, <3>1 DEF Others, Own, Stores, Opening, Shape
  <2> QED
    BY <2>2, <2>3
<1>3. CASE ~Accepted(s, v)
  <2>1. settings' = settings
    BY <1>3 DEF Set
  <2>2. /\ pc'[u] = "idle" /\ call'[u] = NoCall /\ result'[u] = "error"
        /\ \A w \in Uart \ {u} :
             pc'[w] = pc[w] /\ call'[w] = call[w] /\ result'[w] = result[w]
        /\ DOMAIN call' = Uart /\ result' = [w \in Uart |-> result'[w]]
    BY <1>3, Returned DEF Set
  <2> QED
    BY <1>1, <2>1, <2>2 DEF Others, Own, Stores, Opening, Shape
<1> QED
  BY <1>2, <1>3

LEMMA ConfigureSteps ==
  ASSUME TableInv, ValueInv, NEW u \in Uart,
         ConfigureFails(u) \/ SysTcgetattr(u) \/ SysTcflush(u) \/ SysTcsetattr(u)
  PROVE  Others(u) /\ Own(u)
<1> USE DEF TableInv, TableTypeOK, ValueInv
<1>1. ASSUME NEW r, EndConfigure(u, r)
      PROVE  /\ pc'[u] = "idle" /\ call'[u] = NoCall /\ result'[u] = r
             /\ \A v \in Uart \ {u} :
                  /\ pc'[v] = pc[v] /\ call'[v] = call[v] /\ result'[v] = result[v]
                  /\ isopen'[v] = isopen[v]
             /\ DOMAIN call' = Uart /\ result' = [v \in Uart |-> result'[v]]
             /\ settings' = settings /\ tios'[u] = Default /\ DOMAIN tios' = Uart
             /\ \A v \in Uart \ {u} : tios'[v] = tios[v]
  <2>1. Return(u, r) /\ settings' = settings /\ tios' = [tios EXCEPT ![u] = Default]
    BY <1>1 DEF EndConfigure
  <2>2. \A v \in Uart \ {u} : isopen'[v] = isopen[v]
    BY <1>1 DEF EndConfigure, CloseHandle
  <2>3. /\ pc'[u] = "idle" /\ call'[u] = NoCall /\ result'[u] = r
        /\ \A v \in Uart \ {u} :
             pc'[v] = pc[v] /\ call'[v] = call[v] /\ result'[v] = result[v]
        /\ DOMAIN call' = Uart /\ result' = [v \in Uart |-> result'[v]]
    BY <2>1, Returned
  <2>4. /\ tios'[u] = Default /\ DOMAIN tios' = Uart
        /\ \A v \in Uart \ {u} : tios'[v] = tios[v]
    BY <2>1 DEF Shape
  <2> QED
    BY <2>1, <2>2, <2>3, <2>4
<1>2. CASE ConfigureFails(u)
  BY <1>1, <1>2 DEF ConfigureFails, Others, Own, Opening, Shape, terminals
<1>3. CASE SysTcgetattr(u) \/ SysTcflush(u)
  <2>1. /\ Configuring(u) /\ UNCHANGED <<isopen, settings, termios, configured>>
        /\ Goto(u, "tcflush", call[u]) \/ Goto(u, "tcsetattr", call[u])
    BY <1>3 DEF SysTcgetattr, SysTcflush, members, kernel, terminals, Configuring
  <2>2. /\ pc'[u] \in {"tcflush", "tcsetattr"} /\ call'[u] = call[u] /\ result' = result
        /\ \A v \in Uart \ {u} : pc'[v] = pc[v] /\ call'[v] = call[v]
        /\ DOMAIN call' = Uart /\ result' = [v \in Uart |-> result'[v]]
    BY <2>1, Gone
  <2>3. /\ tios'[u] = settings[u] /\ DOMAIN tios' = Uart
        /\ \A v \in Uart \ {u} : tios'[v] = tios[v]
    BY <1>3 DEF SysTcgetattr, SysTcflush, Shape, ObjectInv, TiosKept
  <2> QED
    BY <2>1, <2>2, <2>3 DEF Others, Own, GoesOn, Shape
<1>4. CASE SysTcsetattr(u)
  <2>1. DeviceOf[u] \in Device
    BY DeviceAssumption
  <2>2. /\ pc[u] = "tcsetattr" /\ EndConfigure(u, "true")
        /\ termios' = [termios EXCEPT ![DeviceOf[u]] =
             [s \in Setting |-> IF tios[u][s] \in Unsupported[s]
                                THEN termios[DeviceOf[u]][s] ELSE tios[u][s]]]
        /\ configured' = [configured EXCEPT ![DeviceOf[u]] = u]
        /\ tios[u] = settings[u]
    BY <1>4 DEF SysTcsetattr, ObjectInv, TiosKept
  <2>3. /\ DOMAIN termios' = Device
        /\ \A d \in Device \ {DeviceOf[u]} : termios'[d] = termios[d]
        /\ \A s \in Setting :
             termios'[DeviceOf[u]][s] =
               IF settings[u][s] \in Unsupported[s] THEN termios[DeviceOf[u]][s]
                                                    ELSE settings[u][s]
    BY <2>1, <2>2 DEF Shape
  <2>4. /\ configured' \in [Device -> Uart \union {NoHandle}] /\ configured'[DeviceOf[u]] = u
        /\ \A d \in Device \ {DeviceOf[u]} : configured'[d] = configured[d]
    BY <2>1, <2>2 DEF Shape
  <2> QED
    BY <1>1, <2>2, <2>3, <2>4 DEF Others, Own, Applies, Shape
<1> QED
  BY <1>2, <1>3, <1>4

LEMMA MemberValues ==
  ASSUME TableInv, ValueInv, NEW u \in Uart, MemberFunction(u)
  PROVE  Others(u) /\ Own(u)
<1>1. ASSUME NEW n \in 1..QueueSize, read(u, n) \/ write(u, n)
      PROVE  Others(u) /\ Own(u)
  <2>1. UNCHANGED <<pc, call, tios, result, settings, isopen, termios, configured>>
    BY <1>1 DEF read, write, members, control
  <2> QED
    BY <2>1 DEF Others, Own, Rests, Shape, ValueInv
<1> QED
  BY <1>1, OpenSteps, CloseSteps, SetStep, ConfigureSteps DEF MemberFunction

\* What is kept of the values that are stored, and of the settings a setter leaves alone.
LEMMA OwnKeeps ==
  ASSUME TableInv, ValueInv, NEW u \in Uart, Own(u)
  PROVE  ObjectInv(u)'
<1>0. /\ ObjectInv(u)
      /\ pc[u] \in {"idle", "open", "tcgetattr", "tcflush", "tcsetattr"}
  BY DEF ValueInv, TableInv, TableTypeOK
<1>d. \A s \in Setting : Default[s] \in Kept(s)
  BY DEF Kept
<1>1. CASE Rests(u)
  BY <1>0, <1>1 DEF Rests, ObjectInv, CallFits, CallKept, TiosKept, Configuring
<1>2. CASE Replaced(u)
  <2>1. DOMAIN Default = Setting
    BY DEF Default, Setting
  <2>2. CallFits(u)' /\ CallKept(u)' /\ TiosKept(u)'
    BY <1>0, <1>2 DEF Replaced, ObjectInv, CallFits, CallKept, TiosKept, Configuring
  <2> QED
    BY <1>0, <1>d, <1>2, <2>1, <2>2 DEF Replaced, ObjectInv
<1>3. CASE Opening(u)
  <2>1. CallFits(u)' /\ CallKept(u)' /\ TiosKept(u)'
    BY <1>3 DEF Opening, CallFits, CallKept, TiosKept, NoCall, OpenCall
  <2> QED
    BY <1>0, <1>d, <1>3, <2>1 DEF Opening, ObjectInv
<1>4. CASE GoesOn(u)
  <2>1. CallFits(u)'
    BY <1>0, <1>4 DEF GoesOn, ObjectInv, CallFits, Configuring
  <2>2. CallKept(u)' /\ TiosKept(u)'
    BY <1>0, <1>4 DEF GoesOn, ObjectInv, CallKept, TiosKept
  <2> QED
    BY <1>0, <1>4, <2>1, <2>2 DEF GoesOn, ObjectInv
<1>5. CASE Applies(u)
  <2>1. CallFits(u)' /\ CallKept(u)' /\ TiosKept(u)'
    BY <1>5 DEF Applies, CallFits, CallKept, TiosKept, NoCall
  <2> QED
    BY <1>0, <1>d, <1>5, <2>1 DEF Applies, ObjectInv
<1>6. ASSUME NEW s \in Setting, NEW v \in Requests[s], Stores(u, s, v)
      PROVE  ObjectInv(u)'
  <2>1. Stored(s, v) \in Kept(s)
    BY <1>6 DEF Stores, Kept
  <2>2. /\ DOMAIN settings'[u] = Setting /\ settings'[u][s] = Stored(s, v)
        /\ \A t \in Setting : settings'[u][t] \in Kept(t)
    BY <1>0, <1>6, <2>1 DEF Stores, ObjectInv
  <2>3. CallFits(u)' /\ CallKept(u)' /\ TiosKept(u)'
    BY <1>6, <2>2 DEF Stores, CallFits, CallKept, TiosKept, NoCall, SetCall
  <2> QED
    BY <1>0, <1>6, <2>2, <2>3 DEF Stores, ObjectInv
<1> QED
  BY <1>1, <1>2, <1>3, <1>4, <1>5, <1>6 DEF Own

LEMMA NextValues == TableInv /\ ValueInv /\ [Next]_vars => ValueInv'
<1> SUFFICES ASSUME TableInv, ValueInv, [Next]_vars PROVE ValueInv'
  OBVIOUS
<1>1. ASSUME NEW u \in Uart, MemberFunction(u) PROVE ValueInv'
  <2>1. Others(u) /\ Own(u)
    BY <1>1, MemberValues
  <2>2. ASSUME NEW v \in Uart PROVE ObjectInv(v)'
    <3>1. CASE v = u
      BY <2>1, <3>1, OwnKeeps
    <3>2. CASE v # u
      <4>1. /\ pc'[v] = pc[v] /\ call'[v] = call[v] /\ result'[v] = result[v]
            /\ settings'[v] = settings[v] /\ tios'[v] = tios[v] /\ ObjectInv(v)
        BY <2>1, <3>2 DEF Others, ValueInv
      <4> QED
        BY <4>1 DEF ObjectInv, CallFits, CallKept, TiosKept, Configuring
    <3> QED
      BY <3>1, <3>2
  <2> QED
    BY <2>1, <2>2 DEF ValueInv, Others
<1>2. CASE Environment \/ UNCHANGED vars
  <2>1. UNCHANGED <<pc, call, tios, result, settings, termios, configured>>
    BY <1>2 DEF Environment, OtherOpens, OtherCloses, ByteArrives, ByteLeaves, vars, members,
                control, kernel, terminals
  <2> QED
    BY <2>1 DEF ValueInv, Shape, ObjectInv, CallFits, CallKept, TiosKept, Configuring
<1> QED
  BY <1>1, <1>2 DEF Next

THEOREM ValueInvariant == Spec => []ValueInv
<1>1. Spec => [](TableInv /\ ValueInv)
  BY InitTable, NextTable, InitValues, NextValues, PTL DEF Spec
<1> QED
  BY <1>1, PTL

\* The queues stay within their sizes: a read takes what is there, a write what fits.
LEMMA NextQueues == TableInv /\ QueueInv /\ [Next]_vars => QueueInv'
<1> SUFFICES ASSUME TableInv, QueueInv, [Next]_vars PROVE QueueInv'
  OBVIOUS
<1> USE QueueAssumption DEF QueueInv
<1>1. ASSUME NEW u \in Uart, NEW n \in 1..QueueSize, read(u, n) PROVE QueueInv'
  <2>1. CASE UNCHANGED rx
    BY <1>1, <2>1 DEF read
  <2>2. CASE ~UNCHANGED rx
    <3> DEFINE d == Terminal(uarthandle[u])
    <3>1. /\ d \in Device
          /\ rx' = [rx EXCEPT ![d] = @ - Least(n, rx[d])] /\ tx' = tx
      BY <1>1, <2>2, DeviceAssumption DEF read, Valid, Terminal
    <3>2. rx[d] - Least(n, rx[d]) \in 0..QueueSize
      BY <3>1 DEF Least
    <3> QED
      BY <3>1, <3>2
  <2> QED
    BY <2>1, <2>2
<1>2. ASSUME NEW u \in Uart, NEW n \in 1..QueueSize, write(u, n) PROVE QueueInv'
  <2>1. CASE UNCHANGED tx
    BY <1>2, <2>1 DEF write
  <2>2. CASE ~UNCHANGED tx
    <3> DEFINE d == Terminal(uarthandle[u])
    <3>1. PICK k \in 1..n :
            /\ d \in Device /\ k <= QueueSize - tx[d]
            /\ tx' = [tx EXCEPT ![d] = @ + k] /\ rx' = rx
      BY <1>2, <2>2, DeviceAssumption DEF write, Valid, Terminal
    <3>2. tx[d] + k \in 0..QueueSize
      BY <3>1
    <3> QED
      BY <3>1, <3>2
  <2> QED
    BY <2>1, <2>2
<1>3. ASSUME NEW u \in Uart, SysTcflush(u) PROVE QueueInv'
  <2>1. /\ rx' = [rx EXCEPT ![DeviceOf[u]] = 0] /\ tx' = [tx EXCEPT ![DeviceOf[u]] = 0]
        /\ 0 \in 0..QueueSize
    BY <1>3 DEF SysTcflush
  <2>2. rx' \in [Device -> 0..QueueSize]
    BY <2>1
  <2>3. tx' \in [Device -> 0..QueueSize]
    BY <2>1
  <2> QED
    BY <2>2, <2>3
<1>4. ASSUME NEW d \in Device, ByteArrives(d) \/ ByteLeaves(d) PROVE QueueInv'
  BY <1>4 DEF ByteArrives, ByteLeaves
<1>5. ASSUME UNCHANGED <<rx, tx>> PROVE QueueInv'
  BY <1>5
<1>6. ASSUME NEW u \in Uart, MemberFunction(u) PROVE QueueInv'
  <2>1. \/ UNCHANGED <<rx, tx>> \/ SysTcflush(u)
        \/ \E n \in 1..QueueSize : read(u, n) \/ write(u, n)
    BY <1>6 DEF MemberFunction, open, SysOpen, close, Destroy, Set, ConfigureFails, SysTcgetattr,
                SysTcsetattr, kernel, terminals
  <2> QED
    BY <1>1, <1>2, <1>3, <1>5, <2>1
<1>7. ASSUME Environment PROVE QueueInv'
  BY <1>4, <1>5, <1>7 DEF Environment, OtherOpens, OtherCloses, terminals
<1> QED
  BY <1>5, <1>6, <1>7 DEF Next, vars, kernel, terminals

\* The types, and that between the system calls of open() and configure() a port is open or
\* closed as the code they came from left it.
THEOREM CallsFitTheirPort == Spec => []UartInv
<1>1. Spec => []QueueInv
  <2>1. Init => QueueInv
    BY InitValues
  <2> QED
    BY <2>1, NextQueues, TableInvariant, PTL DEF Spec
<1>2. TableInv /\ ValueInv /\ QueueInv => UartInv
  BY DEF UartInv, TypeOK, TableInv, ValueInv, ObjectInv, CallFits, Shape, QueueInv
<1> QED
  BY <1>1, <1>2, TableInvariant, ValueInvariant, PTL

\* A call that returns true has been through tcsetattr(), and no other step of anyone ends it.
LEMMA Success ==
  ASSUME TableInv, ValueInv, [Next]_vars, NEW u \in Uart,
         pc[u] = "tcsetattr", pc'[u] = "idle", result'[u] = "true"
  PROVE  Applies(u)
<1>1. PICK v \in Uart : MemberFunction(v)
  <2>1. Environment \/ UNCHANGED vars => pc' = pc
    BY EnvironmentStep DEF EnvironmentChange
  <2> QED
    BY <2>1 DEF Next
<1>2. Others(v) /\ Own(v)
  BY <1>1, MemberValues
<1>3. v = u
  BY <1>2 DEF Others
<1>4. ~isopen[u] => FALSE
  BY DEF TableInv, CallInv, Configuring
<1> QED
  BY <1>2, <1>3, <1>4
     DEF Own, Rests, Replaced, Opening, GoesOn, Stores, OpenCall, NoCall

\* An open object that configured its terminal last has everything set on it in force there,
\* but for the setter it is in the middle of and unless its last call failed, however many
\* objects share the terminal and wherever their calls interleave or fail.
THEOREM ConfigurationHolds == Spec => []ConfigurationStands
<1>1. Init => ConfigurationStands
  BY DEF Init, ConfigurationStands
<1>2. TableInv /\ ValueInv /\ ConfigurationStands /\ [Next]_vars => ConfigurationStands'
  <2> SUFFICES ASSUME TableInv, ValueInv, ConfigurationStands, [Next]_vars, NEW u \in Uart,
                      isopen'[u], configured'[DeviceOf[u]] = u, result'[u] # "error",
                      call'[u].op # "open", NEW s \in Setting,
                      ~(call'[u].op = "set" /\ call'[u].setting = s)
               PROVE  SettingInForce(u, s, termios[DeviceOf[u]])'
    BY DEF ConfigurationStands
  <2> DEFINE d == DeviceOf[u]
  <2>1. d \in Device
    BY DeviceAssumption
  <2>2. ASSUME isopen[u], configured[d] = u, result'[u] = result[u],
               \/ call[u] = call'[u]
               \/ call[u].op = "none",
               settings'[u][s] = settings[u][s], termios'[d] = termios[d]
        PROVE  SettingInForce(u, s, termios[d])'
    <3>1. SettingInForce(u, s, termios[d])
      BY <2>2 DEF ConfigurationStands
    <3> QED
      BY <2>2, <3>1 DEF SettingInForce
  <2>3. ASSUME MemberFunction(u) PROVE SettingInForce(u, s, termios[d])'
    <3>1. Own(u)
      BY <2>3, MemberValues
    <3>2. CASE Rests(u) \/ GoesOn(u)
      BY <2>2, <3>2 DEF Rests, GoesOn
    <3>3. CASE Replaced(u) \/ Opening(u)
      BY <3>3 DEF Replaced, Opening, OpenCall
    <3>4. CASE Applies(u)
      BY <3>4 DEF Applies, SettingInForce
    <3>5. ASSUME NEW t \in Setting, NEW v \in Requests[t], Stores(u, t, v)
          PROVE  SettingInForce(u, s, termios[d])'
      <4>1. /\ isopen[u] /\ call'[u] = SetCall(t, v) /\ pc[u] = "idle"
            /\ result'[u] = result[u] /\ configured' = configured /\ termios' = termios
        BY <3>5 DEF Stores
      <4>2. s # t
        BY <4>1 DEF SetCall
      <4>3. settings'[u][s] = settings[u][s]
        BY <3>5, <4>2 DEF Stores, ValueInv, ObjectInv
      <4>4. call[u].op = "none"
        BY <4>1 DEF ValueInv, ObjectInv, CallFits
      <4> QED
        BY <2>2, <4>1, <4>3, <4>4
    <3> QED
      BY <3>1, <3>2, <3>3, <3>4, <3>5 DEF Own
  <2>4. ASSUME NEW v \in Uart \ {u}, MemberFunction(v)
        PROVE  SettingInForce(u, s, termios[d])'
    <3>1. Others(v)
      BY <2>4, MemberValues
    <3>2. configured'[d] = configured[d] /\ termios'[d] = termios[d]
      BY <2>1, <2>4, <3>1 DEF Others
    <3> QED
      BY <2>2, <2>4, <3>1, <3>2 DEF Others
  <2>5. ASSUME Environment \/ UNCHANGED vars PROVE SettingInForce(u, s, termios[d])'
    <3>1. UNCHANGED <<call, isopen, result, settings, termios, configured>>
      BY <2>5 DEF Environment, OtherOpens, OtherCloses, ByteArrives, ByteLeaves, vars, members,
                  control, kernel, terminals
    <3> QED
      BY <2>2, <3>1
  <2> QED
    BY <2>3, <2>4, <2>5 DEF Next
<1> QED
  BY <1>1, <1>2, TableInvariant, ValueInvariant, PTL DEF Spec

\* The conversion there and back, for every positive number of milliseconds.
LEMMA Rounding ==
  ASSUME NEW ms \in Int, ms > 0
  PROVE  LET got == Milliseconds(Deciseconds(ms))
         IN  /\ got > 0
             /\ got <= ms \/ got = 100
             /\ ms - got < 100 \/ got = 25500
<1> DEFINE d == ms \div 100
<1>1. d \in Int /\ 100 * d <= ms /\ ms < 100 * d + 100
  OBVIOUS
<1> HIDE DEF d
<1> QED
  BY <1>1 DEF Milliseconds, Deciseconds, d

\* What set_timeout() has put in force when it returns true, for every positive request and
\* every driver that carries out timeouts.
THEOREM TimeoutApplies ==
  ASSUME Requests["timeout"] \subseteq Int, Unsupported["timeout"] = {}
  PROVE  Spec => TimeoutInForce
<1>1. TableInv /\ ValueInv /\ [Next]_vars =>
        [\A u \in Uart :
           (/\ pc[u] = "tcsetattr" /\ call[u].op = "set" /\ call[u].setting = "timeout"
            /\ pc'[u] = "idle" /\ result'[u] = "true" /\ call[u].value > 0)
           => LET asked == call[u].value
                  got == Milliseconds(termios'[DeviceOf[u]].timeout)
              IN  /\ got > 0
                  /\ got <= asked \/ got = 100
                  /\ asked - got < 100 \/ got = 25500]_vars
  <2> SUFFICES ASSUME TableInv, ValueInv, [Next]_vars, NEW u \in Uart,
                      pc[u] = "tcsetattr", call[u].op = "set", call[u].setting = "timeout",
                      pc'[u] = "idle", result'[u] = "true", call[u].value > 0
               PROVE  LET asked == call[u].value
                          got == Milliseconds(termios'[DeviceOf[u]].timeout)
                      IN  /\ got > 0
                          /\ got <= asked \/ got = 100
                          /\ asked - got < 100 \/ got = 25500
    OBVIOUS
  <2>1. Applies(u)
    BY Success
  <2>2. ObjectInv(u) /\ Configuring(u)
    BY DEF ValueInv, Configuring
  <2>3. PICK s \in Setting : \E v \in Requests[s] :
          call[u] = SetCall(s, v) /\ settings[u][s] = Stored(s, v)
    BY <2>2 DEF ObjectInv, CallKept
  <2>4. PICK v \in Requests[s] : call[u] = SetCall(s, v) /\ settings[u][s] = Stored(s, v)
    BY <2>3
  <2>5. s = "timeout" /\ v = call[u].value /\ v \in Int
    BY <2>4 DEF SetCall
  <2>6. settings[u].timeout = Deciseconds(v)
    BY <2>4, <2>5 DEF Stored
  <2>7. termios'[DeviceOf[u]].timeout = Deciseconds(v)
    BY <2>1, <2>5, <2>6 DEF Applies
  <2> QED
    BY <2>5, <2>7, Rounding
<1> QED
  BY <1>1, TableInvariant, ValueInvariant, PTL DEF Spec, TimeoutInForce

\* The getters of an open port that has its terminal to itself differ from what is in force
\* only while the last result the caller got was an error.
THEOREM DriftReported == Spec => []OutOfSyncReported
<1>1. Init => OutOfSyncReported
  BY DEF Init, OutOfSyncReported
<1>2. TableInv /\ ValueInv /\ OutOfSyncReported /\ [Next]_vars => OutOfSyncReported'
  <2> SUFFICES ASSUME TableInv, ValueInv, OutOfSyncReported, [Next]_vars, NEW u \in Uart,
                      isopen'[u], pc'[u] = "idle",
                      \A v \in Uart \ {u} : DeviceOf[v] # DeviceOf[u],
                      ~InForce(u, termios[DeviceOf[u]])'
               PROVE  result'[u] = "error"
    BY DEF OutOfSyncReported
  <2> DEFINE d == DeviceOf[u]
  <2>1. DeviceOf[u] \in Device
    BY DeviceAssumption
  <2>2. ASSUME pc'[u] = pc[u], isopen'[u] => isopen[u], result'[u] = result[u],
               settings'[u] = settings[u], termios'[d] = termios[d]
        PROVE  result'[u] = "error"
    <3>1. ~InForce(u, termios[d])
      BY <2>2 DEF InForce, SettingInForce
    <3> QED
      BY <2>2, <3>1 DEF OutOfSyncReported
  <2>3. ASSUME MemberFunction(u) PROVE result'[u] = "error"
    <3>1. Own(u)
      BY <2>3, MemberValues
    <3>2. CASE Rests(u)
      BY <2>2, <3>2 DEF Rests
    <3>3. CASE Opening(u)
      BY <3>3 DEF Opening
    <3>4. CASE Applies(u)
      BY <3>4 DEF Applies, InForce, SettingInForce
    <3> QED
      BY <3>1, <3>2, <3>3, <3>4 DEF Own, Replaced, GoesOn, Stores
  <2>4. ASSUME NEW v \in Uart \ {u}, MemberFunction(v) PROVE result'[u] = "error"
    <3>1. Others(v)
      BY <2>4, MemberValues
    <3> QED
      BY <2>1, <2>2, <2>4, <3>1 DEF Others
  <2>5. ASSUME Environment \/ UNCHANGED vars PROVE result'[u] = "error"
    <3>1. UNCHANGED <<pc, isopen, result, settings, termios>>
      BY <2>5 DEF Environment, OtherOpens, OtherCloses, ByteArrives, ByteLeaves, vars, members,
                  control, kernel, terminals
    <3> QED
      BY <2>2, <3>1
  <2> QED
    BY <2>3, <2>4, <2>5 DEF Next
<1> QED
  BY <1>1, <1>2, TableInvariant, ValueInvariant, PTL DEF Spec
===============================================================================
