----------------------------- MODULE MC_Win32Uart ------------------------------
EXTENDS Win32Uart, TLC

CONSTANTS u1, u2, d1, d2, h1, h2

\* Two objects, each with a port of its own, and two handles for them and the rest of the
\* process.
TwoDevices == [u \in Uart |-> IF u = u1 THEN d1 ELSE d2]
Symmetry == Permutations(Handle)

PoweredOn == [Line(Default) EXCEPT !.baudrate = 1200]
NoTimeouts == [constant |-> 0, multiplier |-> 0]

\* One object is only opened and closed, of the other settings are changed: a speed that the
\* table has and one that it lacks, a timeout that a DWORD has room for and one that it has not.
Nothing == [s \in DOMAIN Default |-> {}]
Something == [Nothing EXCEPT !["baudrate"] = {115200, 230400}, !["timeout"] = {3, 9}]
MCRequests == [u \in Uart |-> IF u = u1 THEN Something ELSE Nothing]

\* After a call on somebody else's handle no property says anything.
NotStrayed == ~strayed
===============================================================================
