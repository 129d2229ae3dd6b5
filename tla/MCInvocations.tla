---------------------------- MODULE MCInvocations ----------------------------
(***************************************************************************)
(* Invocations for TLC: two actors, one of which calls the other, and one  *)
(* provider.                                                               *)
(***************************************************************************)
EXTENDS Invocations, TLC

CONSTANTS ma, mb, mc, r1

\* Actor mb has no capability claims, and is only called by ma.
MCCaps == [x \in Actor |-> IF x = ma THEN {mc} ELSE {}]
OneOp == [x \in Actor |-> 1]
OnlyA == [x \in Actor |-> IF x = ma THEN 1 ELSE 0]

\* The first request may cause a chain of calls.
Deep(n) == [r \in Request |-> IF r = r1 THEN n ELSE 1]
Depth2 == Deep(2)
Depth3 == Deep(3)

\* Calls of the first request may be sent in chunks, which have a timeout.
MCChunks == [r \in Request |-> IF r = r1 THEN BOOLEAN ELSE {FALSE}]

MCWires == {ma} \X LinkEntity

\* Only ma calls mb, or mb calls back.
Downward == {<<ma, mb>>}
Back == {<<ma, mb>>, <<mb, ma>>}
=============================================================================
