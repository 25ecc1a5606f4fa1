---------------------------- MODULE MCRendezvous ----------------------------
(* TLC instances of Rendezvous: up to three processes, two harts. *)
EXTENDS Rendezvous

CONSTANTS a, b, c, h1, h2

NoProcs   == {}
JustA     == {a}
JustB     == {b}
JustC     == {c}
AB        == {a, b}
ABC       == {a, b, c}
AllSrc    == {a, b, c, Any}
HardAny   == {Any, Hardware}
ABAny     == {a, b, Any}
OneHart   == {h1}
TwoHarts  == {h1, h2}
PtrGood   == {TRUE}
PtrBoth   == {TRUE, FALSE}
OneEach   == [p \in Procs |-> 1]
NoneFromC == [p \in Procs |-> IF p = c THEN 0 ELSE 1]
TwoFromA  == [p \in Procs |-> IF p = a THEN 2 ELSE 1]
=============================================================================
