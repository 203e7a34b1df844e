---------------------------- MODULE MCPropertyArea ----------------------------
(* Instances of PropertyArea for TLC: values of different lengths that share *)
(* no character at any place, so that a mixture of two is none of them.      *)
EXTENDS PropertyArea

CONSTANTS sys, ro, a, b, r1, r2

MCValues == {<<a>>, <<b, b>>}
MCCalls == [r \in {r1, r2} |-> IF r = r1 THEN {"read", "wait"} ELSE {"get", "wait"}]
===============================================================================
