------------------------------ MODULE MCLogBuffer -----------------------------
(* Instances of LogBuffer for TLC: one logcat that follows the log from the   *)
(* last message on (logcat -T 1) and one that dumps it (logcat -t 1).         *)
EXTENDS LogBuffer

CONSTANTS follow, dump

MCTail == [c \in Clients |-> 1]
===============================================================================
