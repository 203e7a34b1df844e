------------------------------ MODULE MCAdbStream ------------------------------
(* An instance of AdbStream for TLC: two streams; on the first the device     *)
(* reads two chunks and the server one.                                       *)
EXTENDS AdbStream

MCMaxReads == [p \in Peers |-> IF p = Host THEN <<1, 0>> ELSE <<2, 0>>]
===============================================================================
