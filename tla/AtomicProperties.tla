--------------------------- MODULE AtomicProperties ---------------------------
(***************************************************************************)
(* What the rules of _system_properties.h are for: a property is changed    *)
(* and read as a whole, as if every call took effect at one moment.         *)
(***************************************************************************)
CONSTANTS
  Names,      (* the names of properties                          *)
  Values,     (* the values properties can have                   *)
  Absent,     (* the value of a property that was never set       *)
  Readers     (* the clients                                      *)

VARIABLES
  current,    (* the value of each property                       *)
  result      (* what the last read of each client returned       *)

AtomicInit ==
  /\ current = [n \in Names |-> Absent]
  /\ result = [r \in Readers |-> Absent]

Set(n, v) == current' = [current EXCEPT ![n] = v] /\ UNCHANGED result

Read(r, n) ==
  /\ current[n] # Absent
  /\ result' = [result EXCEPT ![r] = current[n]]
  /\ UNCHANGED current

AtomicNext == \E n \in Names : \/ \E v \in Values : Set(n, v)
                               \/ \E r \in Readers : Read(r, n)

AtomicSpec == AtomicInit /\ [][AtomicNext]_<<current, result>>
===============================================================================
