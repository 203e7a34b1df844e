--------------------------- MODULE MCPropertyService --------------------------
(* An instance of PropertyService for TLC: one client that calls property_set *)
(* twice and one that calls it once, two of the calls on one property.        *)
EXTENDS PropertyService

CONSTANTS ca, cb, persist, ro, ctl, net, netChange

MCOwner == <<ca, cb, ca>>

MCChoices == <<{persist}, {persist, ro}, {ctl, net}>>

MCDenied == {<<cb, ro>>}
===============================================================================
