---------------------------- MODULE MCActionQueue -----------------------------
(* Instances of ActionQueue for TLC: an action of the boot sequence that sets *)
(* a property, the two builtin ones that open the property service and enable *)
(* the triggers, two actions on that property (one of them without commands), *)
(* one on another property, and a chain of two that commands trigger.         *)
EXTENDS ActionQueue

CONSTANTS boot, serve, enable, onValue, onAny, onUsb, chained, last, sys, usb

MCActions == {boot, serve, enable, onValue, onAny, onUsb, chained, last}
MCActionList == <<boot, onValue, onAny, onUsb, chained, last, serve, enable>>
MCBoot == <<boot, serve, enable>>

On(name) == [kind |-> "trigger", name |-> name]
OnProperty(p, v) == [kind |-> "property", name |-> p, value |-> v]
MCTrigger ==
  [a \in MCActions |->
     CASE a = boot -> On("boot")
       [] a = serve -> On("property_service_init")
       [] a = enable -> On("queue_property_triggers")
       [] a = onValue -> OnProperty(sys, 1)
       [] a = onAny -> OnProperty(sys, AnyValue)
       [] a = onUsb -> OnProperty(usb, 0)
       [] a = chained -> On("chained")
       [] OTHER -> On("last")]

Other == [cmd |-> "other"]
MCCommands ==
  [a \in MCActions |->
     CASE a = boot -> <<Other, [cmd |-> "setprop", name |-> sys, value |-> 1]>>
       [] a = serve -> <<[cmd |-> "property_service_init"]>>
       [] a = enable -> <<[cmd |-> "queue_property_triggers"]>>
       [] a = onValue -> <<[cmd |-> "trigger", name |-> "chained"], Other>>
       [] a = onAny -> <<>>
       [] a = onUsb -> <<Other>>
       [] a = chained -> <<Other, [cmd |-> "trigger", name |-> "last"]>>
       [] OTHER -> <<Other>>]

(* The commands of this init.rc set off nothing twice. *)
ASSUME SetOffOnceAssumption == SetOffOnce(3)
===============================================================================
