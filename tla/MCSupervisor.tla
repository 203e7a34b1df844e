----------------------------- MODULE MCSupervisor -----------------------------
(* Instances of Supervisor for TLC: two services as in init.rc, one restarted *)
(* on exit and one that is oneshot, disabled and tied to it by onrestart.     *)
EXTENDS Supervisor, TLC

CONSTANTS adbd, logd, core

MCServices == {adbd, logd}
MCServiceList == <<adbd, logd>>
MCClasses == {core}
MCClassMembers == [c \in {core} |-> <<adbd, logd>>]

(* onrestart restart logd *)
MCOnRestart == [s \in {adbd, logd} |->
                  IF s = adbd THEN <<Op("stop", logd), Op("start", logd)>> ELSE <<>>]

Class(cmd) == [cmd |-> cmd, arg |-> core]
One(cmd, s) == [cmd |-> cmd, arg |-> s]

MCBoot == <<Class("class_start")>>
MCRequests == {One("stop", adbd), One("start_dynamic", adbd), Class("class_reset"),
               Class("class_start")}

(* Two services that are both restarted on exit, without onrestart. *)
MCNoOnRestart == [s \in {adbd, logd} |-> <<>>]
MCStopRequests == {One("stop", adbd)}
MCRestartRequests == {One("restart", adbd)}

PidSymmetry == Permutations(Pids)
===============================================================================
