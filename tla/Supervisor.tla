------------------------------ MODULE Supervisor ------------------------------
(***************************************************************************)
(* The service supervisor of the monitor process (src/src/init): it forks  *)
(* the services of init.rc, reaps them when SIGCHLD arrives, restarts the  *)
(* ones that died, and obeys the class_*, start, stop and restart          *)
(* commands of actions and the ctl.* messages of property clients.         *)
(*                                                                         *)
(* One thread runs everything, but the kernel does not wait for it:        *)
(* children change process group, die and become zombies between any two   *)
(* of its system calls, SIGCHLD interrupts it anywhere, clients queue      *)
(* messages and seconds pass.  Each action below is therefore one call of  *)
(* service_start, service_stop_or_reset, wait_for_one_process ... or one   *)
(* step of the loop of main(); a command that makes several such calls is  *)
(* unfolded into the sequence job, which the thread works off in order.    *)
(***************************************************************************)
EXTENDS Naturals, Sequences

CONSTANTS
  Services,      (* the services parsed from init.rc                             *)
  ServiceList,   (* service_list: the same services in the order of the file     *)
  Classes,       (* class names                                                  *)
  ClassMembers,  (* the services of each class, in the order of service_list     *)
  Oneshot,       (* the services with option oneshot (SVC_ONESHOT)               *)
  RcDisabled,    (* ... with option disabled (SVC_RC_DISABLED)                   *)
  Unstartable,   (* ... whose binary is missing, or that need the console        *)
                 (* (have_console is never set): service_start disables them     *)
  OnRestart,     (* the onrestart commands of each service, unfolded into Ops    *)
  Boot,          (* the commands of the boot actions still queued, in order      *)
  Requests,      (* the commands clients may send as ctl.* messages              *)
  Pids, NoPid,   (* the kernel's process ids; NoPid is the value 0 of svc->pid   *)
  NoService,     (* the owner of a pid that is not in use                        *)
  ForkMayFail,   (* TRUE: fork may fail although a pid is free                   *)
  RestartDelay,  (* the 5 seconds of restart_service_if_needed                   *)
  NotArmed,      (* the value 0 of process_needs_restart                         *)
  MaxInbox,      (* bound: connections waiting on the property socket            *)
  PipeCap,       (* bound: bytes the signal socketpair holds before EAGAIN       *)
  ReadMax        (* the 32 bytes handle_signal reads at once                     *)

OpNames == {"start", "start_dynamic", "start_if_not_disabled", "stop", "reset",
            "restart_if_needed", "notify_restarting"}
Ops == [op : OpNames, svc : Services]

(* A command of an action, or a ctl.* message. *)
Commands == [cmd : {"start", "start_dynamic", "stop", "restart"}, arg : Services]
       \cup [cmd : {"class_start", "class_stop", "class_reset"}, arg : Classes]

ASSUME SupervisorAssumption ==
  /\ ServiceList \in Seq(Services)
  /\ \A s \in Services : \E i \in DOMAIN ServiceList : ServiceList[i] = s
  /\ ClassMembers \in [Classes -> Seq(Services)]
  /\ Oneshot \subseteq Services
  /\ RcDisabled \subseteq Services
  /\ Unstartable \subseteq Services
  /\ OnRestart \in [Services -> Seq(Ops)]
  /\ Boot \in Seq(Commands)
  /\ Requests \subseteq Commands
  /\ NoPid \notin Pids
  /\ NoService \notin Services
  /\ ForkMayFail \in BOOLEAN
  /\ RestartDelay \in Nat \ {0}
  /\ NotArmed \notin Nat
  /\ MaxInbox \in Nat
  /\ PipeCap \in Nat \ {0}
  /\ ReadMax \in Nat \ {0}

VARIABLES
  (* the memory of the monitor process *)
  flags,         (* svc->flags: the bits that change at run time                 *)
  pid,           (* svc->pid                                                     *)
  elapsed,       (* gettime() - svc->time_started, up to RestartDelay            *)
  armed,         (* process_needs_restart - gettime(), or NotArmed               *)
  boot,          (* what is left of Boot                                         *)
  cur_action,    (* cur_action is not null                                       *)
  pc,            (* where the loop of main() is                                  *)
  ready,         (* the descriptors poll() reported, until both are dealt with   *)
  job,           (* the calls the handler in progress still has to make          *)
  init_svc,      (* the property init.svc.<name>, "unset" before the first write *)
  (* the kernel *)
  proc,          (* the life of each process id                                  *)
  owner,         (* the service a process was forked for                         *)
  sigpending,    (* SIGCHLD is pending; further ones coalesce                    *)
  pipe,          (* bytes in the socketpair from sigchld_handler to the loop     *)
  inbox,         (* messages on the property socket, oldest first                *)
  (* history *)
  wanted         (* the last explicit request for the service was a start       *)

loopVars == <<boot, cur_action, pc, ready>>
svcVars  == <<flags, pid, elapsed, init_svc>>
procVars == <<proc, owner>>
sigVars  == <<sigpending, pipe>>
vars == <<flags, pid, elapsed, armed, boot, cur_action, pc, ready, job, init_svc,
          proc, owner, sigpending, pipe, inbox, wanted>>

MutableFlags == {"DISABLED", "RUNNING", "RESTARTING", "RESET"}

(* "forked": the child has not called setpgid(0, getpid()) yet; "running": it *)
(* leads its own group; "dying": SIGKILL is delivered but it has not exited.  *)
ProcStates == {"free", "forked", "running", "dying", "zombie"}
Alive == {"forked", "running", "dying"}

(* The state after check_startup_action: both descriptors are polled, nothing *)
(* was started, and the boot actions that start classes are still queued.     *)
Init ==
  /\ flags = [s \in Services |-> IF s \in RcDisabled THEN {"DISABLED"} ELSE {}]
  /\ pid = [s \in Services |-> NoPid]
  /\ elapsed = [s \in Services |-> RestartDelay]
  /\ armed = NotArmed
  /\ boot = Boot
  /\ cur_action = TRUE
  /\ pc = "execute"
  /\ ready = {}
  /\ job = <<>>
  /\ init_svc = [s \in Services |-> "unset"]
  /\ proc = [p \in Pids |-> "free"]
  /\ owner = [p \in Pids |-> NoService]
  /\ sigpending = FALSE
  /\ pipe = 0
  /\ inbox = <<>>
  /\ wanted = [s \in Services |-> FALSE]

-------------------------------------------------------------------------------
(* Commands, unfolded into the calls they make.                              *)

Op(name, s) == [op |-> name, svc |-> s]

(* service_for_each_class, service_for_each_flags: the list in its order. *)
ForEach(name, list) == [i \in DOMAIN list |-> Op(name, list[i])]

Calls(c) ==
  CASE c.cmd = "restart"     -> <<Op("stop", c.arg), Op("start", c.arg)>>
    [] c.cmd = "class_start" -> ForEach("start_if_not_disabled", ClassMembers[c.arg])
    [] c.cmd = "class_stop"  -> ForEach("stop", ClassMembers[c.arg])
    [] c.cmd = "class_reset" -> ForEach("reset", ClassMembers[c.arg])
    [] OTHER                 -> <<Op(c.cmd, c.arg)>>

-------------------------------------------------------------------------------
(* service_start and service_stop_or_reset.                                  *)

(* Mutant: SVC_RESTARTING is not cleared. *)
MutCleared(s) == flags[s] \ {"DISABLED", "RESET"}

Cleared(s) == flags[s] \ {"DISABLED", "RESTARTING", "RESET"}

(* fork() returned p in the parent; the child has yet to set its group. *)
Forked(s, p) ==
  /\ proc[p] = "free"
  /\ proc' = [proc EXCEPT ![p] = "forked"]
  /\ owner' = [owner EXCEPT ![p] = s]
  /\ pid' = [pid EXCEPT ![s] = p]
  /\ flags' = [flags EXCEPT ![s] = Cleared(s) \cup {"RUNNING"}]
  /\ elapsed' = [elapsed EXCEPT ![s] = 0]
  /\ init_svc' = [init_svc EXCEPT ![s] = "running"]

(* fork() failed: svc->pid = 0, and the service is in no state at all. *)
ForkFailed(s) ==
  /\ ForkMayFail \/ \A p \in Pids : proc[p] # "free"
  /\ pid' = [pid EXCEPT ![s] = NoPid]
  /\ flags' = [flags EXCEPT ![s] = Cleared(s)]
  /\ elapsed' = [elapsed EXCEPT ![s] = RestartDelay]
  /\ UNCHANGED <<init_svc, procVars>>

(* time_started = 0 makes elapsed at least RestartDelay. *)
NotStarted(s, f) ==
  /\ flags' = [flags EXCEPT ![s] = f]
  /\ elapsed' = [elapsed EXCEPT ![s] = RestartDelay]
  /\ UNCHANGED <<pid, init_svc, procVars>>

service_start(s, dynamic) ==
  LET refused == s \in Unstartable \/ (dynamic /\ s \notin Oneshot)
  IN \/ /\ "RUNNING" \in flags[s]
        /\ NotStarted(s, Cleared(s))
     \/ /\ "RUNNING" \notin flags[s]
        /\ refused
        /\ NotStarted(s, Cleared(s) \cup {"DISABLED"})
     \/ /\ "RUNNING" \notin flags[s]
        /\ ~refused
        /\ ForkFailed(s) \/ \E p \in Pids : Forked(s, p)

(* kill(-pid, SIGKILL) reaches the child only once it leads its own group. *)
KillGroup(p) ==
  proc' = IF p # NoPid /\ proc[p] = "running" THEN [proc EXCEPT ![p] = "dying"] ELSE proc

(* Mutant: SVC_RESTARTING is not cleared. *)
MutStopKeepsRestarting(s, how) ==
  /\ flags' = [flags EXCEPT ![s] = (@ \ {"RUNNING"}) \cup {how}]
  /\ KillGroup(pid[s])
  /\ init_svc' = [init_svc EXCEPT ![s] = IF pid[s] # NoPid THEN "stopping" ELSE "stopped"]
  /\ UNCHANGED <<pid, elapsed, owner>>

(* Mutant: "stopped" is published while the process is still to be reaped. *)
MutStopPublishes(s, how) ==
  /\ flags' = [flags EXCEPT ![s] = (@ \ {"RUNNING", "RESTARTING"}) \cup {how}]
  /\ KillGroup(pid[s])
  /\ init_svc' = [init_svc EXCEPT ![s] = "stopped"]
  /\ UNCHANGED <<pid, elapsed, owner>>

service_stop_or_reset(s, how) ==
  LET bit == IF how = "RESET" /\ s \in RcDisabled THEN "DISABLED" ELSE how
  IN /\ flags' = [flags EXCEPT ![s] = (@ \ {"RUNNING", "RESTARTING"}) \cup {bit}]
     /\ KillGroup(pid[s])
     /\ init_svc' = [init_svc EXCEPT ![s] = IF pid[s] # NoPid THEN "stopping" ELSE "stopped"]
     /\ UNCHANGED <<pid, elapsed, owner>>

-------------------------------------------------------------------------------
(* One call of the job in progress.                                          *)

NextCall(names) ==
  /\ job # <<>>
  /\ Head(job).op \in names
  /\ job' = Tail(job)
  /\ UNCHANGED <<loopVars, sigVars, inbox>>

CallStart ==
  LET s == Head(job).svc IN
  /\ NextCall({"start", "start_dynamic"})
  /\ service_start(s, Head(job).op = "start_dynamic")
  /\ wanted' = [wanted EXCEPT ![s] = TRUE]
  /\ UNCHANGED armed

CallStartIfNotDisabled ==
  LET s == Head(job).svc IN
  /\ NextCall({"start_if_not_disabled"})
  /\ IF "DISABLED" \in flags[s]
     THEN UNCHANGED <<svcVars, procVars, wanted>>
     ELSE /\ service_start(s, FALSE)
          /\ wanted' = [wanted EXCEPT ![s] = TRUE]
  /\ UNCHANGED armed

CallStopOrReset ==
  LET s == Head(job).svc IN
  /\ NextCall({"stop", "reset"})
  /\ service_stop_or_reset(s, IF Head(job).op = "reset" THEN "RESET" ELSE "DISABLED")
  /\ wanted' = [wanted EXCEPT ![s] = FALSE]
  /\ UNCHANGED armed

(* Mutant: the last due time seen wins. *)
MutLatest(t, limit) == t

(* process_needs_restart is the earliest of the due times seen. *)
Earlier(t, limit) == IF limit = NotArmed \/ t < limit THEN t ELSE limit

CallRestartIfNeeded ==
  LET s == Head(job).svc IN
  /\ NextCall({"restart_if_needed"})
  /\ \/ /\ "RESTARTING" \notin flags[s]
        /\ UNCHANGED <<svcVars, procVars, armed>>
     \/ /\ "RESTARTING" \in flags[s]
        /\ elapsed[s] >= RestartDelay
        /\ service_start(s, FALSE)
        /\ UNCHANGED armed
     \/ /\ "RESTARTING" \in flags[s]
        /\ elapsed[s] < RestartDelay
        /\ armed' = Earlier(RestartDelay - elapsed[s], armed)
        /\ UNCHANGED <<svcVars, procVars>>
  /\ UNCHANGED wanted

CallNotifyRestarting ==
  /\ NextCall({"notify_restarting"})
  /\ init_svc' = [init_svc EXCEPT ![Head(job).svc] = "restarting"]
  /\ UNCHANGED <<flags, pid, elapsed, procVars, armed, wanted>>

Call == CallStart \/ CallStartIfNotDisabled \/ CallStopOrReset
          \/ CallRestartIfNeeded \/ CallNotifyRestarting

-------------------------------------------------------------------------------
(* The loop of main().                                                       *)

LoopAt(from, to) ==
  /\ job = <<>>
  /\ pc = from
  /\ pc' = to
  /\ UNCHANGED <<svcVars, procVars, sigpending, wanted>>

(* execute_one_command: the next command of the queue, or none is left and *)
(* cur_action becomes null.                                                *)
ExecuteOneCommand ==
  /\ LoopAt("execute", "restart")
  /\ cur_action' = (boot # <<>>)
  /\ IF boot = <<>>
     THEN UNCHANGED <<boot, job>>
     ELSE boot' = Tail(boot) /\ job' = Calls(Head(boot))
  /\ UNCHANGED <<ready, armed, pipe, inbox>>

RestartProcesses ==
  /\ LoopAt("restart", "poll")
  /\ armed' = NotArmed
  /\ job' = ForEach("restart_if_needed", ServiceList)
  /\ UNCHANGED <<boot, cur_action, ready, pipe, inbox>>

(* Mutant: the timeout ignores process_needs_restart. *)
MutPollUntimed ==
  LET readable == {d \in {"property", "signal"} :
                     IF d = "property" THEN inbox # <<>> ELSE pipe > 0}
  IN /\ LoopAt("poll", IF readable = {} THEN "execute" ELSE "property")
     /\ readable # {} \/ boot # <<>> \/ cur_action
     /\ ready' = readable
     /\ UNCHANGED <<boot, cur_action, armed, job, pipe, inbox>>

(* poll() blocks until a descriptor is readable, the timer of armed expires, *)
(* or at once when more commands are to be executed.                         *)
Poll ==
  LET readable == {d \in {"property", "signal"} :
                     IF d = "property" THEN inbox # <<>> ELSE pipe > 0}
  IN /\ LoopAt("poll", IF readable = {} THEN "execute" ELSE "property")
     /\ readable # {} \/ armed = 0 \/ boot # <<>> \/ cur_action
     /\ ready' = readable
     /\ UNCHANGED <<boot, cur_action, armed, job, pipe, inbox>>

(* handle_property_set_fd: one connection for each time poll() reports it; *)
(* accept() does not block and nothing is done when there is none.         *)
HandlePropertySetFd ==
  /\ LoopAt("property", "signal")
  /\ IF "property" \in ready /\ inbox # <<>>
     THEN inbox' = Tail(inbox) /\ job' = Calls(Head(inbox))
     ELSE UNCHANGED <<inbox, job>>
  /\ UNCHANGED <<boot, cur_action, ready, armed, pipe>>

(* handle_signal: read the bytes, then reap until waitpid finds no zombie. *)
HandleSignal ==
  /\ LoopAt("signal", IF "signal" \in ready THEN "reap" ELSE "execute")
  /\ pipe' = IF "signal" \notin ready THEN pipe
             ELSE IF pipe > ReadMax THEN pipe - ReadMax ELSE 0
  /\ ready' = {}
  /\ UNCHANGED <<boot, cur_action, armed, job, inbox>>

(* waitpid releases the process id. *)
Freed(p) ==
  /\ proc' = [proc EXCEPT ![p] = "free"]
  /\ owner' = [owner EXCEPT ![p] = NoService]

(* wait_for_one_process when waitpid returned the zombie p: a child whose *)
(* pid no service holds is only logged.                                   *)
ReapUntracked(p) ==
  /\ job = <<>> /\ pc = "reap" /\ proc[p] = "zombie"
  /\ \A s \in Services : pid[s] # p
  /\ Freed(p)
  /\ UNCHANGED <<svcVars, armed, loopVars, job, sigVars, inbox, wanted>>

(* Mutant: svc->pid is not cleared. *)
MutReapKeepsPid(p, s) ==
  /\ job = <<>> /\ pc = "reap" /\ proc[p] = "zombie" /\ pid[s] = p
  /\ Freed(p)
  /\ flags' = [flags EXCEPT ![s] = (@ \ {"RUNNING"}) \cup {"RESTARTING"}]
  /\ job' = OnRestart[s] \o <<Op("notify_restarting", s)>>
  /\ UNCHANGED <<pid, init_svc, elapsed, armed, loopVars, sigVars, inbox, wanted>>

ReapService(p, s) ==
  LET dead == (flags[s] \ {"RUNNING"}) \cup (IF s \in Oneshot THEN {"DISABLED"} ELSE {})
      stays == dead \cap {"DISABLED", "RESET"} # {}
  IN /\ job = <<>> /\ pc = "reap" /\ proc[p] = "zombie" /\ pid[s] = p
     /\ Freed(p)
     /\ pid' = [pid EXCEPT ![s] = NoPid]
     /\ flags' = [flags EXCEPT ![s] = IF stays THEN dead ELSE dead \cup {"RESTARTING"}]
     /\ init_svc' = IF stays THEN [init_svc EXCEPT ![s] = "stopped"] ELSE init_svc
     /\ job' = IF stays THEN <<>> ELSE OnRestart[s] \o <<Op("notify_restarting", s)>>
     /\ UNCHANGED <<elapsed, armed, loopVars, sigVars, inbox, wanted>>

(* Mutant: handle_signal stops before waitpid has nothing left to return. *)
MutReapOnce ==
  /\ LoopAt("reap", "execute")
  /\ UNCHANGED <<boot, cur_action, ready, armed, job, pipe, inbox>>

ReapDone ==
  /\ LoopAt("reap", "execute")
  /\ \A p \in Pids : proc[p] # "zombie"
  /\ UNCHANGED <<boot, cur_action, ready, armed, job, pipe, inbox>>

Loop == \/ Call
        \/ ExecuteOneCommand \/ RestartProcesses \/ Poll
        \/ HandlePropertySetFd \/ HandleSignal
        \/ \E p \in Pids : ReapUntracked(p) \/ \E s \in Services : ReapService(p, s)
        \/ ReapDone

-------------------------------------------------------------------------------
(* The kernel, the children and the clients.                                 *)

userVars == <<flags, pid, boot, cur_action, ready, job, init_svc, wanted>>

ChildSetsGroup(p) ==
  /\ proc[p] = "forked"
  /\ proc' = [proc EXCEPT ![p] = "running"]
  /\ UNCHANGED <<userVars, pc, elapsed, armed, owner, sigVars, inbox>>

(* A child exits, crashes, fails to exec, or the SIGKILL takes effect. *)
Exit(p) ==
  /\ proc[p] \in Alive
  /\ proc' = [proc EXCEPT ![p] = "zombie"]
  /\ sigpending' = TRUE
  /\ UNCHANGED <<userVars, pc, elapsed, armed, owner, pipe, inbox>>

(* Mutant: the socketpair is taken for unbounded. *)
MutSigchldHandler ==
  /\ sigpending
  /\ sigpending' = FALSE
  /\ pipe' = pipe + 1
  /\ UNCHANGED <<userVars, pc, elapsed, armed, procVars, inbox>>

(* sigchld_handler writes one byte, or none when the socket is full; a poll() *)
(* it interrupts fails with EINTR and the loop goes round.                    *)
SigchldHandler ==
  /\ sigpending
  /\ sigpending' = FALSE
  /\ pipe' = IF pipe < PipeCap THEN pipe + 1 ELSE pipe
  /\ pc' \in IF pc = "poll" /\ job = <<>> THEN {"poll", "execute"} ELSE {pc}
  /\ UNCHANGED <<userVars, elapsed, armed, procVars, inbox>>

ClientSends(c) ==
  /\ Len(inbox) < MaxInbox
  /\ inbox' = Append(inbox, c)
  /\ UNCHANGED <<userVars, pc, elapsed, armed, procVars, sigVars>>

(* One second passes. *)
Tick ==
  /\ elapsed' = [s \in Services |-> IF elapsed[s] < RestartDelay THEN elapsed[s] + 1
                                    ELSE RestartDelay]
  /\ armed' = IF armed = NotArmed \/ armed = 0 THEN armed ELSE armed - 1
  /\ UNCHANGED <<userVars, pc, procVars, sigVars, inbox>>

Next == \/ Loop
        \/ \E p \in Pids : ChildSetsGroup(p)
        \/ \E p \in Pids : Exit(p)
        \/ SigchldHandler
        \/ \E c \in Requests : ClientSends(c)
        \/ Tick

Spec == Init /\ [][Next]_vars

(* The scheduler runs the monitor and its children, delivers signals and lets *)
(* time pass; nothing obliges a healthy child to exit or a client to send.    *)
Fairness ==
  /\ WF_vars(Loop)
  /\ WF_vars(SigchldHandler)
  /\ WF_vars(Tick)
  /\ \A p \in Pids : /\ WF_vars(ChildSetsGroup(p))
                     /\ WF_vars(proc[p] = "dying" /\ Exit(p))

FairSpec == Spec /\ Fairness
-------------------------------------------------------------------------------
(* Properties.                                                               *)

TypeOK ==
  /\ flags \in [Services -> SUBSET MutableFlags]
  /\ pid \in [Services -> Pids \cup {NoPid}]
  /\ elapsed \in [Services -> 0 .. RestartDelay]
  /\ armed \in 0 .. RestartDelay \cup {NotArmed}
  /\ boot \in Seq(Commands)
  /\ cur_action \in BOOLEAN
  /\ pc \in {"execute", "restart", "poll", "property", "signal", "reap"}
  /\ ready \subseteq {"property", "signal"}
  /\ job \in Seq(Ops)
  /\ init_svc \in [Services -> {"unset", "running", "stopping", "stopped", "restarting"}]
  /\ proc \in [Pids -> ProcStates]
  /\ owner \in [Pids -> Services \cup {NoService}]
  /\ sigpending \in BOOLEAN
  /\ pipe \in 0 .. PipeCap
  /\ inbox \in Seq(Commands)
  /\ wanted \in [Services -> BOOLEAN]

(* Signals coalesce, the socketpair may be full and bytes are read 32 at a  *)
(* time, yet a dead child is never overlooked: as long as there is a zombie *)
(* the loop is reaping, is on its way to reap, or will be woken by SIGCHLD  *)
(* or by a byte still to be read.                                           *)
NoLostChild ==
  (\E p \in Pids : proc[p] = "zombie") =>
    \/ sigpending \/ pipe > 0
    \/ pc = "reap"
    \/ pc \in {"property", "signal"} /\ "signal" \in ready

(* svc->pid names a child of this very service that has not been reaped, so *)
(* kill(-svc->pid) and service_find_by_pid never hit another service's      *)
(* process although the kernel reuses pids.                                 *)
PidsAreOwned ==
  \A s \in Services : pid[s] # NoPid => proc[pid[s]] # "free" /\ owner[pid[s]] = s

(* A service is in one state at a time: running with a tracked child and no *)
(* other mark, or waiting for its restart with no child and no other mark,  *)
(* so that the timer never forks a second child or revives a stopped one.   *)
OneState ==
  \A s \in Services :
    /\ "RUNNING" \in flags[s] => flags[s] = {"RUNNING"} /\ pid[s] # NoPid
    /\ "RESTARTING" \in flags[s] => flags[s] = {"RESTARTING"} /\ pid[s] = NoPid

(* Whatever order stop, start, class commands, exits and the 5 second timer *)
(* come in, the timer forks only a service whose last explicit request was  *)
(* a start: a stop is never undone by an exit that was reaped later.        *)
RespawnsOnlyWanted ==
  [][\A s \in Services :
       (job # <<>> /\ Head(job) = Op("restart_if_needed", s) /\ pid'[s] # pid[s]
          /\ pid'[s] # NoPid) => wanted[s]]_vars

(* When the loop blocks in poll(), the timeout ends no later than the first *)
(* restart that is due: a service awaiting its restart never depends on     *)
(* some unrelated event to wake the monitor.                                *)
TimerCoversRestarts ==
  (pc = "poll" /\ job = <<>>) =>
    \A s \in Services :
      "RESTARTING" \in flags[s] =>
        armed # NotArmed /\ armed <= RestartDelay - elapsed[s]

(* What clients read in init.svc.<name> tells running from not running in   *)
(* every state, and "stopped" is not published while the process of its pid *)
(* is still to be reaped or a restart is due; an earlier process that the   *)
(* service lost track of may live on.  Only between the reaping and the     *)
(* "restarting" written after the onrestart commands may it lag behind.     *)
PublishedState ==
  \A s \in Services :
    \/ \E i \in DOMAIN job : job[i] = Op("notify_restarting", s)
    \/ /\ init_svc[s] = "running" <=> "RUNNING" \in flags[s]
       /\ "RESTARTING" \in flags[s] => init_svc[s] = "restarting"
       /\ init_svc[s] = "stopped" => pid[s] = NoPid /\ flags[s] \cap {"RUNNING", "RESTARTING"} = {}

(* Why the properties above are kept.  A service that runs or waits for its *)
(* restart is wanted, and one with an unreaped child that does not run is   *)
(* marked so that reaping the child will not restart it.                    *)
WantedIfActive ==
  \A s \in Services :
    /\ flags[s] \cap {"RUNNING", "RESTARTING"} # {} => wanted[s]
    /\ pid[s] # NoPid => flags[s] \cap {"RUNNING", "DISABLED", "RESET"} # {}

(* While restart_processes goes through the list, a service awaiting its    *)
(* restart is still ahead of it or already covered by the timer.            *)
CoveredBy(s) ==
  \/ \E i \in DOMAIN job : job[i] = Op("restart_if_needed", s)
  \/ armed # NotArmed /\ armed <= RestartDelay - elapsed[s]

TimerInv ==
  pc = "poll" => /\ \A i \in DOMAIN job : job[i].op = "restart_if_needed"
                 /\ \A s \in Services : "RESTARTING" \in flags[s] => CoveredBy(s)

SafetyInv == PidsAreOwned /\ OneState /\ WantedIfActive

(* The inductive invariant of SupervisorProofs. *)
IInv == TypeOK /\ NoLostChild /\ SafetyInv /\ TimerInv

(* Every zombie is eventually reaped, whatever the clients keep sending.    *)
ChildrenAreReaped == \A p \in Pids : proc[p] = "zombie" ~> proc[p] # "zombie"

(* A crashed service does not wait for its restart forever.                 *)
RestartsHappen ==
  \A s \in Services : "RESTARTING" \in flags[s] ~> "RESTARTING" \notin flags[s]

(* What the comment in service_start assumes of a service that is exiting: *)
(* a start never leads to two living processes of one service.             *)
OneLiveInstance ==
  \A p, q \in Pids :
    proc[p] \in Alive /\ proc[q] \in Alive /\ owner[p] = owner[q] => p = q

(* What readme.txt says of stop: a service being stopped does stop running. *)
StopStops == \A s \in Services : init_svc[s] = "stopping" ~> init_svc[s] # "stopping"
===============================================================================
