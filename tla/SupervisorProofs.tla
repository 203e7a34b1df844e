--------------------------- MODULE SupervisorProofs ---------------------------
(* Proofs about Supervisor, for every set of services, classes, pids and     *)
(* requests, and every value of the bounds.                                  *)
EXTENDS Supervisor, TLAPS

(* Unfolding a class visits services only. *)
LEMMA ForEachType ==
  ASSUME NEW name \in OpNames, NEW list \in Seq(Services)
  PROVE  ForEach(name, list) \in Seq(Ops)
<1>1. \A i \in 1 .. Len(list) : Op(name, list[i]) \in Ops
  BY DEF Op, Ops
<1>2. DOMAIN list = 1 .. Len(list) /\ Len(list) \in Nat
  OBVIOUS
<1> QED
  BY <1>1, <1>2 DEF ForEach

(* A command unfolds into well-formed calls. *)
LEMMA CallsType ==
  ASSUME NEW c \in Commands
  PROVE  Calls(c) \in Seq(Ops)
<1>1. CASE c.cmd = "restart"
  <2>1. c.arg \in Services
    BY <1>1 DEF Commands
  <2>2. Op("stop", c.arg) \in Ops /\ Op("start", c.arg) \in Ops
    BY <2>1 DEF Op, Ops, OpNames
  <2>3. Calls(c) = <<Op("stop", c.arg), Op("start", c.arg)>>
    BY <1>1 DEF Calls
  <2> QED
    BY <2>2, <2>3
<1>2. CASE c.cmd \in {"class_start", "class_stop", "class_reset"}
  <2>1. ClassMembers[c.arg] \in Seq(Services)
    BY <1>2, SupervisorAssumption DEF Commands
  <2>2. PICK name \in OpNames : Calls(c) = ForEach(name, ClassMembers[c.arg])
    BY <1>2 DEF Calls, OpNames
  <2> QED
    BY <2>1, <2>2, ForEachType
<1>3. CASE c.cmd \in {"start", "start_dynamic", "stop"}
  <2>1. c.arg \in Services
    BY <1>3 DEF Commands
  <2>2. Op(c.cmd, c.arg) \in Ops
    BY <1>3, <2>1 DEF Op, Ops, OpNames
  <2>3. Calls(c) = <<Op(c.cmd, c.arg)>>
    BY <1>3 DEF Calls
  <2> QED
    BY <2>2, <2>3
<1> QED
  BY <1>1, <1>2, <1>3 DEF Commands

-------------------------------------------------------------------------------
(* Type correctness: service_start and service_stop_or_reset first.          *)

LEMMA StartType ==
  ASSUME TypeOK, NEW s \in Services, NEW dynamic \in BOOLEAN, service_start(s, dynamic)
  PROVE  /\ flags' \in [Services -> SUBSET MutableFlags]
         /\ pid' \in [Services -> Pids \cup {NoPid}]
         /\ elapsed' \in [Services -> 0 .. RestartDelay]
         /\ init_svc' \in [Services -> {"unset", "running", "stopping", "stopped", "restarting"}]
         /\ proc' \in [Pids -> ProcStates]
         /\ owner' \in [Pids -> Services \cup {NoService}]
<1>1. 0 \in 0 .. RestartDelay /\ RestartDelay \in 0 .. RestartDelay
  BY SupervisorAssumption
<1>2. /\ Cleared(s) \in SUBSET MutableFlags
      /\ Cleared(s) \cup {"RUNNING"} \in SUBSET MutableFlags
      /\ Cleared(s) \cup {"DISABLED"} \in SUBSET MutableFlags
  BY DEF TypeOK, Cleared, MutableFlags
<1>3. CASE \E f \in SUBSET MutableFlags : NotStarted(s, f)
  BY <1>1, <1>3 DEF TypeOK, NotStarted, procVars
<1>4. CASE ForkFailed(s)
  BY <1>1, <1>2, <1>4 DEF TypeOK, ForkFailed, procVars
<1>5. CASE \E p \in Pids : Forked(s, p)
  BY <1>1, <1>2, <1>5 DEF TypeOK, Forked, ProcStates
<1> QED
  BY <1>2, <1>3, <1>4, <1>5 DEF service_start

LEMMA StopType ==
  ASSUME TypeOK, NEW s \in Services, NEW how \in {"DISABLED", "RESET"},
         service_stop_or_reset(s, how)
  PROVE  /\ flags' \in [Services -> SUBSET MutableFlags]
         /\ pid' = pid /\ elapsed' = elapsed /\ owner' = owner
         /\ init_svc' \in [Services -> {"unset", "running", "stopping", "stopped", "restarting"}]
         /\ proc' \in [Pids -> ProcStates]
<1>1. proc' \in [Pids -> ProcStates]
  BY DEF TypeOK, service_stop_or_reset, KillGroup, ProcStates
<1>2. flags' \in [Services -> SUBSET MutableFlags]
  <2>1. (flags[s] \ {"RUNNING", "RESTARTING"}) \cup
          {IF how = "RESET" /\ s \in RcDisabled THEN "DISABLED" ELSE how} \in SUBSET MutableFlags
    BY DEF TypeOK, MutableFlags
  <2> QED
    BY <2>1 DEF TypeOK, service_stop_or_reset
<1> QED
  BY <1>1, <1>2 DEF TypeOK, service_stop_or_reset

(* The head of the job is a call, and what follows it is a job. *)
LEMMA JobHead ==
  ASSUME TypeOK, job # <<>>
  PROVE  /\ Head(job) \in Ops /\ Tail(job) \in Seq(Ops)
         /\ Head(job).svc \in Services /\ Head(job).op \in OpNames
<1>1. Head(job) \in Ops /\ Tail(job) \in Seq(Ops)
  <2>1. job \in Seq(Ops)
    BY DEF TypeOK
  <2> QED
    BY <2>1
<1> QED
  BY <1>1 DEF Ops

LEMMA CallTypes == TypeOK /\ Call => TypeOK'
<1> SUFFICES ASSUME TypeOK, Call
             PROVE  TypeOK'
  OBVIOUS
<1>1. \A names : NextCall(names) =>
        /\ Head(job).svc \in Services /\ Head(job).op \in names
        /\ /\ boot' \in Seq(Commands) /\ cur_action' \in BOOLEAN
           /\ pc' \in {"execute", "restart", "poll", "property", "signal", "reap"}
           /\ ready' \subseteq {"property", "signal"}
           /\ job' \in Seq(Ops) /\ sigpending' \in BOOLEAN /\ pipe' \in 0 .. PipeCap
           /\ inbox' \in Seq(Commands)
  BY JobHead DEF NextCall, TypeOK, loopVars, sigVars
<1>2. CASE CallStart
  <2>1. (Head(job).op = "start_dynamic") \in BOOLEAN
    OBVIOUS
  <2>2. /\ flags' \in [Services -> SUBSET MutableFlags]
        /\ pid' \in [Services -> Pids \cup {NoPid}]
        /\ elapsed' \in [Services -> 0 .. RestartDelay]
        /\ init_svc' \in [Services -> {"unset", "running", "stopping", "stopped", "restarting"}]
        /\ proc' \in [Pids -> ProcStates]
        /\ owner' \in [Pids -> Services \cup {NoService}]
    BY <1>1, <1>2, <2>1, StartType DEF CallStart
  <2> QED
    BY <1>1, <1>2, <2>2 DEF CallStart, TypeOK
<1>3. CASE CallStartIfNotDisabled
  <2>1. CASE "DISABLED" \in flags[Head(job).svc]
    BY <1>1, <1>3, <2>1 DEF CallStartIfNotDisabled, TypeOK, svcVars, procVars
  <2>2. CASE service_start(Head(job).svc, FALSE)
                /\ wanted' = [wanted EXCEPT ![Head(job).svc] = TRUE]
    BY <1>1, <1>3, <2>2, StartType DEF CallStartIfNotDisabled, TypeOK
  <2> QED
    BY <1>3, <2>1, <2>2 DEF CallStartIfNotDisabled
<1>4. CASE CallStopOrReset
  <2>1. (IF Head(job).op = "reset" THEN "RESET" ELSE "DISABLED") \in {"DISABLED", "RESET"}
    OBVIOUS
  <2> QED
    BY <1>1, <1>4, <2>1, StopType DEF CallStopOrReset, TypeOK
<1>5. CASE CallRestartIfNeeded
  <2> DEFINE s == Head(job).svc
  <2>0. s \in Services
    BY <1>1, <1>5 DEF CallRestartIfNeeded
  <2>1. CASE UNCHANGED <<svcVars, procVars, armed>>
    BY <1>1, <1>5, <2>1 DEF CallRestartIfNeeded, TypeOK, svcVars, procVars
  <2>2. CASE service_start(s, FALSE) /\ UNCHANGED armed
    BY <1>1, <1>5, <2>2, <2>0, StartType DEF CallRestartIfNeeded, TypeOK
  <2>3. CASE /\ elapsed[s] < RestartDelay
             /\ armed' = Earlier(RestartDelay - elapsed[s], armed)
             /\ UNCHANGED <<svcVars, procVars>>
    <3>1. elapsed[s] \in 0 .. RestartDelay /\ RestartDelay \in Nat
      BY <2>0, SupervisorAssumption DEF TypeOK
    <3>2. armed' \in 0 .. RestartDelay \cup {NotArmed}
      BY <3>1, <2>3 DEF Earlier, TypeOK
    <3> QED
      BY <1>1, <1>5, <2>3, <3>2 DEF CallRestartIfNeeded, TypeOK, svcVars, procVars
  <2> QED
    BY <1>5, <2>1, <2>2, <2>3 DEF CallRestartIfNeeded
<1>6. CASE CallNotifyRestarting
  BY <1>1, <1>6 DEF CallNotifyRestarting, TypeOK, procVars
<1> QED
  BY <1>2, <1>3, <1>4, <1>5, <1>6 DEF Call

(* Reaping: an onrestart job is well formed. *)
LEMMA ReapType ==
  ASSUME TypeOK, NEW p \in Pids,
         ReapUntracked(p) \/ \E s \in Services : ReapService(p, s)
  PROVE  TypeOK'
<1>1. /\ proc' \in [Pids -> ProcStates]
      /\ owner' \in [Pids -> Services \cup {NoService}]
  BY DEF TypeOK, ReapUntracked, ReapService, Freed, ProcStates
<1>2. CASE ReapUntracked(p)
  BY <1>1, <1>2 DEF ReapUntracked, TypeOK, svcVars, loopVars, sigVars
<1>3. ASSUME NEW s \in Services, ReapService(p, s)
      PROVE  TypeOK'
  <2>1. Op("notify_restarting", s) \in Ops
    BY DEF Op, Ops, OpNames
  <2>2. <<>> \in Seq(Ops) /\ OnRestart[s] \o <<Op("notify_restarting", s)>> \in Seq(Ops)
    <3>1. OnRestart[s] \in Seq(Ops)
      BY SupervisorAssumption
    <3> QED
      BY <2>1, <3>1
  <2>3. job' \in Seq(Ops)
    BY <1>3, <2>2 DEF ReapService
  <2>4. flags' \in [Services -> SUBSET MutableFlags]
    BY <1>3 DEF ReapService, TypeOK, MutableFlags
  <2>5. init_svc' \in [Services -> {"unset", "running", "stopping", "stopped", "restarting"}]
    BY <1>3 DEF ReapService, TypeOK
  <2>6. pid' \in [Services -> Pids \cup {NoPid}]
    BY <1>3 DEF ReapService, TypeOK
  <2> QED
    BY <1>1, <1>3, <2>3, <2>4, <2>5, <2>6 DEF ReapService, TypeOK, loopVars, sigVars
<1> QED
  BY <1>2, <1>3

LEMMA LoopTypes == TypeOK /\ Loop => TypeOK'
<1> SUFFICES ASSUME TypeOK, Loop
             PROVE  TypeOK'
  OBVIOUS
<1>1. CASE ExecuteOneCommand
  <2>1. boot' \in Seq(Commands) /\ job' \in Seq(Ops)
    <3>1. CASE boot = <<>>
      BY <1>1, <3>1 DEF ExecuteOneCommand, TypeOK
    <3>2. CASE boot # <<>>
      <4>1. boot \in Seq(Commands)
        BY DEF TypeOK
      <4>2. Head(boot) \in Commands /\ Tail(boot) \in Seq(Commands)
        BY <4>1, <3>2
      <4> QED
        BY <1>1, <3>2, <4>2, CallsType DEF ExecuteOneCommand
    <3> QED
      BY <3>1, <3>2
  <2> QED
    BY <1>1, <2>1 DEF ExecuteOneCommand, LoopAt, TypeOK, svcVars, procVars
<1>2. CASE RestartProcesses
  <2>1. job' \in Seq(Ops)
    BY <1>2, ForEachType, SupervisorAssumption DEF RestartProcesses, OpNames
  <2> QED
    BY <1>2, <2>1 DEF RestartProcesses, LoopAt, TypeOK, svcVars, procVars
<1>3. CASE Poll
  BY <1>3 DEF Poll, LoopAt, TypeOK, svcVars, procVars
<1>4. CASE HandlePropertySetFd
  <2>1. inbox' \in Seq(Commands) /\ job' \in Seq(Ops)
    <3>1. CASE ~("property" \in ready /\ inbox # <<>>)
      BY <1>4, <3>1 DEF HandlePropertySetFd, TypeOK
    <3>2. CASE "property" \in ready /\ inbox # <<>>
      <4>1. inbox \in Seq(Commands)
        BY DEF TypeOK
      <4>2. Head(inbox) \in Commands /\ Tail(inbox) \in Seq(Commands)
        BY <3>2, <4>1
      <4> QED
        BY <1>4, <3>2, <4>2, CallsType DEF HandlePropertySetFd
    <3> QED
      BY <3>1, <3>2
  <2> QED
    BY <1>4, <2>1 DEF HandlePropertySetFd, LoopAt, TypeOK, svcVars, procVars
<1>5. CASE HandleSignal
  <2>1. pipe' \in 0 .. PipeCap
    BY <1>5, SupervisorAssumption DEF HandleSignal, TypeOK
  <2> QED
    BY <1>5, <2>1 DEF HandleSignal, LoopAt, TypeOK, svcVars, procVars
<1>6. CASE \E p \in Pids : ReapUntracked(p) \/ \E s \in Services : ReapService(p, s)
  BY <1>6, ReapType
<1>7. CASE ReapDone
  BY <1>7 DEF ReapDone, LoopAt, TypeOK, svcVars, procVars
<1> QED
  BY <1>1, <1>2, <1>3, <1>4, <1>5, <1>6, <1>7, CallTypes DEF Loop

LEMMA EnvironmentTypes ==
  ASSUME TypeOK,
         \/ \E p \in Pids : ChildSetsGroup(p) \/ Exit(p)
         \/ SigchldHandler
         \/ \E c \in Requests : ClientSends(c)
         \/ Tick
  PROVE  TypeOK'
<1>1. CASE \E p \in Pids : ChildSetsGroup(p) \/ Exit(p)
  BY <1>1 DEF ChildSetsGroup, Exit, TypeOK, userVars, sigVars, ProcStates
<1>2. CASE SigchldHandler
  <2>1. pipe' \in 0 .. PipeCap
    BY <1>2, SupervisorAssumption DEF SigchldHandler, TypeOK
  <2>2. pc' \in {"execute", "restart", "poll", "property", "signal", "reap"}
    BY <1>2 DEF SigchldHandler, TypeOK
  <2> QED
    BY <1>2, <2>1, <2>2 DEF SigchldHandler, TypeOK, userVars, procVars
<1>3. ASSUME NEW c \in Requests, ClientSends(c)
      PROVE  TypeOK'
  <2>1. inbox' \in Seq(Commands)
    <3>1. c \in Commands /\ inbox \in Seq(Commands)
      BY SupervisorAssumption DEF TypeOK
    <3> QED
      BY <1>3, <3>1 DEF ClientSends
  <2> QED
    BY <1>3, <2>1 DEF ClientSends, TypeOK, userVars, procVars, sigVars
<1>4. CASE Tick
  <2>1. elapsed' \in [Services -> 0 .. RestartDelay]
    BY <1>4, SupervisorAssumption DEF Tick, TypeOK
  <2>2. armed' \in 0 .. RestartDelay \cup {NotArmed}
    BY <1>4, SupervisorAssumption DEF Tick, TypeOK
  <2> QED
    BY <1>4, <2>1, <2>2 DEF Tick, TypeOK, userVars, procVars, sigVars
<1> QED
  BY <1>1, <1>2, <1>3, <1>4

LEMMA InitType == Init => TypeOK
<1> SUFFICES ASSUME Init
             PROVE  TypeOK
  OBVIOUS
<1>1. 0 \in 0 .. PipeCap /\ RestartDelay \in 0 .. RestartDelay
  BY SupervisorAssumption
<1>2. <<>> \in Seq(Ops) /\ <<>> \in Seq(Commands) /\ Boot \in Seq(Commands)
  BY SupervisorAssumption
<1>3. "free" \in ProcStates
  BY DEF ProcStates
<1>4. flags \in [Services -> SUBSET MutableFlags]
  BY DEF Init, MutableFlags
<1> QED
  BY <1>1, <1>2, <1>3, <1>4 DEF Init, TypeOK

LEMMA NextType == TypeOK /\ [Next]_vars => TypeOK'
<1> SUFFICES ASSUME TypeOK, [Next]_vars
             PROVE  TypeOK'
  OBVIOUS
<1>1. CASE Loop
  BY <1>1, LoopTypes
<1>2. CASE \/ \E p \in Pids : ChildSetsGroup(p) \/ Exit(p)
           \/ SigchldHandler
           \/ \E c \in Requests : ClientSends(c)
           \/ Tick
  BY <1>2, EnvironmentTypes
<1>3. CASE UNCHANGED vars
  BY <1>3 DEF vars, TypeOK
<1> QED
  BY <1>1, <1>2, <1>3 DEF Next

(* The memory of the monitor, the kernel's process table and the queues keep *)
(* their shape: flags only the run-time bits, jobs only well-formed calls.   *)
THEOREM TypeCorrect == Spec => []TypeOK
  BY InitType, NextType, PTL DEF Spec

-------------------------------------------------------------------------------
(* No dead child is lost.                                                    *)

LEMMA NoLostChildStep == TypeOK /\ NoLostChild /\ [Next]_vars => NoLostChild'
<1> SUFFICES ASSUME TypeOK, NoLostChild, [Next]_vars
             PROVE  NoLostChild'
  OBVIOUS
<1>1. CASE Call
  <2>1. /\ sigpending' = sigpending /\ pipe' = pipe /\ pc' = pc /\ ready' = ready
        /\ \A p \in Pids : proc'[p] = "zombie" => proc[p] = "zombie"
    <3>1. ASSUME NEW s \in Services, NEW dynamic \in BOOLEAN, service_start(s, dynamic)
          PROVE  \A p \in Pids : proc'[p] = "zombie" => proc[p] = "zombie"
      BY <3>1 DEF service_start, NotStarted, ForkFailed, Forked, procVars, TypeOK
    <3>2. ASSUME NEW s \in Services, NEW how, service_stop_or_reset(s, how)
          PROVE  \A p \in Pids : proc'[p] = "zombie" => proc[p] = "zombie"
      BY <3>2 DEF service_stop_or_reset, KillGroup, TypeOK
    <3>3. job # <<>> /\ Head(job).svc \in Services
      BY <1>1, JobHead DEF Call, CallStart, CallStartIfNotDisabled, CallStopOrReset,
                           CallRestartIfNeeded, CallNotifyRestarting, NextCall
    <3>4. (Head(job).op = "start_dynamic") \in BOOLEAN
      OBVIOUS
    <3> QED
      BY <1>1, <3>1, <3>2, <3>3, <3>4
      DEF Call, CallStart, CallStartIfNotDisabled, CallStopOrReset, CallRestartIfNeeded,
          CallNotifyRestarting, NextCall, loopVars, sigVars, procVars
  <2> QED
    BY <2>1 DEF NoLostChild
<1>2. CASE ExecuteOneCommand \/ RestartProcesses
  BY <1>2 DEF ExecuteOneCommand, RestartProcesses, LoopAt, NoLostChild, procVars
<1>3. CASE Poll
  <2>1. pipe > 0 => "signal" \in ready' /\ pc' = "property"
    BY <1>3 DEF Poll, LoopAt
  <2> QED
    BY <1>3, <2>1 DEF Poll, LoopAt, NoLostChild, procVars
<1>4. CASE HandlePropertySetFd \/ HandleSignal
  BY <1>4 DEF HandlePropertySetFd, HandleSignal, LoopAt, NoLostChild, procVars
<1>5. CASE \E p \in Pids : ReapUntracked(p) \/ \E s \in Services : ReapService(p, s)
  BY <1>5 DEF ReapUntracked, ReapService, NoLostChild, loopVars
<1>6. CASE ReapDone
  BY <1>6 DEF ReapDone, LoopAt, NoLostChild, procVars
<1>7. CASE \E p \in Pids : ChildSetsGroup(p) \/ Exit(p)
  BY <1>7 DEF ChildSetsGroup, Exit, NoLostChild, TypeOK, userVars, sigVars
<1>8. CASE SigchldHandler
  <2>1. pipe' > 0
    BY <1>8, SupervisorAssumption DEF SigchldHandler, TypeOK
  <2> QED
    BY <2>1 DEF NoLostChild
<1>9. CASE (\E c \in Requests : ClientSends(c)) \/ Tick \/ UNCHANGED vars
  BY <1>9 DEF ClientSends, Tick, NoLostChild, vars, userVars, procVars, sigVars
<1> QED
  BY <1>1, <1>2, <1>3, <1>4, <1>5, <1>6, <1>7, <1>8, <1>9 DEF Next, Loop

(* Although SIGCHLD coalesces and the socketpair overflows, every zombie is  *)
(* covered by a pending signal, an unread byte or a reaping under way.       *)
THEOREM ZombiesAreNoticed == Spec => []NoLostChild
<1>1. Init => NoLostChild
  BY DEF Init, NoLostChild
<1> QED
  BY <1>1, TypeCorrect, NoLostChildStep, PTL DEF Spec

-------------------------------------------------------------------------------
(* Ownership of pids, exclusive states, and who is wanted.                   *)

(* service_start keeps them when it is an explicit request, and when the     *)
(* service was wanted already (a restart).                                   *)
LEMMA StartSafe ==
  ASSUME TypeOK, SafetyInv, NEW s \in Services, NEW dynamic \in BOOLEAN,
         service_start(s, dynamic), wanted' = [wanted EXCEPT ![s] = TRUE]
  PROVE  SafetyInv'
<1>1. "RUNNING" \in flags[s] => Cleared(s) = {"RUNNING"} /\ pid[s] # NoPid
  BY DEF SafetyInv, OneState, Cleared
<1>2. "RUNNING" \notin flags[s] => Cleared(s) = {}
  BY DEF TypeOK, Cleared, MutableFlags
<1>3. CASE \E p \in Pids : Forked(s, p) /\ "RUNNING" \notin flags[s]
  <2> PICK p \in Pids : Forked(s, p) /\ "RUNNING" \notin flags[s]
    BY <1>3
  <2>1. p # NoPid /\ proc[p] = "free"
    BY SupervisorAssumption DEF Forked
  <2>2. flags' = [flags EXCEPT ![s] = {"RUNNING"}]
    BY <1>2 DEF Forked
  <2>3. PidsAreOwned'
    BY <2>1 DEF TypeOK, SafetyInv, PidsAreOwned, Forked
  <2>4. OneState'
    BY <2>1, <2>2 DEF TypeOK, SafetyInv, OneState, Forked
  <2>5. WantedIfActive'
    BY <2>1, <2>2 DEF TypeOK, SafetyInv, WantedIfActive, Forked
  <2> QED
    BY <2>3, <2>4, <2>5 DEF SafetyInv
<1>4. CASE ForkFailed(s) /\ "RUNNING" \notin flags[s]
  <2>1. flags' = [flags EXCEPT ![s] = {}]
    BY <1>2, <1>4 DEF ForkFailed
  <2>2. PidsAreOwned'
    BY <1>4 DEF TypeOK, SafetyInv, PidsAreOwned, ForkFailed, procVars
  <2>3. OneState'
    BY <1>4, <2>1 DEF TypeOK, SafetyInv, OneState, ForkFailed
  <2>4. WantedIfActive'
    BY <1>4, <2>1 DEF TypeOK, SafetyInv, WantedIfActive, ForkFailed
  <2> QED
    BY <2>2, <2>3, <2>4 DEF SafetyInv
<1>5. CASE NotStarted(s, Cleared(s)) /\ "RUNNING" \in flags[s]
  <2>1. flags' = [flags EXCEPT ![s] = {"RUNNING"}] /\ UNCHANGED <<pid, proc, owner>>
    BY <1>1, <1>5 DEF NotStarted, procVars
  <2>2. PidsAreOwned' /\ OneState'
    BY <1>1, <1>5, <2>1 DEF TypeOK, SafetyInv, PidsAreOwned, OneState
  <2>3. WantedIfActive'
    BY <1>5, <2>1 DEF TypeOK, SafetyInv, WantedIfActive
  <2> QED
    BY <2>2, <2>3 DEF SafetyInv
<1>6. CASE NotStarted(s, Cleared(s) \cup {"DISABLED"}) /\ "RUNNING" \notin flags[s]
  <2>1. flags' = [flags EXCEPT ![s] = {"DISABLED"}] /\ UNCHANGED <<pid, proc, owner>>
    BY <1>2, <1>6 DEF NotStarted, procVars
  <2>2. PidsAreOwned' /\ OneState'
    BY <2>1 DEF TypeOK, SafetyInv, PidsAreOwned, OneState
  <2>3. WantedIfActive'
    BY <2>1 DEF TypeOK, SafetyInv, WantedIfActive
  <2> QED
    BY <2>2, <2>3 DEF SafetyInv
<1> QED
  BY <1>3, <1>4, <1>5, <1>6 DEF service_start

LEMMA StopSafe ==
  ASSUME TypeOK, SafetyInv, NEW s \in Services, NEW how \in {"DISABLED", "RESET"},
         service_stop_or_reset(s, how), wanted' = [wanted EXCEPT ![s] = FALSE]
  PROVE  SafetyInv'
<1>1. PICK bit \in {"DISABLED", "RESET"} :
        flags' = [flags EXCEPT ![s] = (flags[s] \ {"RUNNING", "RESTARTING"}) \cup {bit}]
  BY DEF service_stop_or_reset
<1>2. UNCHANGED <<pid, owner>> /\ \A p \in Pids : proc'[p] = "free" => proc[p] = "free"
  BY DEF service_stop_or_reset, KillGroup, TypeOK
<1>3. PidsAreOwned'
  BY <1>2 DEF TypeOK, SafetyInv, PidsAreOwned
<1>4. OneState'
  BY <1>1, <1>2 DEF TypeOK, SafetyInv, OneState
<1>5. WantedIfActive'
  BY <1>1, <1>2 DEF TypeOK, SafetyInv, WantedIfActive
<1> QED
  BY <1>3, <1>4, <1>5 DEF SafetyInv

LEMMA CallSafe == TypeOK /\ SafetyInv /\ Call => SafetyInv'
<1> SUFFICES ASSUME TypeOK, SafetyInv, Call
             PROVE  SafetyInv'
  OBVIOUS
<1> DEFINE s == Head(job).svc
<1>0. s \in Services
  BY JobHead DEF Call, CallStart, CallStartIfNotDisabled, CallStopOrReset,
                 CallRestartIfNeeded, CallNotifyRestarting, NextCall
<1>1. ASSUME UNCHANGED <<flags, pid, proc, owner, wanted>>
      PROVE  SafetyInv'
  BY <1>1 DEF SafetyInv, PidsAreOwned, OneState, WantedIfActive
<1>2. CASE CallStart
  <2>1. (Head(job).op = "start_dynamic") \in BOOLEAN
    OBVIOUS
  <2> QED
    BY <1>0, <1>2, <2>1, StartSafe DEF CallStart
<1>3. CASE CallStartIfNotDisabled
  <2>1. CASE UNCHANGED <<svcVars, procVars, wanted>>
    BY <1>1, <2>1 DEF svcVars, procVars
  <2>2. CASE service_start(s, FALSE) /\ wanted' = [wanted EXCEPT ![s] = TRUE]
    BY <1>0, <2>2, StartSafe
  <2> QED
    BY <1>3, <2>1, <2>2 DEF CallStartIfNotDisabled
<1>4. CASE CallStopOrReset
  <2>1. (IF Head(job).op = "reset" THEN "RESET" ELSE "DISABLED") \in {"DISABLED", "RESET"}
    OBVIOUS
  <2> QED
    BY <1>0, <1>4, <2>1, StopSafe DEF CallStopOrReset
<1>5. CASE CallRestartIfNeeded
  <2>1. CASE UNCHANGED <<svcVars, procVars>>
    BY <1>1, <1>5, <2>1 DEF CallRestartIfNeeded, svcVars, procVars
  <2>2. CASE service_start(s, FALSE) /\ "RESTARTING" \in flags[s]
    <3>1. wanted[s] = TRUE
      BY <1>0, <2>2 DEF TypeOK, SafetyInv, WantedIfActive
    <3>2. wanted' = [wanted EXCEPT ![s] = TRUE]
      BY <1>0, <1>5, <3>1 DEF CallRestartIfNeeded, TypeOK
    <3> QED
      BY <1>0, <2>2, <3>2, StartSafe
  <2> QED
    BY <1>5, <2>1, <2>2 DEF CallRestartIfNeeded
<1>6. CASE CallNotifyRestarting
  BY <1>1, <1>6 DEF CallNotifyRestarting, procVars
<1> QED
  BY <1>2, <1>3, <1>4, <1>5, <1>6 DEF Call

(* Reaping frees a pid that afterwards no service holds. *)
LEMMA ReapSafe ==
  ASSUME TypeOK, SafetyInv, NEW p \in Pids,
         ReapUntracked(p) \/ \E s \in Services : ReapService(p, s)
  PROVE  SafetyInv'
<1>1. CASE ReapUntracked(p)
  <2>1. UNCHANGED <<flags, pid, wanted>> /\ \A s \in Services : pid[s] # p
    BY <1>1 DEF ReapUntracked, svcVars
  <2>2. PidsAreOwned'
    BY <1>1, <2>1 DEF ReapUntracked, Freed, TypeOK, SafetyInv, PidsAreOwned
  <2> QED
    BY <2>1, <2>2 DEF SafetyInv, OneState, WantedIfActive
<1>2. ASSUME NEW s \in Services, ReapService(p, s)
      PROVE  SafetyInv'
  <2>1. pid' = [pid EXCEPT ![s] = NoPid] /\ pid[s] = p /\ p # NoPid /\ wanted' = wanted
    BY <1>2, SupervisorAssumption DEF ReapService
  <2>2. \A t \in Services : t # s => pid[t] # p
    BY <2>1 DEF SafetyInv, PidsAreOwned, TypeOK
  <2>3. PidsAreOwned'
    BY <1>2, <2>1, <2>2 DEF ReapService, Freed, TypeOK, SafetyInv, PidsAreOwned
  <2>4. PICK f \in SUBSET MutableFlags :
          /\ flags' = [flags EXCEPT ![s] = f] /\ "RUNNING" \notin f
          /\ "RESTARTING" \in f => f = {"RESTARTING"} /\ wanted[s]
    <3>1. "RESTARTING" \notin flags[s]
      BY <2>1 DEF SafetyInv, OneState
    <3> DEFINE dead == (flags[s] \ {"RUNNING"}) \cup (IF s \in Oneshot THEN {"DISABLED"} ELSE {})
    <3>2. dead \in SUBSET MutableFlags /\ "RUNNING" \notin dead /\ "RESTARTING" \notin dead
      BY <3>1 DEF TypeOK, MutableFlags
    <3>3. CASE dead \cap {"DISABLED", "RESET"} # {}
      BY <1>2, <3>2, <3>3 DEF ReapService
    <3>4. CASE dead \cap {"DISABLED", "RESET"} = {}
      <4>1. dead \cup {"RESTARTING"} = {"RESTARTING"} /\ {"RESTARTING"} \in SUBSET MutableFlags
        BY <3>2, <3>4 DEF MutableFlags
      <4>2. wanted[s]
        BY <2>1, <3>4 DEF SafetyInv, WantedIfActive
      <4>3. flags' = [flags EXCEPT ![s] = dead \cup {"RESTARTING"}]
        BY <1>2, <3>4 DEF ReapService
      <4> QED
        BY <4>1, <4>2, <4>3
    <3> QED
      BY <3>3, <3>4
  <2>5. OneState'
    BY <2>1, <2>4 DEF TypeOK, SafetyInv, OneState
  <2>6. WantedIfActive'
    BY <2>1, <2>4 DEF TypeOK, SafetyInv, WantedIfActive
  <2> QED
    BY <2>3, <2>5, <2>6 DEF SafetyInv
<1> QED
  BY <1>1, <1>2

LEMMA SafetyStep == TypeOK /\ SafetyInv /\ [Next]_vars => SafetyInv'
<1> SUFFICES ASSUME TypeOK, SafetyInv, [Next]_vars
             PROVE  SafetyInv'
  OBVIOUS
<1>1. CASE Call
  BY <1>1, CallSafe
<1>2. CASE \E p \in Pids : ReapUntracked(p) \/ \E s \in Services : ReapService(p, s)
  BY <1>2, ReapSafe
<1>3. ASSUME UNCHANGED <<flags, pid, owner, wanted>>,
             \A p \in Pids : proc'[p] = "free" => proc[p] = "free"
      PROVE  SafetyInv'
  BY <1>3 DEF TypeOK, SafetyInv, PidsAreOwned, OneState, WantedIfActive
<1>4. CASE \/ ExecuteOneCommand \/ RestartProcesses \/ Poll \/ HandlePropertySetFd
           \/ HandleSignal \/ ReapDone
  BY <1>3, <1>4 DEF ExecuteOneCommand, RestartProcesses, Poll, HandlePropertySetFd,
                    HandleSignal, ReapDone, LoopAt, svcVars, procVars
<1>5. CASE \E p \in Pids : ChildSetsGroup(p) \/ Exit(p)
  BY <1>3, <1>5 DEF ChildSetsGroup, Exit, TypeOK, userVars
<1>6. CASE SigchldHandler \/ (\E c \in Requests : ClientSends(c)) \/ Tick \/ UNCHANGED vars
  BY <1>3, <1>6 DEF SigchldHandler, ClientSends, Tick, vars, userVars, procVars
<1> QED
  BY <1>1, <1>2, <1>4, <1>5, <1>6 DEF Next, Loop

LEMMA Safety == Spec => []SafetyInv
<1>1. Init => SafetyInv
  BY DEF Init, SafetyInv, PidsAreOwned, OneState, WantedIfActive
<1> QED
  BY <1>1, TypeCorrect, SafetyStep, PTL DEF Spec

(* A pid the monitor signals or reaps by belongs to that very service.       *)
THEOREM PidsOwned == Spec => []PidsAreOwned
<1>1. SafetyInv => PidsAreOwned
  BY DEF SafetyInv
<1> QED
  BY <1>1, Safety, PTL

(* A service is running, awaiting its restart or marked stopped, never two.  *)
THEOREM ExclusiveStates == Spec => []OneState
<1>1. SafetyInv => OneState
  BY DEF SafetyInv
<1> QED
  BY <1>1, Safety, PTL

(* The restart timer never forks a service whose last request was a stop.    *)
THEOREM StopIsHonoured == Spec => RespawnsOnlyWanted
<1>1. TypeOK /\ SafetyInv /\ [Next]_vars =>
        [\A s \in Services :
           (job # <<>> /\ Head(job) = Op("restart_if_needed", s) /\ pid'[s] # pid[s]
              /\ pid'[s] # NoPid) => wanted[s]]_vars
  <2> SUFFICES ASSUME TypeOK, SafetyInv, Next, NEW s \in Services, job # <<>>,
                      Head(job) = Op("restart_if_needed", s), pid'[s] # pid[s], pid'[s] # NoPid
               PROVE  wanted[s]
    OBVIOUS
  <2>1. Head(job).op = "restart_if_needed" /\ Head(job).svc = s
    BY DEF Op
  <2>2. CallRestartIfNeeded
    BY <2>1 DEF Next, Loop, Call, CallStart, CallStartIfNotDisabled, CallStopOrReset,
                CallNotifyRestarting, NextCall, ExecuteOneCommand, RestartProcesses, Poll,
                HandlePropertySetFd, HandleSignal, ReapUntracked, ReapService, ReapDone,
                LoopAt, ChildSetsGroup, Exit, SigchldHandler, ClientSends, Tick, userVars,
                svcVars
  <2>3. "RESTARTING" \in flags[s]
    BY <2>1, <2>2 DEF CallRestartIfNeeded, svcVars
  <2> QED
    BY <2>3 DEF SafetyInv, WantedIfActive
<1> QED
  BY <1>1, TypeCorrect, Safety, PTL DEF Spec, RespawnsOnlyWanted

-------------------------------------------------------------------------------
(* The timeout of poll() covers every restart that is due.                   *)

(* A call of restart_processes: s leaves the list, and if it is not started  *)
(* the timer covers it; the services behind it in the list stay there.       *)
LEMMA TimerCall == TypeOK /\ SafetyInv /\ TimerInv /\ Call => TimerInv'
<1> SUFFICES ASSUME TypeOK, SafetyInv, TimerInv, Call, pc = "poll"
             PROVE  TimerInv'
  BY DEF TimerInv, Call, CallStart, CallStartIfNotDisabled, CallStopOrReset,
         CallRestartIfNeeded, CallNotifyRestarting, NextCall, loopVars
<1>1. /\ job # <<>> /\ job \in Seq(Ops) /\ job' = Tail(job) /\ Head(job).svc \in Services
      /\ DOMAIN job = 1 .. Len(job) /\ Head(job) = job[1] /\ 1 \in DOMAIN job
  <2>1. job # <<>> /\ job' = Tail(job)
    BY DEF Call, CallStart, CallStartIfNotDisabled, CallStopOrReset,
           CallRestartIfNeeded, CallNotifyRestarting, NextCall
  <2>2. job \in Seq(Ops)
    BY DEF TypeOK
  <2> QED
    BY <2>1, <2>2, JobHead
<1> PICK s \in Services : s = Head(job).svc
  BY <1>1
<1>2. Head(job).op = "restart_if_needed"
  BY <1>1 DEF TimerInv
<1>3. CallRestartIfNeeded
  BY <1>2 DEF Call, CallStart, CallStartIfNotDisabled, CallStopOrReset,
              CallNotifyRestarting, NextCall
<1>4. /\ DOMAIN Tail(job) = 1 .. Len(job) - 1
      /\ \A i \in DOMAIN Tail(job) : Tail(job)[i] = job[i + 1] /\ i + 1 \in DOMAIN job
  BY <1>1
<1>5. \A i \in DOMAIN job' : job'[i].op = "restart_if_needed"
  BY <1>1, <1>4 DEF TimerInv
<1>6. ASSUME NEW t \in Services, t # s, "RESTARTING" \in flags'[t]
      PROVE  CoveredBy(t)'
  <2>1. "RESTARTING" \in flags[t] /\ elapsed'[t] = elapsed[t]
    BY <1>1, <1>3, <1>6
    DEF CallRestartIfNeeded, service_start, NotStarted, ForkFailed, Forked, svcVars, TypeOK
  <2>2. CoveredBy(t)
    BY <2>1 DEF TimerInv
  <2>3. CASE \E i \in DOMAIN job : job[i] = Op("restart_if_needed", t)
    <3>1. PICK i \in DOMAIN job : job[i] = Op("restart_if_needed", t)
      BY <2>3
    <3>2. i # 1
      BY <1>1, <1>6, <3>1 DEF Op
    <3>3. i - 1 \in DOMAIN Tail(job) /\ Tail(job)[i - 1] = Op("restart_if_needed", t)
      BY <1>1, <1>4, <3>1, <3>2
    <3> QED
      BY <1>1, <3>3 DEF CoveredBy, Op
  <2>4. CASE armed # NotArmed /\ armed <= RestartDelay - elapsed[t]
    <3>1. armed' # NotArmed /\ armed' <= armed
      <4>1. elapsed[s] \in 0 .. RestartDelay /\ RestartDelay \in Nat /\ armed \in Nat
        BY <1>1, <2>4, SupervisorAssumption DEF TypeOK
      <4>2. RestartDelay - elapsed[s] \in Nat
        BY <4>1
      <4>3. armed' = armed \/ armed' = Earlier(RestartDelay - elapsed[s], armed)
        BY <1>3 DEF CallRestartIfNeeded
      <4>4. armed' \in Nat /\ armed' <= armed
        BY <2>4, <4>1, <4>2, <4>3 DEF Earlier
      <4> QED
        BY <4>4, SupervisorAssumption
    <3>2. elapsed[t] \in Nat /\ RestartDelay \in Nat /\ armed \in Nat /\ armed' \in Nat
      <4>1. armed' \in 0 .. RestartDelay \cup {NotArmed}
        BY CallTypes DEF TypeOK
      <4> QED
        BY <1>6, <2>4, <3>1, <4>1, SupervisorAssumption DEF TypeOK
    <3> QED
      BY <2>1, <2>4, <3>1, <3>2 DEF CoveredBy
  <2> QED
    BY <2>2, <2>3, <2>4 DEF CoveredBy
<1>7. ASSUME "RESTARTING" \in flags'[s]
      PROVE  CoveredBy(s)'
  <2>1. ~service_start(s, FALSE)
    <3>1. ASSUME service_start(s, FALSE)
          PROVE  flags'[s] \subseteq Cleared(s) \cup {"RUNNING", "DISABLED"}
      BY <1>1, <3>1 DEF service_start, NotStarted, ForkFailed, Forked, TypeOK
    <3> QED
      BY <1>7, <3>1 DEF Cleared
  <2>2. /\ elapsed[s] < RestartDelay /\ elapsed' = elapsed
        /\ armed' = Earlier(RestartDelay - elapsed[s], armed)
    BY <1>3, <1>7, <2>1 DEF CallRestartIfNeeded, svcVars
  <2>3. elapsed[s] \in 0 .. RestartDelay /\ RestartDelay \in Nat
    BY <1>1, SupervisorAssumption DEF TypeOK
  <2>4. armed' \in Nat /\ armed' <= RestartDelay - elapsed[s]
    <3>1. CASE armed = NotArmed
      BY <2>2, <2>3, <3>1 DEF Earlier
    <3>2. CASE armed \in Nat
      BY <2>2, <2>3, <3>2 DEF Earlier
    <3> QED
      BY <3>1, <3>2 DEF TypeOK
  <2>5. armed' # NotArmed
    BY <2>4, SupervisorAssumption
  <2> QED
    BY <2>2, <2>4, <2>5 DEF CoveredBy
<1> QED
  BY <1>5, <1>6, <1>7 DEF TimerInv

LEMMA TimerStep == TypeOK /\ SafetyInv /\ TimerInv /\ [Next]_vars => TimerInv'
<1> SUFFICES ASSUME TypeOK, SafetyInv, TimerInv, [Next]_vars
             PROVE  TimerInv'
  OBVIOUS
<1>1. CASE Call
  BY <1>1, TimerCall
<1>2. CASE RestartProcesses
  <2>1. job' = ForEach("restart_if_needed", ServiceList) /\ DOMAIN job' = DOMAIN ServiceList
    BY <1>2 DEF RestartProcesses, ForEach
  <2>2. \A i \in DOMAIN job' : job'[i] = Op("restart_if_needed", ServiceList[i])
    BY <2>1 DEF ForEach
  <2>3. \A s \in Services : \E i \in DOMAIN job' : job'[i] = Op("restart_if_needed", s)
    BY <2>1, <2>2, SupervisorAssumption
  <2> QED
    BY <2>2, <2>3 DEF TimerInv, CoveredBy, Op
<1>3. CASE ExecuteOneCommand \/ Poll \/ HandlePropertySetFd \/ HandleSignal \/ ReapDone
  BY <1>3 DEF ExecuteOneCommand, Poll, HandlePropertySetFd, HandleSignal, ReapDone, LoopAt,
              TimerInv
<1>4. CASE \E p \in Pids : ReapUntracked(p) \/ \E s \in Services : ReapService(p, s)
  BY <1>4 DEF ReapUntracked, ReapService, TimerInv, loopVars
<1>5. ASSUME UNCHANGED <<job, flags, elapsed, armed>>, pc' \in {pc, "execute"}
      PROVE  TimerInv'
  BY <1>5 DEF TimerInv, CoveredBy
<1>6. CASE \/ \E p \in Pids : ChildSetsGroup(p) \/ Exit(p)
           \/ SigchldHandler \/ (\E c \in Requests : ClientSends(c)) \/ UNCHANGED vars
  BY <1>5, <1>6 DEF ChildSetsGroup, Exit, SigchldHandler, ClientSends, vars, userVars
<1>7. CASE Tick
  <2>1. UNCHANGED <<job, flags, pc>>
    BY <1>7 DEF Tick, userVars
  <2>2. ASSUME NEW s \in Services, armed # NotArmed, armed <= RestartDelay - elapsed[s]
        PROVE  armed' # NotArmed /\ armed' <= RestartDelay - elapsed'[s]
    <3>1. /\ armed \in 0 .. RestartDelay /\ elapsed[s] \in 0 .. RestartDelay
          /\ RestartDelay \in Nat
      BY <2>2, SupervisorAssumption DEF TypeOK
    <3>2. elapsed'[s] = IF elapsed[s] < RestartDelay THEN elapsed[s] + 1 ELSE RestartDelay
      BY <1>7 DEF Tick
    <3>3. armed' = IF armed = 0 THEN 0 ELSE armed - 1
      BY <1>7, <2>2 DEF Tick
    <3>4. armed' \in Nat
      BY <3>1, <3>3
    <3>5. armed' <= RestartDelay - elapsed'[s]
      BY <2>2, <3>1, <3>2, <3>3
    <3>6. armed' # NotArmed
      BY <3>4, SupervisorAssumption
    <3> QED
      BY <3>5, <3>6
  <2> QED
    BY <2>1, <2>2 DEF TimerInv, CoveredBy
<1> QED
  BY <1>1, <1>2, <1>3, <1>4, <1>6, <1>7 DEF Next, Loop

(* The monitor never sleeps past a restart that is due.                      *)
THEOREM TimerIsArmed == Spec => []TimerCoversRestarts
<1>1. Init => TimerInv
  BY DEF Init, TimerInv
<1>2. TimerInv => TimerCoversRestarts
  BY DEF TimerInv, TimerCoversRestarts, CoveredBy
<1> QED
  BY <1>1, <1>2, TypeCorrect, Safety, TimerStep, PTL DEF Spec

-------------------------------------------------------------------------------
(* What clients read in init.svc.<name>.                                     *)

(* onrestart commands touch other services than their own; those that touch  *)
(* their own run between its reaping and the "restarting" that is published  *)
(* at their end.                                                             *)
OnRestartElsewhere ==
  \A s \in Services : \A i \in DOMAIN OnRestart[s] :
    OnRestart[s][i].svc # s /\ OnRestart[s][i].op # "notify_restarting"

(* A service whose "restarting" is still to be published is left alone.      *)
NotifyInv ==
  \A i \in DOMAIN job : job[i].op = "notify_restarting" =>
    LET s == job[i].svc
    IN /\ flags[s] = {"RESTARTING"}
       /\ \A j \in DOMAIN job : j # i => job[j].svc # s

Published(s) ==
  /\ init_svc[s] = "running" <=> "RUNNING" \in flags[s]
  /\ "RESTARTING" \in flags[s] => init_svc[s] = "restarting"
  /\ init_svc[s] = "stopped" => pid[s] = NoPid /\ flags[s] \cap {"RUNNING", "RESTARTING"} = {}

ToNotify(s) == \E i \in DOMAIN job : job[i] = Op("notify_restarting", s)

PublishedInv == NotifyInv /\ \A s \in Services : ToNotify(s) \/ Published(s)

(* service_start and service_stop_or_reset publish what they do, and touch   *)
(* no other service.                                                         *)
LEMMA StartPublishes ==
  ASSUME TypeOK, OneState, NEW s \in Services, NEW dynamic \in BOOLEAN,
         service_start(s, dynamic)
  PROVE  /\ Published(s) => Published(s)'
         /\ \A t \in Services : t # s =>
              flags'[t] = flags[t] /\ pid'[t] = pid[t] /\ init_svc'[t] = init_svc[t]
<1>1. "RUNNING" \in flags[s] => Cleared(s) = {"RUNNING"}
  BY DEF OneState, Cleared
<1>2. "RUNNING" \notin flags[s] => Cleared(s) = {}
  BY DEF TypeOK, Cleared, MutableFlags
<1>3. CASE \E p \in Pids : Forked(s, p) /\ "RUNNING" \notin flags[s]
  <2> PICK p \in Pids : Forked(s, p) /\ "RUNNING" \notin flags[s]
    BY <1>3
  <2>1. flags' = [flags EXCEPT ![s] = {"RUNNING"}]
    BY <1>2 DEF Forked
  <2> QED
    BY <2>1 DEF TypeOK, Forked, Published
<1>4. CASE ForkFailed(s) /\ "RUNNING" \notin flags[s]
  <2>1. flags' = [flags EXCEPT ![s] = {}]
    BY <1>2, <1>4 DEF ForkFailed
  <2> QED
    BY <1>4, <2>1 DEF TypeOK, ForkFailed, Published
<1>5. CASE NotStarted(s, Cleared(s)) /\ "RUNNING" \in flags[s]
  <2>1. flags' = [flags EXCEPT ![s] = {"RUNNING"}] /\ UNCHANGED <<pid, init_svc>>
    BY <1>1, <1>5 DEF NotStarted
  <2> QED
    BY <1>5, <2>1 DEF TypeOK, Published
<1>6. CASE NotStarted(s, Cleared(s) \cup {"DISABLED"}) /\ "RUNNING" \notin flags[s]
  <2>1. flags' = [flags EXCEPT ![s] = {"DISABLED"}] /\ UNCHANGED <<pid, init_svc>>
    BY <1>2, <1>6 DEF NotStarted
  <2> QED
    BY <1>6, <2>1 DEF TypeOK, Published
<1> QED
  BY <1>3, <1>4, <1>5, <1>6 DEF service_start

LEMMA StopPublishes ==
  ASSUME TypeOK, NEW s \in Services, NEW how \in {"DISABLED", "RESET"},
         service_stop_or_reset(s, how)
  PROVE  /\ Published(s)'
         /\ \A t \in Services : t # s =>
              flags'[t] = flags[t] /\ pid'[t] = pid[t] /\ init_svc'[t] = init_svc[t]
<1>1. PICK bit \in {"DISABLED", "RESET"} :
        flags' = [flags EXCEPT ![s] = (flags[s] \ {"RUNNING", "RESTARTING"}) \cup {bit}]
  BY DEF service_stop_or_reset
<1>2. /\ pid' = pid
      /\ init_svc' = [init_svc EXCEPT ![s] = IF pid[s] # NoPid THEN "stopping" ELSE "stopped"]
  BY DEF service_stop_or_reset
<1> QED
  BY <1>1, <1>2 DEF TypeOK, Published

(* The calls of a command do not publish "restarting".                       *)
Quiet(calls) == \A i \in DOMAIN calls : calls[i].op # "notify_restarting"

LEMMA CommandsAreQuiet ==
  ASSUME NEW c \in Commands
  PROVE  Quiet(Calls(c))
<1>1. CASE c.cmd = "restart"
  <2>1. Calls(c) = <<Op("stop", c.arg), Op("start", c.arg)>>
    BY <1>1 DEF Calls
  <2> QED
    BY <2>1 DEF Quiet, Op
<1>2. CASE c.cmd \in {"class_start", "class_stop", "class_reset"}
  <2>1. PICK name \in {"start_if_not_disabled", "stop", "reset"} :
          Calls(c) = ForEach(name, ClassMembers[c.arg])
    BY <1>2 DEF Calls
  <2> QED
    BY <2>1 DEF Quiet, ForEach, Op
<1>3. CASE c.cmd \in {"start", "start_dynamic", "stop"}
  <2>1. Calls(c) = <<Op(c.cmd, c.arg)>>
    BY <1>3 DEF Calls
  <2> QED
    BY <1>3, <2>1 DEF Quiet, Op
<1> QED
  BY <1>1, <1>2, <1>3 DEF Commands

(* One call works on the service at the head of the job; a service further   *)
(* down that waits for its notification is another one.                      *)
LEMMA CallPublishes ==
  ASSUME TypeOK, OneState, PublishedInv, Call
  PROVE  PublishedInv'
<1>0. /\ job # <<>> /\ job' = Tail(job) /\ job \in Seq(Ops)
      /\ Head(job).svc \in Services /\ Head(job) \in Ops
  BY JobHead DEF TypeOK, Call, CallStart, CallStartIfNotDisabled, CallStopOrReset,
                 CallRestartIfNeeded, CallNotifyRestarting, NextCall
<1>1. PICK s \in Services : s = Head(job).svc
  BY <1>0
<1>2. /\ Head(job) = job[1] /\ 1 \in DOMAIN job
      /\ \A i \in DOMAIN job' : i + 1 \in DOMAIN job /\ job'[i] = job[i + 1] /\ i + 1 # 1 /\ i \in Nat
      /\ \A i \in DOMAIN job : i # 1 => i - 1 \in DOMAIN job' /\ job'[i - 1] = job[i]
  BY <1>0
<1>3. /\ \A t \in Services : t # s =>
           flags'[t] = flags[t] /\ pid'[t] = pid[t] /\ init_svc'[t] = init_svc[t]
      /\ Head(job).op # "notify_restarting" => (Published(s) => Published(s)')
      /\ Head(job).op = "notify_restarting" =>
           init_svc'[s] = "restarting" /\ flags'[s] = flags[s]
  <2>1. CASE CallStart
    <3>1. Head(job).op \in {"start", "start_dynamic"}
      BY <2>1 DEF CallStart, NextCall
    <3>2. service_start(s, Head(job).op = "start_dynamic")
      BY <1>1, <2>1 DEF CallStart
    <3>3. (Head(job).op = "start_dynamic") \in BOOLEAN
      OBVIOUS
    <3> QED
      BY <1>1, <3>1, <3>2, <3>3, StartPublishes
  <2>2. CASE CallStartIfNotDisabled
    <3>1. Head(job).op = "start_if_not_disabled"
      BY <2>2 DEF CallStartIfNotDisabled, NextCall
    <3>2. CASE UNCHANGED <<svcVars, procVars, wanted>>
      BY <3>1, <3>2 DEF svcVars, Published
    <3>3. CASE service_start(s, FALSE)
      BY <1>1, <3>1, <3>3, StartPublishes
    <3> QED
      BY <1>1, <2>2, <3>2, <3>3 DEF CallStartIfNotDisabled
  <2>3. CASE CallStopOrReset
    <3>1. Head(job).op \in {"stop", "reset"}
      BY <2>3 DEF CallStopOrReset, NextCall
    <3>2. PICK how \in {"DISABLED", "RESET"} : service_stop_or_reset(s, how)
      BY <1>1, <2>3 DEF CallStopOrReset
    <3> QED
      BY <1>1, <3>1, <3>2, StopPublishes
  <2>4. CASE CallRestartIfNeeded
    <3>1. Head(job).op = "restart_if_needed"
      BY <2>4 DEF CallRestartIfNeeded, NextCall
    <3>2. CASE UNCHANGED <<svcVars, procVars>>
      BY <3>1, <3>2 DEF svcVars, Published
    <3>3. CASE service_start(s, FALSE)
      BY <1>1, <3>1, <3>3, StartPublishes
    <3> QED
      BY <1>1, <2>4, <3>2, <3>3 DEF CallRestartIfNeeded
  <2>5. CASE CallNotifyRestarting
    <3>1. Head(job).op = "notify_restarting" /\ UNCHANGED <<flags, pid>>
          /\ init_svc' = [init_svc EXCEPT ![s] = "restarting"]
      BY <1>1, <2>5 DEF CallNotifyRestarting, NextCall
    <3> QED
      BY <1>1, <3>1 DEF TypeOK
  <2> QED
    BY <2>1, <2>2, <2>3, <2>4, <2>5 DEF Call
<1>4. NotifyInv'
  <2> SUFFICES ASSUME NEW i \in DOMAIN job', job'[i].op = "notify_restarting"
               PROVE  /\ flags'[job'[i].svc] = {"RESTARTING"}
                      /\ \A j \in DOMAIN job' : j # i => job'[j].svc # job'[i].svc
    BY DEF NotifyInv
  <2> DEFINE t == job'[i].svc
  <2>1. i + 1 \in DOMAIN job /\ job'[i] = job[i + 1] /\ i + 1 # 1 /\ i \in Nat
    BY <1>2
  <2>2. /\ flags[t] = {"RESTARTING"}
        /\ \A j \in DOMAIN job : j # i + 1 => job[j].svc # t
    BY <2>1 DEF PublishedInv, NotifyInv
  <2>3. t # s /\ t \in Services
    <3>1. job[i + 1] \in Ops
      BY <1>0, <2>1
    <3> QED
      BY <1>1, <1>2, <2>1, <2>2, <3>1 DEF Ops
  <2>4. ASSUME NEW j \in DOMAIN job', j # i
        PROVE  job'[j].svc # t
    <3>1. j + 1 \in DOMAIN job /\ job'[j] = job[j + 1] /\ j \in Nat
      BY <1>2
    <3>2. j + 1 # i + 1
      BY <2>1, <2>4, <3>1
    <3> QED
      BY <2>2, <3>1, <3>2
  <2> QED
    BY <1>3, <2>2, <2>3, <2>4
<1>5. ASSUME NEW t \in Services
      PROVE  ToNotify(t)' \/ Published(t)'
  <2>1. CASE t # s /\ Published(t)
    BY <1>3, <2>1 DEF Published
  <2>2. CASE t # s /\ ToNotify(t)
    <3>1. PICK i \in DOMAIN job : job[i] = Op("notify_restarting", t)
      BY <2>2 DEF ToNotify
    <3>2. i # 1
      BY <1>1, <1>2, <2>2, <3>1 DEF Op
    <3> QED
      BY <1>2, <3>1, <3>2 DEF ToNotify
  <2>3. CASE t = s /\ Head(job).op = "notify_restarting"
    <3>1. flags[s] = {"RESTARTING"}
      BY <1>1, <1>2, <2>3 DEF PublishedInv, NotifyInv
    <3>2. flags'[s] = {"RESTARTING"} /\ init_svc'[s] = "restarting"
      BY <1>3, <2>3, <3>1
    <3> QED
      BY <2>3, <3>2 DEF Published
  <2>4. CASE t = s /\ Head(job).op # "notify_restarting"
    <3>1. ~ToNotify(s)
      <4> SUFFICES ASSUME NEW i \in DOMAIN job, job[i] = Op("notify_restarting", s)
                   PROVE  FALSE
        BY DEF ToNotify
      <4>1. job[i].op = "notify_restarting" /\ job[i].svc = s
        BY DEF Op
      <4>2. i # 1 /\ job[1].svc = s
        BY <1>1, <1>2, <2>4, <4>1
      <4> QED
        BY <1>2, <4>1, <4>2 DEF PublishedInv, NotifyInv
    <3>2. Published(s)
      BY <1>1, <3>1 DEF PublishedInv
    <3> QED
      BY <1>3, <2>4, <3>2
  <2> QED
    BY <2>1, <2>2, <2>3, <2>4 DEF PublishedInv
<1> QED
  BY <1>4, <1>5 DEF PublishedInv

(* A reaped service is published as stopped, or its notification is queued.  *)
LEMMA ReapPublishes ==
  ASSUME OnRestartElsewhere, TypeOK, OneState, PublishedInv,
         NEW p \in Pids, NEW s \in Services, ReapService(p, s)
  PROVE  PublishedInv'
<1> DEFINE dead == (flags[s] \ {"RUNNING"}) \cup (IF s \in Oneshot THEN {"DISABLED"} ELSE {})
<1>1. /\ job = <<>> /\ pid[s] = p /\ p # NoPid /\ pid' = [pid EXCEPT ![s] = NoPid]
  BY SupervisorAssumption DEF ReapService
<1>2. \A t \in Services : Published(t)
  BY <1>1 DEF PublishedInv, ToNotify
<1>3. dead \in SUBSET MutableFlags /\ "RUNNING" \notin dead /\ "RESTARTING" \notin dead
  BY <1>1 DEF TypeOK, OneState, MutableFlags
<1>4. CASE dead \cap {"DISABLED", "RESET"} # {}
  <2>1. /\ flags' = [flags EXCEPT ![s] = dead] /\ job' = <<>>
        /\ init_svc' = [init_svc EXCEPT ![s] = "stopped"]
    BY <1>4 DEF ReapService
  <2>2. \A t \in Services : Published(t)'
    BY <1>1, <1>2, <1>3, <2>1 DEF Published, TypeOK
  <2> QED
    BY <2>1, <2>2 DEF PublishedInv, NotifyInv
<1>5. CASE dead \cap {"DISABLED", "RESET"} = {}
  <2> DEFINE n == Op("notify_restarting", s)
  <2>1. /\ flags' = [flags EXCEPT ![s] = dead \cup {"RESTARTING"}]
        /\ job' = OnRestart[s] \o <<n>> /\ init_svc' = init_svc
    BY <1>5 DEF ReapService
  <2>2. dead \cup {"RESTARTING"} = {"RESTARTING"}
    BY <1>3, <1>5 DEF MutableFlags
  <2>3. /\ OnRestart[s] \in Seq(Ops) /\ n \in Ops
        /\ n.op = "notify_restarting" /\ n.svc = s
    BY SupervisorAssumption DEF Op, Ops, OpNames
  <2>4. flags'[s] = {"RESTARTING"}
    BY <2>1, <2>2 DEF TypeOK
  <2> DEFINE k == Len(OnRestart[s])
  <2>5. /\ k + 1 \in DOMAIN job' /\ job'[k + 1] = n
        /\ \A i \in DOMAIN job' : i # k + 1 =>
             i \in DOMAIN OnRestart[s] /\ job'[i] = OnRestart[s][i]
    <3> HIDE DEF n
    <3> QED
      BY <2>1, <2>3
  <2>6. \A i \in DOMAIN job' : i # k + 1 =>
          job'[i].svc # s /\ job'[i].op # "notify_restarting"
    BY <2>5 DEF OnRestartElsewhere
  <2>7. NotifyInv'
    BY <2>3, <2>4, <2>5, <2>6 DEF NotifyInv
  <2>8. \A t \in Services : t # s => Published(t)'
    BY <1>1, <1>2, <2>1 DEF Published, TypeOK
  <2>9. ToNotify(s)'
    BY <2>5 DEF ToNotify
  <2> QED
    BY <2>7, <2>8, <2>9 DEF PublishedInv
<1> QED
  BY <1>4, <1>5

LEMMA PublishedStep ==
  ASSUME OnRestartElsewhere
  PROVE  TypeOK /\ OneState /\ PublishedInv /\ [Next]_vars => PublishedInv'
<1> SUFFICES ASSUME TypeOK, OneState, PublishedInv, [Next]_vars
             PROVE  PublishedInv'
  OBVIOUS
<1>1. ASSUME UNCHANGED <<flags, pid, init_svc, job>>
      PROVE  PublishedInv'
  BY <1>1 DEF PublishedInv, NotifyInv, ToNotify, Published
<1>2. ASSUME UNCHANGED <<flags, pid, init_svc>>, job = <<>>, Quiet(job')
      PROVE  PublishedInv'
  <2>1. \A s \in Services : Published(s)
    BY <1>2 DEF PublishedInv, ToNotify
  <2> QED
    BY <1>2, <2>1 DEF PublishedInv, NotifyInv, Published, Quiet
<1>3. CASE Call
  BY <1>3, CallPublishes
<1>4. CASE ExecuteOneCommand
  <2>1. CASE boot = <<>>
    BY <1>1, <1>4, <2>1 DEF ExecuteOneCommand, LoopAt, svcVars
  <2>2. CASE boot # <<>>
    <3>1. Head(boot) \in Commands
      <4>1. boot \in Seq(Commands)
        BY DEF TypeOK
      <4> QED
        BY <2>2, <4>1
    <3> QED
      BY <1>2, <1>4, <2>2, <3>1, CommandsAreQuiet DEF ExecuteOneCommand, LoopAt, svcVars
  <2> QED
    BY <2>1, <2>2
<1>5. CASE RestartProcesses
  <2>1. Quiet(ForEach("restart_if_needed", ServiceList))
    BY DEF Quiet, ForEach, Op
  <2> QED
    BY <1>2, <1>5, <2>1 DEF RestartProcesses, LoopAt, svcVars
<1>6. CASE HandlePropertySetFd
  <2>1. CASE UNCHANGED job
    BY <1>1, <1>6, <2>1 DEF HandlePropertySetFd, LoopAt, svcVars
  <2>2. CASE inbox # <<>> /\ job' = Calls(Head(inbox))
    <3>1. Head(inbox) \in Commands
      <4>1. inbox \in Seq(Commands)
        BY DEF TypeOK
      <4> QED
        BY <2>2, <4>1
    <3> QED
      BY <1>2, <1>6, <2>2, <3>1, CommandsAreQuiet DEF HandlePropertySetFd, LoopAt, svcVars
  <2> QED
    BY <1>6, <2>1, <2>2 DEF HandlePropertySetFd
<1>7. CASE Poll \/ HandleSignal \/ ReapDone
  BY <1>1, <1>7 DEF Poll, HandleSignal, ReapDone, LoopAt, svcVars
<1>8. ASSUME NEW p \in Pids, ReapUntracked(p) \/ \E s \in Services : ReapService(p, s)
      PROVE  PublishedInv'
  <2>1. CASE ReapUntracked(p)
    BY <1>1, <2>1 DEF ReapUntracked, svcVars
  <2> QED
    BY <1>8, <2>1, ReapPublishes
<1>9. CASE \E p \in Pids : ChildSetsGroup(p) \/ Exit(p)
  BY <1>1, <1>9 DEF ChildSetsGroup, Exit, userVars
<1>10. CASE SigchldHandler \/ (\E c \in Requests : ClientSends(c)) \/ Tick \/ UNCHANGED vars
  BY <1>1, <1>10 DEF SigchldHandler, ClientSends, Tick, vars, userVars
<1> QED
  BY <1>3, <1>4, <1>5, <1>6, <1>7, <1>8, <1>9, <1>10 DEF Next, Loop

(* init.svc.<name> tells the state of the service, but for the time between  *)
(* its reaping and the end of its onrestart commands, provided that these    *)
(* commands are about other services (signal_handler.c:78-88).               *)
THEOREM StatesPublished ==
  ASSUME OnRestartElsewhere
  PROVE  Spec => []PublishedState
<1>1. Init => PublishedInv
  BY DEF Init, PublishedInv, NotifyInv, Published
<1>2. PublishedInv => PublishedState
  BY DEF PublishedInv, PublishedState, ToNotify, Published
<1>3. SafetyInv => OneState
  BY DEF SafetyInv
<1>4. TypeOK /\ OneState /\ PublishedInv /\ [Next]_vars => PublishedInv'
  BY PublishedStep
<1> QED
  BY <1>1, <1>2, <1>3, <1>4, TypeCorrect, Safety, PTL DEF Spec

===============================================================================
