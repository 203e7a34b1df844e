------------------------------ MODULE ActionQueue -----------------------------
(***************************************************************************)
(* The action queue of the monitor (init_parser.c, init.c, cutils/list.h): *)
(* a doubly linked list threaded through the actions themselves, so an     *)
(* action has one pair of pointers and no mark that says whether it is on  *)
(* the queue.  Events (a property set by a client or by a command, a       *)
(* trigger command, the boot sequence) walk action_list and append what    *)
(* matches; execute_one_command takes one command for each turn of the     *)
(* loop, and clients are served in between.                                *)
(***************************************************************************)
EXTENDS Naturals, Sequences

CONSTANTS
  Actions,      (* the actions parsed from init.rc and the builtin ones         *)
  ActionList,   (* action_list: the actions in the order they were declared     *)
  Boot,         (* the actions main() queues before the loop starts, in order   *)
  Trigger,      (* the trigger of each action                                   *)
  Commands,     (* the commands of each action                                  *)
  Properties,   (* property names, neither ro. nor net. ones                    *)
  Values,       (* property values                                              *)
  Unset,        (* the value of a property that was never set                   *)
  AnyValue,     (* the * of on property:<name>=*                                *)
  HEAD,         (* the list head action_queue                                   *)
  NULL,         (* the pointers of an action that was never queued              *)
  NoAction,     (* cur_action is null                                           *)
  Requeue       (* FALSE: clients set a property only while no action it would  *)
                (* queue is on the queue already                                *)

Triggers == [kind : {"trigger"}, name : STRING]
       \cup [kind : {"property"}, name : Properties, value : Values \cup {AnyValue}]

(* "other" stands for the builtins that neither set a property nor queue.  *)
CommandSet == [cmd : {"setprop"}, name : Properties, value : Values]
         \cup [cmd : {"trigger"}, name : STRING]
         \cup [cmd : {"queue_property_triggers", "property_service_init", "other"}]

Nodes == Actions \cup {HEAD}

ASSUME ActionQueueAssumption ==
  /\ ActionList \in Seq(Actions)
  /\ \A a \in Actions : \E i \in DOMAIN ActionList : ActionList[i] = a
  /\ Boot \in Seq(Actions)
  /\ DOMAIN Trigger = Actions /\ \A a \in Actions : Trigger[a] \in Triggers
  /\ DOMAIN Commands = Actions /\ \A a \in Actions : Commands[a] \in Seq(CommandSet)
  /\ HEAD \notin Actions /\ NULL \notin Nodes /\ NoAction \notin Actions
  /\ Unset \notin Values /\ AnyValue \notin Values
  /\ Requeue \in BOOLEAN

VARIABLES
  next, prev,   (* the pointers of action_queue and of every action's qlist     *)
  cur_action,   (* the action being executed                                    *)
  cur_command,  (* index of the command executed last, 0 for a null pointer     *)
  props,        (* the values of the properties                                 *)
  property_triggers_enabled,
  property_set_fd_init,         (* the loop polls the property socket           *)
  visiting,     (* the rest of the list an event still walks                    *)
  event,        (* that event                                                   *)
  pc,           (* "execute": execute_one_command is next; "poll": the sockets  *)
  (* history *)
  queue,        (* the queue as readme.txt describes it                         *)
  ran           (* the actions whose execution was begun                        *)

listVars == <<next, prev, queue>>
eventVars == <<visiting, event>>
propVars == <<props, property_triggers_enabled, property_set_fd_init>>

vars == <<listVars, eventVars, propVars, cur_action, cur_command, pc, ran>>

Queued == {queue[i] : i \in DOMAIN queue}

Events == [kind : {"boot", "all"}]
     \cup [kind : {"trigger"}, name : STRING]
     \cup [kind : {"property"}, name : Properties, value : Values]

(* The boot actions are appended one by one before the loop runs. *)
Init ==
  /\ next = [n \in Nodes |-> IF n = HEAD THEN HEAD ELSE NULL]
  /\ prev = next
  /\ cur_action = NoAction /\ cur_command = 0
  /\ props = [p \in Properties |-> Unset]
  /\ property_triggers_enabled = FALSE
  /\ property_set_fd_init = FALSE
  /\ visiting = Boot
  /\ event = [kind |-> "boot"]
  /\ pc = "execute"
  /\ queue = <<>>
  /\ ran = {}

-------------------------------------------------------------------------------
(* cutils/list.h.                                                            *)

(* Mutant: list_add_head. *)
MutAddHead(item) ==
  LET n1 == [next EXCEPT ![item] = next[HEAD]]
      p1 == [prev EXCEPT ![item] = HEAD]
  IN /\ prev' = [p1 EXCEPT ![n1[HEAD]] = item]
     /\ next' = [n1 EXCEPT ![HEAD] = item]

(* The four assignments in their order: the third and the fourth follow    *)
(* pointers the first two may have changed.                                *)
list_add_tail(item) ==
  LET n1 == [next EXCEPT ![item] = HEAD]
      p1 == [prev EXCEPT ![item] = prev[HEAD]]
  IN /\ next' = [n1 EXCEPT ![p1[HEAD]] = item]
     /\ prev' = [p1 EXCEPT ![HEAD] = item]

(* Mutant: the second pointer is left alone. *)
MutRemoveForward(item) ==
  /\ next' = [next EXCEPT ![prev[item]] = next[item]]
  /\ UNCHANGED prev

list_remove(item) ==
  LET p1 == [prev EXCEPT ![next[item]] = prev[item]]
  IN /\ prev' = p1
     /\ next' = [next EXCEPT ![p1[item]] = next[item]]

list_empty == next[HEAD] = HEAD

-------------------------------------------------------------------------------
(* Events.                                                                   *)

Holds(t, p, v) == t.kind = "property" /\ t.name = p /\ t.value \in {v, AnyValue}

(* Mutant: * is compared with the value. *)
MutHoldsNow(t) == t.kind = "property" /\ t.value = props[t.name]

(* The property exists and has the value. *)
HoldsNow(t) ==
  /\ t.kind = "property"
  /\ props[t.name] # Unset
  /\ t.value \in {props[t.name], AnyValue}

(* action_for_each_trigger, queue_property_triggers, queue_all_property_triggers. *)
Matches(a, e) ==
  LET t == Trigger[a]
  IN CASE e.kind = "boot"     -> TRUE
       [] e.kind = "trigger"  -> t.kind = "trigger" /\ t.name = e.name
       [] e.kind = "property" -> Holds(t, e.name, e.value)
       [] e.kind = "all"      -> HoldsNow(t)

Occurs(e) == visiting' = ActionList /\ event' = e

NothingOccurs == UNCHANGED eventVars

(* One turn of list_for_each over the actions: action_add_queue_tail does  *)
(* not ask whether the action is on the queue.                             *)
VisitAction ==
  LET a == Head(visiting) IN
  /\ visiting # <<>>
  /\ visiting' = Tail(visiting)
  /\ IF Matches(a, event)
     THEN /\ list_add_tail(a)
          /\ queue' = IF a \in Queued THEN queue ELSE Append(queue, a)
     ELSE UNCHANGED listVars
  /\ UNCHANGED <<event, propVars, cur_action, cur_command, pc, ran>>

(* Mutant: property_changed does not ask for property_triggers_enabled. *)
MutSetProperty(p, v) ==
  /\ props' = [props EXCEPT ![p] = v]
  /\ Occurs([kind |-> "property", name |-> p, value |-> v])
  /\ UNCHANGED <<property_triggers_enabled, property_set_fd_init>>

(* _property_set and property_changed, as far as actions are concerned. *)
SetProperty(p, v) ==
  /\ props' = [props EXCEPT ![p] = v]
  /\ IF property_triggers_enabled
     THEN Occurs([kind |-> "property", name |-> p, value |-> v])
     ELSE NothingOccurs
  /\ UNCHANGED <<property_triggers_enabled, property_set_fd_init>>

-------------------------------------------------------------------------------
(* The loop.                                                                 *)

(* Mutant: is_last_command is off by one. *)
MutFinished == IF cur_action = NoAction \/ cur_command = 0
               THEN TRUE
               ELSE cur_command + 1 >= Len(Commands[cur_action])

Finished == IF cur_action = NoAction \/ cur_command = 0
            THEN TRUE
            ELSE cur_command = Len(Commands[cur_action])

Execute(c) ==
  CASE c.cmd = "setprop" -> SetProperty(c.name, c.value)
    [] c.cmd = "trigger" -> /\ Occurs([kind |-> "trigger", name |-> c.name])
                            /\ UNCHANGED propVars
    [] c.cmd = "queue_property_triggers" -> /\ Occurs([kind |-> "all"])
                                            /\ property_triggers_enabled' = TRUE
                                            /\ UNCHANGED <<props, property_set_fd_init>>
    [] c.cmd = "property_service_init" -> /\ NothingOccurs
                                          /\ property_set_fd_init' = TRUE
                                          /\ UNCHANGED <<props, property_triggers_enabled>>
    [] OTHER -> NothingOccurs /\ UNCHANGED propVars

LoopAt(from, to) == visiting = <<>> /\ pc = from /\ pc' = to

(* Mutant: cur_command is not cleared before get_first_command. *)
MutFirstCommand(a) ==
  IF Commands[a] = <<>>
  THEN NothingOccurs /\ UNCHANGED <<propVars, cur_command>>
  ELSE cur_command' = 1 /\ Execute(Commands[a][1])

(* get_first_command, and the command if there is one. *)
FirstCommand(a) ==
  IF Commands[a] = <<>>
  THEN cur_command' = 0 /\ NothingOccurs /\ UNCHANGED propVars
  ELSE cur_command' = 1 /\ Execute(Commands[a][1])

(* execute_one_command when an action is finished or none was begun. *)
TakeAction ==
  LET a == next[HEAD] IN
  /\ LoopAt("execute", "poll")
  /\ Finished
  /\ ~list_empty
  /\ list_remove(a)
  /\ queue' = IF queue = <<>> THEN <<>> ELSE Tail(queue)
  /\ cur_action' = a
  /\ ran' = ran \cup {a}
  /\ FirstCommand(a)

BecomeIdle ==
  /\ LoopAt("execute", "poll")
  /\ Finished
  /\ list_empty
  /\ cur_action' = NoAction /\ cur_command' = 0
  /\ NothingOccurs
  /\ UNCHANGED <<listVars, propVars, ran>>

NextCommand ==
  /\ LoopAt("execute", "poll")
  /\ ~Finished
  /\ cur_command' = cur_command + 1
  /\ Execute(Commands[cur_action][cur_command + 1])
  /\ UNCHANGED <<listVars, cur_action, ran>>

(* poll() with nothing to read returns at once only if there is more to do. *)
PollTimesOut ==
  /\ LoopAt("poll", "execute")
  /\ ~list_empty \/ cur_action # NoAction
  /\ NothingOccurs
  /\ UNCHANGED <<listVars, propVars, cur_action, cur_command, ran>>

(* handle_property_set_fd: a client sets a property.  The init.svc ones the *)
(* loop sets while it reaps and restarts services come between two commands *)
(* in the same way.                                                         *)
ServeClient(p, v) ==
  /\ LoopAt("poll", "execute")
  /\ property_set_fd_init
  /\ Requeue \/ \A a \in Queued : ~Holds(Trigger[a], p, v)
  /\ SetProperty(p, v)
  /\ UNCHANGED <<listVars, cur_action, cur_command, ran>>

Next == \/ VisitAction
        \/ TakeAction \/ BecomeIdle \/ NextCommand
        \/ PollTimesOut
        \/ \E p \in Properties, v \in Values : ServeClient(p, v)

Spec == Init /\ [][Next]_vars

(* The thread keeps running: it blocks nowhere but in poll(). *)
FairSpec == Spec /\ WF_vars(VisitAction \/ TakeAction \/ BecomeIdle \/ NextCommand \/ PollTimesOut)

-------------------------------------------------------------------------------
(* Properties.                                                               *)

TypeOK ==
  /\ next \in [Nodes -> Nodes \cup {NULL}]
  /\ prev \in [Nodes -> Nodes \cup {NULL}]
  /\ cur_action \in Actions \cup {NoAction}
  /\ cur_command \in 0 .. (IF cur_action = NoAction THEN 0 ELSE Len(Commands[cur_action]))
  /\ props \in [Properties -> Values \cup {Unset}]
  /\ property_triggers_enabled \in BOOLEAN /\ property_set_fd_init \in BOOLEAN
  /\ visiting \in Seq(Actions)
  /\ event \in Events
  /\ pc \in {"execute", "poll"}
  /\ queue \in Seq(Actions)
  /\ ran \subseteq Actions

(* The node before and after position i of the queue, the head at both ends. *)
NodeAt(i) == IF i \in DOMAIN queue THEN queue[i] ELSE HEAD

(* The pointers form one ring: from the head through the documented queue,  *)
(* in its order, back to the head, and prev is the inverse of next.         *)
ListIsQueue ==
  /\ \A i, j \in DOMAIN queue : queue[i] = queue[j] => i = j
  /\ \A i \in 0 .. Len(queue) : /\ next[NodeAt(i)] = NodeAt(i + 1)
                                /\ prev[NodeAt(i + 1)] = NodeAt(i)

(* What the linked list needs of its callers: nothing is appended that is   *)
(* on the list already.                                                     *)
AppendsAreFresh ==
  visiting # <<>> /\ Matches(Head(visiting), event) => Head(visiting) \notin Queued

(* The i-th command of a triggers b. *)
Causes(a, i, b) == /\ Commands[a][i].cmd = "trigger"
                   /\ Trigger[b].kind = "trigger" /\ Trigger[b].name = Commands[a][i].name

(* What an init.rc must keep to so that its own commands append nothing that *)
(* is on the list.  Boot[k] is queue_property_triggers_action.  An action    *)
(* that a command triggers is triggered by no other command and is not in    *)
(* the boot sequence; the command is the first one of its action, or that    *)
(* action is itself one a command triggers or the boot sequence queues.  A   *)
(* property that an action waits for is set by the boot sequence before      *)
(* Boot[k], or by clients.                                                   *)
SetOffOnce(k) ==
  /\ \A i, j \in DOMAIN ActionList : ActionList[i] = ActionList[j] => i = j
  /\ \A i, j \in DOMAIN Boot : Boot[i] = Boot[j] => i = j
  /\ \A i \in DOMAIN Boot : Trigger[Boot[i]].kind = "trigger"
  /\ \A a \in Actions : \A i \in DOMAIN Commands[a] :
       /\ \A b \in Actions : Causes(a, i, b) =>
            /\ a # b /\ \A l \in DOMAIN Boot : Boot[l] # b
            /\ i = 1 \/ Trigger[a].kind = "trigger"
            /\ \A c \in Actions : \A j \in DOMAIN Commands[c] :
                 Causes(c, j, b) => c = a /\ j = i
       /\ Commands[a][i].cmd = "queue_property_triggers" => a = Boot[k] /\ i = 1
       /\ Commands[a][i].cmd = "setprop" =>
            \/ \E l \in DOMAIN Boot : l < k /\ a = Boot[l]
            \/ \A b \in Actions : ~Holds(Trigger[b], Commands[a][i].name, Commands[a][i].value)

(* The linked list and the loop carry out the queue of readme.txt.          *)
Documented == INSTANCE ActionFIFO WITH
                NrCommands <- [a \in Actions |-> Len(Commands[a])]
DocumentedQueue == Documented!FifoSpec

(* No trigger falls between the boot sequence and the enabling of triggers: *)
(* once they are enabled, an action whose property has its value now has    *)
(* been run, is queued, or is about to be met by the walk of an event.      *)
NoTriggerLost ==
  property_triggers_enabled =>
    \A a \in Actions :
      LET t == Trigger[a]
      IN t.kind = "property" /\ props[t.name] \in Values /\ t.value \in {props[t.name], AnyValue}
           => \/ a \in ran \cup Queued
              \/ \E i \in DOMAIN visiting : visiting[i] = a /\ Matches(a, event)

(* Every queued action is eventually executed, whatever clients set.        *)
QueuedActionsRun == \A a \in Actions : a \in Queued ~> cur_action = a
===============================================================================
