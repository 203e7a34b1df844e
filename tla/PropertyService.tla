---------------------------- MODULE PropertyService ----------------------------
(***************************************************************************)
(* The property service of the monitor and its clients: property_set and   *)
(* send_prop_msg (libcutils/system_properties.c) on one side of the socket, *)
(* handle_property_set_fd and _property_set on the other, persistent        *)
(* properties and the files they are kept in, booting and rebooting         *)
(* (property_service.c).                                                    *)
(*                                                                         *)
(* A request is one call of property_set; the value it sets is named by     *)
(* the request itself.  The memory protocol of the area is PropertyArea's:  *)
(* here an update is one step, and the area is never full.                  *)
(***************************************************************************)
EXTENDS Naturals, Sequences

CONSTANTS
  Clients,
  Owner,       (* the client of each request, a sequence                       *)
  Choices,     (* the names each request may set                               *)
  Names,
  Readonly, Net, Persistent, Control, (* ro.*, net.*, persist.* and ctl.* names *)
  NetChange,   (* net.change                                                   *)
  Denied,      (* pairs of a client and a name check_perms or                  *)
               (* check_control_perms refuses                                  *)
  Mortal,      (* the requests whose client may die before property_set returns *)
  Defaults,    (* the names build.prop and default.prop set                    *)
  Backlog,     (* of listen()                                                  *)
  MaxReboots, MaxReloads,  (* bounds                                           *)
  None, Default, Early, Torn

Requests == DOMAIN Owner

(* Torn: nothing, which is what open() leaves, or some of a value; a        *)
(* write() that fails leaves either.                                        *)
Values == Requests \cup {Default, Early, Torn} \cup Net

ASSUME PropertyServiceAssumption ==
  /\ Owner \in Seq(Clients)
  /\ Choices \in [Requests -> SUBSET Names]
  /\ Readonly \subseteq Names /\ Net \subseteq Names
  /\ Persistent \subseteq Names /\ Control \subseteq Names
  /\ NetChange \in Net /\ Defaults \subseteq Names
  /\ Persistent \cap (Readonly \cup Net \cup Control) = {}
  /\ Mortal \subseteq Requests
  /\ Backlog \in Nat /\ MaxReboots \in Nat /\ MaxReloads \in Nat
  /\ None \notin Values
  /\ Torn \notin {Default, Early}
  /\ {Default, Early, Torn} \cap (Requests \cup Net) = {}

VARIABLES
  (* property_set in the clients *)
  state,       (* of each request                                              *)
  name,        (* what it sets                                                 *)
  sent,        (* the requests whose message is in the socket                  *)
  (* the socket *)
  backlog,     (* connections not yet accepted                                 *)
  closed,      (* those the monitor has closed                                 *)
  (* the monitor *)
  pc,
  serving,     (* the request it works for, 0 if none                          *)
  job,         (* the arguments of _property_set                               *)
  area,        (* the values of the properties                                 *)
  persistent_properties_loaded,
  dir,         (* the entries readdir has still to return                      *)
  (* PERSISTENT_PROPERTY_DIR *)
  file, temp,
  reboots, reloads,
  (* history *)
  handled,     (* the requests acted upon or refused, in that order            *)
  unsaved,     (* the values whose saving failed                               *)
  unread,      (* the names whose file could not be read                       *)
  miswritten   (* those with a failed write() since a whole value was saved    *)

clientVars == <<state, name, sent>>
diskVars == <<file, temp>>
countVars == <<reboots, reloads>>
historyVars == <<handled, unsaved, unread, miswritten>>
vars == <<clientVars, backlog, closed, pc, serving, job, area,
          persistent_properties_loaded, dir, diskVars, countVars, historyVars>>

Returned == {"hup", "timeout", "failed", "died"}

NoJob == [name |-> None, value |-> None]

Init ==
  /\ state = [r \in Requests |-> "new"] /\ name = [r \in Requests |-> None]
  /\ sent = {} /\ backlog = <<>> /\ closed = {}
  /\ pc = "boot" /\ serving = 0 /\ job = NoJob
  /\ area = [n \in Names |-> None] /\ persistent_properties_loaded = FALSE /\ dir = {}
  /\ file = [n \in Persistent |-> None] /\ temp = None
  /\ reboots = 0 /\ reloads = 0
  /\ handled = <<>> /\ unsaved = {} /\ unread = {} /\ miswritten = {}

-------------------------------------------------------------------------------
(* The clients: property_set, send_prop_msg.                                 *)

(* A client makes one call after the other.                                 *)
Calls(r) ==
  /\ state[r] = "new"
  /\ \A q \in Requests : q < r /\ Owner[q] = Owner[r] => state[q] \in Returned

Becomes(r, s) == state' = [state EXCEPT ![r] = s]

monitorVars == <<pc, serving, job, area, persistent_properties_loaded, dir, diskVars,
                 countVars, historyVars>>

(* start_property_service makes the socket when it has loaded the files.    *)
Listening == persistent_properties_loaded

Connect(r) ==
  /\ Calls(r) /\ Listening /\ Len(backlog) <= Backlog
  /\ \E n \in Choices[r] : name' = [name EXCEPT ![r] = n]
  /\ Becomes(r, "connected")
  /\ backlog' = Append(backlog, r)
  /\ UNCHANGED <<sent, closed, monitorVars>>

(* There is no socket yet. *)
CannotConnect(r) ==
  /\ Calls(r) /\ ~Listening
  /\ Becomes(r, "failed")
  /\ UNCHANGED <<name, sent, backlog, closed, monitorVars>>

Send(r) ==
  /\ state[r] = "connected"
  /\ Becomes(r, "sent")
  /\ sent' = sent \cup {r}
  /\ UNCHANGED <<name, backlog, closed, monitorVars>>

Die(r) ==
  /\ r \in Mortal /\ state[r] \in {"connected", "sent"}
  /\ Becomes(r, "died")
  /\ UNCHANGED <<name, sent, backlog, closed, monitorVars>>

PollHup(r) ==
  /\ state[r] = "sent" /\ r \in closed
  /\ Becomes(r, "hup")
  /\ UNCHANGED <<name, sent, backlog, closed, monitorVars>>

(* 250 ms, which may be too short for the monitor at any time.              *)
PollTimesOut(r) ==
  /\ state[r] = "sent" /\ r \notin closed
  /\ Becomes(r, "timeout")
  /\ UNCHANGED <<name, sent, backlog, closed, monitorVars>>

-------------------------------------------------------------------------------
(* The monitor: handle_property_set_fd.                                      *)

(* Mutant: the connection that came last is taken. *)
MutAccept ==
  /\ pc = "idle" /\ backlog # <<>>
  /\ serving' = backlog[Len(backlog)]
  /\ backlog' = SubSeq(backlog, 1, Len(backlog) - 1)
  /\ pc' = "recv"
  /\ UNCHANGED <<clientVars, closed, job, area, persistent_properties_loaded, dir, diskVars,
                 countVars, historyVars>>

Accept ==
  /\ pc = "idle" /\ backlog # <<>>
  /\ serving' = Head(backlog) /\ backlog' = Tail(backlog)
  /\ pc' = "recv"
  /\ UNCHANGED <<clientVars, closed, job, area, persistent_properties_loaded, dir, diskVars,
                 countVars, historyVars>>

(* Back in the loop, with the connection closed. *)
Close == closed' = closed \cup {serving}

(* Mutant: recv is called again after the end of the connection. *)
MutReceiveNothing ==
  pc = "recv" /\ state[serving] = "died" /\ serving \notin sent /\ UNCHANGED vars

(* recv returns 0: the client closed without a message. *)
ReceiveNothing ==
  /\ pc = "recv" /\ state[serving] = "died" /\ serving \notin sent
  /\ Close
  /\ pc' = "idle" /\ serving' = 0
  /\ UNCHANGED <<clientVars, backlog, job, area, persistent_properties_loaded, dir, diskVars,
                 countVars, historyVars>>

Allowed(r) == <<Owner[r], name[r]>> \notin Denied

(* A control message: the client is told before anything is done.           *)
ReceiveControl ==
  /\ pc = "recv" /\ serving \in sent /\ name[serving] \in Control
  /\ Close
  /\ pc' = "control"
  /\ UNCHANGED <<clientVars, backlog, serving, job, area, persistent_properties_loaded, dir,
                 diskVars, countVars, historyVars>>

(* check_control_perms and handle_control_message.                          *)
HandleControl ==
  /\ pc = "control"
  /\ handled' = Append(handled, serving)
  /\ pc' = "idle" /\ serving' = 0
  /\ UNCHANGED <<clientVars, backlog, closed, job, area, persistent_properties_loaded, dir,
                 diskVars, countVars, unsaved, unread, miswritten>>

(* The area after _property_set(n, v): net.change is set to the name of a   *)
(* net.* property, by a call of its own.                                    *)
Published(n, v) ==
  [area EXCEPT ![n] = v,
               ![NetChange] = IF n = NetChange THEN v ELSE IF n \in Net THEN n ELSE @]

(* What comes after the area is updated. *)
Saves(n) == persistent_properties_loaded /\ n \in Persistent

(* Mutant: the connection is closed before anything is done, as for ctl. *)
MutReceiveSet ==
  LET n == name[serving]
  IN /\ pc = "recv" /\ serving \in sent /\ n \notin Control
     /\ handled' = Append(handled, serving)
     /\ Close
     /\ area' = Published(n, serving)
     /\ job' = [name |-> n, value |-> serving]
     /\ pc' = IF Saves(n) THEN "open" ELSE "answer"
     /\ UNCHANGED <<clientVars, backlog, serving, persistent_properties_loaded, dir,
                    diskVars, countVars, unsaved, unread, miswritten>>

ReceiveSet ==
  LET n == name[serving]
      refused == ~Allowed(serving) \/ (n \in Readonly /\ area[n] # None)
  IN /\ pc = "recv" /\ serving \in sent /\ n \notin Control
     /\ handled' = Append(handled, serving)
     /\ \/ /\ refused
           /\ pc' = "answer"
           /\ UNCHANGED <<area, job>>
        \/ /\ ~refused
           /\ area' = Published(n, serving)
           /\ job' = [name |-> n, value |-> serving]
           /\ pc' = IF Saves(n) THEN "open" ELSE "answer"
     /\ UNCHANGED <<clientVars, backlog, closed, serving, persistent_properties_loaded, dir,
                    diskVars, countVars, unsaved, unread, miswritten>>

(* property_changed queues triggers (ActionQueue); then close(s).            *)
Answer ==
  /\ pc = "answer"
  /\ Close
  /\ pc' = "idle" /\ serving' = 0 /\ job' = NoJob
  /\ UNCHANGED <<clientVars, backlog, area, persistent_properties_loaded, dir, diskVars,
                 countVars, historyVars>>

-------------------------------------------------------------------------------
(* write_persistent_property.                                                *)

(* Mutant: the caller is taken to be handle_property_set_fd always. *)
MutSaveReturns == pc' = "answer"

(* The end of _property_set, called by handle_property_set_fd or for a file. *)
SaveReturns == pc' = IF serving # 0 THEN "answer" ELSE "load"

saveVars == <<clientVars, backlog, closed, serving, job, area, persistent_properties_loaded,
              dir, countVars, handled, unread>>

SaveFails == unsaved' = unsaved \cup {job.value} /\ SaveReturns

(* Mutant: the file itself is opened with O_TRUNC. *)
MutSaveOpen ==
  /\ pc = "open"
  /\ temp' = Torn
  /\ file' = [file EXCEPT ![job.name] = Torn]
  /\ pc' = "write"
  /\ UNCHANGED <<saveVars, unsaved, miswritten>>

SaveOpen ==
  /\ pc = "open"
  /\ \/ /\ temp' = Torn
        /\ pc' = "write"
        /\ UNCHANGED unsaved
     \/ /\ SaveFails
        /\ UNCHANGED temp
  /\ UNCHANGED <<saveVars, file, miswritten>>

(* The result of write() is not looked at. *)
SaveWrite ==
  /\ pc = "write"
  /\ \/ temp' = job.value /\ UNCHANGED miswritten
     \/ temp' = Torn /\ miswritten' = miswritten \cup {job.name}
  /\ pc' = "rename"
  /\ UNCHANGED <<saveVars, file, unsaved>>

SaveRename ==
  /\ pc = "rename"
  /\ temp' = None
  /\ \/ /\ file' = [file EXCEPT ![job.name] = temp]
        /\ unsaved' = IF temp = job.value THEN unsaved ELSE unsaved \cup {job.value}
        /\ miswritten' = IF temp = Torn THEN miswritten ELSE miswritten \ {job.name}
        /\ SaveReturns
     \/ /\ SaveFails
        /\ UNCHANGED <<file, miswritten>>
  /\ UNCHANGED saveVars

-------------------------------------------------------------------------------
(* Booting, and the load_persist_props command.                              *)

Entries == {n \in Persistent : file[n] # None}

(* From property_init to start_property_service: the default files, and the *)
(* setprop commands of init.rc in the actions before property_service_init. *)
Boot ==
  /\ pc = "boot"
  /\ \E early \in SUBSET Persistent :
       area' = [n \in Names |-> IF n \in early THEN Early
                                ELSE IF n \in Defaults THEN Default ELSE None]
  /\ dir' = Entries
  /\ pc' = "load"
  /\ UNCHANGED <<clientVars, backlog, closed, serving, job, persistent_properties_loaded,
                 diskVars, countVars, historyVars>>

LoadPersistProps ==
  /\ pc = "idle" /\ reloads < MaxReloads
  /\ reloads' = reloads + 1
  /\ dir' = Entries
  /\ pc' = "load"
  /\ UNCHANGED <<clientVars, backlog, closed, serving, job, area, persistent_properties_loaded,
                 diskVars, reboots, historyVars>>

(* Mutant: the defaults win over what was saved. *)
MutLoadEntry(n) ==
  /\ pc = "load" /\ n \in dir
  /\ dir' = dir \ {n}
  /\ area' = IF area[n] = None THEN Published(n, file[n]) ELSE area
  /\ job' = [name |-> n, value |-> file[n]]
  /\ unread' = unread \ {n}
  /\ pc' = IF Saves(n) THEN "open" ELSE "load"
  /\ UNCHANGED <<clientVars, backlog, closed, serving, persistent_properties_loaded, diskVars,
                 countVars, handled, unsaved, miswritten>>

LoadEntry(n) ==
  /\ pc = "load" /\ n \in dir
  /\ dir' = dir \ {n}
  /\ area' = Published(n, file[n])
  /\ job' = [name |-> n, value |-> file[n]]
  /\ unread' = unread \ {n}
  /\ pc' = IF Saves(n) THEN "open" ELSE "load"
  /\ UNCHANGED <<clientVars, backlog, closed, serving, persistent_properties_loaded, diskVars,
                 countVars, handled, unsaved, miswritten>>

(* open() or read() fails. *)
CannotLoadEntry(n) ==
  /\ pc = "load" /\ n \in dir
  /\ dir' = dir \ {n}
  /\ unread' = unread \cup {n}
  /\ UNCHANGED <<clientVars, backlog, closed, pc, serving, job, area,
                 persistent_properties_loaded, diskVars, countVars, handled, unsaved, miswritten>>

LoadEnd ==
  /\ pc = "load" /\ dir = {}
  /\ persistent_properties_loaded' = TRUE
  /\ pc' = "idle" /\ job' = NoJob
  /\ UNCHANGED <<clientVars, backlog, closed, serving, area, dir, diskVars, countVars,
                 historyVars>>

(* The machine is rebooted, in order, whatever the monitor is doing: what   *)
(* was written to files is kept, everything else is gone.                   *)
Reboot ==
  /\ reboots < MaxReboots
  /\ reboots' = reboots + 1
  /\ state' = [r \in Requests |-> IF state[r] \in {"connected", "sent"} THEN "died" ELSE state[r]]
  /\ backlog' = <<>>
  /\ pc' = "boot" /\ serving' = 0 /\ job' = NoJob
  /\ area' = [n \in Names |-> None] /\ persistent_properties_loaded' = FALSE /\ dir' = {}
  /\ UNCHANGED <<name, sent, closed, diskVars, reloads, historyVars>>

(* Every call has returned and the monitor waits in poll. *)
Quiet ==
  /\ pc = "idle" /\ backlog = <<>> /\ \A r \in Requests : state[r] \in Returned
  /\ UNCHANGED vars

Client(r) ==
  Connect(r) \/ CannotConnect(r) \/ Send(r) \/ Die(r) \/ PollHup(r) \/ PollTimesOut(r)

Serve ==
  Accept \/ ReceiveNothing \/ ReceiveControl \/ HandleControl \/ ReceiveSet \/ Answer

Save == SaveOpen \/ SaveWrite \/ SaveRename

Load == Boot \/ LoadEnd \/ \E n \in Persistent : LoadEntry(n) \/ CannotLoadEntry(n)

Monitor == Serve \/ Save \/ Load

Next ==
  \/ \E r \in Requests : Client(r)
  \/ Serve
  \/ Save
  \/ Load
  \/ LoadPersistProps
  \/ Reboot
  \/ Quiet

(* A client sends as soon as it is connected; the monitor's loop runs.       *)
Fairness ==
  /\ WF_vars(Monitor)
  /\ \A r \in Requests : WF_vars(Send(r))

Spec == Init /\ [][Next]_vars /\ Fairness

-------------------------------------------------------------------------------
(* The state is well formed. *)
TypeOK ==
  /\ state \in [Requests -> {"new", "connected", "sent"} \cup Returned]
  /\ name \in [Requests -> Names \cup {None}]
  /\ sent \subseteq Requests /\ closed \subseteq Requests
  /\ backlog \in Seq(Requests)
  /\ pc \in {"boot", "load", "idle", "recv", "control", "open", "write", "rename", "answer"}
  /\ serving \in Requests \cup {0}
  /\ pc \in {"recv", "control", "answer"} => serving # 0
  /\ job \in [name : Names \cup {None}, value : Values \cup {None}]
  /\ area \in [Names -> Values \cup {None}]
  /\ persistent_properties_loaded \in BOOLEAN
  /\ dir \subseteq Persistent
  /\ file \in [Persistent -> Values \cup {None}]
  /\ temp \in Values \cup {None}
  /\ reboots \in 0 .. MaxReboots /\ reloads \in 0 .. MaxReloads
  /\ handled \in Seq(Requests)
  /\ unsaved \subseteq Values /\ unread \subseteq Persistent /\ miswritten \subseteq Persistent

(* write_persistent_property writes a temporary file and renames it: at     *)
(* whatever step the machine is rebooted, a persistent file is empty or cut *)
(* off only because a write() of it failed, whose result is ignored, and    *)
(* until a whole value is saved.                                            *)
FilesAreWhole == \A n \in Persistent : file[n] = Torn => n \in miswritten

Saving(n) == pc \in {"open", "write", "rename"} /\ job.name = n

(* Once they are loaded, a persistent property and its file agree whenever  *)
(* the monitor is not between the two, through sets, reboots and further    *)
(* loads, unless a call on the file failed: so load_persist_props changes   *)
(* nothing in a running system.                                             *)
FilesMirrorArea ==
  persistent_properties_loaded =>
    \A n \in Persistent :
      \/ file[n] = None \/ file[n] = area[n]
      \/ Saving(n) \/ area[n] \in unsaved \/ n \in unread

Before(r, q) == \E i, j \in DOMAIN handled : handled[i] = r /\ handled[j] = q /\ i <= j

(* "It acknowledges its completion by closing the socket": when poll has    *)
(* seen POLLHUP the request was decided on, except for a control message;   *)
(* and the value of a persistent property is in its file, or one set later, *)
(* now and after every reboot, unless a call on the file failed.            *)
AcknowledgedIsDone ==
  \A r \in Requests :
    state[r] = "hup" /\ name[r] \notin Control =>
      /\ Before(r, r)
      /\ name[r] \in Persistent /\ Allowed(r) =>
           \/ file[name[r]] \in Requests /\ Before(r, file[name[r]])
           \/ {r, file[name[r]]} \cap (unsaved \cup {Torn}) # {}

(* property_set may return on the timeout while its message waits: still    *)
(* the calls of one client take effect in the order it made them.           *)
CallsInOrder ==
  \A i, j \in DOMAIN handled :
    i < j /\ Owner[handled[i]] = Owner[handled[j]] => handled[i] < handled[j]

(* One thread serves everybody and blocks in recv: still every connection   *)
(* is taken from the queue and done with, whatever the other clients, their *)
(* timeouts and the disk do.                                                *)
InHands(r) == serving = r \/ \E i \in DOMAIN backlog : backlog[i] = r

EveryoneIsServed == \A r \in Requests : InHands(r) ~> ~InHands(r)
===============================================================================
