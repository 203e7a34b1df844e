------------------------- MODULE PropertyServiceProofs ------------------------
(***************************************************************************)
(* Proofs about PropertyService for any clients, requests, names and       *)
(* numbers of reboots.  Inv ties the job in hand to the area and to the    *)
(* temporary file, and the queue of connections to the order of the calls. *)
(***************************************************************************)
EXTENDS PropertyService, TLAPS

SavePcs == {"open", "write", "rename"}

(* A job being saved is a persistent property with the value it has.       *)
Jobs ==
  /\ pc \in SavePcs => /\ job.name \in Persistent
                       /\ job.value \in Values
                       /\ area[job.name] = job.value
                       /\ job.value = Torn => job.name \in miswritten
  /\ pc = "rename" => \/ temp = job.value
                      \/ temp = Torn /\ job.name \in miswritten
  /\ ~persistent_properties_loaded => pc \in {"boot", "load"}
  /\ pc = "boot" => ~persistent_properties_loaded

(* While the files are loaded: what was read is in the area.               *)
Loading ==
  /\ dir \subseteq Entries
  /\ pc = "load" /\ ~persistent_properties_loaded =>
       \A n \in Persistent \ dir : file[n] = None \/ file[n] = area[n] \/ n \in unread

DiskInv == TypeOK /\ Jobs /\ Loading /\ FilesAreWhole /\ FilesMirrorArea

diskState == <<pc, job, area, persistent_properties_loaded, dir, file, temp, unsaved, unread,
               miswritten>>

LEMMA RequestFacts ==
  /\ Requests = 1 .. Len(Owner) /\ Len(Owner) \in Nat
  /\ 0 \notin Requests /\ Requests \subseteq Nat
  /\ Requests \subseteq Values \ {Torn} /\ Net \subseteq Values
  /\ Torn \in Values /\ None \notin Values
<1>1. Requests = 1 .. Len(Owner) /\ Len(Owner) \in Nat
  BY PropertyServiceAssumption DEF Requests
<1>2. 0 \notin Requests /\ Requests \subseteq Nat
  BY <1>1
<1> QED
  BY <1>1, <1>2, PropertyServiceAssumption DEF Values

LEMMA PublishedTyped ==
  ASSUME area \in [Names -> Values \cup {None}], NEW n \in Names, NEW v \in Values \cup {None}
  PROVE  Published(n, v) \in [Names -> Values \cup {None}]
<1>1. Net \subseteq Values
  BY RequestFacts
<1> QED
  BY <1>1 DEF Published

(* An update of one persistent property touches no other.                  *)
LEMMA PublishedPersistent ==
  ASSUME area \in [Names -> Values \cup {None}], NEW n \in Names, NEW v
  PROVE  /\ n \in Persistent => Published(n, v)[n] = v
         /\ \A p \in Persistent \ {n} : Published(n, v)[p] = area[p]
<1>1. NetChange \notin Persistent /\ Persistent \subseteq Names
  BY PropertyServiceAssumption
<1>2. ASSUME n \in Persistent PROVE Published(n, v)[n] = v
  BY <1>1, <1>2 DEF Published
<1>3. ASSUME NEW p \in Persistent \ {n} PROVE Published(n, v)[p] = area[p]
  BY <1>1, <1>3 DEF Published
<1> QED
  BY <1>2, <1>3

-------------------------------------------------------------------------------
(* The files and the area.                                                   *)

LEMMA DiskInit == Init => DiskInv
<1> SUFFICES ASSUME Init PROVE DiskInv
  OBVIOUS
<1>1. TypeOK
  <2>1. <<>> \in Seq(Requests)
    OBVIOUS
  <2>2. NoJob \in [name : Names \cup {None}, value : Values \cup {None}]
    BY DEF NoJob
  <2>3. /\ state \in [Requests -> {"new", "connected", "sent"} \cup Returned]
        /\ name \in [Requests -> Names \cup {None}]
        /\ area \in [Names -> Values \cup {None}]
        /\ file \in [Persistent -> Values \cup {None}]
    BY DEF Init
  <2>4. reboots \in 0 .. MaxReboots /\ reloads \in 0 .. MaxReloads
    BY PropertyServiceAssumption DEF Init
  <2> QED
    BY <2>1, <2>2, <2>3, <2>4 DEF Init, TypeOK
<1>2. Jobs
  BY DEF Init, Jobs, SavePcs
<1>3. Loading
  BY DEF Init, Loading
<1>4. FilesAreWhole
  BY RequestFacts DEF Init, FilesAreWhole
<1>5. FilesMirrorArea
  BY DEF Init, FilesMirrorArea
<1> QED
  BY <1>1, <1>2, <1>3, <1>4, <1>5 DEF DiskInv

(* Steps of the clients, of the socket and of control messages.             *)
LEMMA DiskStutter ==
  ASSUME DiskInv, UNCHANGED diskState
  PROVE  (Jobs /\ Loading /\ FilesAreWhole /\ FilesMirrorArea)'
BY DEF DiskInv, diskState, Jobs, Loading, Entries, FilesAreWhole, FilesMirrorArea, Saving

LEMMA ClientTypes ==
  ASSUME TypeOK, NEW r \in Requests, Client(r)
  PROVE  TypeOK'
<1>1. UNCHANGED monitorVars
  BY DEF Client, Connect, CannotConnect, Send, Die, PollHup, PollTimesOut
<1>2. state' \in [Requests -> {"new", "connected", "sent"} \cup Returned]
  BY DEF Client, Connect, CannotConnect, Send, Die, PollHup, PollTimesOut, TypeOK, Becomes, Returned
<1>3. name' \in [Requests -> Names \cup {None}]
  BY PropertyServiceAssumption
     DEF Client, Connect, CannotConnect, Send, Die, PollHup, PollTimesOut, TypeOK
<1>4. sent' \subseteq Requests /\ closed' \subseteq Requests
  BY DEF Client, Connect, CannotConnect, Send, Die, PollHup, PollTimesOut, TypeOK
<1>5. backlog' \in Seq(Requests)
  <2>1. backlog' \in {backlog, Append(backlog, r)}
    BY DEF Client, Connect, CannotConnect, Send, Die, PollHup, PollTimesOut
  <2>2. backlog \in Seq(Requests)
    BY DEF TypeOK
  <2>3. Append(backlog, r) \in Seq(Requests)
    BY <2>2
  <2> QED
    BY <2>1, <2>2, <2>3
<1> QED
  BY <1>1, <1>2, <1>3, <1>4, <1>5
     DEF TypeOK, monitorVars, diskVars, countVars, historyVars

serveRest == <<clientVars, countVars, temp, file, dir, persistent_properties_loaded, unsaved, unread,
               miswritten>>

LEMMA ServeTypes ==
  ASSUME TypeOK, Serve
  PROVE  TypeOK'
<1>1. UNCHANGED serveRest
  BY DEF Serve, serveRest, Accept, ReceiveNothing, ReceiveControl, HandleControl, ReceiveSet, Answer,
     clientVars, countVars, diskVars, historyVars
<1>2. backlog' \in Seq(Requests) /\ serving' \in Requests \cup {0}
  <2>1. CASE Accept
    <3>1. backlog \in Seq(Requests) /\ backlog # <<>>
      BY <2>1 DEF Accept, TypeOK
    <3>2. Head(backlog) \in Requests /\ Tail(backlog) \in Seq(Requests)
      BY <3>1
    <3> QED
      BY <2>1, <3>2 DEF Accept
  <2>2. CASE ~Accept
    BY <2>2 DEF Serve, ReceiveNothing, ReceiveControl, HandleControl, ReceiveSet, Answer, TypeOK
  <2> QED
    BY <2>1, <2>2
<1>3. pc' \in {"boot", "load", "idle", "recv", "control", "open", "write", "rename", "answer"}
  BY DEF Serve, Accept, ReceiveNothing, ReceiveControl, HandleControl, ReceiveSet, Answer, TypeOK
<1>4. pc' \in {"recv", "control", "answer"} => serving' # 0
  <2>1. CASE Accept
    <3>1. Head(backlog) \in Requests
      BY <2>1 DEF Accept, TypeOK
    <3> QED
      BY <2>1, <3>1, RequestFacts DEF Accept
  <2>2. CASE ~Accept
    BY <2>2 DEF Serve, ReceiveNothing, ReceiveControl, HandleControl, ReceiveSet, Answer, TypeOK
  <2> QED
    BY <2>1, <2>2
<1>5. closed' \subseteq Requests
  <2>1. pc \in {"recv", "answer"} => serving \in Requests
    BY DEF TypeOK
  <2> QED
    BY <2>1 DEF Serve, Accept, ReceiveNothing, ReceiveControl, HandleControl, ReceiveSet, Answer,
       Close, TypeOK
<1>6. /\ area' \in [Names -> Values \cup {None}]
      /\ job' \in [name : Names \cup {None}, value : Values \cup {None}]
  <2>1. CASE ReceiveSet /\ ~UNCHANGED <<area, job>>
    <3>1. PICK n \in Names \cup {None} : n = name[serving]
      BY <2>1 DEF ReceiveSet, TypeOK
    <3>2. serving \in Values /\ serving # None
      BY <2>1, RequestFacts DEF ReceiveSet, TypeOK
    <3>3. area' = Published(n, serving) /\ job' = [name |-> n, value |-> serving]
      BY <2>1, <3>1 DEF ReceiveSet
    <3>4. job' \in [name : Names \cup {None}, value : Values \cup {None}]
      BY <3>1, <3>2, <3>3
    <3>5. area \in [Names -> Values \cup {None}] /\ Net \subseteq Values
      BY RequestFacts DEF TypeOK
    <3>6. Published(n, serving) \in [Names -> Values \cup {None}]
      BY <3>1, <3>2, <3>5 DEF Published
    <3> QED
      BY <3>3, <3>4, <3>6
  <2>2. CASE UNCHANGED <<area, job>>
    BY <2>2 DEF TypeOK
  <2>3. CASE Answer
    <3>1. NoJob \in [name : Names \cup {None}, value : Values \cup {None}]
      BY DEF NoJob
    <3> QED
      BY <2>3, <3>1 DEF Answer, TypeOK
  <2> QED
    BY <2>1, <2>2, <2>3 DEF Serve, Accept, ReceiveNothing, ReceiveControl, HandleControl
<1>7. handled' \in Seq(Requests)
  <2>1. CASE HandleControl \/ ReceiveSet
    <3>1. handled \in Seq(Requests) /\ serving \in Requests
      BY <2>1 DEF TypeOK, HandleControl, ReceiveSet
    <3>2. Append(handled, serving) \in Seq(Requests)
      BY <3>1
    <3> QED
      BY <2>1, <3>2 DEF HandleControl, ReceiveSet
  <2>2. CASE ~(HandleControl \/ ReceiveSet)
    BY <2>2 DEF Serve, Accept, ReceiveNothing, ReceiveControl, Answer, historyVars, TypeOK
  <2> QED
    BY <2>1, <2>2
<1> QED
  BY <1>1, <1>2, <1>3, <1>4, <1>5, <1>6, <1>7 DEF serveRest, clientVars, countVars, TypeOK

LEMMA SaveTypes ==
  ASSUME TypeOK, Jobs, Save
  PROVE  TypeOK'
<1>1. UNCHANGED saveVars
  BY DEF Save, SaveOpen, SaveWrite, SaveRename, saveVars
<1>2. job.value \in Values
  BY DEF Save, SaveOpen, SaveWrite, SaveRename, Jobs, SavePcs
<1>3. Torn \in Values /\ job.name \in Persistent
  BY RequestFacts DEF Save, SaveOpen, SaveWrite, SaveRename, Jobs, SavePcs
<1>4. temp' \in Values \cup {None} /\ unsaved' \subseteq Values
      /\ miswritten' \subseteq Persistent
  BY <1>2, <1>3 DEF Save, SaveOpen, SaveWrite, SaveRename, SaveFails, TypeOK
<1>5. file' \in [Persistent -> Values \cup {None}]
  BY DEF Save, SaveOpen, SaveWrite, SaveRename, TypeOK
<1>6. pc' \in {"boot", "load", "idle", "recv", "control", "open", "write", "rename", "answer"}
  BY DEF Save, SaveOpen, SaveWrite, SaveRename, SaveFails, SaveReturns
<1>7. pc' \in {"recv", "control", "answer"} => serving' # 0
  BY <1>1 DEF Save, SaveOpen, SaveWrite, SaveRename, SaveFails, SaveReturns, saveVars
<1> QED
  BY <1>1, <1>4, <1>5, <1>6, <1>7 DEF saveVars, clientVars, countVars, TypeOK

loadRest == <<clientVars, backlog, closed, serving, diskVars, countVars, handled, unsaved, miswritten>>

LEMMA LoadTypes ==
  ASSUME TypeOK, Load
  PROVE  TypeOK'
<1>1. UNCHANGED loadRest
  BY DEF Load, Boot, LoadEnd, LoadEntry, CannotLoadEntry, loadRest, historyVars
<1>2. area' \in [Names -> Values \cup {None}]
  <2>1. CASE Boot
    <3>1. {Default, Early} \subseteq Values
      BY DEF Values
    <3> QED
      BY <2>1, <3>1 DEF Boot
  <2>2. ASSUME NEW n \in Persistent, LoadEntry(n) PROVE area' \in [Names -> Values \cup {None}]
    <3>1. n \in Names /\ file[n] \in Values \cup {None} /\ area \in [Names -> Values \cup {None}]
      BY PropertyServiceAssumption DEF TypeOK
    <3> QED
      BY <2>2, <3>1, PublishedTyped DEF LoadEntry
  <2>3. CASE area' = area
    BY <2>3 DEF TypeOK
  <2> QED
    BY <2>1, <2>2, <2>3 DEF Load, LoadEnd, CannotLoadEntry
<1>3. job' \in [name : Names \cup {None}, value : Values \cup {None}]
  <2>1. ASSUME NEW n \in Persistent, LoadEntry(n)
        PROVE  job' \in [name : Names \cup {None}, value : Values \cup {None}]
    <3>1. PICK v \in Values \cup {None} : v = file[n]
      BY DEF TypeOK
    <3>2. n \in Names /\ job' = [name |-> n, value |-> v]
      BY <2>1, <3>1, PropertyServiceAssumption DEF LoadEntry
    <3> QED
      BY <3>1, <3>2
  <2>2. CASE job' = job
    BY <2>2 DEF TypeOK
  <2>3. CASE job' = NoJob
    <3>1. NoJob \in [name : Names \cup {None}, value : Values \cup {None}]
      BY DEF NoJob
    <3> QED
      BY <2>3, <3>1
  <2> QED
    BY <2>1, <2>2, <2>3 DEF Load, LoadEnd, CannotLoadEntry, Boot
<1>4. /\ pc' \in {"boot", "load", "idle", "recv", "control", "open", "write", "rename", "answer"}
      /\ pc' \notin {"recv", "control", "answer"}
  BY DEF Load, Boot, LoadEnd, LoadEntry, CannotLoadEntry
<1>5. dir' \subseteq Persistent /\ unread' \subseteq Persistent
      /\ persistent_properties_loaded' \in BOOLEAN
  BY DEF Load, Boot, LoadEnd, LoadEntry, CannotLoadEntry, Entries, TypeOK, historyVars
<1> QED
  BY <1>1, <1>2, <1>3, <1>4, <1>5 DEF loadRest, clientVars, diskVars, countVars, TypeOK

LEMMA OtherTypes ==
  ASSUME TypeOK, LoadPersistProps \/ Reboot \/ Quiet
  PROVE  TypeOK'
<1>1. CASE LoadPersistProps
  <2>1. reloads' \in 0 .. MaxReloads
    BY <1>1, PropertyServiceAssumption DEF LoadPersistProps, TypeOK
  <2>2. dir' \subseteq Persistent
    BY <1>1 DEF LoadPersistProps, Entries
  <2> QED
    BY <1>1, <2>1, <2>2 DEF LoadPersistProps, TypeOK, clientVars, diskVars, historyVars
<1>2. CASE Reboot
  <2>1. reboots' \in 0 .. MaxReboots
    BY <1>2, PropertyServiceAssumption DEF Reboot, TypeOK
  <2>2. state' \in [Requests -> {"new", "connected", "sent"} \cup Returned]
    BY <1>2 DEF Reboot, TypeOK, Returned
  <2>3. <<>> \in Seq(Requests) /\ NoJob \in [name : Names \cup {None}, value : Values \cup {None}]
    BY DEF NoJob
  <2>4. area' \in [Names -> Values \cup {None}]
    BY <1>2 DEF Reboot
  <2> QED
    BY <1>2, <2>1, <2>2, <2>3, <2>4 DEF Reboot, TypeOK, diskVars, historyVars
<1>3. CASE Quiet
  BY <1>3 DEF Quiet, vars, TypeOK, clientVars, diskVars, countVars, historyVars
<1> QED
  BY <1>1, <1>2, <1>3

DiskRest == Jobs /\ Loading /\ FilesAreWhole /\ FilesMirrorArea

(* A set on behalf of a client.                                             *)
LEMMA SetDisk ==
  ASSUME DiskInv, ReceiveSet
  PROVE  DiskRest'
<1>1. /\ UNCHANGED <<persistent_properties_loaded, dir, file, temp, unsaved, unread, miswritten>>
      /\ serving \in Requests /\ persistent_properties_loaded
  BY DEF ReceiveSet, DiskInv, TypeOK, Jobs, diskVars
<1>2. CASE UNCHANGED <<area, job>> /\ pc' = "answer"
  BY <1>1, <1>2 DEF ReceiveSet, DiskInv, DiskRest, Jobs, SavePcs, Loading, Entries, FilesAreWhole,
     FilesMirrorArea, Saving
<1>3. CASE ~(UNCHANGED <<area, job>> /\ pc' = "answer")
  <2>1. PICK n \in Names \cup {None} : n = name[serving]
    BY <1>1 DEF DiskInv, TypeOK
  <2>2. /\ area' = Published(n, serving) /\ job' = [name |-> n, value |-> serving]
        /\ pc' = IF Saves(n) THEN "open" ELSE "answer"
    BY <1>3, <2>1 DEF ReceiveSet
  <2>3. area \in [Names -> Values \cup {None}] /\ NetChange \notin Persistent
    BY PropertyServiceAssumption DEF DiskInv, TypeOK
  <2>4. \A p \in Persistent \ {n} : area'[p] = area[p]
    BY <2>2, <2>3, PropertyServiceAssumption DEF Published
  <2>5. n \in Persistent => area'[n] = serving
    BY <2>2, <2>3, PropertyServiceAssumption DEF Published
  <2>6. n \in Persistent <=> pc' = "open"
    BY <2>2, <1>1 DEF Saves
  <2>7. Jobs'
    BY <1>1, <2>2, <2>5, <2>6, RequestFacts DEF Jobs, SavePcs
  <2>8. Loading'
    BY <1>1, <2>2 DEF DiskInv, Loading, Entries
  <2>9. FilesMirrorArea'
    <3>1. ASSUME NEW p \in Persistent
          PROVE  file[p] = None \/ file[p] = area'[p] \/ Saving(p)' \/ area'[p] \in unsaved \/ p \in unread
      <4>1. CASE p = n
        BY <4>1, <2>2, <2>6 DEF Saving
      <4>2. CASE p # n
        BY <4>2, <2>4, <1>1 DEF DiskInv, FilesMirrorArea, Saving, ReceiveSet
      <4> QED
        BY <4>1, <4>2
    <3> QED
      BY <3>1, <1>1 DEF FilesMirrorArea
  <2> QED
    BY <1>1, <2>7, <2>8, <2>9 DEF DiskRest, DiskInv, FilesAreWhole
<1> QED
  BY <1>2, <1>3

LEMMA ServeDisk ==
  ASSUME DiskInv, Serve
  PROVE  DiskRest'
<1>1. CASE ReceiveSet
  BY <1>1, SetDisk
<1>2. CASE ~ReceiveSet
  <2>1. /\ UNCHANGED <<area, persistent_properties_loaded, dir, file, temp, unsaved, unread, miswritten>>
        /\ pc \in {"idle", "recv", "control", "answer"}
        /\ pc' \in {"idle", "recv", "control"}
    BY <1>2 DEF Serve, Accept, ReceiveNothing, ReceiveControl, HandleControl, Answer, diskVars, historyVars
  <2>2. Jobs' /\ Loading'
    BY <2>1 DEF DiskInv, Jobs, SavePcs, Loading, Entries
  <2>3. FilesAreWhole' /\ FilesMirrorArea'
    BY <2>1 DEF DiskInv, FilesAreWhole, FilesMirrorArea, Saving
  <2> QED
    BY <2>2, <2>3 DEF DiskRest
<1> QED
  BY <1>1, <1>2

(* Saving: the file changes in the rename alone.                            *)
LEMMA SaveDisk ==
  ASSUME DiskInv, Save
  PROVE  DiskRest'
<1>1. /\ UNCHANGED <<job, area, persistent_properties_loaded, dir, unread>>
      /\ pc \in SavePcs /\ pc' \in SavePcs \cup {"answer", "load"}
      /\ persistent_properties_loaded
  BY DEF Save, SaveOpen, SaveWrite, SaveRename, saveVars, SavePcs, SaveFails, SaveReturns, DiskInv, Jobs
<1>2. PICK n \in Persistent : n = job.name
  BY <1>1 DEF DiskInv, Jobs
<1>3. PICK v \in Values : v = job.value /\ area[n] = v
  BY <1>1, <1>2 DEF DiskInv, Jobs
<1>4. v # None /\ None # Torn
  BY <1>3, RequestFacts
<1>5. Jobs'
  <2>1. pc' \in SavePcs => miswritten \subseteq miswritten'
    BY DEF Save, SaveOpen, SaveWrite, SaveRename, SaveFails, SaveReturns, SavePcs
  <2>2. pc' = "rename" => temp' = v \/ (temp' = Torn /\ n \in miswritten')
    BY <1>1, <1>2, <1>3 DEF Save, SaveOpen, SaveWrite, SaveRename, SaveFails, SaveReturns
  <2>3. v = Torn => n \in miswritten
    BY <1>1, <1>2, <1>3 DEF DiskInv, Jobs
  <2> QED
    BY <1>1, <1>2, <1>3, <2>1, <2>2, <2>3 DEF Jobs, SavePcs
<1>6. /\ \A p \in Persistent \ {n} : file'[p] = file[p]
      /\ file'[n] \in {file[n], v, Torn}
      /\ unsaved \subseteq unsaved'
  BY <1>2, <1>3 DEF Save, SaveOpen, SaveWrite, SaveRename, SaveFails, DiskInv, TypeOK, Jobs
<1>7. pc' \notin SavePcs => file'[n] = v \/ v \in unsaved'
  BY <1>2, <1>3 DEF Save, SaveOpen, SaveWrite, SaveRename, SaveFails, SavePcs, DiskInv, TypeOK, Jobs
<1>8. Loading'
  <2>1. \A p \in Persistent : file[p] # None => file'[p] # None
    BY <1>4, <1>6
  <2> QED
    BY <1>1, <2>1 DEF DiskInv, Loading, Entries
<1>9. FilesAreWhole'
  <2>1. \A p \in Persistent \ {n} : p \in miswritten => p \in miswritten'
    BY <1>2 DEF Save, SaveOpen, SaveWrite, SaveRename
  <2>2. file'[n] = Torn => n \in miswritten'
    <3>1. CASE SaveOpen \/ SaveWrite
      <4>1. file' = file /\ miswritten \subseteq miswritten'
        BY <3>1 DEF SaveOpen, SaveWrite
      <4> QED
        BY <4>1 DEF DiskInv, FilesAreWhole
    <3>2. CASE SaveRename
      <4>1. temp = Torn => n \in miswritten
        BY <3>2, <1>1, <1>2, <1>3 DEF DiskInv, Jobs, SaveRename, SavePcs
      <4>2. CASE file' = file /\ miswritten' = miswritten
        BY <4>2 DEF DiskInv, FilesAreWhole
      <4>3. CASE /\ file'[n] = temp
                 /\ miswritten' = IF temp = Torn THEN miswritten ELSE miswritten \ {n}
        BY <4>1, <4>3
      <4> QED
        BY <3>2, <4>2, <4>3, <1>2 DEF SaveRename, DiskInv, TypeOK
    <3> QED
      BY <3>1, <3>2 DEF Save
  <2> QED
    BY <2>1, <2>2, <1>6 DEF DiskInv, FilesAreWhole
<1>10. FilesMirrorArea'
  <2>1. ASSUME NEW p \in Persistent
        PROVE  file'[p] = None \/ file'[p] = area[p] \/ Saving(p)' \/ area[p] \in unsaved' \/ p \in unread
    <3>1. CASE p = n
      <4>1. CASE pc' \in SavePcs
        BY <3>1, <4>1, <1>1, <1>2 DEF Saving, SavePcs
      <4>2. CASE pc' \notin SavePcs
        BY <3>1, <4>2, <1>3, <1>7
      <4> QED
        BY <4>1, <4>2
    <3>2. CASE p # n
      <4>1. ~Saving(p)
        BY <3>2, <1>2 DEF Saving
      <4>2. file[p] = None \/ file[p] = area[p] \/ area[p] \in unsaved \/ p \in unread
        BY <4>1, <1>1 DEF DiskInv, FilesMirrorArea
      <4> QED
        BY <3>2, <4>2, <1>6
    <3> QED
      BY <3>1, <3>2
  <2> QED
    BY <2>1, <1>1 DEF FilesMirrorArea
<1> QED
  BY <1>5, <1>8, <1>9, <1>10 DEF DiskRest

(* Loading: what is read from a file is put into the area and then, in a    *)
(* running system, back into the file.                                      *)
LEMMA LoadEntryDisk ==
  ASSUME DiskInv, NEW n \in Persistent, LoadEntry(n)
  PROVE  DiskRest'
<1>1. UNCHANGED <<persistent_properties_loaded, file, temp, unsaved, miswritten>>
  BY DEF LoadEntry, diskVars
<1>2. PICK v \in Values : v = file[n] /\ (v = Torn => n \in miswritten)
  BY DEF LoadEntry, DiskInv, Loading, Entries, TypeOK, FilesAreWhole
<1>3. n \in Names /\ area \in [Names -> Values \cup {None}]
  BY PropertyServiceAssumption DEF DiskInv, TypeOK
<1>4. area' = Published(n, v) /\ job' = [name |-> n, value |-> v]
  BY <1>2 DEF LoadEntry
<1>5. area'[n] = v /\ \A p \in Persistent \ {n} : area'[p] = area[p]
  BY <1>3, <1>4, PublishedPersistent
<1>6. pc' = (IF persistent_properties_loaded THEN "open" ELSE "load") /\ pc = "load"
  BY DEF LoadEntry, Saves
<1>7. Jobs'
  BY <1>1, <1>2, <1>4, <1>5, <1>6 DEF Jobs, SavePcs
<1>8. Loading'
  <2>1. dir' \subseteq Entries'
    BY <1>1 DEF LoadEntry, DiskInv, Loading, Entries
  <2>2. ASSUME NEW p \in Persistent \ dir', ~persistent_properties_loaded
        PROVE  file[p] = None \/ file[p] = area'[p] \/ p \in unread'
    <3>1. CASE p = n
      BY <3>1, <1>2, <1>5
    <3>2. CASE p # n
      BY <3>2, <2>2, <1>5 DEF LoadEntry, DiskInv, Loading
    <3> QED
      BY <3>1, <3>2
  <2> QED
    BY <2>1, <2>2, <1>1 DEF Loading
<1>9. FilesMirrorArea'
  <2>1. ASSUME NEW p \in Persistent, persistent_properties_loaded
        PROVE  file[p] = None \/ file[p] = area'[p] \/ area'[p] \in unsaved \/ p \in unread'
    <3>1. CASE p = n
      BY <3>1, <1>2, <1>5
    <3>2. CASE p # n
      BY <3>2, <2>1, <1>5, <1>6 DEF LoadEntry, DiskInv, FilesMirrorArea, Saving
    <3> QED
      BY <3>1, <3>2
  <2> QED
    BY <2>1, <1>1 DEF FilesMirrorArea
<1> QED
  BY <1>1, <1>7, <1>8, <1>9 DEF DiskRest, DiskInv, FilesAreWhole

LEMMA LoadDisk ==
  ASSUME DiskInv, Load
  PROVE  DiskRest'
<1>1. CASE Boot
  <2>1. UNCHANGED <<job, persistent_properties_loaded, file, temp, unsaved, unread, miswritten>> /\ pc = "boot"
        /\ pc' = "load" /\ dir' = Entries
    BY <1>1 DEF Boot, diskVars, historyVars
  <2>2. ~persistent_properties_loaded
    BY <2>1 DEF DiskInv, Jobs
  <2>3. Jobs'
    BY <2>1, <2>2 DEF Jobs, SavePcs
  <2>4. Loading'
    BY <2>1 DEF Loading, Entries
  <2>5. FilesMirrorArea' /\ FilesAreWhole'
    BY <2>1, <2>2 DEF DiskInv, FilesMirrorArea, FilesAreWhole
  <2> QED
    BY <2>3, <2>4, <2>5 DEF DiskRest
<1>2. CASE LoadEnd
  <2>1. UNCHANGED <<area, file, temp, unsaved, unread, dir, miswritten>> /\ pc = "load" /\ dir = {}
        /\ pc' = "idle" /\ persistent_properties_loaded'
    BY <1>2 DEF LoadEnd, diskVars, historyVars
  <2>2. Jobs' /\ Loading' /\ FilesAreWhole'
    BY <2>1 DEF DiskInv, Jobs, SavePcs, Loading, Entries, FilesAreWhole
  <2>3. ASSUME NEW n \in Persistent
        PROVE  file[n] = None \/ file[n] = area[n] \/ area[n] \in unsaved \/ n \in unread
    BY <2>1 DEF DiskInv, Loading, FilesMirrorArea, Saving
  <2>4. FilesMirrorArea'
    BY <2>1, <2>3 DEF FilesMirrorArea
  <2> QED
    BY <2>2, <2>4 DEF DiskRest
<1>3. ASSUME NEW n \in Persistent, LoadEntry(n) PROVE DiskRest'
  BY <1>3, LoadEntryDisk
<1>4. ASSUME NEW n \in Persistent, CannotLoadEntry(n) PROVE DiskRest'
  <2>1. UNCHANGED <<area, job, pc, persistent_properties_loaded, file, temp, unsaved, miswritten>> /\ pc = "load"
        /\ dir' = dir \ {n} /\ unread' = unread \cup {n}
    BY <1>4 DEF CannotLoadEntry, diskVars
  <2>2. Jobs' /\ FilesAreWhole'
    BY <2>1 DEF DiskInv, Jobs, SavePcs, FilesAreWhole
  <2>3. Loading'
    BY <2>1 DEF DiskInv, Loading, Entries
  <2>4. FilesMirrorArea'
    BY <2>1 DEF DiskInv, FilesMirrorArea, Saving
  <2> QED
    BY <2>2, <2>3, <2>4 DEF DiskRest
<1> QED
  BY <1>1, <1>2, <1>3, <1>4 DEF Load

LEMMA OtherDisk ==
  ASSUME DiskInv, LoadPersistProps \/ Reboot \/ Quiet
  PROVE  DiskRest'
<1>1. CASE LoadPersistProps
  <2>1. UNCHANGED <<area, job, persistent_properties_loaded, file, temp, unsaved, unread, miswritten>>
        /\ pc = "idle" /\ pc' = "load" /\ dir' = Entries
    BY <1>1 DEF LoadPersistProps, diskVars, historyVars
  <2>2. persistent_properties_loaded
    BY <2>1 DEF DiskInv, Jobs
  <2>3. Jobs' /\ Loading' /\ FilesAreWhole'
    BY <2>1, <2>2 DEF DiskInv, Jobs, SavePcs, Loading, Entries, FilesAreWhole
  <2>4. FilesMirrorArea'
    BY <2>1 DEF DiskInv, FilesMirrorArea, Saving
  <2> QED
    BY <2>3, <2>4 DEF DiskRest
<1>2. CASE Reboot
  <2>1. UNCHANGED <<file, temp, unsaved, unread, miswritten>>
        /\ pc' = "boot" /\ dir' = {} /\ ~persistent_properties_loaded'
    BY <1>2 DEF Reboot, diskVars, historyVars
  <2>2. Jobs' /\ Loading' /\ FilesAreWhole' /\ FilesMirrorArea'
    BY <2>1 DEF DiskInv, Jobs, SavePcs, Loading, Entries, FilesAreWhole, FilesMirrorArea
  <2> QED
    BY <2>2 DEF DiskRest
<1>3. CASE Quiet
  <2>1. UNCHANGED diskState
    BY <1>3 DEF Quiet, vars, diskState, diskVars, historyVars
  <2> QED
    BY <2>1, DiskStutter DEF DiskRest
<1> QED
  BY <1>1, <1>2, <1>3

LEMMA DiskStep == DiskInv /\ [Next]_vars => DiskInv'
<1> SUFFICES ASSUME DiskInv, [Next]_vars PROVE DiskInv'
  OBVIOUS
<1>1. TypeOK /\ Jobs
  BY DEF DiskInv
<1>2. ASSUME NEW r \in Requests, Client(r) PROVE DiskInv'
  <2>1. UNCHANGED diskState
    BY <1>2 DEF Client, Connect, CannotConnect, Send, Die, PollHup, PollTimesOut, monitorVars,
       diskState, diskVars, historyVars
  <2>2. DiskRest'
    BY <2>1, DiskStutter DEF DiskRest
  <2> QED
    BY <1>1, <1>2, <2>2, ClientTypes DEF DiskInv, DiskRest
<1>3. CASE Serve
  BY <1>1, <1>3, ServeTypes, ServeDisk DEF DiskInv, DiskRest
<1>4. CASE Save
  BY <1>1, <1>4, SaveTypes, SaveDisk DEF DiskInv, DiskRest
<1>5. CASE Load
  BY <1>1, <1>5, LoadTypes, LoadDisk DEF DiskInv, DiskRest
<1>6. CASE LoadPersistProps \/ Reboot \/ Quiet
  BY <1>1, <1>6, OtherTypes, OtherDisk DEF DiskInv, DiskRest
<1>7. CASE UNCHANGED vars
  <2>1. UNCHANGED diskState /\ TypeOK'
    BY <1>1, <1>7 DEF vars, diskState, TypeOK, clientVars, diskVars, countVars, historyVars
  <2> QED
    BY <2>1, DiskStutter DEF DiskInv
<1> QED
  BY <1>2, <1>3, <1>4, <1>5, <1>6, <1>7 DEF Next

LEMMA DiskHolds == Spec => []DiskInv
<1>1. Init => DiskInv
  BY DiskInit
<1>2. DiskInv /\ [Next]_vars => DiskInv'
  BY DiskStep
<1> QED
  BY <1>1, <1>2, PTL DEF Spec

(* Every reachable state is well formed.                                    *)
THEOREM TypeCorrect == Spec => []TypeOK
<1>1. DiskInv => TypeOK
  BY DEF DiskInv
<1> QED
  BY <1>1, DiskHolds, PTL

(* At whatever step of write_persistent_property the machine is rebooted,   *)
(* a persistent file is found empty or cut off only if a write() of it      *)
(* failed and no whole value was saved since: the opening of the temporary  *)
(* file and the rename never show a file half done.                         *)
THEOREM RenameIsAtomic == Spec => []FilesAreWhole
<1>1. DiskInv => FilesAreWhole
  BY DEF DiskInv
<1> QED
  BY <1>1, DiskHolds, PTL

(* Persistent properties and their files agree in a running system.         *)
THEOREM FilesMirror == Spec => []FilesMirrorArea
<1>1. DiskInv => FilesMirrorArea
  BY DEF DiskInv
<1> QED
  BY <1>1, DiskHolds, PTL

-------------------------------------------------------------------------------
(* What a client may conclude when its connection is closed.                 *)

Last == handled[Len(handled)]

(* A request in hand was sent; it is the last one handled once it is        *)
(* decided on.                                                              *)
InHand ==
  /\ \A r \in sent \cup closed : state[r] \in {"sent"} \cup Returned
  /\ pc \in {"control", "answer"} \cup SavePcs /\ serving # 0 => serving \in sent
  /\ pc \in {"answer"} \cup SavePcs /\ serving # 0 =>
       /\ name[serving] \notin Control
       /\ handled # <<>> /\ Last = serving
  /\ pc = "control" => name[serving] \in Control
  /\ pc \in SavePcs /\ serving # 0 => job = [name |-> name[serving], value |-> serving]
  /\ pc \in SavePcs /\ serving = 0 => job.value = file[job.name]
  /\ pc \in {"boot", "load", "idle"} => serving = 0

IsSaved(r) ==
  name[r] \in Persistent /\ Allowed(r) =>
    \/ file[name[r]] \in Requests /\ Before(r, file[name[r]])
    \/ {r, file[name[r]]} \cap (unsaved \cup {Torn}) # {}

Done(r) == name[r] \notin Control => Before(r, r) /\ IsSaved(r)

Acks ==
  /\ \A r \in closed : state[r] \in {"sent", "hup"} => Done(r)
  /\ pc = "answer" => IsSaved(serving)

AckInv == InHand /\ Acks

LEMMA AckInit == Init => AckInv
BY DEF Init, AckInv, InHand, Acks, SavePcs

(* handled only grows.                                                      *)
LEMMA BeforeGrows ==
  ASSUME handled \in Seq(Requests), NEW q \in Requests, handled' = Append(handled, q)
  PROVE  /\ \A r, p : Before(r, p) => Before(r, p)'
         /\ Before(q, q)' /\ handled' # <<>> /\ Last' = q
         /\ \A r : Before(r, r) => Before(r, q)'
<1>1. /\ Len(handled) \in Nat /\ Len(handled') = Len(handled) + 1
      /\ DOMAIN handled = 1 .. Len(handled) /\ DOMAIN handled' = 1 .. Len(handled) + 1
  OBVIOUS
<1>2. \A i \in DOMAIN handled : i \in DOMAIN handled' /\ handled'[i] = handled[i]
  OBVIOUS
<1>3. handled'[Len(handled) + 1] = q /\ Len(handled) + 1 \in DOMAIN handled'
  BY <1>1
<1>4. ASSUME NEW r, NEW p, Before(r, p) PROVE Before(r, p)'
  <2>1. PICK i, j \in DOMAIN handled : handled[i] = r /\ handled[j] = p /\ i <= j
    BY <1>4 DEF Before
  <2> QED
    BY <2>1, <1>2 DEF Before
<1>5. Before(q, q)'
  <2>1. Len(handled) + 1 <= Len(handled) + 1
    BY <1>1
  <2> QED
    BY <1>3, <2>1 DEF Before
<1>6. ASSUME NEW r, Before(r, r) PROVE Before(r, q)'
  <2>1. PICK i \in DOMAIN handled : handled[i] = r
    BY <1>6 DEF Before
  <2>2. i <= Len(handled) + 1
    BY <2>1, <1>1
  <2> QED
    BY <2>1, <2>2, <1>2, <1>3 DEF Before
<1>7. handled' # <<>> /\ Last' = q
  BY <1>1, <1>3 DEF Last
<1> QED
  BY <1>4, <1>5, <1>6, <1>7

(* The last one handled comes after all others.                             *)
LEMMA BeforeLast ==
  ASSUME handled \in Seq(Requests), handled # <<>>, NEW r, Before(r, r)
  PROVE  Before(r, Last) /\ Before(Last, Last)
<1>1. /\ Len(handled) \in Nat /\ DOMAIN handled = 1 .. Len(handled)
      /\ Len(handled) \in DOMAIN handled
  OBVIOUS
<1>2. PICK i \in DOMAIN handled : handled[i] = r
  BY DEF Before
<1>3. i <= Len(handled) /\ Len(handled) <= Len(handled)
  BY <1>1, <1>2
<1> QED
  BY <1>1, <1>2, <1>3 DEF Before, Last

LEMMA ClientAck ==
  ASSUME DiskInv, AckInv, NEW r \in Requests, Client(r)
  PROVE  AckInv'
<1>1. /\ UNCHANGED <<pc, serving, job, file, handled, unsaved, closed>>
      /\ \A q \in Requests \ {r} : state'[q] = state[q] /\ name'[q] = name[q]
      /\ state[r] # "new" => name'[r] = name[r]
      /\ sent' \in {sent, sent \cup {r}} /\ sent \subseteq Requests /\ closed \subseteq Requests
  <2>1. UNCHANGED monitorVars /\ UNCHANGED closed
    BY DEF Client, Connect, CannotConnect, Send, Die, PollHup, PollTimesOut
  <2>2. \A q \in Requests \ {r} : state'[q] = state[q]
    BY DEF Client, Connect, CannotConnect, Send, Die, PollHup, PollTimesOut, Becomes, DiskInv, TypeOK
  <2>3. CASE Connect(r)
    <3>1. \A q \in Requests \ {r} : name'[q] = name[q]
      BY <2>3 DEF Connect, DiskInv, TypeOK
    <3>2. state[r] = "new" /\ sent' = sent
      BY <2>3 DEF Connect, Calls
    <3> QED
      BY <2>1, <2>2, <3>1, <3>2 DEF monitorVars, diskVars, historyVars, DiskInv, TypeOK
  <2>4. CASE ~Connect(r)
    <3>1. name' = name /\ sent' \in {sent, sent \cup {r}}
      BY <2>4 DEF Client, CannotConnect, Send, Die, PollHup, PollTimesOut
    <3> QED
      BY <2>1, <2>2, <3>1 DEF monitorVars, diskVars, historyVars, DiskInv, TypeOK
  <2> QED
    BY <2>3, <2>4
<1>2. /\ state[r] \in {"sent"} \cup Returned => state'[r] \in {"sent"} \cup Returned
      /\ r \in sent' => r \in sent \/ state'[r] = "sent"
      /\ state'[r] \in {"sent", "hup"} /\ r \in closed => state[r] \in {"sent", "hup"}
  BY DEF Client, Connect, CannotConnect, Send, Die, PollHup, PollTimesOut, Becomes, Returned,
     Calls, AckInv, InHand, DiskInv, TypeOK
<1>3. "new" \notin {"sent"} \cup Returned
  BY DEF Returned
<1>4. \A q \in sent \cup closed : name'[q] = name[q]
  BY <1>1, <1>3 DEF AckInv, InHand
<1>5. ASSUME NEW q \in sent' \cup closed PROVE state'[q] \in {"sent"} \cup Returned
  BY <1>1, <1>2, <1>5 DEF AckInv, InHand
<1>6. InHand'
  <2>1. pc \in {"control", "answer"} \cup SavePcs /\ serving # 0 => name'[serving] = name[serving]
    BY <1>4 DEF AckInv, InHand
  <2>2. pc = "control" => serving # 0
    BY DEF DiskInv, TypeOK
  <2> QED
    BY <1>1, <1>5, <2>1, <2>2 DEF AckInv, InHand, SavePcs, Last
<1>7. ASSUME NEW q \in sent \cup closed PROVE IsSaved(q)' <=> IsSaved(q)
  BY <1>1, <1>4, <1>7 DEF IsSaved, Allowed, Before
<1>8. Acks'
  <2>1. ASSUME NEW q \in closed, state'[q] \in {"sent", "hup"} PROVE Done(q)'
    <3>1. Done(q)
      BY <1>1, <1>2, <2>1 DEF AckInv, Acks
    <3> QED
      BY <3>1, <1>1, <1>4, <1>7 DEF Done, Before
  <2>2. pc = "answer" => serving \in sent
    BY DEF AckInv, InHand, DiskInv, TypeOK
  <2>3. pc' = "answer" => IsSaved(serving)'
    BY <1>1, <1>7, <2>2 DEF AckInv, Acks, IsSaved, Allowed, Before
  <2> QED
    BY <1>1, <2>1, <2>3 DEF Acks
<1> QED
  BY <1>6, <1>8 DEF AckInv

(* Steps that close no connection and decide nothing.                       *)
LEMMA DoneStays ==
  ASSUME UNCHANGED <<name, file, unsaved>>, NEW r, \A p : Before(r, p) => Before(r, p)'
  PROVE  (Done(r) => Done(r)') /\ (IsSaved(r) => IsSaved(r)')
BY DEF Done, IsSaved, Allowed

LEMMA ServeAck ==
  ASSUME DiskInv, AckInv, Serve
  PROVE  AckInv'
<1>1. UNCHANGED <<state, name, sent, file, unsaved>> /\ handled \in Seq(Requests)
  BY DEF Serve, Accept, ReceiveNothing, ReceiveControl, HandleControl, ReceiveSet, Answer,
     clientVars, diskVars, historyVars, DiskInv, TypeOK
<1>2. CASE UNCHANGED <<closed, handled>> /\ Accept
  <2>1. pc' = "recv"
    BY <1>2 DEF Accept
  <2>2. \A r, p : Before(r, p) => Before(r, p)'
    BY <1>2 DEF Before
  <2> QED
    BY <1>1, <1>2, <2>1, <2>2, DoneStays DEF AckInv, InHand, Acks, SavePcs
<1>3. CASE ReceiveNothing \/ ReceiveControl
  <2>1. /\ closed' = closed \cup {serving} /\ UNCHANGED handled
        /\ state[serving] = "died" \/ name[serving] \in Control
        /\ \/ pc' = "idle" /\ serving' = 0
           \/ pc' = "control" /\ serving' = serving
    <3>1. CASE ReceiveNothing
      BY <3>1 DEF ReceiveNothing, Close, historyVars
    <3>2. CASE ReceiveControl
      BY <3>2 DEF ReceiveControl, Close, historyVars
    <3> QED
      BY <1>3, <3>1, <3>2
  <2>2. \A r, p : Before(r, p) => Before(r, p)'
    BY <2>1 DEF Before
  <2>3. ASSUME NEW r \in closed', state[r] \in {"sent", "hup"} PROVE Done(r)'
    <3>1. CASE name[r] \in Control
      BY <3>1, <1>1 DEF Done
    <3>2. CASE name[r] \notin Control
      <4>1. r \in closed
        BY <2>1, <2>3, <3>2
      <4> QED
        BY <4>1, <2>2, <2>3, <1>1, DoneStays DEF AckInv, Acks
    <3> QED
      BY <3>1, <3>2
  <2>4. InHand'
    BY <1>1, <1>3, <2>1 DEF ReceiveNothing, ReceiveControl, AckInv, InHand, SavePcs, Returned
  <2> QED
    BY <1>1, <2>1, <2>3, <2>4 DEF AckInv, Acks
<1>4. CASE HandleControl
  <2>1. serving \in Requests /\ handled' = Append(handled, serving) /\ pc' = "idle" /\ serving' = 0
        /\ UNCHANGED closed
    BY <1>4 DEF HandleControl, DiskInv, TypeOK
  <2>2. \A r, p : Before(r, p) => Before(r, p)'
    BY <1>1, <2>1, BeforeGrows
  <2> QED
    BY <1>1, <2>1, <2>2, DoneStays DEF AckInv, InHand, Acks, SavePcs
<1>5. CASE ReceiveSet
  <2>1. serving \in Requests /\ handled' = Append(handled, serving) /\ UNCHANGED <<closed, serving>>
        /\ serving \in sent /\ name[serving] \notin Control
    BY <1>5 DEF ReceiveSet, DiskInv, TypeOK
  <2>2. /\ \A r, p : Before(r, p) => Before(r, p)'
        /\ handled' # <<>> /\ Last' = serving
    BY <1>1, <2>1, BeforeGrows
  <2>3. pc' \in {"answer", "open"} /\ persistent_properties_loaded
    BY <1>5 DEF ReceiveSet, DiskInv, Jobs
  <2>4. pc' = "open" => job' = [name |-> name[serving], value |-> serving]
    BY <1>5 DEF ReceiveSet
  <2>5. pc' = "answer" => ~(name[serving] \in Persistent /\ Allowed(serving))
    BY <1>5, <2>3, PropertyServiceAssumption DEF ReceiveSet, Saves
  <2>6. InHand'
    BY <1>1, <2>1, <2>2, <2>3, <2>4, RequestFacts DEF AckInv, InHand, SavePcs
  <2>7. pc' = "answer" => IsSaved(serving)'
    BY <1>1, <2>1, <2>5 DEF IsSaved, Allowed
  <2> QED
    BY <1>1, <2>1, <2>2, <2>6, <2>7, DoneStays DEF AckInv, Acks
<1>6. CASE Answer
  <2>1. closed' = closed \cup {serving} /\ UNCHANGED handled /\ pc = "answer" /\ pc' = "idle"
        /\ serving' = 0
    BY <1>6 DEF Answer, Close, historyVars
  <2>2. serving # 0 /\ serving \in sent /\ handled # <<>> /\ Last = serving
    BY <2>1 DEF DiskInv, TypeOK, AckInv, InHand
  <2>3. Before(serving, serving)
    <3>1. Len(handled) \in DOMAIN handled /\ Len(handled) <= Len(handled)
      BY <1>1, <2>2
    <3> QED
      BY <3>1, <2>2 DEF Before, Last
  <2>4. Done(serving)
    BY <2>1, <2>3 DEF Done, AckInv, Acks
  <2>5. \A r, p : Before(r, p) => Before(r, p)'
    BY <2>1 DEF Before
  <2>6. InHand'
    BY <1>1, <2>1, <2>2 DEF AckInv, InHand, SavePcs
  <2> QED
    BY <1>1, <2>1, <2>4, <2>5, <2>6, DoneStays DEF AckInv, Acks
<1> QED
  BY <1>2, <1>3, <1>4, <1>5, <1>6 DEF Serve, Accept, historyVars

LEMMA SaveAck ==
  ASSUME DiskInv, AckInv, Save
  PROVE  AckInv'
<1>1. /\ UNCHANGED <<state, name, sent, closed, serving, job, handled>>
      /\ pc \in SavePcs /\ pc' \in SavePcs \cup {"answer", "load"}
      /\ pc' \in {"answer", "load"} => pc' = IF serving # 0 THEN "answer" ELSE "load"
      /\ handled \in Seq(Requests)
  BY DEF Save, SaveOpen, SaveWrite, SaveRename, saveVars, clientVars, SavePcs, SaveFails, SaveReturns,
     DiskInv, TypeOK
<1>2. PICK n \in Persistent : n = job.name
  BY <1>1 DEF DiskInv, Jobs
<1>3. PICK v \in Values : v = job.value
  BY <1>1 DEF DiskInv, Jobs
<1>4. /\ \A p \in Persistent \ {n} : file'[p] = file[p]
      /\ file'[n] \in {file[n], v, Torn}
      /\ unsaved \subseteq unsaved'
  BY <1>2, <1>3 DEF Save, SaveOpen, SaveWrite, SaveRename, SaveFails, DiskInv, TypeOK, Jobs
<1>5. pc' \notin SavePcs => file'[n] = v \/ v \in unsaved'
  BY <1>2, <1>3 DEF Save, SaveOpen, SaveWrite, SaveRename, SaveFails, SavePcs, DiskInv, TypeOK, Jobs
<1>6. pc' \in SavePcs => file' = file
  BY DEF Save, SaveOpen, SaveWrite, SaveRename, SaveFails, SaveReturns, SavePcs
<1>7. InHand'
  BY <1>1, <1>6 DEF AckInv, InHand, SavePcs, Last
<1>8. \A r, p : Before(r, p)' <=> Before(r, p)
  BY <1>1 DEF Before
<1>9. serving # 0 => v = serving /\ v \in Requests /\ handled # <<>> /\ Last = v /\ name[serving] = n
  BY <1>1, <1>2, <1>3 DEF AckInv, InHand, DiskInv, TypeOK
<1>10. serving = 0 => v = file[n]
  BY <1>1, <1>2, <1>3 DEF AckInv, InHand
<1>11. ASSUME NEW r, Before(r, r), IsSaved(r) PROVE IsSaved(r)'
  <2>1. CASE name[r] # n
    BY <2>1, <1>1, <1>4, <1>8, <1>11 DEF IsSaved, Allowed
  <2>2. CASE name[r] = n
    <3>1. CASE file'[n] = Torn
      BY <2>2, <3>1, <1>1 DEF IsSaved, Allowed
    <3>2. CASE file'[n] = file[n]
      BY <2>2, <3>2, <1>1, <1>4, <1>8, <1>11 DEF IsSaved, Allowed
    <3>3. CASE file'[n] = v /\ serving # 0
      <4>1. Before(r, v)
        BY <3>3, <1>1, <1>9, <1>11, BeforeLast
      <4> QED
        BY <2>2, <3>3, <4>1, <1>1, <1>8, <1>9 DEF IsSaved, Allowed
    <3> QED
      BY <3>1, <3>2, <3>3, <1>4, <1>10
  <2> QED
    BY <2>1, <2>2
<1>12. ASSUME NEW r \in closed, state[r] \in {"sent", "hup"} PROVE Done(r)'
  <2>1. Done(r)
    BY <1>12 DEF AckInv, Acks
  <2> QED
    BY <2>1, <1>1, <1>8, <1>11 DEF Done
<1>13. pc' = "answer" => IsSaved(serving)'
  <2> SUFFICES ASSUME pc' = "answer" PROVE IsSaved(serving)'
    OBVIOUS
  <2>1. serving # 0 /\ pc' \notin SavePcs
    BY <1>1 DEF SavePcs
  <2>2. Before(serving, serving)
    <3>1. Len(handled) \in DOMAIN handled /\ Len(handled) <= Len(handled)
      BY <1>1, <1>9, <2>1
    <3> QED
      BY <3>1, <1>9, <2>1 DEF Before, Last
  <2>3. CASE file'[n] = v
    BY <2>1, <2>2, <2>3, <1>1, <1>8, <1>9 DEF IsSaved
  <2>4. CASE v \in unsaved'
    BY <2>1, <2>4, <1>1, <1>9 DEF IsSaved
  <2> QED
    BY <2>1, <2>3, <2>4, <1>5
<1>14. Acks'
  BY <1>1, <1>12, <1>13 DEF Acks
<1> QED
  BY <1>7, <1>14 DEF AckInv

LEMMA LoadAck ==
  ASSUME DiskInv, AckInv, Load \/ LoadPersistProps
  PROVE  AckInv'
<1>1. /\ UNCHANGED <<state, name, sent, closed, serving, file, unsaved, handled>>
      /\ pc' \in {"load", "idle", "open"} /\ pc \in {"boot", "load", "idle"}
      /\ pc' = "open" => job'.value = file[job'.name]
  <2>1. ASSUME NEW n \in Persistent, LoadEntry(n) PROVE pc' = "open" => job'.value = file[job'.name]
    BY <2>1 DEF LoadEntry
  <2> QED
    BY <2>1 DEF Load, Boot, LoadEnd, LoadEntry, CannotLoadEntry, LoadPersistProps, clientVars, diskVars,
       historyVars
<1>2. serving = 0
  BY <1>1 DEF AckInv, InHand
<1>3. InHand'
  BY <1>1, <1>2 DEF AckInv, InHand, SavePcs
<1>4. \A r, p : Before(r, p) => Before(r, p)'
  BY <1>1 DEF Before
<1>5. Acks'
  BY <1>1, <1>4, DoneStays DEF AckInv, Acks
<1> QED
  BY <1>3, <1>5 DEF AckInv

LEMMA RebootAck ==
  ASSUME DiskInv, AckInv, Reboot
  PROVE  AckInv'
<1>1. /\ UNCHANGED <<name, sent, closed, file, unsaved, handled>>
      /\ pc' = "boot" /\ serving' = 0
      /\ sent \subseteq Requests /\ closed \subseteq Requests
  BY DEF Reboot, diskVars, historyVars, DiskInv, TypeOK
<1>2. \A r \in Requests : state'[r] = IF state[r] \in {"connected", "sent"} THEN "died" ELSE state[r]
  BY DEF Reboot
<1>3. InHand'
  BY <1>1, <1>2 DEF AckInv, InHand, SavePcs, Returned
<1>4. \A r, p : Before(r, p) => Before(r, p)'
  BY <1>1 DEF Before
<1>5. ASSUME NEW r \in closed, state'[r] \in {"sent", "hup"} PROVE Done(r)'
  <2>1. state[r] \in {"sent", "hup"}
    BY <1>1, <1>2, <1>5
  <2> QED
    BY <2>1, <1>1, <1>4, DoneStays DEF AckInv, Acks
<1>6. Acks'
  BY <1>1, <1>5 DEF Acks
<1> QED
  BY <1>3, <1>6 DEF AckInv

-------------------------------------------------------------------------------
(* The order of the calls of one client.                                     *)

(* The requests that wait, the one received and those handled are in the    *)
(* order of their client's calls, one after the other.                      *)
Rivals(r, q) == Owner[r] = Owner[q] /\ r # q

Receiving == pc \in {"recv", "control"}

Called(r) == state[r] # "new"

OrderInv ==
  /\ \A r, q \in Requests : r < q /\ Rivals(r, q) /\ Called(q) => state[r] \in Returned
  /\ \A i \in DOMAIN backlog : Called(backlog[i])
  /\ serving # 0 => Called(serving)
  /\ \A i \in DOMAIN handled : Called(handled[i])
  /\ \A i, j \in DOMAIN backlog :
       i < j /\ Owner[backlog[i]] = Owner[backlog[j]] => backlog[i] < backlog[j]
  /\ serving # 0 => \A i \in DOMAIN backlog :
       Owner[serving] = Owner[backlog[i]] => serving < backlog[i]
  /\ \A i \in DOMAIN handled : \A j \in DOMAIN backlog :
       Owner[handled[i]] = Owner[backlog[j]] => handled[i] < backlog[j]
  /\ Receiving => serving # 0 /\ \A i \in DOMAIN handled :
       Owner[handled[i]] = Owner[serving] => handled[i] < serving
  /\ pc \in {"boot", "load", "idle"} => serving = 0
  /\ CallsInOrder

LEMMA OrderInit == Init => OrderInv
BY DEF Init, OrderInv, Called, Receiving, CallsInOrder

queueState == <<backlog, serving, handled, pc>>

LEMMA ClientOrder ==
  ASSUME TypeOK, OrderInv, NEW r \in Requests, Client(r)
  PROVE  OrderInv'
<1>1. \A q \in Requests \ {r} : state'[q] = state[q]
  BY DEF Client, Connect, CannotConnect, Send, Die, PollHup, PollTimesOut, Becomes, TypeOK
<1>2. /\ Called(r)'
      /\ state[r] \in Returned => state'[r] \in Returned
      /\ ~Called(r) => Calls(r)
      /\ UNCHANGED <<serving, handled, pc>>
  BY DEF Client, Connect, CannotConnect, Send, Die, PollHup, PollTimesOut, Becomes, TypeOK, Called,
     Calls, monitorVars, historyVars, Returned
<1>3. \A q \in Requests : Called(q) => Called(q)'
  BY <1>1, <1>2 DEF Called
<1>4. Requests \subseteq Nat
  BY RequestFacts
<1>5. ASSUME NEW p \in Requests, NEW q \in Requests, p < q, Rivals(p, q), Called(q)'
      PROVE  state'[p] \in Returned
  <2>1. CASE Called(q)
    BY <2>1, <1>1, <1>2, <1>5 DEF OrderInv
  <2>2. CASE ~Called(q)
    <3>1. q = r
      BY <2>2, <1>1, <1>5 DEF Called
    <3>2. state[p] \in Returned
      BY <3>1, <2>2, <1>2, <1>5 DEF Calls, Rivals
    <3> QED
      BY <3>1, <3>2, <1>1, <1>5 DEF Rivals
  <2> QED
    BY <2>1, <2>2
<1>6. handled \in Seq(Requests) /\ backlog \in Seq(Requests) /\ serving \in Requests \cup {0}
  BY DEF TypeOK
<1>7. /\ \A i \in DOMAIN handled : handled[i] \in Requests
      /\ \A i \in DOMAIN backlog : backlog[i] \in Requests
      /\ Len(backlog) \in Nat /\ DOMAIN backlog = 1 .. Len(backlog)
  BY <1>6
<1>8. CASE UNCHANGED backlog
  BY <1>2, <1>3, <1>5, <1>7, <1>8, <1>6 DEF OrderInv, Receiving, CallsInOrder
<1>10. backlog' = backlog \/ state'[r] # "new"
  BY DEF Client, Connect, CannotConnect, Send, Die, PollHup, PollTimesOut, Becomes, TypeOK
<1>9. CASE backlog' = Append(backlog, r) /\ ~Called(r)
  <2>1. \A q \in Requests : q < r /\ Owner[q] = Owner[r] => state[q] \in Returned
    BY <1>2, <1>9 DEF Calls
  <2>2. ASSUME NEW q \in Requests, Called(q), Owner[q] = Owner[r] PROVE q < r
    <3>1. q # r
      BY <2>2, <1>9
    <3>2. ~(r < q)
      <4> SUFFICES ASSUME r < q PROVE FALSE
        OBVIOUS
      <4>1. state[r] \in Returned
        BY <2>2, <3>1 DEF OrderInv, Rivals
      <4> QED
        BY <4>1, <1>9 DEF Called, Returned
    <3> QED
      BY <3>1, <3>2, <1>4
  <2>3. /\ DOMAIN backlog' = 1 .. Len(backlog) + 1
        /\ \A i \in DOMAIN backlog : backlog'[i] = backlog[i]
        /\ backlog'[Len(backlog) + 1] = r
    BY <1>7, <1>6, <1>9
  <2>4. \A i \in DOMAIN backlog' : i \in DOMAIN backlog \/ i = Len(backlog) + 1
    BY <2>3, <1>7
  <2>5. \A i \in DOMAIN backlog' : state'[backlog'[i]] # "new"
    <3>1. state'[r] # "new"
      BY <1>10, <1>9
    <3> QED
      BY <3>1, <2>3, <2>4, <1>3, <1>7 DEF OrderInv, Called
  <2>6. ASSUME NEW i \in DOMAIN backlog', NEW j \in DOMAIN backlog', i < j,
               Owner[backlog'[i]] = Owner[backlog'[j]]
        PROVE  backlog'[i] < backlog'[j]
    <3>1. i \in DOMAIN backlog
      BY <2>4, <2>6, <1>7, <2>3
    <3>2. CASE j \in DOMAIN backlog
      BY <3>1, <3>2, <2>3, <2>6 DEF OrderInv
    <3>3. CASE j = Len(backlog) + 1
      BY <3>1, <3>3, <2>2, <2>3, <2>6, <1>7 DEF OrderInv
    <3> QED
      BY <2>4, <3>2, <3>3
  <2>7. ASSUME serving # 0, NEW i \in DOMAIN backlog', Owner[serving] = Owner[backlog'[i]]
        PROVE  serving < backlog'[i]
    <3>1. CASE i \in DOMAIN backlog
      BY <3>1, <2>3, <2>7 DEF OrderInv
    <3>2. CASE i = Len(backlog) + 1
      BY <3>2, <2>2, <2>3, <2>7, <1>6 DEF OrderInv
    <3> QED
      BY <2>4, <3>1, <3>2
  <2>8. ASSUME NEW i \in DOMAIN handled, NEW j \in DOMAIN backlog', Owner[handled[i]] = Owner[backlog'[j]]
        PROVE  handled[i] < backlog'[j]
    <3>1. CASE j \in DOMAIN backlog
      BY <3>1, <2>3, <2>8 DEF OrderInv
    <3>2. CASE j = Len(backlog) + 1
      BY <3>2, <2>2, <2>3, <2>8, <1>7 DEF OrderInv
    <3> QED
      BY <2>4, <3>1, <3>2
  <2>9. /\ serving # 0 => state'[serving] # "new"
        /\ \A i \in DOMAIN handled : state'[handled[i]] # "new"
    BY <1>3, <1>6, <1>7 DEF OrderInv, Called
  <2> QED
    BY <1>2, <1>5, <2>5, <2>6, <2>7, <2>8, <2>9 DEF OrderInv, Receiving, CallsInOrder, Called
<1> QED
  BY <1>8, <1>9 DEF Client, Connect, CannotConnect, Send, Die, PollHup, PollTimesOut, Calls, Called

LEMMA ServeOrder ==
  ASSUME TypeOK, OrderInv, Serve
  PROVE  OrderInv'
<1>1. state' = state
  BY DEF Serve, Accept, ReceiveNothing, ReceiveControl, HandleControl, ReceiveSet, Answer, clientVars
<1>2. handled \in Seq(Requests) /\ backlog \in Seq(Requests) /\ serving \in Requests \cup {0}
  BY DEF TypeOK
<1>3. /\ \A i \in DOMAIN handled : handled[i] \in Requests
      /\ \A i \in DOMAIN backlog : backlog[i] \in Requests
      /\ Len(backlog) \in Nat /\ DOMAIN backlog = 1 .. Len(backlog)
      /\ Len(handled) \in Nat /\ DOMAIN handled = 1 .. Len(handled)
  BY <1>2
<1>4. 0 \notin Requests /\ Requests \subseteq Nat
  BY RequestFacts
<1>5. CASE Accept
  <2>1. /\ serving' = Head(backlog) /\ backlog' = Tail(backlog) /\ backlog # <<>> /\ pc' = "recv"
        /\ UNCHANGED handled
    BY <1>5 DEF Accept, historyVars
  <2>2. /\ 1 \in DOMAIN backlog /\ serving' = backlog[1] /\ serving' # 0
        /\ DOMAIN backlog' = 1 .. Len(backlog) - 1
        /\ \A i \in DOMAIN backlog' : /\ i + 1 \in DOMAIN backlog /\ 1 < i + 1
                                       /\ backlog'[i] = backlog[i + 1]
    <3>1. 1 \in DOMAIN backlog /\ serving' = backlog[1]
      BY <2>1, <1>2, <1>3
    <3>2. DOMAIN backlog' = 1 .. Len(backlog) - 1
      BY <2>1, <1>2, <1>3
    <3>3. \A i \in DOMAIN backlog' : backlog'[i] = backlog[i + 1]
      BY <2>1, <3>2, <1>2, <1>3
    <3>4. \A i \in DOMAIN backlog' : i + 1 \in DOMAIN backlog /\ 1 < i + 1
      BY <3>2, <1>3
    <3> QED
      BY <3>1, <3>2, <3>3, <3>4, <1>3, <1>4
  <2>3. \A i, j \in DOMAIN backlog' : i < j => i + 1 < j + 1
    BY <2>2, <1>3
  <2>4. /\ \A i \in DOMAIN backlog' : Called(backlog'[i])
        /\ Called(serving')
        /\ \A i \in DOMAIN backlog' : Owner[serving'] = Owner[backlog'[i]] => serving' < backlog'[i]
        /\ \A i \in DOMAIN handled : Owner[handled[i]] = Owner[serving'] => handled[i] < serving'
        /\ \A i \in DOMAIN handled : \A j \in DOMAIN backlog' :
              Owner[handled[i]] = Owner[backlog'[j]] => handled[i] < backlog'[j]
    BY <2>2 DEF OrderInv
  <2>5. \A i, j \in DOMAIN backlog' :
          i < j /\ Owner[backlog'[i]] = Owner[backlog'[j]] => backlog'[i] < backlog'[j]
    BY <2>2, <2>3 DEF OrderInv
  <2> QED
    BY <1>1, <2>1, <2>2, <2>4, <2>5 DEF OrderInv, Called, Receiving, CallsInOrder
<1>6. CASE HandleControl \/ ReceiveSet
  <2>1. /\ handled' = Append(handled, serving) /\ UNCHANGED backlog
        /\ serving' \in {serving, 0} /\ Receiving /\ ~Receiving'
        /\ pc' \in {"boot", "load", "idle"} => serving' = 0
    BY <1>6 DEF HandleControl, ReceiveSet, Receiving
  <2>2. serving # 0 /\ \A i \in DOMAIN handled : Owner[handled[i]] = Owner[serving] => handled[i] < serving
    BY <2>1 DEF OrderInv
  <2>3. /\ DOMAIN handled' = 1 .. Len(handled) + 1
        /\ \A i \in DOMAIN handled : handled'[i] = handled[i]
        /\ handled'[Len(handled) + 1] = serving
    BY <2>1, <2>2, <1>2, <1>3
  <2>4. \A i \in DOMAIN handled' : i \in DOMAIN handled \/ i = Len(handled) + 1
    BY <2>3, <1>3
  <2>5. \A i \in DOMAIN handled' : Called(handled'[i])
    BY <2>2, <2>3, <2>4 DEF OrderInv
  <2>6. ASSUME NEW i \in DOMAIN handled', NEW j \in DOMAIN handled', i < j,
               Owner[handled'[i]] = Owner[handled'[j]]
        PROVE  handled'[i] < handled'[j]
    <3>1. i \in DOMAIN handled
      BY <2>3, <2>6, <1>3
    <3>2. CASE j \in DOMAIN handled
      BY <3>1, <3>2, <2>3, <2>6 DEF OrderInv, CallsInOrder
    <3>3. CASE j = Len(handled) + 1
      BY <3>1, <3>3, <2>2, <2>3, <2>6
    <3> QED
      BY <2>4, <3>2, <3>3
  <2>7. ASSUME NEW i \in DOMAIN handled', NEW j \in DOMAIN backlog, Owner[handled'[i]] = Owner[backlog[j]]
        PROVE  handled'[i] < backlog[j]
    <3>1. CASE i \in DOMAIN handled
      BY <3>1, <2>3, <2>7 DEF OrderInv
    <3>2. CASE i = Len(handled) + 1
      BY <3>2, <2>2, <2>3, <2>7 DEF OrderInv
    <3> QED
      BY <2>4, <3>1, <3>2
  <2>8. CallsInOrder'
    BY <2>6 DEF CallsInOrder
  <2> QED
    BY <1>1, <2>1, <2>2, <2>5, <2>7, <2>8 DEF OrderInv, Called
<1>7. CASE ReceiveNothing \/ ReceiveControl \/ Answer
  <2>1. /\ UNCHANGED <<backlog, handled>>
        /\ \/ pc' = "idle" /\ serving' = 0
           \/ pc' = "control" /\ serving' = serving /\ Receiving
    BY <1>7 DEF ReceiveNothing, ReceiveControl, Answer, Receiving, historyVars
  <2> QED
    BY <1>1, <2>1 DEF OrderInv, Called, Receiving, CallsInOrder
<1> QED
  BY <1>5, <1>6, <1>7 DEF Serve

LEMMA OtherOrder ==
  ASSUME TypeOK, OrderInv, Save \/ Load \/ LoadPersistProps \/ Reboot
  PROVE  OrderInv'
<1>1. CASE Reboot
  <2>1. /\ \A r \in Requests : /\ Called(r) <=> Called(r)'
                               /\ state[r] \in Returned => state'[r] \in Returned
        /\ backlog' = <<>> /\ serving' = 0 /\ pc' = "boot" /\ UNCHANGED handled
    BY <1>1 DEF Reboot, Called, Returned, historyVars
  <2>2. \A i \in DOMAIN handled : handled[i] \in Requests
    BY DEF TypeOK
  <2> QED
    BY <2>1, <2>2 DEF OrderInv, Receiving, CallsInOrder
<1>2. CASE Save \/ Load \/ LoadPersistProps
  <2>1. /\ UNCHANGED <<state, backlog, serving, handled>> /\ ~Receiving'
        /\ pc' \in {"boot", "load", "idle"} => serving = 0
    <3>1. CASE Save
      BY <3>1 DEF Save, SaveOpen, SaveWrite, SaveRename, SaveFails, SaveReturns, saveVars, clientVars,
         Receiving
    <3>2. CASE Load \/ LoadPersistProps
      BY <3>2 DEF Load, Boot, LoadEnd, LoadEntry, CannotLoadEntry, LoadPersistProps, clientVars,
         historyVars, Receiving, OrderInv
    <3> QED
      BY <1>2, <3>1, <3>2
  <2> QED
    BY <2>1 DEF OrderInv, Called, Receiving, CallsInOrder
<1> QED
  BY <1>1, <1>2

-------------------------------------------------------------------------------

(* A client that has seen POLLHUP was closed by the monitor.                *)
Heard == \A r \in Requests : state[r] = "hup" => r \in closed

LEMMA HeardStep ==
  ASSUME TypeOK, Heard, [Next]_vars
  PROVE  Heard'
<1>1. CASE UNCHANGED vars
  BY <1>1 DEF vars, clientVars, Heard
<1>2. ASSUME NEW r \in Requests, Client(r) PROVE Heard'
  BY <1>2 DEF Client, Connect, CannotConnect, Send, Die, PollHup, PollTimesOut, Becomes, TypeOK, Heard
<1>3. CASE Serve
  <2>1. state' = state /\ closed \subseteq closed'
    BY <1>3 DEF Serve, Accept, ReceiveNothing, ReceiveControl, HandleControl, ReceiveSet, Answer,
       Close, clientVars
  <2> QED
    BY <2>1 DEF Heard
<1>4. CASE Save
  BY <1>4 DEF Save, SaveOpen, SaveWrite, SaveRename, saveVars, clientVars, Heard
<1>5. CASE Load \/ LoadPersistProps
  BY <1>5 DEF Load, Boot, LoadEnd, LoadEntry, CannotLoadEntry, LoadPersistProps, clientVars, Heard
<1>6. CASE Reboot
  BY <1>6 DEF Reboot, Heard
<1>7. CASE Quiet
  BY <1>1, <1>7 DEF Quiet
<1> QED
  BY <1>1, <1>2, <1>3, <1>4, <1>5, <1>6, <1>7 DEF Next

Inv == DiskInv /\ AckInv /\ OrderInv /\ Heard

LEMMA Step == Inv /\ [Next]_vars => Inv'
<1> SUFFICES ASSUME Inv, [Next]_vars PROVE Inv'
  OBVIOUS
<1>1. DiskInv /\ AckInv /\ OrderInv /\ TypeOK /\ DiskInv' /\ Heard'
  BY DiskStep, HeardStep DEF Inv, DiskInv
<1>2. ASSUME NEW r \in Requests, Client(r) PROVE AckInv' /\ OrderInv'
  BY <1>1, <1>2, ClientAck, ClientOrder
<1>3. CASE Serve
  BY <1>1, <1>3, ServeAck, ServeOrder DEF Inv
<1>4. CASE Save
  BY <1>1, <1>4, SaveAck, OtherOrder DEF Inv
<1>5. CASE Load \/ LoadPersistProps
  BY <1>1, <1>5, LoadAck, OtherOrder DEF Inv
<1>6. CASE Reboot
  BY <1>1, <1>6, RebootAck, OtherOrder DEF Inv
<1>7. CASE UNCHANGED vars
  <2>1. /\ UNCHANGED <<state, name, sent, closed, serving, file, unsaved, handled, pc, job, backlog>>
    BY <1>7 DEF vars, clientVars, diskVars, historyVars
  <2>2. AckInv'
    BY <1>1, <2>1 DEF AckInv, InHand, Acks, Done, IsSaved, Allowed, Before, Last
  <2>3. OrderInv'
    BY <1>1, <2>1 DEF OrderInv, Called, Receiving, CallsInOrder
  <2> QED
    BY <1>1, <2>2, <2>3 DEF Inv
<1> QED
  BY <1>1, <1>2, <1>3, <1>4, <1>5, <1>6, <1>7 DEF Inv, Next, Quiet

LEMMA InvHolds == Spec => []Inv
<1>1. Init => Inv
  <2>1. Init => Heard
    BY DEF Init, Heard
  <2> QED
    BY <2>1, DiskInit, AckInit, OrderInit DEF Inv
<1> QED
  BY <1>1, Step, PTL DEF Spec

(* A client whose connection was closed finds its request decided on, and a *)
(* persistent value in its file, unless a call on the file failed.          *)
THEOREM AcknowledgementsHold == Spec => []AcknowledgedIsDone
<1>1. Inv => AcknowledgedIsDone
  <2> SUFFICES ASSUME Inv, NEW r \in Requests, state[r] = "hup", name[r] \notin Control
               PROVE  Before(r, r) /\ IsSaved(r)
    BY DEF AcknowledgedIsDone, IsSaved
  <2>1. r \in closed
    BY DEF Inv, Heard
  <2> QED
    BY <2>1 DEF Inv, AckInv, Acks, Done
<1> QED
  BY <1>1, InvHolds, PTL

(* Each client's calls take effect in order, whatever timed out.            *)
THEOREM OrderIsKept == Spec => []CallsInOrder
<1>1. Inv => CallsInOrder
  BY DEF Inv, OrderInv
<1> QED
  BY <1>1, InvHolds, PTL
===============================================================================
