----------------------------- MODULE PropertyArea -----------------------------
(***************************************************************************)
(* The shared memory of the properties (_system_properties.h): the monitor *)
(* is its only writer (_property_set and update_prop_info), every other    *)
(* process maps it read-only and reads it without a lock (libcutils/       *)
(* system_properties.c).  Each action is one access to memory another      *)
(* process can observe, or one futex call.                                 *)
(*                                                                         *)
(* The accesses of a process take effect in the order of its program; the  *)
(* code has no barriers.                                                   *)
(***************************************************************************)
EXTENDS Integers, Sequences, FiniteSets

CONSTANTS
  Names,          (* the names of properties                                     *)
  ReadOnly,       (* the ro. names                                               *)
  Chars, NUL,     (* characters, and the one that ends a string                  *)
  Values,         (* the values clients set                                      *)
  MaxLen,         (* PROP_VALUE_MAX - 1                                          *)
  PA_COUNT_MAX,   (* the entries of the area                                     *)
  SerialMod,      (* 2^24: the low bits of a serial                              *)
  MaxWrites,      (* bound: calls of _property_set                               *)
  Readers,        (* the client threads                                          *)
  Calls,          (* the functions each of them calls: "read", "get", "wait"     *)
  Area,           (* the serial of the whole area, see serial                    *)
  Absent          (* the value of a property that was never set                  *)

Cells == 1 .. MaxLen + 1

ASSUME PropertyAreaAssumption ==
  /\ ReadOnly \subseteq Names
  /\ NUL \notin Chars
  /\ Calls \in [Readers -> SUBSET {"read", "get", "wait"}]
  /\ MaxLen \in Nat
  /\ Values \subseteq {v \in Seq(Chars) : Len(v) <= MaxLen}
  /\ Absent \notin Values
  /\ PA_COUNT_MAX \in Nat
  /\ MaxWrites \in Nat
  /\ SerialMod \in Nat /\ SerialMod > 2 * MaxWrites
  /\ Area \notin Names

VARIABLES
  published,   (* the names of toc[0 .. count - 1]                               *)
  serial,      (* pi->serial of each entry as [len, seq], and pa->serial         *)
  text,        (* pi->value of each entry                                        *)
  wpc,         (* what _property_set does next                                   *)
  wname, wvalue,  (* its arguments                                               *)
  wleft,       (* the cells memcpy has not written                               *)
  writes,      (* calls so far                                                   *)
  rpc,         (* what each client does next                                     *)
  target,      (* the entry it looks at, or Area                                 *)
  expect,      (* its local serial                                               *)
  local,       (* its buffer                                                     *)
  rleft,       (* the cells it has not read                                      *)
  (* history *)
  current,     (* the value of each property, changed when an update is complete *)
  result       (* the value the last __system_property_read returned             *)

writerVars == <<published, serial, text, wpc, wname, wvalue, wleft, writes, current>>
readerVars == <<rpc, target, expect, local, rleft, result>>
vars == <<writerVars, readerVars>>

Words == Names \cup {Area}
Serials == [len : 0 .. MaxLen, seq : 0 .. SerialMod - 1]
Zero == [len |-> 0, seq |-> 0]
SERIAL_DIRTY(s) == s.seq % 2 = 1

(* Cell i of the string v. *)
Cell(v, i) == IF i <= Len(v) THEN v[i] ELSE NUL
Extent(len) == 1 .. len + 1

Blank == [i \in Cells |-> NUL]

(* init_property_area zeroes the area. *)
Init ==
  /\ published = {}
  /\ serial = [x \in Words |-> Zero]
  /\ text = [n \in Names |-> Blank]
  /\ wpc = "idle"
  /\ wname \in Names /\ wvalue \in Values
  /\ wleft = {}
  /\ writes = 0
  /\ rpc = [r \in Readers |-> "idle"]
  /\ target = [r \in Readers |-> Area]
  /\ expect = [r \in Readers |-> Zero]
  /\ local = [r \in Readers |-> Blank]
  /\ rleft = [r \in Readers |-> {}]
  /\ current = [n \in Names |-> Absent]
  /\ result = [r \in Readers |-> Absent]

-------------------------------------------------------------------------------
(* futex(2).                                                                 *)

Asleep(r) == rpc[r] \in {"asleep", "wait_asleep"}

(* What a client does after futex_wait returned. *)
AfterWait(r) == IF rpc[r] = "asleep" THEN "load" ELSE "wait_check"

(* Mutant: one waiter is woken, not all of them. *)
MutWakeOne(x) ==
  LET sleepers == {r \in Readers : Asleep(r) /\ target[r] = x}
  IN \/ sleepers = {} /\ UNCHANGED rpc
     \/ \E r \in sleepers : rpc' = [rpc EXCEPT ![r] = AfterWait(r)]

(* __futex_wake(&word, INT32_MAX) *)
FutexWake(x) ==
  rpc' = [r \in Readers |-> IF Asleep(r) /\ target[r] = x THEN AfterWait(r) ELSE rpc[r]]

Goto(r, to) == rpc' = [rpc EXCEPT ![r] = to]

(* The locals of a client end with its call. *)
Return(r) ==
  /\ Goto(r, "idle")
  /\ target' = [target EXCEPT ![r] = Area]
  /\ expect' = [expect EXCEPT ![r] = Zero]
  /\ local' = [local EXCEPT ![r] = Blank]
  /\ rleft' = [rleft EXCEPT ![r] = {}]

(* The kernel compares the word before it lets the thread sleep. *)
FutexWait(r, from, asleep, awake) ==
  /\ rpc[r] = from
  /\ Goto(r, IF serial[target[r]] = expect[r] THEN asleep ELSE awake)
  /\ UNCHANGED <<writerVars, target, expect, local, rleft, result>>

-------------------------------------------------------------------------------
(* The monitor: _property_set and update_prop_info.                          *)

WriterAt(from, to) == wpc = from /\ wpc' = to

Called(n, v) ==
  /\ writes < MaxWrites
  /\ writes' = writes + 1
  /\ wname' = n /\ wvalue' = v

(* Mutant: PA_COUNT_MAX is not asked for. *)
MutCreate(n, v) ==
  /\ WriterAt("idle", "publish")
  /\ n \notin published
  /\ Called(n, v)
  /\ serial' = [serial EXCEPT ![n] = [len |-> Len(v), seq |-> 0]]
  /\ text' = [text EXCEPT ![n] = [i \in Cells |-> IF i <= Len(v) + 1 THEN Cell(v, i) ELSE @[i]]]
  /\ UNCHANGED <<published, wleft, current, readerVars>>

(* A new entry is filled beyond count, where no client looks. *)
Create(n, v) ==
  /\ WriterAt("idle", "publish")
  /\ n \notin published
  /\ Cardinality(published) # PA_COUNT_MAX
  /\ Called(n, v)
  /\ serial' = [serial EXCEPT ![n] = [len |-> Len(v), seq |-> 0]]
  /\ text' = [text EXCEPT ![n] = [i \in Cells |-> IF i <= Len(v) + 1 THEN Cell(v, i) ELSE @[i]]]
  /\ UNCHANGED <<published, wleft, current, readerVars>>

(* pa->count++ *)
Publish ==
  /\ WriterAt("publish", "bump")
  /\ published' = published \cup {wname}
  /\ current' = [current EXCEPT ![wname] = wvalue]
  /\ UNCHANGED <<serial, text, wname, wvalue, wleft, writes, readerVars>>

(* pi->serial = pi->serial | 1; an ro. property is left alone. *)
BeginUpdate(n, v) ==
  /\ WriterAt("idle", "copy")
  /\ n \in published \ ReadOnly
  /\ Called(n, v)
  /\ serial' = [serial EXCEPT ![n] = [len |-> @.len,
                                      seq |-> IF @.seq % 2 = 0 THEN @.seq + 1 ELSE @.seq]]
  /\ wleft' = Extent(Len(v))
  /\ UNCHANGED <<published, text, current, readerVars>>

(* memcpy, in any order. *)
WriteCell(i) ==
  /\ wpc = "copy" /\ i \in wleft
  /\ text' = [text EXCEPT ![wname][i] = Cell(wvalue, i)]
  /\ wleft' = wleft \ {i}
  /\ UNCHANGED <<published, serial, wpc, wname, wvalue, writes, current, readerVars>>

(* Mutant: the waiters of the entry are not woken. *)
MutEndUpdate ==
  /\ WriterAt("copy", "bump")
  /\ wleft = {}
  /\ serial' = [serial EXCEPT ![wname] = [len |-> Len(wvalue), seq |-> (@.seq + 1) % SerialMod]]
  /\ current' = [current EXCEPT ![wname] = wvalue]
  /\ UNCHANGED <<published, text, wname, wvalue, wleft, writes, readerVars>>

(* pi->serial = (len << 24) | ((pi->serial + 1) & 0xffffff) *)
EndUpdate ==
  /\ WriterAt("copy", "wake")
  /\ wleft = {}
  /\ serial' = [serial EXCEPT ![wname] = [len |-> Len(wvalue), seq |-> (@.seq + 1) % SerialMod]]
  /\ current' = [current EXCEPT ![wname] = wvalue]
  /\ UNCHANGED <<published, text, wname, wvalue, wleft, writes, readerVars>>

WakeEntry ==
  /\ WriterAt("wake", "bump")
  /\ FutexWake(wname)
  /\ UNCHANGED <<published, serial, text, wname, wvalue, wleft, writes, current,
                 target, expect, local, rleft, result>>

(* pa->serial++ *)
Bump ==
  /\ WriterAt("bump", "wake_area")
  /\ serial' = [serial EXCEPT ![Area] = [len |-> 0, seq |-> @.seq + 1]]
  /\ UNCHANGED <<published, text, wname, wvalue, wleft, writes, current, readerVars>>

WakeArea ==
  /\ WriterAt("wake_area", "idle")
  /\ FutexWake(Area)
  /\ UNCHANGED <<published, serial, text, wname, wvalue, wleft, writes, current,
                 target, expect, local, rleft, result>>

SetProperty == \E n \in Names, v \in Values : Create(n, v) \/ BeginUpdate(n, v)

Writer == \/ Publish \/ EndUpdate \/ WakeEntry \/ Bump \/ WakeArea
          \/ \E i \in Cells : WriteCell(i)

-------------------------------------------------------------------------------
(* The clients.                                                              *)

(* __system_property_find: the entries below count do not change any more. *)
Found(r, n, to) ==
  /\ rpc[r] = "idle" /\ n \in published
  /\ Goto(r, to)
  /\ target' = [target EXCEPT ![r] = n]

(* __system_property_read *)
StartRead(r, n) ==
  /\ Found(r, n, "load")
  /\ UNCHANGED <<writerVars, expect, local, rleft, result>>

(* Mutant: the dirty bit is not looked at. *)
MutLoadSerial(r) ==
  LET s == serial[target[r]] IN
  /\ rpc[r] = "load"
  /\ expect' = [expect EXCEPT ![r] = s]
  /\ Goto(r, "read") /\ rleft' = [rleft EXCEPT ![r] = Extent(s.len)]
  /\ UNCHANGED <<writerVars, target, local, result>>

LoadSerial(r) ==
  LET s == serial[target[r]] IN
  /\ rpc[r] = "load"
  /\ expect' = [expect EXCEPT ![r] = s]
  /\ IF SERIAL_DIRTY(s)
     THEN Goto(r, "futex") /\ UNCHANGED rleft
     ELSE Goto(r, "read") /\ rleft' = [rleft EXCEPT ![r] = Extent(s.len)]
  /\ UNCHANGED <<writerVars, target, local, result>>

WaitDirty(r) == FutexWait(r, "futex", "asleep", "load")

ReadCell(r, i) ==
  /\ rpc[r] = "read" /\ i \in rleft[r]
  /\ local' = [local EXCEPT ![r][i] = text[target[r]][i]]
  /\ rleft' = [rleft EXCEPT ![r] = @ \ {i}]
  /\ UNCHANGED <<writerVars, rpc, target, expect, result>>

(* The buffer is returned if the serial did not change while it was filled. *)
CheckSerial(r) ==
  /\ rpc[r] = "read" /\ rleft[r] = {}
  /\ IF serial[target[r]] = expect[r]
     THEN /\ Return(r)
          /\ result' = [result EXCEPT ![r] = [i \in 1 .. expect[r].len |-> local[r][i]]]
     ELSE Goto(r, "load") /\ UNCHANGED <<target, expect, local, rleft, result>>
  /\ UNCHANGED writerVars

(* property_get: the caller gets a pointer to pi->value and reads the string. *)
StartGet(r, n) ==
  /\ Found(r, n, "get")
  /\ rleft' = [rleft EXCEPT ![r] = Cells]
  /\ UNCHANGED <<writerVars, expect, local, result>>

GetCell(r, i) ==
  LET c == text[target[r]][i] IN
  /\ rpc[r] = "get"
  /\ i \in rleft[r] /\ \A j \in rleft[r] : i <= j
  /\ local' = [local EXCEPT ![r][i] = c]
  /\ rleft' = [rleft EXCEPT ![r] = @ \ {i}]
  /\ Goto(r, IF c = NUL THEN "got" ELSE "get")
  /\ UNCHANGED <<writerVars, target, expect, result>>

EndGet(r) ==
  /\ rpc[r] = "got"
  /\ Return(r)
  /\ UNCHANGED <<writerVars, result>>

(* __system_property_wait, for one property or for any. *)
StartWait(r, x) ==
  /\ rpc[r] = "idle" /\ x \in published \cup {Area}
  /\ target' = [target EXCEPT ![r] = x]
  /\ expect' = [expect EXCEPT ![r] = serial[x]]
  /\ Goto(r, "wait_futex")
  /\ UNCHANGED <<writerVars, local, rleft, result>>

WaitChange(r) == FutexWait(r, "wait_futex", "wait_asleep", "wait_check")

CheckChange(r) ==
  /\ rpc[r] = "wait_check"
  /\ IF serial[target[r]] = expect[r]
     THEN Goto(r, "wait_futex") /\ UNCHANGED <<target, expect, local, rleft>>
     ELSE Return(r)
  /\ UNCHANGED <<writerVars, result>>

(* A signal ends futex_wait early. *)
Interrupted(r) ==
  /\ Asleep(r)
  /\ Goto(r, AfterWait(r))
  /\ UNCHANGED <<writerVars, target, expect, local, rleft, result>>

Starts(r) == \/ "read" \in Calls[r] /\ \E n \in Names : StartRead(r, n)
             \/ "get" \in Calls[r] /\ \E n \in Names : StartGet(r, n)
             \/ "wait" \in Calls[r] /\ \E x \in Words : StartWait(r, x)

Reader(r) == \/ LoadSerial(r) \/ WaitDirty(r) \/ CheckSerial(r) \/ EndGet(r)
             \/ WaitChange(r) \/ CheckChange(r)
             \/ \E i \in Cells : ReadCell(r, i) \/ GetCell(r, i)

Next == \/ SetProperty
        \/ Writer
        \/ \E r \in Readers : Starts(r) \/ Reader(r) \/ Interrupted(r)

Spec == Init /\ [][Next]_vars

(* Every process that does not sleep is scheduled; nothing obliges a client *)
(* to call, or a signal to arrive.                                          *)
FairSpec == Spec /\ WF_vars(Writer) /\ \A r \in Readers : WF_vars(Reader(r))

-------------------------------------------------------------------------------
(* Properties.                                                               *)

WriterPCs == {"idle", "publish", "copy", "wake", "bump", "wake_area"}
ReaderPCs == {"idle", "load", "futex", "asleep", "read", "get", "got",
              "wait_futex", "wait_asleep", "wait_check"}

TypeOK ==
  /\ published \subseteq Names /\ Cardinality(published) <= PA_COUNT_MAX
  /\ serial \in [Words -> Serials]
  /\ text \in [Names -> [Cells -> Chars \cup {NUL}]]
  /\ wpc \in WriterPCs
  /\ wname \in Names /\ wvalue \in Values
  /\ wleft \subseteq Cells
  /\ writes \in 0 .. MaxWrites
  /\ rpc \in [Readers -> ReaderPCs]
  /\ target \in [Readers -> Words]
  /\ expect \in [Readers -> Serials]
  /\ local \in [Readers -> [Cells -> Chars \cup {NUL}]]
  /\ rleft \in [Readers -> SUBSET Cells]
  /\ current \in [Names -> Values \cup {Absent}]
  /\ result \in [Readers -> Values \cup {Absent}]

(* __system_property_read returns the value the property has at the moment  *)
(* of its last look at the serial, whatever the monitor did in between.     *)
Atomic == INSTANCE AtomicProperties
AtomicReads == Atomic!AtomicSpec

(* Nobody sleeps on a serial that has changed, or on a dirty one, unless    *)
(* the monitor is still on its way to the wake-up call.                     *)
WakeComes(x) == \/ x = wname /\ wpc \in {"copy", "wake"}
                \/ x = Area /\ wpc = "wake_area"
NoLostWakeup ==
  \A r \in Readers :
    Asleep(r) /\ (serial[target[r]] # expect[r] \/ rpc[r] = "asleep") => WakeComes(target[r])

(* Who sleeps although the serial has changed, or on a dirty one, wakes up. *)
SleepersWake ==
  \A r \in Readers :
    Asleep(r) /\ (serial[target[r]] # expect[r] \/ rpc[r] = "asleep") ~> ~Asleep(r)

(* What rule "reading a value requires the following steps" is to prevent:  *)
(* a client that takes property_get's string has a value somebody set.      *)
GetsAreValues ==
  \A r \in Readers :
    rpc[r] = "got" => \E v \in Values : \A i \in Extent(Len(v)) : local[r][i] = Cell(v, i)

-------------------------------------------------------------------------------
(* The inductive invariant of PropertyAreaProofs.                            *)

Updating(n) == wpc = "copy" /\ wname = n

(* What _property_set tested before it began still holds while it works. *)
WriterInv ==
  /\ IsFiniteSet(published)
  /\ wpc = "publish" => wname \notin published /\ Cardinality(published) < PA_COUNT_MAX
  /\ wpc \in {"copy", "wake"} => wname \in published

Shows(n, v) ==
  /\ serial[n].len = Len(v)
  /\ \A i \in Extent(Len(v)) : text[n][i] = Cell(v, i)

(* An entry shows its value under an even serial except during an update.   *)
EntryInv ==
  /\ \A n \in Names : /\ n \in published <=> current[n] # Absent
                      /\ serial[n].seq % 2 = IF Updating(n) THEN 1 ELSE 0
                      /\ n \in published /\ ~Updating(n) => Shows(n, current[n])
  /\ wpc = "publish" => Shows(wname, wvalue)
  /\ wpc = "copy" => \A i \in Extent(Len(wvalue)) \ wleft : text[wname][i] = Cell(wvalue, i)

(* Serials do not wrap within MaxWrites calls. *)
SerialInv ==
  /\ \A n \in Names : /\ serial[n].seq <= 2 * writes
                      /\ Updating(n) => serial[n].seq < 2 * writes
  /\ serial[Area].seq <= writes
  /\ wpc \notin {"idle", "wake_area"} => serial[Area].seq < writes

TargetInv ==
  \A r \in Readers :
    /\ target[r] \in published \cup {Area}
    /\ rpc[r] \in {"load", "futex", "asleep", "read", "get", "got"} => target[r] \in published
    /\ rpc[r] \in {"futex", "asleep"} => SERIAL_DIRTY(expect[r])

(* What a client has copied is the current text as long as the serial is    *)
(* the one it loaded; a serial never returns to an earlier one.             *)
CopyInv ==
  \A r \in Readers :
    LET n == target[r] IN
    rpc[r] = "read" =>
      /\ ~SERIAL_DIRTY(expect[r])
      /\ expect[r].seq <= serial[n].seq
      /\ serial[n] = expect[r] =>
           \A i \in Extent(expect[r].len) \ rleft[r] : local[r][i] = text[n][i]

IInv == TypeOK /\ WriterInv /\ EntryInv /\ SerialInv /\ TargetInv /\ CopyInv /\ NoLostWakeup
===============================================================================
