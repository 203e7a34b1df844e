-------------------------- MODULE PropertyAreaProofs --------------------------
(* Proofs about PropertyArea, for every set of names, values and clients, and *)
(* every value of the bounds.                                                 *)
EXTENDS PropertyArea, FiniteSetTheorems, TLAPS

(* A value and its terminating NUL fit into the cells of an entry. *)
LEMMA ValueFits ==
  ASSUME NEW v \in Values
  PROVE  /\ Len(v) \in 0 .. MaxLen
         /\ v \in [1 .. Len(v) -> Chars]
         /\ Extent(Len(v)) \subseteq Cells
         /\ \A i \in Cells : Cell(v, i) \in Chars \cup {NUL}
<1>1. v \in Seq(Chars) /\ Len(v) <= MaxLen /\ MaxLen \in Nat
  BY PropertyAreaAssumption
<1>2. Len(v) \in Nat /\ v \in [1 .. Len(v) -> Chars]
  BY <1>1
<1>3. Extent(Len(v)) \subseteq Cells
  BY <1>1, <1>2 DEF Extent, Cells
<1>4. \A i \in Cells : Cell(v, i) \in Chars \cup {NUL}
  BY <1>1, <1>2 DEF Cells, Cell
<1> QED
  BY <1>1, <1>2, <1>3, <1>4

(* The mask of a serial does nothing below SerialMod. *)
LEMMA NoWrap ==
  ASSUME NEW k \in Nat, NEW m \in Nat, k < m
  PROVE  k % m = k
OBVIOUS

LEMMA Parity ==
  ASSUME NEW k \in Nat
  PROVE  /\ k % 2 \in {0, 1}
         /\ k % 2 = 0 <=> (k + 1) % 2 = 1
         /\ k % 2 = 1 <=> (k + 1) % 2 = 0
OBVIOUS

LEMMA Numbers ==
  ASSUME TypeOK
  PROVE  /\ \A x \in Words : /\ serial[x].seq \in Nat /\ serial[x].len \in Nat
                            /\ serial[x].seq < SerialMod /\ serial[x].len <= MaxLen
         /\ \A r \in Readers : expect[r].seq \in Nat /\ expect[r].len \in Nat
         /\ writes \in Nat /\ MaxWrites \in Nat /\ SerialMod \in Nat /\ MaxLen \in Nat
         /\ 2 * MaxWrites < SerialMod /\ writes <= MaxWrites
<1>1. \A s \in Serials : s.seq \in Nat /\ s.len \in Nat /\ s.seq < SerialMod /\ s.len <= MaxLen
  BY PropertyAreaAssumption DEF Serials
<1> QED
  BY <1>1, PropertyAreaAssumption DEF TypeOK

LEMMA InitInv == Init => IInv
<1> SUFFICES ASSUME Init PROVE IInv
  OBVIOUS
<1>1. Zero \in Serials
  BY PropertyAreaAssumption DEF Zero, Serials
<1>2. Blank \in [Cells -> Chars \cup {NUL}]
  BY DEF Blank
<1>3. Cardinality(published) = 0 /\ IsFiniteSet(published)
  BY FS_EmptySet DEF Init
<1>4. TypeOK
  BY <1>1, <1>2, <1>3, PropertyAreaAssumption DEF Init, TypeOK, WriterPCs, ReaderPCs, Words
<1>5. EntryInv
  BY DEF Init, EntryInv, Updating, Zero, Words
<1>6. SerialInv
  BY DEF Init, SerialInv, Updating, Zero, Words
<1>7. WriterInv /\ TargetInv /\ CopyInv /\ NoLostWakeup
  BY <1>3 DEF Init, WriterInv, TargetInv, CopyInv, NoLostWakeup, Asleep
<1> QED
  BY <1>4, <1>5, <1>6, <1>7 DEF IInv

-------------------------------------------------------------------------------
(* The monitor.                                                              *)

LEMMA CreateStep ==
  ASSUME IInv, NEW n \in Names, NEW v \in Values, Create(n, v)
  PROVE  IInv'
<1>1. [len |-> Len(v), seq |-> 0] \in Serials /\ MaxWrites \in Nat
  BY ValueFits, PropertyAreaAssumption DEF Serials
<1>2. [i \in Cells |-> IF i <= Len(v) + 1 THEN Cell(v, i) ELSE text[n][i]]
        \in [Cells -> Chars \cup {NUL}]
  BY ValueFits DEF IInv, TypeOK
<1>3. TypeOK'
  BY <1>1, <1>2 DEF IInv, TypeOK, Create, WriterAt, Called, readerVars, Words, WriterPCs
<1>4. Cardinality(published) \in Nat
  BY FS_CardinalityType DEF IInv, WriterInv
<1>5. WriterInv'
  BY <1>4, PropertyAreaAssumption DEF IInv, TypeOK, WriterInv, Create, WriterAt, Called
<1>6. /\ n \notin published /\ published' = published /\ current' = current
      /\ wname' = n /\ wvalue' = v /\ writes' = writes + 1
      /\ wpc = "idle" /\ wpc' = "publish"
      /\ serial'[n] = [len |-> Len(v), seq |-> 0]
      /\ \A x \in Words \ {n} : serial'[x] = serial[x]
      /\ \A m \in Names \ {n} : text'[m] = text[m]
      /\ \A i \in Extent(Len(v)) : text'[n][i] = Cell(v, i)
  <2>1. \A i \in Extent(Len(v)) : i \in Cells /\ i <= Len(v) + 1
    BY ValueFits DEF Extent
  <2>2. \A i \in Extent(Len(v)) : text'[n][i] = Cell(v, i)
    BY <2>1 DEF IInv, TypeOK, Create
  <2>3. /\ serial'[n] = [len |-> Len(v), seq |-> 0]
        /\ \A x \in Words \ {n} : serial'[x] = serial[x]
        /\ \A m \in Names \ {n} : text'[m] = text[m]
    BY DEF IInv, TypeOK, Create, Words
  <2> QED
    BY <2>2, <2>3 DEF Create, WriterAt, Called
<1>7. EntryInv'
  BY <1>6 DEF IInv, EntryInv, Updating, Shows, Words
<1>8. SerialInv'
  <2>1. /\ \A m \in Names : serial[m].seq \in Nat /\ serial[m].seq <= 2 * writes
        /\ serial[Area].seq \in Nat /\ serial[Area].seq <= writes /\ writes \in Nat
    BY Numbers DEF IInv, SerialInv, Words
  <2>2. serial'[Area] = serial[Area] /\ \A m \in Names \ {n} : serial'[m] = serial[m]
    BY <1>6, PropertyAreaAssumption DEF Words
  <2>3. serial'[n].seq <= 2 * writes'
    BY <1>6, <2>1
  <2>4. \A m \in Names : serial'[m].seq <= 2 * writes' /\ (Updating(m)' => serial'[m].seq < 2 * writes')
    BY <1>6, <2>1, <2>2, <2>3 DEF Updating
  <2>5. serial'[Area].seq < writes' /\ serial'[Area].seq <= writes'
    BY <1>6, <2>1, <2>2
  <2> QED
    BY <2>4, <2>5, <2>1, <1>6 DEF SerialInv
<1>9. TargetInv'
  BY <1>6 DEF IInv, TargetInv, Create, readerVars
<1>10. \A r \in Readers : target[r] \in published \cup {Area}
                        /\ (rpc[r] = "read" => target[r] \in published)
  BY DEF IInv, TargetInv
<1>11. /\ readerVars' = readerVars
       /\ \A x \in published \cup {Area} : x \in Words \ {n}
       /\ \A x \in published : x \in Names \ {n}
  BY <1>6, PropertyAreaAssumption DEF IInv, TypeOK, Words, Create
<1>12. CopyInv'
  BY <1>6, <1>10, <1>11 DEF IInv, CopyInv, readerVars
<1>13. NoLostWakeup'
  BY <1>6, <1>10, <1>11 DEF IInv, NoLostWakeup, WakeComes, Asleep, readerVars
<1> QED
  BY <1>3, <1>5, <1>7, <1>8, <1>9, <1>12, <1>13 DEF IInv

LEMMA PublishStep ==
  ASSUME IInv, Publish
  PROVE  IInv'
<1>1. wname \notin published /\ Cardinality(published) < PA_COUNT_MAX /\ IsFiniteSet(published)
  BY DEF IInv, WriterInv, Publish, WriterAt
<1>2. /\ Cardinality(published') = Cardinality(published) + 1
      /\ Cardinality(published) \in Nat
      /\ IsFiniteSet(published')
  BY <1>1, FS_AddElement, FS_CardinalityType DEF Publish
<1>3. TypeOK'
  BY <1>1, <1>2, PropertyAreaAssumption
  DEF IInv, TypeOK, Publish, WriterAt, readerVars, WriterPCs
<1>4. WriterInv'
  BY <1>2 DEF IInv, WriterInv, Publish, WriterAt
<1>5. EntryInv'
  BY PropertyAreaAssumption DEF IInv, TypeOK, EntryInv, Updating, Shows, Publish, WriterAt
<1>6. SerialInv'
  BY DEF IInv, SerialInv, Updating, Publish, WriterAt
<1>7. TargetInv' /\ CopyInv' /\ NoLostWakeup'
  BY DEF IInv, TargetInv, CopyInv, NoLostWakeup, WakeComes, Asleep, Publish, WriterAt, readerVars
<1> QED
  BY <1>3, <1>4, <1>5, <1>6, <1>7 DEF IInv

LEMMA BeginUpdateStep ==
  ASSUME IInv, NEW n \in Names, NEW v \in Values, BeginUpdate(n, v)
  PROVE  IInv'
<1>1. /\ n \in published /\ published' = published /\ current' = current /\ text' = text
      /\ wname' = n /\ wvalue' = v /\ writes' = writes + 1 /\ wleft' = Extent(Len(v))
      /\ wpc = "idle" /\ wpc' = "copy"
      /\ readerVars' = readerVars
  BY DEF BeginUpdate, WriterAt, Called
<1>2. /\ serial[n].seq % 2 = 0
      /\ serial[n].seq <= 2 * writes
      /\ writes < MaxWrites
  BY <1>1, Numbers DEF IInv, EntryInv, SerialInv, Updating, Words, BeginUpdate, Called
<1>3. /\ serial' = [serial EXCEPT ![n] = [len |-> serial[n].len, seq |-> serial[n].seq + 1]]
      /\ [len |-> serial[n].len, seq |-> serial[n].seq + 1] \in Serials
  <2>1. serial[n].seq + 1 \in 0 .. SerialMod - 1 /\ serial[n].len \in 0 .. MaxLen
    BY <1>2, Numbers DEF IInv, Words
  <2> QED
    BY <1>2, <2>1 DEF BeginUpdate, Serials
<1>4. /\ serial'[n].len = serial[n].len /\ serial'[n].seq = serial[n].seq + 1
      /\ \A x \in Words \ {n} : serial'[x] = serial[x]
  BY <1>3 DEF IInv, TypeOK, Words
<1>5. TypeOK'
  <2>1. serial' \in [Words -> Serials]
    BY <1>3 DEF IInv, TypeOK
  <2>2. wleft' \subseteq Cells
    BY <1>1, ValueFits
  <2>3. writes' \in 0 .. MaxWrites
    BY <1>1, <1>2, Numbers DEF IInv
  <2> QED
    BY <1>1, <2>1, <2>2, <2>3 DEF IInv, TypeOK, readerVars, WriterPCs
<1>6. WriterInv'
  BY <1>1 DEF IInv, WriterInv
<1>7. (serial[n].seq + 1) % 2 = 1
  BY <1>2, Numbers, Parity DEF IInv, Words
<1>8. EntryInv'
  BY <1>1, <1>4, <1>7 DEF IInv, EntryInv, Updating, Shows, Words
<1>9. SerialInv'
  <2>1. /\ \A m \in Names : serial[m].seq \in Nat /\ serial[m].seq <= 2 * writes
        /\ serial[Area].seq \in Nat /\ serial[Area].seq <= writes /\ writes \in Nat
    BY Numbers DEF IInv, SerialInv, Words
  <2>2. serial'[Area] = serial[Area] /\ \A m \in Names \ {n} : serial'[m] = serial[m]
    BY <1>4, PropertyAreaAssumption DEF Words
  <2>3. serial'[n].seq < 2 * writes' /\ serial'[n].seq <= 2 * writes'
    BY <1>1, <1>2, <1>4, <2>1
  <2>4. \A m \in Names : serial'[m].seq <= 2 * writes' /\ (Updating(m)' => serial'[m].seq < 2 * writes')
    <3>1. \A m \in Names \ {n} : serial'[m].seq <= 2 * writes' /\ ~Updating(m)'
      BY <1>1, <2>1, <2>2 DEF Updating
    <3> QED
      BY <2>3, <3>1
  <2>5. serial'[Area].seq < writes' /\ serial'[Area].seq <= writes'
    BY <1>1, <2>1, <2>2
  <2> QED
    BY <2>4, <2>5, <2>1, <1>1 DEF SerialInv
<1>10. TargetInv'
  BY <1>1 DEF IInv, TargetInv, readerVars
<1>11. \A r \in Readers : target[r] \in Words
  BY DEF IInv, TypeOK
<1>12. CopyInv'
  <2>1. \A r \in Readers : expect[r].seq <= serial[n].seq => serial'[n].seq > expect[r].seq
    BY <1>4, Numbers DEF IInv, Words
  <2>2. \A r \in Readers : rpc[r] = "read" /\ target[r] = n =>
          expect[r].seq <= serial'[n].seq /\ serial'[n] # expect[r]
    BY <1>4, <2>1, Numbers DEF IInv, CopyInv, Words
  <2> QED
    BY <1>1, <1>4, <1>11, <2>2 DEF IInv, CopyInv, readerVars
<1>13. NoLostWakeup'
  BY <1>1, <1>4, <1>11 DEF IInv, NoLostWakeup, WakeComes, Asleep, readerVars
<1> QED
  BY <1>5, <1>6, <1>8, <1>9, <1>10, <1>12, <1>13 DEF IInv

LEMMA WriteCellStep ==
  ASSUME IInv, NEW i \in Cells, WriteCell(i)
  PROVE  IInv'
<1>1. /\ wpc = "copy" /\ wpc' = wpc /\ wname' = wname /\ wvalue' = wvalue
      /\ published' = published /\ serial' = serial /\ current' = current /\ writes' = writes
      /\ i \in wleft /\ wleft' = wleft \ {i} /\ readerVars' = readerVars
      /\ text'[wname][i] = Cell(wvalue, i)
      /\ \A j \in Cells \ {i} : text'[wname][j] = text[wname][j]
      /\ \A m \in Names \ {wname} : text'[m] = text[m]
  BY DEF WriteCell, IInv, TypeOK
<1>2. TypeOK'
  <2>1. Cell(wvalue, i) \in Chars \cup {NUL}
    BY ValueFits DEF IInv, TypeOK
  <2>2. text' \in [Names -> [Cells -> Chars \cup {NUL}]]
    BY <2>1 DEF WriteCell, IInv, TypeOK
  <2> QED
    BY <1>1, <2>2 DEF IInv, TypeOK, readerVars
<1>3. WriterInv' /\ SerialInv' /\ TargetInv'
  BY <1>1 DEF IInv, WriterInv, SerialInv, Updating, TargetInv, readerVars
<1>4. Extent(Len(wvalue)) \subseteq Cells
  BY ValueFits DEF IInv, TypeOK
<1>5. EntryInv'
  BY <1>1, <1>4 DEF IInv, EntryInv, Updating, Shows
<1>6. CopyInv'
  <2>1. \A r \in Readers : rpc[r] = "read" /\ target[r] = wname => serial[wname] # expect[r]
    BY <1>1 DEF IInv, TypeOK, EntryInv, CopyInv, Updating, SERIAL_DIRTY
  <2>2. \A r \in Readers : rpc[r] = "read" => target[r] \in Names
    BY DEF IInv, TypeOK, TargetInv
  <2> QED
    BY <1>1, <2>1, <2>2 DEF IInv, CopyInv, readerVars
<1>7. NoLostWakeup'
  BY <1>1 DEF IInv, NoLostWakeup, WakeComes, Asleep, readerVars
<1> QED
  BY <1>2, <1>3, <1>5, <1>6, <1>7 DEF IInv

LEMMA EndUpdateStep ==
  ASSUME IInv, EndUpdate
  PROVE  IInv'
<1>1. /\ wpc = "copy" /\ wpc' = "wake" /\ wname' = wname /\ wvalue' = wvalue /\ wleft = {}
      /\ published' = published /\ text' = text /\ writes' = writes /\ wleft' = wleft
      /\ current' = [current EXCEPT ![wname] = wvalue]
      /\ readerVars' = readerVars
      /\ wname \in published /\ wname \in Names /\ wvalue \in Values
  BY DEF EndUpdate, WriterAt, IInv, WriterInv, TypeOK
<1>2. /\ serial[wname].seq \in Nat /\ serial[wname].seq % 2 = 1
      /\ serial[wname].seq < 2 * writes
  BY <1>1, Numbers DEF IInv, EntryInv, SerialInv, Updating, Words
<1>3. /\ serial[wname].seq + 1 \in Nat /\ serial[wname].seq + 1 < SerialMod
      /\ serial[wname].seq + 1 <= 2 * writes
  BY <1>2, Numbers DEF IInv
<1>4. (serial[wname].seq + 1) % SerialMod = serial[wname].seq + 1
  BY <1>3, NoWrap, PropertyAreaAssumption
<1>5. serial' = [serial EXCEPT ![wname] = [len |-> Len(wvalue), seq |-> serial[wname].seq + 1]]
  BY <1>4 DEF EndUpdate
<1>6. [len |-> Len(wvalue), seq |-> serial[wname].seq + 1] \in Serials
  BY <1>1, <1>3, ValueFits, PropertyAreaAssumption DEF Serials
<1>7. /\ serial'[wname] = [len |-> Len(wvalue), seq |-> serial[wname].seq + 1]
      /\ \A x \in Words \ {wname} : serial'[x] = serial[x]
  BY <1>1, <1>5 DEF IInv, TypeOK, Words
<1>8. TypeOK'
  BY <1>1, <1>5, <1>6 DEF IInv, TypeOK, WriterPCs, readerVars
<1>9. WriterInv' /\ TargetInv'
  BY <1>1 DEF IInv, WriterInv, TargetInv, readerVars
<1>10. (serial[wname].seq + 1) % 2 = 0
  BY <1>2, Parity
<1>11. EntryInv'
  <2>1. /\ current'[wname] = wvalue /\ wvalue # Absent
        /\ \A m \in Names \ {wname} : current'[m] = current[m]
    BY <1>1, PropertyAreaAssumption DEF IInv, TypeOK
  <2>2. Shows(wname, wvalue)'
    BY <1>1, <1>7 DEF IInv, EntryInv, Shows
  <2>3. ASSUME NEW n \in Names
        PROVE  /\ n \in published' <=> current'[n] # Absent
               /\ serial'[n].seq % 2 = 0
               /\ n \in published' => Shows(n, current[n])'
    <3>1. CASE n = wname
      BY <1>1, <1>7, <1>10, <2>1, <2>2, <3>1
    <3>2. CASE n # wname
      <4>1. serial'[n] = serial[n] /\ current'[n] = current[n]
        BY <1>7, <2>1, <3>2 DEF Words
      <4>2. /\ n \in published <=> current[n] # Absent
            /\ serial[n].seq % 2 = 0
            /\ n \in published => Shows(n, current[n])
        BY <3>2 DEF IInv, EntryInv, Updating
      <4>3. Shows(n, current[n])' <=> Shows(n, current[n])
        BY <1>1, <4>1 DEF Shows
      <4> QED
        BY <1>1, <4>1, <4>2, <4>3
    <3> QED
      BY <3>1, <3>2
  <2> QED
    BY <1>1, <2>3 DEF EntryInv, Updating
<1>12. SerialInv'
  <2>1. serial'[Area] = serial[Area] /\ \A m \in Names \ {wname} : serial'[m] = serial[m]
    BY <1>1, <1>7, PropertyAreaAssumption DEF Words
  <2> QED
    BY <1>1, <1>3, <1>7, <2>1 DEF IInv, SerialInv, Updating
<1>13. \A r \in Readers : target[r] \in Words
  BY DEF IInv, TypeOK
<1>14. CopyInv'
  <2>1. \A r \in Readers : rpc[r] = "read" /\ target[r] = wname =>
          expect[r].seq <= serial'[wname].seq /\ serial'[wname] # expect[r]
    <3> SUFFICES ASSUME NEW r \in Readers, rpc[r] = "read", target[r] = wname
                 PROVE  expect[r].seq <= serial'[wname].seq /\ serial'[wname] # expect[r]
      OBVIOUS
    <3>1. expect[r].seq <= serial[wname].seq
      BY DEF IInv, CopyInv
    <3>2. expect[r].seq \in Nat /\ serial[wname].seq \in Nat
      BY <1>2, Numbers DEF IInv
    <3>3. serial'[wname].seq = serial[wname].seq + 1
      BY <1>7
    <3>4. expect[r].seq <= serial'[wname].seq /\ expect[r].seq # serial'[wname].seq
      BY <3>1, <3>2, <3>3
    <3> QED
      BY <3>4
  <2> QED
    BY <1>1, <1>7, <1>13, <2>1 DEF IInv, CopyInv, readerVars
<1>15. NoLostWakeup'
  BY <1>1, <1>7, <1>13 DEF IInv, NoLostWakeup, WakeComes, Asleep, readerVars
<1> QED
  BY <1>8, <1>9, <1>11, <1>12, <1>14, <1>15 DEF IInv

(* A wake-up call moves sleepers only, and all of them. *)
LEMMA FutexWakeMoves ==
  ASSUME TypeOK, NEW x, FutexWake(x)
  PROVE  /\ rpc' \in [Readers -> ReaderPCs]
         /\ \A r \in Readers :
              /\ Asleep(r) /\ target[r] = x => rpc'[r] \in {"load", "wait_check"}
              /\ rpc'[r] = "load" => rpc[r] \in {"load", "asleep"}
              /\ rpc'[r] \notin {"load", "wait_check"} => rpc'[r] = rpc[r]
              /\ ~(Asleep(r) /\ target[r] = x) => rpc'[r] = rpc[r]
<1>1. \A r \in Readers : Asleep(r) => AfterWait(r) \in {"load", "wait_check"}
                                    /\ (AfterWait(r) = "load" => rpc[r] = "asleep")
  BY DEF AfterWait
<1> QED
  BY <1>1 DEF TypeOK, FutexWake, ReaderPCs

LEMMA WakeStep ==
  ASSUME IInv, WakeEntry \/ WakeArea
  PROVE  IInv'
<1>1. PICK x \in Words : /\ FutexWake(x)
                         /\ \/ wpc = "wake" /\ wpc' = "bump" /\ x = wname
                            \/ wpc = "wake_area" /\ wpc' = "idle" /\ x = Area
  <2>1. CASE WakeEntry
    <3>1. PICK x \in Words : x = wname
      BY DEF Words, IInv, TypeOK
    <3>2. FutexWake(x)
      BY <2>1, <3>1 DEF WakeEntry, FutexWake
    <3> QED
      BY <2>1, <3>1, <3>2 DEF WakeEntry, WriterAt
  <2>2. CASE WakeArea
    <3>1. FutexWake(Area) /\ wpc = "wake_area" /\ wpc' = "idle" /\ Area \in Words
      BY <2>2 DEF WakeArea, WriterAt, Words
    <3> QED
      BY <3>1
  <2> QED
    BY <2>1, <2>2
<1>2. UNCHANGED <<published, serial, text, wname, wvalue, wleft, writes, current,
                  target, expect, local, rleft, result>>
  BY DEF WakeEntry, WakeArea
<1>3. /\ rpc' \in [Readers -> ReaderPCs]
      /\ \A r \in Readers :
           /\ Asleep(r) /\ target[r] = x => rpc'[r] \in {"load", "wait_check"}
           /\ rpc'[r] = "load" => rpc[r] \in {"load", "asleep"}
           /\ rpc'[r] \notin {"load", "wait_check"} => rpc'[r] = rpc[r]
  BY <1>1, FutexWakeMoves DEF IInv
<1>4. TypeOK'
  BY <1>1, <1>2, <1>3 DEF IInv, TypeOK, WriterPCs
<1>5. WriterInv' /\ EntryInv'
  BY <1>1, <1>2 DEF IInv, WriterInv, EntryInv, Updating, Shows
<1>6. SerialInv'
  BY <1>1, <1>2 DEF IInv, SerialInv, Updating
<1>7. TargetInv'
  BY <1>2, <1>3 DEF IInv, TargetInv
<1>8. CopyInv'
  BY <1>2, <1>3 DEF IInv, CopyInv
<1>9. NoLostWakeup'
  <2> SUFFICES ASSUME NEW r \in Readers, Asleep(r)',
                      (serial[target[r]] # expect[r] \/ rpc[r] = "asleep")'
               PROVE  WakeComes(target[r])'
    BY DEF NoLostWakeup
  <2>1. rpc'[r] = rpc[r] /\ Asleep(r) /\ target[r] # x
    BY <1>3 DEF Asleep
  <2>2. WakeComes(target[r])
    BY <1>2, <2>1 DEF IInv, NoLostWakeup
  <2> QED
    BY <1>1, <2>1, <2>2 DEF WakeComes
<1> QED
  BY <1>4, <1>5, <1>6, <1>7, <1>8, <1>9 DEF IInv

LEMMA BumpStep ==
  ASSUME IInv, Bump
  PROVE  IInv'
<1>1. /\ wpc = "bump" /\ wpc' = "wake_area"
      /\ UNCHANGED <<published, text, wname, wvalue, wleft, writes, current, readerVars>>
  BY DEF Bump, WriterAt
<1>2. /\ serial[Area].seq \in Nat /\ serial[Area].seq + 1 <= writes
      /\ serial[Area].seq + 1 < SerialMod
  BY <1>1, Numbers DEF IInv, SerialInv, Words
<1>3. [len |-> 0, seq |-> serial[Area].seq + 1] \in Serials
  BY <1>2, PropertyAreaAssumption DEF Serials
<1>4. /\ serial' \in [Words -> Serials]
      /\ serial'[Area].seq = serial[Area].seq + 1
      /\ \A n \in Names : serial'[n] = serial[n]
  BY <1>3, PropertyAreaAssumption DEF Bump, IInv, TypeOK, Words
<1>5. TypeOK'
  BY <1>1, <1>4 DEF IInv, TypeOK, WriterPCs, readerVars
<1>6. WriterInv' /\ TargetInv'
  BY <1>1 DEF IInv, WriterInv, TargetInv, readerVars
<1>7. EntryInv'
  BY <1>1, <1>4 DEF IInv, EntryInv, Updating, Shows
<1>8. SerialInv'
  BY <1>1, <1>2, <1>4 DEF IInv, SerialInv, Updating
<1>9. CopyInv'
  <2>1. \A r \in Readers : rpc[r] = "read" => target[r] \in Names
    BY DEF IInv, TypeOK, TargetInv
  <2> QED
    BY <1>1, <1>4, <2>1 DEF IInv, CopyInv, readerVars
<1>10. NoLostWakeup'
  BY <1>1, <1>4 DEF IInv, TypeOK, Words, NoLostWakeup, WakeComes, Asleep, readerVars
<1> QED
  BY <1>5, <1>6, <1>7, <1>8, <1>9, <1>10 DEF IInv

-------------------------------------------------------------------------------
(* The clients.                                                              *)

(* A step of a client leaves alone what is said of the monitor. *)
LEMMA ReaderFrame ==
  ASSUME IInv, UNCHANGED writerVars
  PROVE  WriterInv' /\ EntryInv' /\ SerialInv'
BY DEF IInv, writerVars, WriterInv, EntryInv, SerialInv, Updating, Shows

(* A client that is not asleep afterwards adds no sleeper. *)
LEMMA StaysAwake ==
  ASSUME IInv, UNCHANGED writerVars, NEW r \in Readers,
         rpc'[r] \notin {"asleep", "wait_asleep"},
         \A q \in Readers \ {r} : rpc'[q] = rpc[q] /\ target'[q] = target[q] /\ expect'[q] = expect[q]
  PROVE  NoLostWakeup'
BY DEF IInv, writerVars, NoLostWakeup, WakeComes, Asleep

LEMMA ReturnStep ==
  ASSUME IInv, UNCHANGED writerVars, NEW r \in Readers, Return(r),
         result' \in [Readers -> Values \cup {Absent}]
  PROVE  IInv'
<1>1. Area \in Words /\ Zero \in Serials /\ Blank \in [Cells -> Chars \cup {NUL}]
  BY PropertyAreaAssumption DEF Words, Zero, Serials, Blank
<1>2. TypeOK'
  BY <1>1 DEF IInv, TypeOK, Return, Goto, writerVars, ReaderPCs
<1>3. TargetInv' /\ CopyInv'
  BY DEF IInv, TypeOK, TargetInv, CopyInv, Return, Goto, writerVars
<1>4. NoLostWakeup'
  <2>1. rpc'[r] = "idle"
    BY DEF Return, Goto, IInv, TypeOK
  <2>2. \A q \in Readers \ {r} : rpc'[q] = rpc[q] /\ target'[q] = target[q] /\ expect'[q] = expect[q]
    BY DEF Return, Goto, IInv, TypeOK
  <2> QED
    BY <2>1, <2>2, StaysAwake
<1> QED
  BY <1>2, <1>3, <1>4, ReaderFrame DEF IInv

LEMMA FoundStep ==
  ASSUME IInv, UNCHANGED writerVars, NEW r \in Readers, NEW n \in Names,
         StartRead(r, n) \/ StartGet(r, n)
  PROVE  IInv'
<1>1. PICK to \in {"load", "get"} : Found(r, n, to)
  BY DEF StartRead, StartGet
<1>2. rleft' \in [Readers -> SUBSET Cells] /\ UNCHANGED <<expect, local, result>>
  BY DEF StartRead, StartGet, IInv, TypeOK
<1>3. /\ rpc'[r] = to /\ target'[r] = n /\ n \in published
      /\ \A q \in Readers \ {r} : rpc'[q] = rpc[q] /\ target'[q] = target[q]
      /\ \A q \in Readers \ {r} : rleft'[q] = rleft[q]
  BY <1>1 DEF Found, Goto, IInv, TypeOK, StartRead, StartGet
<1>4. TypeOK'
  BY <1>1, <1>2 DEF IInv, TypeOK, Found, Goto, writerVars, ReaderPCs, Words
<1>5. TargetInv' /\ CopyInv'
  BY <1>2, <1>3 DEF IInv, TargetInv, CopyInv, writerVars
<1>6. NoLostWakeup'
  BY <1>2, <1>3, StaysAwake
<1> QED
  BY <1>4, <1>5, <1>6, ReaderFrame DEF IInv

LEMMA LoadSerialStep ==
  ASSUME IInv, NEW r \in Readers, LoadSerial(r)
  PROVE  IInv'
<1> DEFINE s == serial[target[r]]
<1>1. UNCHANGED writerVars /\ UNCHANGED <<target, local, result>>
  BY DEF LoadSerial
<1>2. rpc[r] = "load" /\ target[r] \in published /\ target[r] \in Words /\ target[r] \in Names
  BY DEF LoadSerial, IInv, TypeOK, TargetInv
<1>3. s \in Serials /\ s.seq \in Nat /\ Extent(s.len) \subseteq Cells
  BY <1>2, Numbers DEF IInv, TypeOK, Extent, Cells
<1>4. /\ expect'[r] = s
      /\ SERIAL_DIRTY(s) => rpc'[r] = "futex" /\ rleft' = rleft
      /\ ~SERIAL_DIRTY(s) => rpc'[r] = "read" /\ rleft'[r] = Extent(s.len)
      /\ \A q \in Readers \ {r} : rpc'[q] = rpc[q] /\ expect'[q] = expect[q] /\ rleft'[q] = rleft[q]
  BY DEF LoadSerial, Goto, IInv, TypeOK
<1>5. TypeOK'
  BY <1>1, <1>3 DEF LoadSerial, Goto, IInv, TypeOK, writerVars, ReaderPCs
<1>6. TargetInv'
  BY <1>1, <1>2, <1>4 DEF IInv, TargetInv, writerVars
<1>7. CopyInv'
  BY <1>1, <1>3, <1>4 DEF IInv, CopyInv, writerVars
<1>8. NoLostWakeup'
  BY <1>1, <1>4, StaysAwake
<1> QED
  BY <1>1, <1>5, <1>6, <1>7, <1>8, ReaderFrame DEF IInv

(* A client falls asleep only on a word that still has the expected value, *)
(* and on a dirty one only while the monitor is in its update.             *)
LEMMA FutexWaitStep ==
  ASSUME IInv, NEW r \in Readers, WaitDirty(r) \/ WaitChange(r)
  PROVE  IInv'
<1>1. UNCHANGED writerVars /\ UNCHANGED <<target, expect, local, rleft, result>>
  BY DEF WaitDirty, WaitChange, FutexWait
<1>2. /\ \A q \in Readers \ {r} : rpc'[q] = rpc[q]
      /\ \/ /\ rpc[r] = "futex"
            /\ \/ rpc'[r] = "asleep" /\ serial[target[r]] = expect[r]
               \/ rpc'[r] = "load"
         \/ /\ rpc[r] = "wait_futex"
            /\ \/ rpc'[r] = "wait_asleep" /\ serial[target[r]] = expect[r]
               \/ rpc'[r] = "wait_check"
  BY DEF WaitDirty, WaitChange, FutexWait, Goto, IInv, TypeOK
<1>3. rpc' \in [Readers -> ReaderPCs]
  BY DEF WaitDirty, WaitChange, FutexWait, Goto, IInv, TypeOK, ReaderPCs
<1>4. TypeOK'
  BY <1>1, <1>3 DEF IInv, TypeOK, writerVars
<1>5. TargetInv'
  BY <1>1, <1>2 DEF IInv, TargetInv, writerVars
<1>6. CopyInv'
  BY <1>1, <1>2 DEF IInv, CopyInv, writerVars
<1>7. NoLostWakeup'
  <2>1. CASE rpc'[r] = "asleep"
    <3>1. rpc[r] = "futex" /\ serial[target[r]] = expect[r] /\ target[r] \in Names
      BY <1>2, <2>1 DEF IInv, TypeOK, TargetInv
    <3>2. Updating(target[r])
      BY <3>1 DEF IInv, TargetInv, EntryInv, SERIAL_DIRTY
    <3>3. WakeComes(target[r])
      BY <3>2 DEF Updating, WakeComes
    <3> QED
      BY <1>1, <1>2, <2>1, <3>3 DEF IInv, writerVars, NoLostWakeup, WakeComes, Asleep
  <2>2. CASE rpc'[r] = "wait_asleep"
    BY <1>1, <1>2, <2>2 DEF IInv, writerVars, NoLostWakeup, WakeComes, Asleep
  <2>3. CASE rpc'[r] \notin {"asleep", "wait_asleep"}
    BY <1>1, <1>2, <2>3, StaysAwake
  <2> QED
    BY <2>1, <2>2, <2>3
<1> QED
  BY <1>1, <1>4, <1>5, <1>6, <1>7, ReaderFrame DEF IInv

LEMMA ReadCellStep ==
  ASSUME IInv, NEW r \in Readers, NEW i \in Cells, ReadCell(r, i)
  PROVE  IInv'
<1> DEFINE n == target[r]
<1>1. UNCHANGED writerVars /\ UNCHANGED <<rpc, target, expect, result>>
  BY DEF ReadCell
<1>2. n \in Names
  BY DEF ReadCell, IInv, TypeOK, TargetInv
<1>3. /\ i \in rleft[r] /\ local'[r][i] = text[n][i] /\ rleft'[r] = rleft[r] \ {i}
      /\ \A j \in Cells \ {i} : local'[r][j] = local[r][j]
      /\ \A q \in Readers \ {r} : local'[q] = local[q] /\ rleft'[q] = rleft[q]
  BY DEF ReadCell, IInv, TypeOK
<1>4. TypeOK'
  BY <1>1, <1>2 DEF ReadCell, IInv, TypeOK, writerVars
<1>5. TargetInv' /\ NoLostWakeup'
  BY <1>1 DEF IInv, TargetInv, NoLostWakeup, WakeComes, Asleep, writerVars
<1>6. Extent(expect[r].len) \subseteq Cells
  BY PropertyAreaAssumption DEF IInv, TypeOK, Serials, Extent, Cells
<1>7. CopyInv'
  BY <1>1, <1>3, <1>6 DEF IInv, CopyInv, writerVars
<1> QED
  BY <1>1, <1>4, <1>5, <1>7, ReaderFrame DEF IInv

(* What __system_property_read returns is the current value. *)
LEMMA CheckedValue ==
  ASSUME IInv, NEW r \in Readers, rpc[r] = "read", rleft[r] = {}, serial[target[r]] = expect[r]
  PROVE  /\ target[r] \in Names /\ current[target[r]] \in Values
         /\ [i \in 1 .. expect[r].len |-> local[r][i]] = current[target[r]]
<1> DEFINE n == target[r]
           v == current[n]
<1>1. n \in Names /\ n \in published
  BY DEF IInv, TypeOK, TargetInv
<1>2. v \in Values
  BY <1>1 DEF IInv, TypeOK, EntryInv
<1>3. ~Updating(n)
  BY <1>1 DEF IInv, CopyInv, EntryInv, SERIAL_DIRTY
<1>4. Shows(n, v)
  BY <1>1, <1>3 DEF IInv, EntryInv
<1>5. expect[r].len = Len(v)
  BY <1>4 DEF Shows
<1>6. \A i \in Extent(Len(v)) : local[r][i] = Cell(v, i)
  BY <1>1, <1>4, <1>5 DEF IInv, CopyInv, Shows
<1>7. \A i \in 1 .. Len(v) : local[r][i] = v[i]
  BY <1>2, <1>6, ValueFits DEF Extent, Cell
<1>8. v = [i \in 1 .. Len(v) |-> v[i]]
  BY <1>2, ValueFits
<1> QED
  BY <1>1, <1>2, <1>5, <1>7, <1>8

LEMMA CheckSerialStep ==
  ASSUME IInv, NEW r \in Readers, CheckSerial(r)
  PROVE  IInv'
<1>1. UNCHANGED writerVars /\ rpc[r] = "read" /\ rleft[r] = {}
  BY DEF CheckSerial
<1>2. CASE serial[target[r]] = expect[r]
  <2>1. Return(r) /\ result' = [result EXCEPT ![r] = current[target[r]]]
    BY <1>1, <1>2, CheckedValue DEF CheckSerial
  <2>2. result' \in [Readers -> Values \cup {Absent}]
    BY <1>1, <1>2, <2>1, CheckedValue DEF IInv, TypeOK
  <2> QED
    BY <1>1, <2>1, <2>2, ReturnStep
<1>3. CASE serial[target[r]] # expect[r]
  <2>1. Goto(r, "load") /\ UNCHANGED <<target, expect, local, rleft, result>>
    BY <1>3 DEF CheckSerial
  <2>2. rpc'[r] = "load" /\ \A q \in Readers \ {r} : rpc'[q] = rpc[q]
    BY <2>1 DEF Goto, IInv, TypeOK
  <2>3. TypeOK'
    BY <1>1, <2>1 DEF Goto, IInv, TypeOK, writerVars, ReaderPCs
  <2>4. TargetInv' /\ CopyInv'
    BY <1>1, <2>1, <2>2 DEF IInv, TargetInv, CopyInv, writerVars
  <2>5. NoLostWakeup'
    BY <1>1, <2>1, <2>2, StaysAwake
  <2> QED
    BY <1>1, <2>3, <2>4, <2>5, ReaderFrame DEF IInv
<1> QED
  BY <1>2, <1>3

LEMMA GetCellStep ==
  ASSUME IInv, NEW r \in Readers, NEW i \in Cells, GetCell(r, i)
  PROVE  IInv'
<1>1. UNCHANGED writerVars /\ UNCHANGED <<target, expect, result>> /\ rpc[r] = "get"
  BY DEF GetCell
<1>2. /\ rpc'[r] \in {"get", "got"}
      /\ \A q \in Readers \ {r} : rpc'[q] = rpc[q] /\ local'[q] = local[q] /\ rleft'[q] = rleft[q]
  BY DEF GetCell, Goto, IInv, TypeOK
<1>3. target[r] \in Names
  BY <1>1 DEF IInv, TypeOK, TargetInv
<1>4. TypeOK'
  BY <1>1, <1>3 DEF GetCell, Goto, IInv, TypeOK, writerVars, ReaderPCs
<1>5. TargetInv' /\ CopyInv'
  BY <1>1, <1>2 DEF IInv, TargetInv, CopyInv, writerVars
<1>6. NoLostWakeup'
  BY <1>1, <1>2, StaysAwake
<1> QED
  BY <1>1, <1>4, <1>5, <1>6, ReaderFrame DEF IInv

LEMMA StartWaitStep ==
  ASSUME IInv, NEW r \in Readers, NEW x \in Words, StartWait(r, x)
  PROVE  IInv'
<1>1. UNCHANGED writerVars /\ UNCHANGED <<local, rleft, result>> /\ x \in published \cup {Area}
  BY DEF StartWait
<1>2. /\ rpc'[r] = "wait_futex" /\ target'[r] = x
      /\ \A q \in Readers \ {r} : rpc'[q] = rpc[q] /\ target'[q] = target[q] /\ expect'[q] = expect[q]
  BY DEF StartWait, Goto, IInv, TypeOK
<1>3. TypeOK'
  BY <1>1 DEF StartWait, Goto, IInv, TypeOK, writerVars, ReaderPCs
<1>4. TargetInv' /\ CopyInv'
  BY <1>1, <1>2 DEF IInv, TargetInv, CopyInv, writerVars
<1>5. NoLostWakeup'
  BY <1>1, <1>2, StaysAwake
<1> QED
  BY <1>1, <1>3, <1>4, <1>5, ReaderFrame DEF IInv

(* The steps that only move a client on. *)
LEMMA MoveStep ==
  ASSUME IInv, NEW r \in Readers, UNCHANGED writerVars,
         UNCHANGED <<target, expect, local, rleft, result>>, NEW to, Goto(r, to),
         \/ to = "load" /\ rpc[r] = "asleep"
         \/ to \in {"wait_check", "wait_futex"} /\ rpc[r] \in {"wait_asleep", "wait_check"}
  PROVE  IInv'
<1>1. rpc'[r] = to /\ \A q \in Readers \ {r} : rpc'[q] = rpc[q]
  BY DEF Goto, IInv, TypeOK
<1>2. TypeOK'
  BY DEF Goto, IInv, TypeOK, writerVars, ReaderPCs
<1>3. TargetInv' /\ CopyInv'
  BY <1>1 DEF IInv, TargetInv, CopyInv, writerVars
<1>4. NoLostWakeup'
  BY <1>1, StaysAwake
<1> QED
  BY <1>2, <1>3, <1>4, ReaderFrame DEF IInv

LEMMA OtherReaderStep ==
  ASSUME IInv, NEW r \in Readers, EndGet(r) \/ CheckChange(r) \/ Interrupted(r)
  PROVE  IInv'
<1>1. UNCHANGED writerVars /\ result' = result
  BY DEF EndGet, CheckChange, Interrupted
<1>2. result' \in [Readers -> Values \cup {Absent}]
  BY <1>1 DEF IInv, TypeOK
<1>3. CASE Return(r)
  BY <1>1, <1>2, <1>3, ReturnStep
<1>4. CASE ~Return(r)
  <2>1. UNCHANGED <<target, expect, local, rleft, result>>
    BY <1>4 DEF EndGet, CheckChange, Interrupted
  <2>2. PICK to : /\ Goto(r, to)
                  /\ \/ /\ to = "load"
                        /\ rpc[r] = "asleep"
                     \/ /\ to \in {"wait_check", "wait_futex"}
                        /\ rpc[r] \in {"wait_asleep", "wait_check"}
    <3>1. CASE CheckChange(r)
      <4>1. Goto(r, "wait_futex") /\ rpc[r] = "wait_check"
        BY <1>4, <3>1 DEF CheckChange
      <4> QED
        BY <4>1
    <3>2. CASE Interrupted(r)
      <4>1. Goto(r, AfterWait(r)) /\ rpc[r] \in {"asleep", "wait_asleep"}
        BY <3>2 DEF Interrupted, Asleep
      <4>2. CASE rpc[r] = "asleep"
        <5>1. AfterWait(r) = "load"
          BY <4>2 DEF AfterWait
        <5>2. Goto(r, "load")
          BY <4>1, <5>1 DEF Goto
        <5> QED
          BY <4>2, <5>2
      <4>3. CASE rpc[r] = "wait_asleep"
        <5>1. AfterWait(r) = "wait_check"
          BY <4>3 DEF AfterWait
        <5>2. Goto(r, "wait_check")
          BY <4>1, <5>1 DEF Goto
        <5> QED
          BY <4>3, <5>2
      <4> QED
        BY <4>1, <4>2, <4>3
    <3> QED
      BY <1>4, <3>1, <3>2 DEF EndGet
  <2> QED
    BY <1>1, <2>1, <2>2, MoveStep
<1> QED
  BY <1>3, <1>4

-------------------------------------------------------------------------------
(* The theorems.                                                             *)

LEMMA NextInv ==
  ASSUME IInv, [Next]_vars
  PROVE  IInv'
<1>1. CASE SetProperty
  BY <1>1, CreateStep, BeginUpdateStep DEF SetProperty
<1>2. CASE Writer
  BY <1>2, PublishStep, EndUpdateStep, WakeStep, BumpStep, WriteCellStep DEF Writer
<1>3. ASSUME NEW r \in Readers, Starts(r) PROVE IInv'
  <2>1. CASE \E n \in Names : StartRead(r, n) \/ StartGet(r, n)
    <3>1. UNCHANGED writerVars
      BY <2>1 DEF StartRead, StartGet
    <3> QED
      BY <2>1, <3>1, FoundStep
  <2>2. CASE \E x \in Words : StartWait(r, x)
    BY <2>2, StartWaitStep
  <2> QED
    BY <1>3, <2>1, <2>2 DEF Starts
<1>4. ASSUME NEW r \in Readers, Reader(r) \/ Interrupted(r) PROVE IInv'
  BY <1>4, LoadSerialStep, FutexWaitStep, CheckSerialStep, OtherReaderStep, ReadCellStep, GetCellStep
  DEF Reader
<1>5. CASE UNCHANGED vars
  BY <1>5 DEF vars, writerVars, readerVars, IInv, TypeOK, WriterInv, EntryInv, SerialInv, TargetInv,
     CopyInv, NoLostWakeup, WakeComes, Asleep, Updating, Shows
<1> QED
  BY <1>1, <1>2, <1>3, <1>4, <1>5 DEF Next

THEOREM Invariant == Spec => []IInv
<1>1. Init => IInv
  BY InitInv
<1>2. IInv /\ [Next]_vars => IInv'
  BY NextInv
<1> QED
  BY <1>1, <1>2, PTL DEF Spec

(* Type correctness of the property area; in particular the table of entries *)
(* never grows beyond PA_COUNT_MAX.                                          *)
THEOREM TypeCorrect == Spec => []TypeOK
<1>1. IInv => TypeOK
  BY DEF IInv
<1> QED
  BY <1>1, Invariant, PTL

(* Nobody sleeps through the end of an update (update_prop_info,             *)
(* __system_property_read and __system_property_wait).                       *)
THEOREM WakeupsArrive == Spec => []NoLostWakeup
<1>1. IInv => NoLostWakeup
  BY DEF IInv
<1> QED
  BY <1>1, Invariant, PTL

(* Properties are atomic registers for those who read them with              *)
(* __system_property_read: every step of the area is a step of               *)
(* AtomicProperties, or changes nothing there.                               *)
THEOREM ReadsAreAtomic == Spec => AtomicReads
<1>1. Init => Atomic!AtomicInit
  BY DEF Init, Atomic!AtomicInit
<1>2. ASSUME IInv, [Next]_vars
      PROVE  [Atomic!AtomicNext]_<<current, result>>
  <2>1. CASE Publish \/ EndUpdate
    <3>1. Atomic!Set(wname, wvalue) /\ wname \in Names /\ wvalue \in Values
      BY <1>2, <2>1 DEF Publish, EndUpdate, readerVars, Atomic!Set, IInv, TypeOK
    <3> QED
      BY <3>1 DEF Atomic!AtomicNext
  <2>2. ASSUME NEW r \in Readers, CheckSerial(r)
        PROVE  [Atomic!AtomicNext]_<<current, result>>
    <3>1. CASE serial[target[r]] = expect[r]
      <4>1. Atomic!Read(r, target[r]) /\ target[r] \in Names
        BY <1>2, <2>2, <3>1, CheckedValue, PropertyAreaAssumption
        DEF CheckSerial, writerVars, Atomic!Read
      <4> QED
        BY <4>1 DEF Atomic!AtomicNext
    <3>2. CASE serial[target[r]] # expect[r]
      BY <2>2, <3>2 DEF CheckSerial, writerVars
    <3> QED
      BY <3>1, <3>2
  <2>3. CASE SetProperty \/ WakeEntry \/ Bump \/ WakeArea \/ \E i \in Cells : WriteCell(i)
    BY <2>3 DEF SetProperty, Create, BeginUpdate, WakeEntry, Bump, WakeArea, WriteCell, readerVars
  <2>4. ASSUME NEW r \in Readers,
               \/ Starts(r) \/ Interrupted(r)
               \/ LoadSerial(r) \/ WaitDirty(r) \/ EndGet(r) \/ WaitChange(r) \/ CheckChange(r)
               \/ \E i \in Cells : ReadCell(r, i) \/ GetCell(r, i)
        PROVE  UNCHANGED <<current, result>>
    BY <2>4 DEF Starts, StartRead, StartGet, StartWait, Interrupted, LoadSerial, WaitDirty, EndGet,
       WaitChange, CheckChange, FutexWait, ReadCell, GetCell, writerVars
  <2>5. CASE UNCHANGED vars
    BY <2>5 DEF vars, writerVars, readerVars
  <2> QED
    BY <1>2, <2>1, <2>2, <2>3, <2>4, <2>5 DEF Next, Writer, Reader
<1> QED
  BY <1>1, <1>2, Invariant, PTL DEF Spec, AtomicReads, Atomic!AtomicSpec
===============================================================================
