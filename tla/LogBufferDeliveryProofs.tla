----------------------- MODULE LogBufferDeliveryProofs ----------------------
(***************************************************************************)
(* Proofs about what the readers of LogBuffer receive, for any number of   *)
(* readers, messages and sizes.  A reader that follows the log keeps the   *)
(* list sorted: what is logged meanwhile is appended.  So the elements it  *)
(* is owed lie ahead of its iterator exactly as long as they were neither  *)
(* sent nor left out, and mStart keeps them from being pruned.             *)
(***************************************************************************)
EXTENDS LogBufferProofs

(* The elements are numbered in the order of logging. *)
Placed ==
  /\ \A i \in DOMAIN order : order[i] \in 1 .. Len(order)
  /\ \A i, j \in DOMAIN order : order[i] = order[j] => i = j

(* An element owed to a reader that follows the log was appended, and so was *)
(* everything logged after it.                                               *)
Sorted(c) ==
  \A j \in DOMAIN order : order[j] \in owed[c] =>
    \A i \in DOMAIN order : (i < j => order[i] < order[j]) /\ (j < i => order[j] < order[i])

(* The iterator has still to reach element e in this pass.                   *)
ToCome(c, e) ==
  /\ start[c] < e
  /\ \A i, j \in DOMAIN order : order[i] = at[c] /\ order[j] = e => i < j

(* Element e is kept for the reader: for its next pass, or for this one.     *)
Kept(c, e) ==
  /\ e \in live /\ mStart[c] <= e
  /\ pc[c] \notin {"walk", "send"} => mStart[c] < e
  /\ pc[c] = "walk" => ToCome(c, e)
  /\ pc[c] = "send" => e = at[c] \/ (ToCome(c, e) /\ mStart[c] < e)

Places(c) ==
  /\ mStart[c] <= Len(order) /\ start[c] <= Len(order) /\ at[c] <= Len(order)
  /\ Received(c) \subseteq 1 .. Len(order) /\ owed[c] \subseteq 1 .. Len(order)
  /\ pc[c] = "first" => start[c] = mStart[c] /\ at[c] = 0
  /\ pc[c] = "send" => at[c] # 0 /\ at[c] = mStart[c]

NothingOwed(c) ==
  /\ c \in NonBlock \/ socket[c] = "new" \/ (c \in times /\ mRefCount[c] = 0) => owed[c] = {}
  /\ socket[c] = "new" => received[c] = <<>>

NoneLost(c) ==
  Following(c) => \A e \in owed[c] : e \in Received(c) \cup dropped[c] \/ Kept(c, e)

(* What was received lies behind the reader.                                 *)
Done(c) ==
  c \in Owned => \A e \in Received(c) \cap owed[c] :
    /\ e <= mStart[c]
    /\ pc[c] = "send" => e < mStart[c]
    /\ pc[c] \in {"walk", "send"} => ~ToCome(c, e)

Ordered(c) ==
  \A i, j \in DOMAIN received[c] :
    i < j /\ {received[c][i], received[c][j]} \subseteq owed[c]
      => received[c][i] < received[c][j]

Delivery(c) ==
  /\ Places(c) /\ NothingOwed(c) /\ NoneLost(c) /\ Done(c) /\ Ordered(c)
  /\ c \in Owned \ NonBlock => Sorted(c)

HistoryTypes ==
  /\ received \in [Clients -> Seq(Nat)]
  /\ owed \in [Clients -> SUBSET Nat] /\ dropped \in [Clients -> SUBSET Nat]

Deliveries == HistoryTypes /\ Placed /\ \A c \in Clients : Delivery(c)

-------------------------------------------------------------------------------
(* What a step of somebody else leaves the reader.                           *)

Still == {"none", "loop", "flushed", "failed", "wait", "stop"}

Frame(c) ==
  /\ order' = order /\ live \ live' \subseteq Unlocked
  /\ owed'[c] = owed[c] /\ received'[c] = received[c] /\ dropped'[c] = dropped[c]
  /\ mStart'[c] = mStart[c] /\ start'[c] = start[c] /\ at'[c] = at[c]
  /\ pc'[c] = pc[c] \/ (pc[c] \in Still /\ pc'[c] \in Still)
  /\ Following(c)' => Following(c) \/ owed[c] = {}
  /\ c \in Owned' => c \in Owned \/ owed[c] = {}
  /\ socket'[c] = "new" \/ (c \in times' /\ mRefCount'[c] = 0) => owed[c] = {}
  /\ socket'[c] = "new" => socket[c] = "new"

LEMMA KeptIsLocked ==
  ASSUME RestTypes, Iterators, NEW c \in Clients, c \in Owned, NEW e \in live, mStart[c] <= e
  PROVE  e \notin Unlocked
<1>1. PICK i \in DOMAIN order : order[i] = e
  BY DEF Iterators
<1>2. mStart[c] \in Nat
  BY DEF RestTypes
<1> QED
  BY <1>1, <1>2, OrderFacts DEF Unlocked, Positions

LEMMA FrameKeeps ==
  ASSUME RestTypes, Iterators, NEW c \in Clients, Delivery(c), Frame(c)
  PROVE  Delivery(c)'
<1>1. Places(c)'
  <2>1. Received(c)' = Received(c)
    BY DEF Frame, Received
  <2> QED
    BY <2>1 DEF Delivery, Places, Frame, Still
<1>2. NothingOwed(c)'
  BY DEF Delivery, NothingOwed, Frame
<1>3. NoneLost(c)'
  <2> SUFFICES ASSUME Following(c)', NEW e \in owed[c], ~(e \in Received(c) \cup dropped[c])
               PROVE  Kept(c, e)'
    BY DEF NoneLost, Frame, Received
  <2>1. Following(c) /\ Kept(c, e) /\ c \in Owned
    BY DEF Delivery, NoneLost, Frame, Following
  <2>2. e \in live'
    BY <2>1, KeptIsLocked DEF Kept, Frame
  <2>3. ToCome(c, e)' <=> ToCome(c, e)
    BY DEF ToCome, Frame
  <2> QED
    BY <2>1, <2>2, <2>3 DEF Kept, Frame, Still
<1>4. Done(c)'
  <2> SUFFICES ASSUME c \in Owned', NEW e \in Received(c) \cap owed[c]
               PROVE  /\ e <= mStart[c]
                      /\ pc'[c] = "send" => e < mStart[c]
                      /\ pc'[c] \in {"walk", "send"} => ~ToCome(c, e)'
    BY DEF Done, Frame, Received
  <2>1. c \in Owned
    BY DEF Frame
  <2>2. ToCome(c, e)' <=> ToCome(c, e)
    BY DEF ToCome, Frame
  <2> QED
    BY <2>1, <2>2 DEF Delivery, Done, Frame, Still
<1>5. Ordered(c)'
  BY DEF Delivery, Ordered, Frame
<1>6. c \in Owned' \ NonBlock => Sorted(c)'
  BY DEF Delivery, Sorted, Frame
<1> QED
  BY <1>1, <1>2, <1>3, <1>4, <1>5, <1>6 DEF Delivery

-------------------------------------------------------------------------------
(* The log.                                                                  *)

(* An element inserted or appended has its own place.                        *)
LEMMA InsertPlaced ==
  ASSUME RestTypes, Placed, NEW i \in DOMAIN order
  PROVE  LET new == InsertBefore(i, Len(order) + 1)
         IN /\ \A j \in DOMAIN new : new[j] \in 1 .. Len(order) + 1
            /\ \A j, k \in DOMAIN new : new[j] = new[k] => j = k
<1> DEFINE new == InsertBefore(i, Len(order) + 1)
           f(j) == IF j < i THEN j ELSE j - 1
<1>1. Len(order) \in Nat /\ DOMAIN order = 1 .. Len(order) /\ i \in 1 .. Len(order)
  BY OrderFacts
<1>2. DOMAIN new = 1 .. Len(order) + 1
  BY DEF InsertBefore
<1>3. new[i] = Len(order) + 1
  BY <1>1 DEF InsertBefore
<1>4. \A j \in DOMAIN new : j # i => f(j) \in DOMAIN order /\ new[j] = order[f(j)]
  BY <1>1, <1>2 DEF InsertBefore
<1>5. \A j \in DOMAIN order : order[j] \in 1 .. Len(order)
  BY DEF Placed
<1> HIDE DEF new
<1>6. ASSUME NEW j \in DOMAIN new, NEW k \in DOMAIN new, new[j] = new[k]
      PROVE  j = k
  <2>1. CASE j = i \/ k = i
    BY <1>1, <1>3, <1>4, <1>5, <1>6, <2>1
  <2>2. CASE j # i /\ k # i
    <3>1. f(j) = f(k)
      BY <1>4, <1>6, <2>2 DEF Placed
    <3> QED
      BY <1>1, <1>2, <2>2, <3>1
  <2> QED
    BY <2>1, <2>2
<1>7. \A j \in DOMAIN new : new[j] \in 1 .. Len(order) + 1
  BY <1>1, <1>3, <1>4, <1>5
<1> QED
  BY <1>6, <1>7 DEF new

LEMMA AppendPlaced ==
  ASSUME RestTypes, Placed, order' = Append(order, Len(order) + 1)
  PROVE  /\ Len(order') = Len(order) + 1 /\ DOMAIN order' = 1 .. Len(order) + 1
         /\ \A j \in DOMAIN order : j \in DOMAIN order' /\ order'[j] = order[j]
         /\ order'[Len(order) + 1] = Len(order) + 1
         /\ Placed'
<1>1. order \in Seq(1 .. MaxLogs) /\ Len(order) \in Nat /\ DOMAIN order = 1 .. Len(order)
  BY OrderFacts DEF RestTypes
<1>2. /\ Len(order') = Len(order) + 1 /\ DOMAIN order' = 1 .. Len(order) + 1
      /\ \A j \in DOMAIN order : j \in DOMAIN order' /\ order'[j] = order[j]
      /\ order'[Len(order) + 1] = Len(order) + 1
  BY <1>1
<1>3. \A j \in DOMAIN order : order[j] \in 1 .. Len(order)
  BY DEF Placed
<1>4. \A j \in DOMAIN order' : order'[j] \in 1 .. Len(order')
  BY <1>1, <1>2, <1>3
<1>5. ASSUME NEW j \in DOMAIN order', NEW k \in DOMAIN order', order'[j] = order'[k]
      PROVE  j = k
  BY <1>1, <1>2, <1>3, <1>5 DEF Placed
<1> QED
  BY <1>2, <1>4, <1>5 DEF Placed

(* Nobody follows the log when an element is inserted.                       *)
LEMMA InsertDelivers ==
  ASSUME LifeTypes, RestTypes, Deliveries, Log, NEW c \in Clients,
         Len(order') = Len(order) + 1, \A d \in Owned : d \in NonBlock
  PROVE  Delivery(c)'
<1>1. /\ UNCHANGED <<times, mRefCount, mRelease, mError, mStart, start, at, pc, socket, received>>
      /\ Delivery(c) /\ Owned' = Owned /\ Len(order) \in Nat
  BY OrderFacts DEF Log, flagVars, rangeVars, threadVars, clientVars, Owned, Deliveries
<1>2. c \notin Owned \ NonBlock
  OBVIOUS
<1>3. owed'[c] = owed[c] /\ (c \in Owned => owed[c] = {})
  BY <1>1, <1>2 DEF Log, Delivery, NothingOwed
<1>4. Places(c)'
  <2>1. mStart[c] \in Nat /\ start[c] \in Nat /\ at[c] \in Nat
    BY DEF RestTypes
  <2> QED
    BY <1>1, <1>3, <2>1 DEF Delivery, Places, Received
<1>5. NothingOwed(c)' /\ Ordered(c)'
  BY <1>1, <1>3 DEF Delivery, NothingOwed, Ordered
<1>6. NoneLost(c)' /\ Done(c)'
  BY <1>1, <1>2, <1>3 DEF NoneLost, Following, Done
<1> QED
  BY <1>1, <1>2, <1>4, <1>5, <1>6 DEF Delivery

(* An appended element comes last, in the list and in number.                *)
LEMMA AppendDelivers ==
  ASSUME LifeTypes, RestTypes, Lives, Deliveries, Log, NEW c \in Clients,
         order' = Append(order, Len(order) + 1)
  PROVE  Delivery(c)'
<1> DEFINE new == Len(order) + 1
<1>1. /\ UNCHANGED <<times, mRefCount, mRelease, mError, mStart, start, at, pc, socket,
                     received, dropped>>
      /\ Delivery(c) /\ Life(c) /\ Placed /\ Owned' = Owned /\ live' = live \cup {new}
  BY DEF Log, flagVars, rangeVars, threadVars, clientVars, Owned, Deliveries, Lives
<1>2. /\ Len(order) \in Nat /\ DOMAIN order = 1 .. Len(order)
      /\ \A i \in DOMAIN order : order[i] \in 1 .. Len(order)
  BY <1>1, OrderFacts DEF Placed
<1>3. /\ Len(order') = new /\ DOMAIN order' = 1 .. new
      /\ \A j \in DOMAIN order : j \in DOMAIN order' /\ order'[j] = order[j]
      /\ order'[new] = new
  BY <1>1, AppendPlaced
<1>4. owed'[c] = IF c \in Owned \ NonBlock THEN owed[c] \cup {new} ELSE owed[c]
  BY DEF Log
<1>5. /\ mStart[c] \in Nat /\ start[c] \in Nat /\ at[c] \in Nat
      /\ mStart[c] <= Len(order) /\ start[c] <= Len(order) /\ at[c] <= Len(order)
      /\ Received(c) \subseteq 1 .. Len(order) /\ owed[c] \subseteq 1 .. Len(order)
      /\ Received(c)' = Received(c)
  BY <1>1 DEF RestTypes, Delivery, Places, Received
<1>6. Places(c)'
  BY <1>1, <1>2, <1>3, <1>4, <1>5 DEF Delivery, Places
<1>7. NothingOwed(c)'
  <2>1. c \in Owned \ NonBlock => socket[c] # "new" /\ mRefCount[c] # 0
    BY <1>1 DEF Life, Owned
  <2> QED
    BY <1>1, <1>4, <2>1 DEF Delivery, NothingOwed
<1>8. ASSUME NEW e \in 1 .. Len(order) PROVE ToCome(c, e)' <=> ToCome(c, e)
  <2>1. \A i \in DOMAIN order' : i \in DOMAIN order \/ i = new
    BY <1>2, <1>3
  <2>2. e # new /\ at[c] # new
    BY <1>2, <1>5
  <2> QED
    BY <1>1, <1>3, <2>1, <2>2 DEF ToCome
<1>9. ASSUME NEW e, e = new PROVE ToCome(c, e)'
  BY <1>1, <1>2, <1>3, <1>5, <1>9 DEF ToCome
<1>10. NoneLost(c)'
  <2> SUFFICES ASSUME Following(c)', NEW e \in owed'[c]
               PROVE  e \in Received(c)' \cup dropped'[c] \/ Kept(c, e)'
    BY DEF NoneLost
  <2>1. Following(c)
    BY <1>1 DEF Following, isError
  <2>2. CASE e = new
    <3>1. e \in live' /\ mStart'[c] < e /\ mStart'[c] <= e
      BY <1>1, <1>2, <1>5, <2>2
    <3> QED
      BY <1>9, <2>2, <3>1 DEF Kept
  <2>3. CASE e # new
    <3>1. e \in owed[c] /\ e \in 1 .. Len(order)
      BY <1>4, <1>5, <2>3
    <3> QED
      BY <1>1, <1>5, <1>8, <2>1, <3>1 DEF Delivery, NoneLost, Kept
  <2> QED
    BY <2>2, <2>3
<1>11. Done(c)'
  <2> SUFFICES ASSUME c \in Owned, NEW e \in Received(c) \cap owed'[c]
               PROVE  /\ e <= mStart[c]
                      /\ pc[c] = "send" => e < mStart[c]
                      /\ pc[c] \in {"walk", "send"} => ~ToCome(c, e)'
    BY <1>1, <1>5 DEF Done
  <2>1. e \in 1 .. Len(order) /\ e \in owed[c]
    BY <1>2, <1>4, <1>5
  <2> QED
    BY <1>1, <1>8, <2>1 DEF Delivery, Done
<1>12. Ordered(c)'
  <2> SUFFICES ASSUME NEW i \in DOMAIN received[c], NEW j \in DOMAIN received[c], i < j,
                      {received[c][i], received[c][j]} \subseteq owed'[c]
               PROVE  received[c][i] < received[c][j]
    BY <1>1 DEF Ordered
  <2>1. received[c][i] \in 1 .. Len(order) /\ received[c][j] \in 1 .. Len(order)
    BY <1>5 DEF Received
  <2>2. {received[c][i], received[c][j]} \subseteq owed[c]
    BY <1>2, <1>4, <2>1
  <2> QED
    BY <1>1, <2>2 DEF Delivery, Ordered
<1>13. ASSUME c \in Owned \ NonBlock PROVE Sorted(c)'
  <2> SUFFICES ASSUME NEW j \in 1 .. new, order'[j] \in owed'[c], NEW i \in 1 .. new
               PROVE  (i < j => order'[i] < order'[j]) /\ (j < i => order'[j] < order'[i])
    BY <1>3 DEF Sorted
  <2>1. CASE i = new \/ j = new
    BY <1>2, <1>3, <2>1
  <2>2. CASE i # new /\ j # new
    <3>1. i \in DOMAIN order /\ j \in DOMAIN order /\ order[j] \in owed[c]
      BY <1>2, <1>3, <1>4, <2>2
    <3> QED
      BY <1>1, <1>3, <1>13, <3>1 DEF Delivery, Sorted
  <2> QED
    BY <2>1, <2>2
<1> QED
  BY <1>1, <1>6, <1>7, <1>10, <1>11, <1>12, <1>13 DEF Delivery

LEMMA LogDelivers ==
  ASSUME LifeTypes, RestTypes, Lives, Deliveries, Log
  PROVE  Deliveries'
<1> DEFINE e == Len(order) + 1
<1>1. Len(order) \in Nat /\ order \in Seq(1 .. MaxLogs) /\ e \in 1 .. MaxLogs /\ Placed
  BY OrderFacts, LogBufferAssumption DEF Log, RestTypes, Deliveries
<1>2. HistoryTypes'
  BY <1>1 DEF Log, Deliveries, HistoryTypes
<1>3. CASE order' = Append(order, e)
  BY <1>1, <1>2, <1>3, AppendPlaced, AppendDelivers DEF Deliveries
<1>4. CASE \E last \in Later :
             ~RegionLocked(order[last]) /\ order' = InsertBefore(last, e)
  <2>1. PICK last \in Later : ~RegionLocked(order[last]) /\ order' = InsertBefore(last, e)
    BY <1>4
  <2>2. last \in DOMAIN order
    BY DEF Later, Positions
  <2>3. Len(order') = Len(order) + 1
    BY <1>1, <2>1, <2>2, InsertType
  <2>4. Placed'
    BY <1>1, <2>1, <2>2, <2>3, InsertPlaced DEF Placed
  <2>5. \A d \in Owned : d \in NonBlock
    BY <2>1 DEF RegionLocked
  <2> QED
    BY <1>2, <2>3, <2>4, <2>5, InsertDelivers DEF Deliveries
<1> QED
  BY <1>3, <1>4 DEF Log

-------------------------------------------------------------------------------
(* The steps of the reader's own thread.                                     *)

LEMMA LoopDelivers ==
  ASSUME LifeTypes, RestTypes, Lives, Placed, NEW c \in Clients, Delivery(c), Loop(c)
  PROVE  Delivery(c)'
<1>1. /\ UNCHANGED <<listVars, flagVars, rangeVars, clientVars, historyVars>>
      /\ pc[c] = "loop" /\ pc'[c] \in {"stop", "first", "walk"}
      /\ start'[c] = mStart[c] /\ at'[c] = 0
  BY DEF Loop, Goes, LifeTypes, RestTypes
<1>2. UNCHANGED <<order, live, times, mRefCount, mRelease, mError, mStart, socket, received,
                  owed, dropped>>
  BY <1>1 DEF listVars, flagVars, rangeVars, clientVars, historyVars
<1>3. Owned' = Owned /\ Received(c)' = Received(c) /\ (Following(c)' => Following(c))
  BY <1>1, <1>2 DEF Owned, Received, Following, isError
<1>4. /\ mStart[c] \in Nat /\ Len(order) \in Nat /\ Received(c) \subseteq 1 .. Len(order)
      /\ owed[c] \subseteq 1 .. Len(order)
  BY OrderFacts DEF RestTypes, Delivery, Places
<1>5. \A e : ToCome(c, e)' <=> mStart[c] < e
  <2>1. \A i \in DOMAIN order : order[i] # 0
    BY OrderFacts
  <2> QED
    BY <1>1, <1>2, <2>1 DEF ToCome
<1>6. Places(c)'
  BY <1>1, <1>2, <1>3, <1>4 DEF Delivery, Places
<1>7. NothingOwed(c)' /\ Ordered(c)'
  BY <1>2 DEF Delivery, NothingOwed, Ordered
<1>8. NoneLost(c)'
  BY <1>1, <1>2, <1>3, <1>5 DEF Delivery, NoneLost, Kept
<1>9. Done(c)'
  <2>1. \A e \in Received(c) : e \in Nat /\ (e <= mStart[c] => ~(mStart[c] < e))
    BY <1>4
  <2> QED
    BY <1>1, <1>2, <1>3, <1>5, <2>1 DEF Delivery, Done
<1>10. c \in Owned' \ NonBlock => Sorted(c)'
  BY <1>2, <1>3 DEF Delivery, Sorted
<1> QED
  BY <1>6, <1>7, <1>8, <1>9, <1>10 DEF Delivery

(* An element that is kept and still to come lies ahead of the iterator.     *)
LEMMA KeptIsAhead ==
  ASSUME RestTypes, Iterators, Placed, NEW c \in Clients, NEW e \in live, ToCome(c, e)
  PROVE  \E j \in Ahead(c) : order[j] = e
<1>1. PICK j \in DOMAIN order : order[j] = e
  BY DEF Iterators
<1> QED
  BY <1>1, OrderFacts DEF Ahead, Positions, ToCome

LEMMA FirstPassDelivers ==
  ASSUME LifeTypes, RestTypes, Iterators, Placed, NEW c \in Clients, Delivery(c),
         FirstPass(c)
  PROVE  Delivery(c)'
<1>1. /\ UNCHANGED <<order, live, times, mRefCount, mRelease, mError, start, at, socket,
                     received, owed, dropped>>
      /\ pc[c] = "first" /\ pc'[c] = "walk"
      /\ mStart'[c] = mStart[c] \/ \E i \in First(Ahead(c)) : mStart'[c] = order[i]
  BY DEF FirstPass, Goes, LifeTypes, RestTypes, listVars, flagVars, clientVars, historyVars
<1>2. Owned' = Owned /\ Received(c)' = Received(c) /\ (Following(c)' => Following(c))
      /\ \A e : ToCome(c, e)' <=> ToCome(c, e)
  BY <1>1 DEF Owned, Received, Following, isError, ToCome
<1>3. /\ start[c] = mStart[c] /\ at[c] = 0 /\ mStart[c] \in Nat /\ Len(order) \in Nat
      /\ Received(c) \subseteq 1 .. Len(order) /\ owed[c] \subseteq 1 .. Len(order)
      /\ mStart[c] <= Len(order)
      /\ \A i \in DOMAIN order : order[i] \in 1 .. Len(order) /\ i \in Nat
  BY <1>1, OrderFacts, SMTT(30) DEF RestTypes, Delivery, Places, Placed
<1>4. mStart[c] <= mStart'[c] /\ mStart'[c] <= Len(order) /\ mStart'[c] \in Nat
  BY <1>1, <1>3 DEF First, Ahead, Positions
<1>5. \A e : ToCome(c, e) <=> mStart[c] < e
  BY <1>3 DEF ToCome
<1>6. Places(c)'
  BY <1>1, <1>2, <1>3, <1>4 DEF Delivery, Places
<1>7. NothingOwed(c)' /\ Ordered(c)'
  BY <1>1 DEF Delivery, NothingOwed, Ordered
<1>8. NoneLost(c)'
  <2> SUFFICES ASSUME Following(c), NEW e \in owed[c], e \notin Received(c) \cup dropped[c]
               PROVE  Kept(c, e)'
    BY <1>1, <1>2 DEF NoneLost
  <2>1. Kept(c, e) /\ mStart[c] < e /\ e \in live /\ e \in Nat
    BY <1>1, <1>3 DEF Delivery, NoneLost, Kept
  <2>2. PICK j \in Ahead(c) : order[j] = e
    BY <1>5, <2>1, KeptIsAhead
  <2>3. Sorted(c) /\ j \in DOMAIN order
    BY DEF Following, Delivery, Ahead, Positions
  <2>4. ASSUME NEW i \in First(Ahead(c)) PROVE order[i] <= e
    <3>1. i \in DOMAIN order /\ i <= j
      BY DEF First, Ahead, Positions
    <3>2. CASE i = j
      BY <1>3, <2>2, <3>1, <3>2
    <3>3. CASE i < j
      BY <1>3, <2>1, <2>2, <2>3, <3>1, <3>3 DEF Sorted
    <3> QED
      BY <1>3, <2>3, <3>1, <3>2, <3>3
  <2>5. mStart'[c] <= e
    BY <1>1, <1>3, <2>1, <2>4
  <2> QED
    BY <1>1, <1>2, <1>5, <2>1, <2>5 DEF Kept
<1>9. Done(c)'
  <2> SUFFICES ASSUME c \in Owned, NEW e \in Received(c) \cap owed[c]
               PROVE  e <= mStart'[c] /\ ~ToCome(c, e)
    BY <1>1, <1>2 DEF Done
  <2>1. e <= mStart[c] /\ e \in Nat
    BY <1>3 DEF Delivery, Done
  <2> QED
    BY <1>3, <1>4, <1>5, <2>1
<1>10. c \in Owned' \ NonBlock => Sorted(c)'
  BY <1>1, <1>2 DEF Delivery, Sorted
<1> QED
  BY <1>6, <1>7, <1>8, <1>9, <1>10 DEF Delivery

(* The next element: everything kept is that one or lies further ahead, and  *)
(* everything received is smaller.                                           *)
LEMMA NextElement ==
  ASSUME LifeTypes, RestTypes, Iterators, Placed, NEW c \in Clients, Delivery(c),
         pc[c] = "walk", NEW i \in First(Ahead(c)), at'[c] = order[i],
         UNCHANGED <<order, start>>
  PROVE  /\ i \in DOMAIN order /\ order[i] \in live /\ order[i] \in 1 .. Len(order)
         /\ start[c] < order[i]
         /\ \A e \in live : ToCome(c, e) => e = order[i] \/ ToCome(c, e)'
         /\ \A e \in owed[c] : c \in Owned /\ e \in live /\ ToCome(c, e) => order[i] <= e
         /\ \A e \in Received(c) \cap owed[c] : c \in Owned => e < order[i] /\ ~ToCome(c, e)'
<1>1. /\ i \in DOMAIN order /\ order[i] \in live /\ start[c] < order[i]
      /\ \A k \in DOMAIN order : order[k] = at[c] => k < i
      /\ \A j \in Ahead(c) : i <= j
  BY DEF First, Ahead, Positions
<1>2. /\ Len(order) \in Nat /\ start[c] \in Nat
      /\ \A k \in DOMAIN order : order[k] \in 1 .. Len(order) /\ k \in Nat
  BY OrderFacts, SMTT(30) DEF Placed, RestTypes
<1>3. ASSUME NEW e \in live, ToCome(c, e), e # order[i]
      PROVE  ToCome(c, e)' /\ \E j \in DOMAIN order : order[j] = e /\ i < j
  <2>1. PICK j \in Ahead(c) : order[j] = e
    BY <1>3, KeptIsAhead
  <2>2. j \in DOMAIN order /\ i < j
    BY <1>1, <1>2, <1>3, <2>1 DEF Ahead, Positions
  <2>3. \A k, l \in DOMAIN order : order[k] = order[i] /\ order[l] = e => k = i /\ l = j
    BY <1>1, <2>1, <2>2 DEF Placed
  <2> QED
    BY <1>3, <2>1, <2>2, <2>3 DEF ToCome
<1>4. ASSUME NEW e \in owed[c], c \in Owned, e \in live, ToCome(c, e)
      PROVE  order[i] <= e
  <2>1. Sorted(c)
    BY <1>4 DEF Delivery, NothingOwed
  <2>2. CASE e = order[i]
    BY <1>1, <1>2, <2>2
  <2>3. CASE e # order[i]
    <3>1. PICK j \in DOMAIN order : order[j] = e /\ i < j
      BY <1>3, <1>4, <2>3
    <3> QED
      BY <1>1, <1>2, <2>1, <3>1 DEF Sorted
  <2> QED
    BY <2>2, <2>3
<1>5. ASSUME NEW e \in Received(c) \cap owed[c], c \in Owned
      PROVE  e < order[i] /\ ~ToCome(c, e)'
  <2>1. Sorted(c)
    BY <1>5 DEF Delivery, NothingOwed
  <2>2. ~ToCome(c, e) /\ e \in 1 .. Len(order)
    BY <1>5 DEF Delivery, Done, Places
  <2>3. CASE ~(start[c] < e)
    BY <1>1, <1>2, <2>2, <2>3 DEF ToCome
  <2>4. CASE start[c] < e
    <3>1. PICK k \in DOMAIN order, j \in DOMAIN order : order[k] = at[c] /\ order[j] = e /\ ~(k < j)
      BY <2>2, <2>4 DEF ToCome
    <3>2. j < i
      BY <1>1, <1>2, <3>1
    <3>3. order[j] < order[i]
      BY <1>1, <2>1, <3>1, <3>2 DEF Sorted
    <3>4. ~(i < j)
      BY <1>1, <1>2, <3>1, <3>2
    <3> QED
      BY <1>1, <3>1, <3>3, <3>4 DEF ToCome
  <2> QED
    BY <2>3, <2>4
<1> QED
  BY <1>1, <1>2, <1>3, <1>4, <1>5

LEMMA WalkDelivers ==
  ASSUME LifeTypes, RestTypes, Iterators, Placed, HistoryTypes, NEW c \in Clients,
         Delivery(c), Walk(c)
  PROVE  Delivery(c)'
<1>1. PICK i \in First(Ahead(c)) : Visit(c, order[i])
  BY DEF Walk
<1>2. /\ UNCHANGED <<order, live, times, mRefCount, mRelease, mError, start, socket, received,
                     owed>>
      /\ pc[c] = "walk" /\ at'[c] = order[i]
  BY <1>1 DEF Walk, Visit, listVars, flagVars, clientVars, RestTypes
<1>3. Owned' = Owned /\ Received(c)' = Received(c) /\ isError(c)' = isError(c)
      /\ (Following(c)' => Following(c))
  BY <1>2 DEF Owned, Received, Following, isError
<1>4. /\ i \in DOMAIN order /\ order[i] \in live /\ order[i] \in 1 .. Len(order)
      /\ start[c] < order[i]
      /\ \A e \in live : ToCome(c, e) => e = order[i] \/ ToCome(c, e)'
      /\ \A e \in owed[c] : c \in Owned /\ e \in live /\ ToCome(c, e) => order[i] <= e
      /\ \A e \in Received(c) \cap owed[c] : c \in Owned => e < order[i] /\ ~ToCome(c, e)'
  BY <1>2, NextElement
<1>5. /\ mStart[c] \in Nat /\ Len(order) \in Nat /\ mStart[c] <= Len(order)
      /\ Received(c) \subseteq 1 .. Len(order) /\ owed[c] \subseteq 1 .. Len(order)
  BY OrderFacts DEF RestTypes, Delivery, Places
<1>6. \/ pc'[c] = "walk" /\ mStart'[c] = mStart[c] /\ dropped'[c] = dropped[c] \cup {order[i]}
      \/ pc'[c] = "walk" /\ mStart'[c] = order[i] /\ dropped'[c] = dropped[c] \cup {order[i]}
      \/ pc'[c] = "walk" /\ mStart'[c] = order[i] /\ c \in NonBlock /\ dropped'[c] = dropped[c]
      \/ pc'[c] = "send" /\ mStart'[c] = order[i] /\ dropped'[c] = dropped[c]
  BY <1>1, <1>2 DEF Visit, Goes, LifeTypes, RestTypes, HistoryTypes
<1>7. Places(c)'
  BY <1>2, <1>3, <1>4, <1>5, <1>6 DEF Delivery, Places
<1>8. NothingOwed(c)' /\ Ordered(c)'
  BY <1>2 DEF Delivery, NothingOwed, Ordered
<1>9. NoneLost(c)'
  <2> SUFFICES ASSUME Following(c), NEW e \in owed[c], e \notin Received(c) \cup dropped'[c]
               PROVE  Kept(c, e)'
    BY <1>2, <1>3 DEF NoneLost
  <2>1. Kept(c, e) /\ ToCome(c, e) /\ e \in live /\ e \in Nat /\ c \in Owned \ NonBlock
    BY <1>2, <1>5, <1>6 DEF Delivery, NoneLost, Kept, Following
  <2>2. order[i] <= e /\ (e = order[i] \/ (ToCome(c, e)' /\ order[i] < e))
    BY <1>4, <1>5, <2>1
  <2>3. CASE pc'[c] = "walk"
    <3>1. e # order[i] /\ mStart'[c] <= e
      BY <1>6, <2>1, <2>2, <2>3 DEF Kept
    <3> QED
      BY <1>2, <2>1, <2>2, <2>3, <3>1 DEF Kept
  <2>4. CASE pc'[c] = "send"
    BY <1>2, <1>6, <2>1, <2>2, <2>4 DEF Kept
  <2> QED
    BY <1>6, <2>3, <2>4
<1>10. Done(c)'
  <2> SUFFICES ASSUME c \in Owned, NEW e \in Received(c) \cap owed[c]
               PROVE  /\ e <= mStart'[c]
                      /\ pc'[c] = "send" => e < mStart'[c]
                      /\ ~ToCome(c, e)'
    BY <1>2, <1>3 DEF Done
  <2>1. e < order[i] /\ ~ToCome(c, e)' /\ e <= mStart[c] /\ e \in Nat
    BY <1>4, <1>5 DEF Delivery, Done
  <2> QED
    BY <1>4, <1>5, <1>6, <2>1
<1>11. c \in Owned' \ NonBlock => Sorted(c)'
  BY <1>2, <1>3 DEF Delivery, Sorted
<1> QED
  BY <1>7, <1>8, <1>9, <1>10, <1>11 DEF Delivery

(* At the end of the list nothing is left that is kept.                      *)
LEMMA WalkEndDelivers ==
  ASSUME LifeTypes, RestTypes, Iterators, Placed, NEW c \in Clients, Delivery(c), WalkEnd(c)
  PROVE  Delivery(c)'
<1>1. /\ UNCHANGED <<order, live, times, mRefCount, mRelease, mError, mStart, socket, received,
                     owed, dropped>>
      /\ pc[c] = "walk" /\ pc'[c] = "flushed" /\ start'[c] = 0 /\ at'[c] = 0
      /\ Ahead(c) = {}
  BY DEF WalkEnd, Goes, LifeTypes, RestTypes, listVars, flagVars, rangeVars, clientVars,
         historyVars
<1>2. Owned' = Owned /\ Received(c)' = Received(c) /\ (Following(c)' => Following(c))
      /\ Len(order) \in Nat
  BY <1>1, OrderFacts DEF Owned, Received, Following, isError
<1>3. Places(c)'
  BY <1>1, <1>2 DEF Delivery, Places
<1>4. NothingOwed(c)' /\ Ordered(c)'
  BY <1>1 DEF Delivery, NothingOwed, Ordered
<1>5. NoneLost(c)'
  <2> SUFFICES ASSUME Following(c), NEW e \in owed[c], Kept(c, e)
               PROVE  FALSE
    BY <1>1, <1>2 DEF NoneLost, Delivery
  <2>1. ToCome(c, e) /\ e \in live
    BY <1>1 DEF Kept
  <2> QED
    BY <1>1, <2>1, KeptIsAhead
<1>6. Done(c)'
  BY <1>1, <1>2 DEF Delivery, Done
<1>7. c \in Owned' \ NonBlock => Sorted(c)'
  BY <1>1, <1>2 DEF Delivery, Sorted
<1> QED
  BY <1>3, <1>4, <1>5, <1>6, <1>7 DEF Delivery

LEMMA SendDelivers ==
  ASSUME LifeTypes, RestTypes, Lives, Iterators, Placed, HistoryTypes, NEW c \in Clients,
         Delivery(c), Send(c)
  PROVE  Delivery(c)'
<1>1. /\ UNCHANGED <<order, live, times, mRefCount, mRelease, mError, mStart, socket, owed,
                     dropped>>
      /\ pc[c] = "send"
      /\ \/ /\ received'[c] = Append(received[c], at[c]) /\ pc'[c] = "walk"
            /\ UNCHANGED <<start, at>>
         \/ received'[c] = received[c] /\ pc'[c] = "failed" /\ start'[c] = 0 /\ at'[c] = 0
  BY DEF Send, Goes, LifeTypes, RestTypes, HistoryTypes, listVars, flagVars, rangeVars, clientVars
<1>2. Owned' = Owned /\ Len(order) \in Nat /\ mStart[c] \in Nat
      /\ \A i \in DOMAIN order : i \in Nat
  BY <1>1, OrderFacts, SMTT(30) DEF Owned, RestTypes
<1>3. /\ at[c] = mStart[c] /\ at[c] \in 1 .. Len(order) /\ at[c] # 0
      /\ Received(c) \subseteq 1 .. Len(order) /\ owed[c] \subseteq 1 .. Len(order)
  <2>1. at[c] # 0 /\ at[c] = mStart[c] /\ Places(c)
    BY <1>1 DEF Delivery, Places
  <2> QED
    BY <1>2, <2>1 DEF Places
<1>4. CASE pc'[c] = "failed"
  <2>1. /\ received'[c] = received[c] /\ start'[c] = 0 /\ at'[c] = 0
        /\ Received(c)' = Received(c) /\ ~Following(c)'
    BY <1>1, <1>4 DEF Received, Following
  <2>2. Places(c)'
    BY <1>1, <1>2, <1>4, <2>1 DEF Delivery, Places
  <2>3. NothingOwed(c)' /\ Ordered(c)' /\ NoneLost(c)'
    BY <1>1, <2>1 DEF Delivery, NothingOwed, Ordered, NoneLost
  <2>4. Done(c)'
    BY <1>1, <1>2, <1>4, <2>1 DEF Delivery, Done
  <2>5. c \in Owned' \ NonBlock => Sorted(c)'
    BY <1>1, <1>2 DEF Delivery, Sorted
  <2> QED
    BY <2>2, <2>3, <2>4, <2>5 DEF Delivery
<1>5. CASE pc'[c] = "walk"
  <2>1. received'[c] = Append(received[c], at[c]) /\ UNCHANGED <<start, at>>
    BY <1>1, <1>5
  <2>12. at[c] \in live /\ c \in Owned
    <3>1. socket[c] # "closed"
      BY <1>1, <1>5 DEF Send, Goes, LifeTypes
    <3>2. c \in times /\ mRefCount[c] = 1
      BY <1>1, <3>1 DEF Lives, Life, threadRunning, One
    <3>3. at[c] \in live
      BY <1>3, <3>2 DEF Iterators, Iterator
    <3> QED
      BY <3>2, <3>3 DEF Owned
  <2>2. /\ received[c] \in Seq(Nat) /\ Len(received[c]) \in Nat
        /\ DOMAIN received[c] = 1 .. Len(received[c])
        /\ DOMAIN received'[c] = 1 .. Len(received[c]) + 1
        /\ \A i \in DOMAIN received[c] : received'[c][i] = received[c][i]
        /\ received'[c][Len(received[c]) + 1] = at[c]
    BY <2>1, <1>3 DEF HistoryTypes
  <2>3. Received(c)' = Received(c) \cup {at[c]}
    <3>1. Received(c)' = {received'[c][i] : i \in 1 .. Len(received[c]) + 1}
      BY <2>2 DEF Received
    <3>2. Received(c) = {received[c][i] : i \in 1 .. Len(received[c])}
      BY <2>2 DEF Received
    <3>3. \A i \in 1 .. Len(received[c]) + 1 :
            i = Len(received[c]) + 1 \/ i \in 1 .. Len(received[c])
      BY <2>2
    <3>4. /\ Len(received[c]) + 1 \in 1 .. Len(received[c]) + 1
          /\ \A i \in 1 .. Len(received[c]) : i \in 1 .. Len(received[c]) + 1
      BY <2>2
    <3> QED
      BY <2>2, <3>1, <3>2, <3>3, <3>4
  <2>4. \A e : ToCome(c, e)' <=> ToCome(c, e)
    BY <1>1, <2>1 DEF ToCome
  <2>5. Places(c)'
    BY <1>1, <1>3, <1>5, <2>1, <2>3 DEF Delivery, Places
  <2>6. NothingOwed(c)'
    BY <1>1, <2>12 DEF Delivery, NothingOwed, Owned, Lives, Life, threadRunning
  <2>7. NoneLost(c)'
    <3> SUFFICES ASSUME Following(c), NEW e \in owed[c],
                        e \notin Received(c) \cup {at[c]} \cup dropped[c]
                 PROVE  Kept(c, e)'
      BY <1>1, <1>2, <2>3 DEF NoneLost, Following, isError
    <3> QED
      BY <1>1, <1>5, <2>4 DEF Delivery, NoneLost, Kept
  <2>8. Done(c)'
    <3> SUFFICES ASSUME NEW e \in (Received(c) \cup {at[c]}) \cap owed[c]
                 PROVE  e <= mStart[c] /\ ~ToCome(c, e)
      BY <1>1, <1>5, <2>3, <2>4 DEF Done
    <3>1. CASE e = at[c]
      <4>1. PICK k \in DOMAIN order : order[k] = at[c]
        BY <2>12 DEF Iterators
      <4> QED
        BY <1>2, <1>3, <3>1, <4>1 DEF ToCome
    <3>2. CASE e \in Received(c)
      BY <1>1, <2>12, <3>2 DEF Delivery, Done
    <3> QED
      BY <3>1, <3>2
  <2>9. Ordered(c)'
    <3> SUFFICES ASSUME NEW i \in 1 .. Len(received[c]) + 1, NEW j \in 1 .. Len(received[c]) + 1,
                        i < j, {received'[c][i], received'[c][j]} \subseteq owed[c]
                 PROVE  received'[c][i] < received'[c][j]
      BY <1>1, <2>2 DEF Ordered
    <3>1. i \in DOMAIN received[c]
      BY <2>2
    <3>2. CASE j \in DOMAIN received[c]
      BY <2>2, <3>1, <3>2 DEF Delivery, Ordered
    <3>3. CASE j \notin DOMAIN received[c]
      <4>1. received'[c][j] = at[c] /\ received'[c][i] = received[c][i]
        BY <2>2, <3>1, <3>3
      <4>2. received[c][i] \in Received(c) \cap owed[c]
        BY <3>1, <4>1 DEF Received
      <4> QED
        BY <1>1, <1>3, <2>12, <4>1, <4>2 DEF Delivery, Done
    <3> QED
      BY <3>2, <3>3
  <2>10. c \in Owned' \ NonBlock => Sorted(c)'
    BY <1>1, <1>2 DEF Delivery, Sorted
  <2> QED
    BY <2>5, <2>6, <2>7, <2>8, <2>9, <2>10 DEF Delivery
<1> QED
  BY <1>1, <1>4, <1>5

-------------------------------------------------------------------------------
(* Everybody else's steps.                                                   *)

LEMMA WriterFrames ==
  ASSUME LifeTypes, NEW c \in Clients, Delivery(c), MaybePrune \/ Clear
  PROVE  Frame(c)
<1>1. /\ live \ live' \subseteq Unlocked
      /\ (UNCHANGED <<mRelease, pc>> \/ \E d \in Clients : Release(d))
  <2>1. ASSUME NEW rows, Prune(rows)
        PROVE  /\ live \ live' \subseteq Unlocked
               /\ (UNCHANGED <<mRelease, pc>> \/ \E d \in Clients : Release(d))
    BY <2>1 DEF Prune
  <2>2. \/ \E rows : Prune(rows)
        \/ live \ live' \subseteq Unlocked /\ UNCHANGED <<mRelease, pc>>
    BY DEF MaybePrune, Clear, pruneVars
  <2> QED
    BY <2>1, <2>2
<1>2. UNCHANGED <<order, times, mRefCount, mError, mStart, start, at, socket, received, owed,
                  dropped>>
  BY DEF MaybePrune, Clear, unpruned, clientVars, historyVars
<1>3. /\ pc'[c] = pc[c] \/ (pc[c] = "wait" /\ pc'[c] = "loop")
      /\ mRelease[c] => mRelease'[c]
  BY <1>1 DEF Release, Woken, LifeTypes
<1> QED
  BY <1>1, <1>2, <1>3 DEF Frame, Still, Following, isError, Owned, Delivery, NothingOwed

LEMMA ClientFrames ==
  ASSUME LifeTypes, Lives, NEW c \in Clients, Delivery(c), NEW d \in Clients,
         NotifyOne(d) \/ Request(d) \/ Close(d) \/ HangUp(d)
  PROVE  Frame(c)
<1>1. UNCHANGED <<order, live, mError, mStart, start, at, received, owed, dropped>>
  BY DEF NotifyOne, Request, Close, HangUp, listVars, flagVars, rangeVars, threadVars,
         historyVars
<1>2. CASE NotifyOne(d)
  <2>1. UNCHANGED <<times, mRelease, socket>>
    BY <1>2 DEF NotifyOne
  <2>2. \/ pc' = Woken(d) /\ mRefCount' = mRefCount
        \/ /\ d \in times /\ ~threadRunning(d)
           /\ \/ pc' = [pc EXCEPT ![d] = "loop"]
              \/ pc' = pc
           /\ \E n : mRefCount' = [mRefCount EXCEPT ![d] = n]
        \/ UNCHANGED <<pc, mRefCount>>
    BY <1>2 DEF NotifyOne, Trigger, startReader
  <2>3. d \in times /\ ~threadRunning(d) => owed[d] = {} \/ d # c
    BY DEF Delivery, NothingOwed, Lives, Life, One
  <2>4. \/ owed[c] = {} /\ (pc'[c] = pc[c] \/ (pc[c] = "none" /\ pc'[c] = "loop"))
        \/ /\ mRefCount'[c] = mRefCount[c]
           /\ pc'[c] = pc[c] \/ (pc[c] = "wait" /\ pc'[c] = "loop")
    BY <2>2, <2>3 DEF LifeTypes, Woken, threadRunning
  <2> QED
    BY <1>1, <2>1, <2>4 DEF Frame, Still, Following, isError, Owned, Delivery, NothingOwed
<1>3. CASE Request(d)
  <2>1. /\ socket[d] = "new" /\ socket' = [socket EXCEPT ![d] = "open"]
        /\ times' = times \cup {d} /\ mRelease' = mRelease
        /\ pc' = [pc EXCEPT ![d] = "loop"] \/ pc' = pc
        /\ \E n : mRefCount' = [mRefCount EXCEPT ![d] = n]
    BY <1>3 DEF Request, startReader
  <2>2. CASE d = c
    <3>1. owed[c] = {} /\ pc[c] = "none" /\ socket'[c] = "open"
      BY <2>1, <2>2 DEF Delivery, NothingOwed, Lives, Life, threadRunning, LifeTypes
    <3>2. pc'[c] \in {"none", "loop"}
      BY <2>1, <2>2, <3>1 DEF LifeTypes
    <3> QED
      BY <1>1, <3>1, <3>2 DEF Frame, Still
  <2>3. CASE d # c
    <3>1. /\ socket'[c] = socket[c] /\ (c \in times' <=> c \in times) /\ pc'[c] = pc[c]
          /\ mRefCount'[c] = mRefCount[c] /\ mRelease'[c] = mRelease[c]
      BY <2>1, <2>3 DEF LifeTypes
    <3> QED
      BY <1>1, <3>1 DEF Frame, Following, isError, Owned, Delivery, NothingOwed
  <2> QED
    BY <2>2, <2>3
<1>4. CASE Close(d)
  <2>1. UNCHANGED <<times, mRefCount, mRelease, pc>> /\ (socket'[c] = "new" => socket[c] = "new")
    BY <1>4 DEF Close, flagVars, threadVars, LifeTypes
  <2> QED
    BY <1>1, <2>1 DEF Frame, Following, isError, Owned, Delivery, NothingOwed
<1>5. CASE HangUp(d)
  <2>1. UNCHANGED <<mRefCount, socket>> /\ times' \subseteq times
    BY <1>5 DEF HangUp
  <2>2. /\ pc'[c] = pc[c] \/ (pc[c] = "wait" /\ pc'[c] = "loop")
        /\ mRelease[c] => mRelease'[c]
    BY <1>5 DEF HangUp, Release, Woken, LifeTypes
  <2> QED
    BY <1>1, <2>1, <2>2 DEF Frame, Still, Following, isError, Owned, Delivery, NothingOwed
<1> QED
  BY <1>2, <1>3, <1>4, <1>5

LEMMA IdleFrames ==
  ASSUME NEW c \in Clients, Delivery(c), Notify \/ Notified \/ UNCHANGED vars
  PROVE  Frame(c)
<1>1. UNCHANGED <<order, live, times, mRefCount, mRelease, mError, mStart, start, at, pc,
                  socket, received, owed, dropped>>
  BY DEF Notify, Notified, vars, listVars, flagVars, rangeVars, threadVars, clientVars,
         historyVars
<1> QED
  BY <1>1 DEF Frame, Following, isError, Owned, Delivery, NothingOwed

(* The end of a thread, and other readers' threads.                          *)
LEMMA ReaderFrames ==
  ASSUME LifeTypes, RestTypes, HistoryTypes, Lives, NEW c \in Clients, Delivery(c),
         NEW d \in Clients, Reader(d),
         c # d \/ Flushed(c) \/ Stop(c)
  PROVE  Frame(c)
<1>1. CASE c # d
  <2>1. /\ UNCHANGED <<order, live, socket, owed>> /\ times' \subseteq times
        /\ received'[c] = received[c] /\ dropped'[c] = dropped[c] /\ mStart'[c] = mStart[c]
        /\ start'[c] = start[c] /\ at'[c] = at[c] /\ pc'[c] = pc[c]
        /\ mRefCount'[c] = mRefCount[c] /\ mRelease'[c] = mRelease[c] /\ mError'[c] = mError[c]
    <3> USE <1>1 DEF listVars, flagVars, rangeVars, threadVars, clientVars, historyVars, Goes,
                     LifeTypes, RestTypes, HistoryTypes
    <3>1. CASE Loop(d)
      BY <3>1 DEF Loop
    <3>2. CASE FirstPass(d)
      BY <3>2 DEF FirstPass
    <3>3. CASE Walk(d)
      <4>1. PICK e : Visit(d, e)
        BY <3>3 DEF Walk
      <4>2. mStart'[c] = mStart[c] /\ dropped'[c] = dropped[c] /\ at'[c] = at[c]
        BY <4>1 DEF Visit
      <4>3. pc'[c] = pc[c]
        BY <4>1 DEF Visit
      <4> QED
        BY <3>3, <4>2, <4>3 DEF Walk
    <3>4. CASE WalkEnd(d)
      BY <3>4 DEF WalkEnd
    <3>5. CASE Send(d)
      BY <3>5 DEF Send
    <3>6. CASE Flushed(d)
      BY <3>6 DEF Flushed
    <3>7. CASE Stop(d)
      BY <3>7 DEF Stop
    <3> QED
      BY <3>1, <3>2, <3>3, <3>4, <3>5, <3>6, <3>7 DEF Reader
  <2> QED
    BY <2>1 DEF Frame, Following, isError, Owned, Delivery, NothingOwed
<1>2. CASE Flushed(c)
  <2>1. /\ UNCHANGED <<order, live, times, mRefCount, mRelease, mStart, start, at, socket,
                       received, owed, dropped>>
        /\ pc[c] \in {"flushed", "failed"} /\ pc'[c] \in {"stop", "wait"}
        /\ (mError[c] \/ pc[c] = "failed" => mError'[c])
    BY <1>2 DEF Flushed, Goes, LifeTypes, listVars, rangeVars, clientVars, historyVars
  <2> QED
    BY <2>1 DEF Frame, Still, Following, isError, Owned, Delivery, NothingOwed
<1>3. CASE Stop(c)
  <2>1. /\ UNCHANGED <<order, live, mStart, start, at, socket, received, owed, dropped>>
        /\ c \notin times' /\ pc[c] = "stop" /\ pc'[c] = "none"
    BY <1>3 DEF Stop, Goes, LifeTypes, listVars, rangeVars, historyVars
  <2> QED
    BY <2>1 DEF Frame, Still, Following, Owned, Delivery, NothingOwed
<1> QED
  BY <1>1, <1>2, <1>3

LEMMA NextDelivers ==
  ASSUME Inv, Deliveries, [Next]_vars
  PROVE  Deliveries'
<1> USE DEF Inv
<1>1. \A c \in Clients : Delivery(c)
  BY DEF Deliveries
<1>2. ASSUME UNCHANGED <<order, historyVars>>, \A c \in Clients : Frame(c)
      PROVE  Deliveries'
  BY <1>1, <1>2, FrameKeeps DEF Deliveries, HistoryTypes, Placed, historyVars
<1>3. CASE Log
  BY <1>3, LogDelivers
<1>4. CASE MaybePrune \/ Clear
  <2>1. UNCHANGED <<order, historyVars>>
    BY <1>4 DEF MaybePrune, Clear, unpruned
  <2> QED
    BY <1>1, <1>2, <1>4, <2>1, WriterFrames
<1>5. CASE Notify \/ Notified \/ Quiet \/ UNCHANGED vars
  <2>1. UNCHANGED <<order, historyVars>> /\ (Notify \/ Notified \/ UNCHANGED vars)
    BY <1>5 DEF Notify, Notified, Quiet, vars, listVars
  <2> QED
    BY <1>1, <1>2, <2>1, IdleFrames
<1>6. ASSUME NEW d \in Clients, NotifyOne(d) \/ Request(d) \/ Close(d) \/ HangUp(d)
      PROVE  Deliveries'
  <2>1. UNCHANGED <<order, historyVars>>
    BY <1>6 DEF NotifyOne, Request, Close, HangUp, listVars
  <2> QED
    BY <1>1, <1>2, <1>6, <2>1, ClientFrames
<1>7. ASSUME NEW d \in Clients, Reader(d)
      PROVE  Deliveries'
  <2>1. order' = order
    BY <1>7 DEF Reader, Loop, FirstPass, Walk, WalkEnd, Send, Flushed, Stop, listVars
  <2>2. HistoryTypes'
    <3>1. CASE Send(d)
      <4>1. received' = [received EXCEPT ![d] = Append(@, at[d])] \/ received' = received
        BY <3>1 DEF Send
      <4>2. received \in [Clients -> Seq(Nat)] /\ at[d] \in Nat
        BY DEF Deliveries, HistoryTypes, RestTypes
      <4>3. Append(received[d], at[d]) \in Seq(Nat)
        BY <4>2
      <4>4. received' \in [Clients -> Seq(Nat)]
        BY <4>1, <4>2, <4>3
      <4> QED
        BY <3>1, <4>4 DEF Send, Deliveries, HistoryTypes
    <3>2. CASE Walk(d)
      <4>1. PICK i \in First(Ahead(d)) : Visit(d, order[i])
        BY <3>2 DEF Walk
      <4>2. order[i] \in Nat
        BY OrderFacts DEF First, Ahead, Positions
      <4>3. dropped' \in [Clients -> SUBSET Nat]
        <5>1. \/ dropped' = dropped
              \/ dropped' = [dropped EXCEPT ![d] = @ \cup {order[i]}]
          <6> DEFINE send == ~Truncated(d) /\ ~isError(d) /\ ~BeforeTail(d)
          <6>1. \/ dropped' = [dropped EXCEPT ![d] = @ \cup {order[i]}]
                \/ dropped' = [dropped EXCEPT ![d] = IF send THEN @ ELSE @ \cup {order[i]}]
            BY <4>1 DEF Visit
          <6> QED
            BY <6>1 DEF Deliveries, HistoryTypes
        <5> QED
          BY <4>2, <5>1 DEF Deliveries, HistoryTypes
      <4> QED
        BY <3>2, <4>3 DEF Walk, Deliveries, HistoryTypes
    <3>3. CASE ~Send(d) /\ ~Walk(d)
      <4>1. UNCHANGED historyVars
        BY <1>7, <3>3 DEF Reader, Loop, FirstPass, WalkEnd, Flushed, Stop
      <4> QED
        BY <4>1 DEF Deliveries, HistoryTypes, historyVars
    <3> QED
      BY <3>1, <3>2, <3>3
  <2>3. ASSUME NEW c \in Clients PROVE Delivery(c)'
    <3>1. CASE c # d \/ Flushed(c) \/ Stop(c)
      BY <1>1, <1>7, <3>1, ReaderFrames, FrameKeeps DEF Deliveries
    <3>2. CASE c = d /\ ~Flushed(c) /\ ~Stop(c)
      BY <1>1, <1>7, <3>2, LoopDelivers, FirstPassDelivers, WalkDelivers, WalkEndDelivers,
         SendDelivers DEF Reader, Deliveries
    <3> QED
      BY <3>1, <3>2
  <2> QED
    BY <2>1, <2>2, <2>3 DEF Deliveries, Placed
<1> QED
  BY <1>3, <1>4, <1>5, <1>6, <1>7 DEF Next

LEMMA InitDelivers ==
  ASSUME Init
  PROVE  Deliveries
<1>1. HistoryTypes /\ Placed
  BY DEF Init, HistoryTypes, Placed
<1>2. ASSUME NEW c \in Clients PROVE Delivery(c)
  <2>1. /\ pc[c] = "none" /\ socket[c] = "new" /\ received[c] = <<>> /\ owed[c] = {}
        /\ c \notin Owned /\ mStart[c] = 0 /\ start[c] = 0 /\ at[c] = 0 /\ Len(order) = 0
    BY DEF Init, Owned
  <2> QED
    BY <2>1 DEF Delivery, Places, NothingOwed, NoneLost, Done, Ordered, Received
<1> QED
  BY <1>1, <1>2 DEF Deliveries

LEMMA SpecDelivers == Spec => [](Inv /\ Deliveries)
<1>1. Init => Inv /\ Deliveries
  BY InitInv, InitDelivers
<1>2. Inv /\ Deliveries /\ [Next]_vars => (Inv /\ Deliveries)'
  BY NextInv, NextDelivers
<1> QED
  BY <1>1, <1>2, PTL DEF Spec

(* prune never erases behind the back of a reader that follows the log, and  *)
(* no pass steps over an element: what was logged since it came is sent, left *)
(* out because it was told to skip, or kept for it.                          *)
THEOREM NothingIsLost == Spec => []NoLogLost
<1>1. ASSUME Deliveries, Inv, NEW c \in Clients, Following(c), NEW e \in owed[c]
      PROVE  \/ e \in Received(c) \cup dropped[c]
             \/ e \in live /\ mStart[c] < e
             \/ e \in live /\ mStart[c] = e /\ pc[c] \in {"walk", "send"}
  <2>1. CASE e \in Received(c) \cup dropped[c]
    BY <2>1
  <2>2. CASE Kept(c, e)
    <3>1. mStart[c] \in Nat /\ e \in Nat /\ e \in live /\ mStart[c] <= e
      BY <1>1, <2>2, OrderFacts DEF Kept, Deliveries, HistoryTypes, Inv, RestTypes
    <3> QED
      BY <2>2, <3>1 DEF Kept
  <2> QED
    BY <1>1, <2>1, <2>2 DEF Deliveries, Delivery, NoneLost
<1>2. Inv /\ Deliveries => NoLogLost
  BY <1>1 DEF NoLogLost
<1> QED
  BY <1>2, SpecDelivers, PTL

(* Such a reader gets what is logged after it came once each, and in the     *)
(* order of logging, whatever the clocks of the loggers say.                 *)
THEOREM FollowersGetOrder == Spec => []InOrderOnce
<1>1. Deliveries => InOrderOnce
  BY DEF Deliveries, Delivery, Ordered, InOrderOnce
<1> QED
  BY <1>1, SpecDelivers, PTL

-------------------------------------------------------------------------------
(* A dump with tail=n.                                                       *)

(* Elements are sent while mIndex goes through the last mTail of the mCount  *)
(* elements the first pass counted.                                          *)
Sending(c) == Len(received[c]) + One(pc[c] = "send")

TailInv(c) ==
  LET t == tail[c]
  IN /\ t.mTail = TailOf[c] /\ t.mIndex <= t.mCount
     /\ socket[c] = "new" \/ pc[c] \in {"loop", "first"} =>
          t.mCount = 0 /\ t.mIndex = 0 /\ received[c] = <<>>
     /\ Sending(c) <= TailOf[c]
     /\ Sending(c) # 0 => t.mCount + Sending(c) <= t.mIndex + TailOf[c]

Dumps == {c \in NonBlock : TailOf[c] # 0}

(* A dump is a client, and the counts about it are numbers.                  *)
LEMMA DumpFacts ==
  ASSUME HistoryTypes, RestTypes, NEW c \in Dumps
  PROVE  /\ c \in Clients /\ c \in NonBlock /\ TailOf[c] \in Nat \ {0}
         /\ received[c] \in Seq(Nat) /\ Len(received[c]) \in Nat
         /\ tail[c] \in [mTail : Nat, mCount : Nat, mIndex : Nat]
         /\ tail[c].mCount \in Nat /\ tail[c].mIndex \in Nat
<1>1. c \in Clients /\ c \in NonBlock /\ TailOf[c] \in Nat \ {0}
  BY LogBufferAssumption DEF Dumps
<1>2. received[c] \in Seq(Nat)
  BY <1>1 DEF HistoryTypes
<1>3. Len(received[c]) \in Nat
  BY <1>2
<1>4. tail[c] \in [mTail : Nat, mCount : Nat, mIndex : Nat]
  BY <1>1 DEF RestTypes
<1> QED
  BY <1>1, <1>2, <1>3, <1>4

TailFrame(c) ==
  /\ tail'[c] = tail[c] /\ received'[c] = received[c]
  /\ socket'[c] = "new" => socket[c] = "new"
  /\ pc'[c] \in {"loop", "first"} => pc[c] \in {"loop", "first"} \/ socket[c] = "new"
  /\ pc'[c] = "send" => pc[c] = "send"

LEMMA SendingCases ==
  ASSUME NEW c, Len(received[c]) \in Nat
  PROVE  /\ pc[c] = "send" => Sending(c) = Len(received[c]) + 1
         /\ pc[c] # "send" => Sending(c) = Len(received[c])
<1>1. CASE pc[c] = "send"
  BY <1>1 DEF Sending, One
<1>2. CASE pc[c] # "send"
  BY <1>2 DEF Sending, One
<1> QED
  BY <1>1, <1>2

LEMMA TailFrameKeeps ==
  ASSUME HistoryTypes, RestTypes, NEW c \in Dumps, TailInv(c), TailFrame(c)
  PROVE  TailInv(c)'
<1>1. /\ c \in Clients /\ Len(received[c]) \in Nat /\ TailOf[c] \in Nat
      /\ tail[c].mCount \in Nat /\ tail[c].mIndex \in Nat
  BY DumpFacts
<1>2. Sending(c)' <= Sending(c) /\ Sending(c) \in Nat /\ Sending(c)' \in Nat
  <2>1. Len(received'[c]) = Len(received[c])
    BY DEF TailFrame
  <2>2. CASE pc'[c] = "send"
    <3>1. pc[c] = "send"
      BY <2>2 DEF TailFrame
    <3> QED
      BY <1>1, <2>1, <2>2, <3>1 DEF Sending, One
  <2>3. CASE pc'[c] # "send"
    <3>1. Sending(c)' = Len(received[c])
      BY <1>1, <2>1, <2>3 DEF Sending, One
    <3>2. Sending(c) = Len(received[c]) \/ Sending(c) = Len(received[c]) + 1
      BY <1>1, SendingCases
    <3> QED
      BY <1>1, <3>1, <3>2
  <2> QED
    BY <2>2, <2>3
<1> QED
  BY <1>1, <1>2 DEF TailInv, TailFrame

LEMMA FirstPassCounts ==
  ASSUME LifeTypes, RestTypes, Lives, NEW c \in Dumps, TailInv(c), FirstPass(c)
  PROVE  TailInv(c)'
<1>1. c \in Clients /\ TailOf[c] \in Nat /\ tail[c].mCount = 0 /\ tail[c].mIndex = 0
      /\ received[c] = <<>> /\ pc[c] = "first" /\ pc'[c] = "walk" /\ received' = received
  BY LogBufferAssumption DEF Dumps, TailInv, FirstPass, Goes, LifeTypes, historyVars
<1>2. Cardinality(Ahead(c)) \in Nat
  <2>1. Ahead(c) \subseteq DOMAIN order
    BY DEF Ahead, Positions
  <2> QED
    BY <2>1, OrderFacts, FS_Subset, FS_CardinalityType
<1>3. /\ tail'[c].mTail = tail[c].mTail /\ tail'[c].mIndex = 0
      /\ tail'[c].mCount = Cardinality(Ahead(c))
  BY <1>1, <1>2 DEF FirstPass, RestTypes
<1>4. socket'[c] # "new"
  <2>1. socket' = socket
    BY DEF FirstPass, clientVars
  <2> QED
    BY <1>1, <2>1 DEF Lives, Life, threadRunning
<1>5. Sending(c)' = 0
  BY <1>1 DEF Sending, One
<1> QED
  BY <1>1, <1>2, <1>3, <1>4, <1>5 DEF TailInv

(* An element of the tail is sent and counted at once.                       *)
LEMMA WalkCounts ==
  ASSUME LifeTypes, RestTypes, HistoryTypes, Lives, NEW c \in Dumps, TailInv(c), Walk(c)
  PROVE  TailInv(c)'
<1>1. PICK e : Visit(c, e)
  BY DEF Walk
<1>2. /\ c \in Clients /\ c \in NonBlock /\ TailOf[c] \in Nat \ {0} /\ TailOf[c] = tail[c].mTail
      /\ tail[c].mCount \in Nat /\ tail[c].mIndex \in Nat
      /\ Len(received[c]) \in Nat /\ pc[c] = "walk"
      /\ received' = received /\ socket' = socket /\ socket[c] # "new"
  <2>1. c \in Clients /\ c \in NonBlock /\ Len(received[c]) \in Nat
    BY DumpFacts
  <2>2. pc[c] = "walk" /\ received' = received /\ socket' = socket
    BY DEF Walk, clientVars
  <2>3. socket[c] # "new"
    BY <2>1, <2>2 DEF Lives, Life, threadRunning
  <2> QED
    BY <2>1, <2>2, <2>3, DumpFacts DEF TailInv
<1>3. Sending(c) = Len(received[c])
  BY <1>2 DEF Sending, One
<1>4. CASE Skips(c)
  <2>1. tail'[c] = tail[c] /\ pc'[c] = "walk"
    BY <1>1, <1>2, <1>4 DEF Visit
  <2> QED
    BY <1>2, <2>1, TailFrameKeeps DEF TailFrame
<1>5. CASE ~Skips(c)
  <2> DEFINE send == ~Truncated(c) /\ ~isError(c) /\ ~BeforeTail(c)
  <2>1. /\ tail' = [tail EXCEPT ![c] =
                [mTail |-> IF send /\ c \notin NonBlock THEN 0 ELSE @.mTail,
                 mCount |-> @.mCount,
                 mIndex |-> IF Truncated(c) \/ isError(c) \/ @.mTail = 0 THEN @.mIndex
                            ELSE @.mIndex + 1]]
        /\ pc' = [pc EXCEPT ![c] = IF send THEN "send" ELSE "walk"]
    BY <1>1, <1>5 DEF Visit, Goes
  <2>2. /\ tail'[c].mTail = tail[c].mTail /\ tail'[c].mCount = tail[c].mCount
        /\ tail'[c].mIndex = IF Truncated(c) \/ isError(c) THEN tail[c].mIndex
                             ELSE tail[c].mIndex + 1
        /\ pc'[c] = IF send THEN "send" ELSE "walk"
    <3>1. tail'[c] = [mTail |-> tail[c].mTail, mCount |-> tail[c].mCount,
                      mIndex |-> IF Truncated(c) \/ isError(c) THEN tail[c].mIndex
                                 ELSE tail[c].mIndex + 1]
      BY <1>2, <2>1 DEF RestTypes
    <3>2. pc'[c] = IF send THEN "send" ELSE "walk"
      BY <1>2, <2>1 DEF LifeTypes
    <3> QED
      BY <3>1, <3>2
  <2>3. ~Truncated(c) => tail[c].mIndex < tail[c].mCount
    BY <1>2 DEF Truncated
  <2>4. CASE send
    <3>1. /\ tail'[c].mIndex = tail[c].mIndex + 1 /\ Sending(c)' = Len(received[c]) + 1
          /\ pc'[c] = "send"
      BY <1>2, <2>2, <2>4 DEF Sending, One
    <3>2. tail[c].mCount + 1 <= tail[c].mIndex + 1 + TailOf[c]
      BY <1>2, <2>4, SMTT(30) DEF BeforeTail
    <3>3. tail[c].mCount + Sending(c)' <= tail[c].mIndex + 1 + TailOf[c]
      <4>1. CASE Len(received[c]) = 0
        BY <1>2, <3>1, <3>2, <4>1
      <4>2. CASE Len(received[c]) # 0
        <5>1. tail[c].mCount + Len(received[c]) <= tail[c].mIndex + TailOf[c]
          BY <1>3, <4>2 DEF TailInv
        <5>2. tail[c].mCount + (Len(received[c]) + 1) <= tail[c].mIndex + 1 + TailOf[c]
          <6>1. \A k, l, m, n \in Nat : k + l <= m + n => k + (l + 1) <= m + 1 + n
            OBVIOUS
          <6>2. TailOf[c] \in Nat
            BY <1>2
          <6> QED
            BY <1>2, <5>1, <6>1, <6>2, Zenon
        <5> QED
          BY <3>1, <5>2
      <4> QED
        BY <4>1, <4>2
    <3>4. Sending(c)' <= TailOf[c]
      BY <1>2, <2>3, <2>4, <3>1, <3>3
    <3> QED
      BY <1>2, <2>2, <2>3, <2>4, <3>1, <3>3, <3>4 DEF TailInv
  <2>5. CASE ~send
    <3>1. pc'[c] = "walk" /\ received'[c] = received[c]
      BY <1>2, <2>2, <2>5
    <3>2. Sending(c)' = Len(received[c])
      BY <1>2, <3>1 DEF Sending, One
    <3> QED
      BY <1>2, <1>3, <2>2, <2>3, <3>1, <3>2 DEF TailInv
  <2> QED
    BY <2>4, <2>5
<1> QED
  BY <1>4, <1>5

LEMMA SendCounts ==
  ASSUME LifeTypes, RestTypes, HistoryTypes, Lives, NEW c \in Dumps, TailInv(c), Send(c)
  PROVE  TailInv(c)'
<1>1. /\ c \in Clients /\ received[c] \in Seq(Nat) /\ at[c] \in Nat /\ pc[c] = "send"
      /\ socket[c] # "new" /\ TailOf[c] \in Nat
      /\ tail[c].mCount \in Nat /\ tail[c].mIndex \in Nat
      /\ tail' = tail /\ socket' = socket
  BY DumpFacts DEF HistoryTypes, RestTypes, Send, Lives, Life, threadRunning, rangeVars,
     clientVars
<1>2. Len(received[c]) \in Nat /\ Sending(c) = Len(received[c]) + 1
  BY <1>1 DEF Sending, One
<1>3. \/ received'[c] = Append(received[c], at[c]) /\ pc'[c] = "walk"
      \/ received'[c] = received[c] /\ pc'[c] = "failed"
  BY <1>1 DEF Send, Goes, LifeTypes, HistoryTypes
<1>4. Sending(c)' \in Nat /\ Sending(c)' <= Sending(c)
  <2>1. Len(received'[c]) <= Len(received[c]) + 1 /\ Len(received'[c]) \in Nat
    BY <1>1, <1>2, <1>3
  <2>2. pc'[c] # "send"
    BY <1>3
  <2>3. Sending(c)' = Len(received'[c])
    BY <2>1, <2>2 DEF Sending, One
  <2> QED
    BY <1>2, <2>1, <2>3
<1> QED
  BY <1>1, <1>2, <1>3, <1>4, SMTT(30) DEF TailInv

LEMMA TailFrames ==
  ASSUME LifeTypes, RestTypes, HistoryTypes, Lives, NEW c \in Dumps, TailInv(c), [Next]_vars,
         ~FirstPass(c), ~Walk(c), ~Send(c)
  PROVE  TailFrame(c)
<1>1. c \in Clients /\ c \in NonBlock /\ pc[c] # "wait"
  BY LogBufferAssumption DEF Dumps, Lives, Life
<1>2. CASE Log \/ Notify \/ Notified \/ Quiet \/ UNCHANGED vars
  <2>1. UNCHANGED <<tail, received, socket, pc>>
    BY <1>2 DEF Log, Notify, Notified, Quiet, vars, rangeVars, threadVars, clientVars,
       historyVars
  <2> QED
    BY <2>1 DEF TailFrame
<1>3. CASE MaybePrune \/ Clear
  <2>1. UNCHANGED <<tail, received, socket>>
    BY <1>3 DEF MaybePrune, Clear, unpruned, clientVars, historyVars
  <2>2. UNCHANGED pc \/ \E d \in Clients : Release(d)
    <3>1. ASSUME NEW rows, Prune(rows) PROVE UNCHANGED pc \/ \E d \in Clients : Release(d)
      BY <3>1 DEF Prune
    <3> QED
      BY <1>3, <3>1 DEF MaybePrune, Clear, pruneVars
  <2>3. pc'[c] = pc[c]
    BY <1>1, <2>2 DEF Release, Woken, LifeTypes
  <2> QED
    BY <2>1, <2>3 DEF TailFrame
<1>4. ASSUME NEW d \in Clients, NotifyOne(d) \/ Request(d) \/ Close(d) \/ HangUp(d)
      PROVE  TailFrame(c)
  <2>1. UNCHANGED <<tail, received>>
    BY <1>4 DEF NotifyOne, Request, Close, HangUp, rangeVars, historyVars
  <2>2. socket'[c] = "new" => socket[c] = "new"
    <3>1. CASE NotifyOne(d)
      BY <3>1 DEF NotifyOne
    <3>2. CASE Request(d)
      BY <1>1, <3>2 DEF Request, LifeTypes
    <3>3. CASE Close(d)
      BY <1>1, <3>3 DEF Close, LifeTypes
    <3>4. CASE HangUp(d)
      BY <3>4 DEF HangUp
    <3> QED
      BY <1>4, <3>1, <3>2, <3>3, <3>4
  <2>3. pc'[c] = pc[c] \/ (socket[c] = "new" /\ pc'[c] = "loop")
    <3>1. CASE NotifyOne(d)
      BY <1>1, <3>1 DEF NotifyOne, Trigger, startReader, Woken, LifeTypes
    <3>2. CASE Request(d)
      BY <1>1, <3>2 DEF Request, startReader, LifeTypes
    <3>3. CASE Close(d)
      BY <3>3 DEF Close, threadVars
    <3>4. CASE HangUp(d)
      BY <1>1, <3>4 DEF HangUp, Release, Woken, LifeTypes
    <3> QED
      BY <1>4, <3>1, <3>2, <3>3, <3>4
  <2> QED
    BY <2>1, <2>2, <2>3 DEF TailFrame
<1>5. ASSUME NEW d \in Clients, Reader(d)
      PROVE  TailFrame(c)
  <2>1. UNCHANGED socket
    BY <1>5 DEF Reader, Loop, FirstPass, Walk, WalkEnd, Send, Flushed, Stop, clientVars
  <2>2. CASE Loop(d) \/ WalkEnd(d) \/ Flushed(d) \/ Stop(d)
    <3>1. UNCHANGED <<tail, received>>
      BY <2>2 DEF Loop, WalkEnd, Flushed, Stop, rangeVars, historyVars
    <3>2. \/ pc'[c] = pc[c]
          \/ pc[c] = "loop" /\ pc'[c] # "send"
          \/ pc'[c] \in {"flushed", "stop", "wait", "none"}
      <4>1. CASE Loop(d)
        BY <1>1, <4>1 DEF Loop, Goes, LifeTypes
      <4>2. CASE WalkEnd(d)
        BY <1>1, <4>2 DEF WalkEnd, Goes, LifeTypes
      <4>3. CASE Flushed(d)
        BY <1>1, <4>3 DEF Flushed, Goes, LifeTypes
      <4>4. CASE Stop(d)
        BY <1>1, <4>4 DEF Stop, Goes, LifeTypes
      <4> QED
        BY <2>2, <4>1, <4>2, <4>3, <4>4
    <3> QED
      BY <2>1, <3>1, <3>2 DEF TailFrame
  <2>3. CASE FirstPass(d) \/ Walk(d) \/ Send(d)
    <3>1. d # c
      BY <2>3
    <3>2. tail'[c] = tail[c] /\ received'[c] = received[c] /\ pc'[c] = pc[c]
      <4>1. CASE FirstPass(d)
        BY <1>1, <3>1, <4>1 DEF FirstPass, Goes, LifeTypes, RestTypes, historyVars
      <4>2. CASE Walk(d)
        <5>1. PICK e : Visit(d, e)
          BY <4>2 DEF Walk
        <5>2. tail'[c] = tail[c]
          BY <1>1, <3>1, <5>1 DEF Visit, RestTypes
        <5>3. pc'[c] = pc[c]
          BY <1>1, <3>1, <5>1 DEF Visit, Goes, LifeTypes
        <5> QED
          BY <4>2, <5>2, <5>3 DEF Walk
      <4>3. CASE Send(d)
        BY <1>1, <3>1, <4>3 DEF Send, Goes, LifeTypes, HistoryTypes, rangeVars
      <4> QED
        BY <2>3, <4>1, <4>2, <4>3
    <3> QED
      BY <2>1, <3>2 DEF TailFrame
  <2> QED
    BY <1>5, <2>2, <2>3 DEF Reader
<1> QED
  BY <1>2, <1>3, <1>4, <1>5 DEF Next

(* A dump with tail=n never gets more than n elements, whatever is logged    *)
(* between its two passes (LogBuffer.cpp, FlushCommand.cpp: "truncate to     *)
(* close race between first and second pass").                               *)
THEOREM TailsAreTails == Spec => []TailIsTail
<1> DEFINE I == \A c \in Dumps : TailInv(c)
<1>1. Init => I
  <2> SUFFICES ASSUME Init, NEW c \in Dumps PROVE TailInv(c)
    OBVIOUS
  <2>1. c \in Clients /\ TailOf[c] \in Nat /\ received[c] = <<>> /\ pc[c] = "none"
        /\ tail[c] = [mTail |-> TailOf[c], mCount |-> 0, mIndex |-> 0]
    BY LogBufferAssumption DEF Init, Dumps
  <2> QED
    BY <2>1 DEF TailInv, Sending, One
<1>2. Inv /\ Deliveries /\ I /\ [Next]_vars => I'
  <2> SUFFICES ASSUME Inv, Deliveries, [Next]_vars, NEW c \in Dumps, TailInv(c)
               PROVE  TailInv(c)'
    BY DEF Dumps
  <2> QED
    BY TailFrames, TailFrameKeeps, FirstPassCounts, WalkCounts, SendCounts DEF Inv, Deliveries
<1>3. Inv /\ Deliveries /\ I => TailIsTail
  <2> SUFFICES ASSUME Inv, Deliveries, NEW c \in Dumps, TailInv(c)
               PROVE  Len(received[c]) <= TailOf[c]
    BY DEF TailIsTail, Dumps
  <2>1. Sending(c) <= TailOf[c] /\ Len(received[c]) \in Nat /\ TailOf[c] \in Nat
    BY DumpFacts DEF TailInv, Inv, Deliveries
  <2>2. Sending(c) = Len(received[c]) \/ Sending(c) = Len(received[c]) + 1
    BY <2>1, SendingCases
  <2> QED
    BY <2>1, <2>2
<1> QED
  BY <1>1, <1>2, <1>3, SpecDelivers, PTL DEF Spec

===============================================================================
