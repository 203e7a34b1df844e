---------------------------- MODULE LogBufferProofs ---------------------------
(***************************************************************************)
(* Proofs about LogBuffer for any number of readers, messages and sizes.   *)
(* Inv adds to the properties what ties a reader's entry to its place in   *)
(* mTimes, and its iterator to mStart: an iterator whose owner does not    *)
(* hold mLogElementsLock is at the element mStart names, which prune keeps *)
(* for every entry of mTimes.                                              *)
(***************************************************************************)
EXTENDS LogBuffer, FiniteSetTheorems, TLAPS

(* What keeps one reader's entry, client and thread together.              *)
Life(c) ==
  /\ allocated[c] <=> c \in times \/ threadRunning(c)
  /\ mRefCount[c] = One(threadRunning(c))
  /\ clientRef[c] = One(c \in mClients) + One(c \in safeList) + One(threadRunning(c))
  /\ pc[c] = "wait" => c \in times \ NonBlock /\ ~isError(c)
  /\ threadRunning(c) /\ c \notin times => mRelease[c] /\ socket[c] = "closed"
  /\ socket[c] = "new" => /\ c \notin times \cup mClients \cup safeList
                          /\ ~threadRunning(c)

Lives == \A c \in Clients : Life(c)

LifeTypes ==
  /\ times \subseteq Clients
  /\ allocated \in [Clients -> BOOLEAN] /\ mRefCount \in [Clients -> Nat]
  /\ mRelease \in [Clients -> BOOLEAN] /\ mError \in [Clients -> BOOLEAN]
  /\ pc \in [Clients -> {"none", "loop", "first", "walk", "send", "flushed", "failed",
                         "wait", "stop"}]
  /\ socket \in [Clients -> {"new", "open", "closed"}]
  /\ mClients \subseteq Clients /\ safeList \subseteq Clients
  /\ clientRef \in [Clients -> Nat]

RestTypes ==
  /\ order \in Seq(1 .. MaxLogs) /\ live \subseteq 1 .. Len(order)
  /\ elementsLock \in Clients \cup {NOBODY, WRITER}
  /\ mStart \in [Clients -> Nat] /\ mEnd \in [Clients -> Nat] /\ skipAhead \in [Clients -> Nat]
  /\ tail \in [Clients -> [mTail : Nat, mCount : Nat, mIndex : Nat]]
  /\ start \in [Clients -> Nat] /\ at \in [Clients -> Nat]
  /\ writer \in {"idle", "prune", "notify", "signal"} /\ clears \in 0 .. MaxLogs

LEMMA OrderFacts ==
  ASSUME RestTypes
  PROVE  /\ Len(order) \in Nat /\ DOMAIN order = 1 .. Len(order)
         /\ \A i \in DOMAIN order : order[i] \in 1 .. MaxLogs
         /\ IsFiniteSet(DOMAIN order)
<1>1. order \in Seq(1 .. MaxLogs)
  BY DEF RestTypes
<1>2. Len(order) \in Nat /\ DOMAIN order = 1 .. Len(order)
  BY <1>1
<1>3. \A i \in DOMAIN order : order[i] \in 1 .. MaxLogs
  <2>1. \A i \in 1 .. Len(order) : order[i] \in 1 .. MaxLogs
    BY <1>1, LogBufferAssumption
  <2> QED
    BY <1>2, <2>1
<1>4. IsFiniteSet(1 .. Len(order))
  BY <1>2, FS_Interval
<1> QED
  BY <1>2, <1>3, <1>4

LEMMA TypesSplit == TypeOK <=> LifeTypes /\ RestTypes
  BY DEF TypeOK, LifeTypes, RestTypes

(* Where one reader's iterator is.  A reader whose connection is given up    *)
(* leaves mTimes: what it is at is protected no longer, and only a late      *)
(* HangUp finds it inside flushTo.                                           *)
Iterator(c) ==
  /\ at[c] # 0 => /\ pc[c] \in {"walk", "send"}
                  /\ elementsLock = c \/ c \in times => at[c] \in live
                  /\ elementsLock = c \/ c \notin times \/ mStart[c] = at[c]
                  /\ elementsLock = c \/ c \in times \/ LateHangUp
  /\ pc[c] = "send" => elementsLock # c /\ (c \in times \/ LateHangUp)

Iterators ==
  /\ writer = "prune" <=> elementsLock = WRITER
  /\ safeList # {} => writer = "signal"
  /\ live \subseteq {order[i] : i \in DOMAIN order}
  /\ \A c \in Clients : Iterator(c)

-------------------------------------------------------------------------------
(* Types.                                                                    *)

LEMMA LiveIsFinite ==
  ASSUME TypeOK, NEW S, S \subseteq live
  PROVE  IsFiniteSet(S) /\ Cardinality(S) \in Nat
<1>1. Len(order) \in Nat /\ live \subseteq 1 .. Len(order)
  BY DEF TypeOK
<1>2. IsFiniteSet(1 .. Len(order))
  BY <1>1, FS_Interval
<1> QED
  BY <1>1, <1>2, FS_Subset, FS_CardinalityType

(* InsertBefore keeps what is in the list and adds the element.            *)
LEMMA InsertType ==
  ASSUME order \in Seq(1 .. MaxLogs), NEW i \in DOMAIN order,
         NEW e \in 1 .. MaxLogs
  PROVE  /\ InsertBefore(i, e) \in Seq(1 .. MaxLogs)
         /\ Len(InsertBefore(i, e)) = Len(order) + 1
         /\ {InsertBefore(i, e)[j] : j \in DOMAIN InsertBefore(i, e)}
              = {order[j] : j \in DOMAIN order} \cup {e}
<1> DEFINE new == InsertBefore(i, e)
<1>1. Len(order) \in Nat /\ DOMAIN order = 1 .. Len(order) /\ i \in 1 .. Len(order)
  OBVIOUS
<1>2. new = [j \in 1 .. Len(order) + 1 |->
               IF j < i THEN order[j] ELSE IF j = i THEN e ELSE order[j - 1]]
  BY DEF InsertBefore
<1>3. \A j \in 1 .. Len(order) + 1 :
        new[j] = IF j < i THEN order[j] ELSE IF j = i THEN e ELSE order[j - 1]
  BY <1>2
<1>4. \A j \in 1 .. Len(order) : order[j] \in 1 .. MaxLogs
  BY <1>1, LogBufferAssumption
<1>5. \A j \in 1 .. Len(order) + 1 : new[j] \in 1 .. MaxLogs
  <2> SUFFICES ASSUME NEW j \in 1 .. Len(order) + 1 PROVE new[j] \in 1 .. MaxLogs
    OBVIOUS
  <2>1. CASE j < i
    BY <1>1, <1>3, <1>4, <2>1
  <2>2. CASE j = i
    BY <1>3, <2>2
  <2>3. CASE j > i
    <3>1. j - 1 \in 1 .. Len(order)
      BY <1>1, <2>3
    <3> QED
      BY <1>1, <1>3, <1>4, <2>3, <3>1
  <2> QED
    BY <1>1, <2>1, <2>2, <2>3
<1> HIDE DEF new
<1>6. new \in Seq(1 .. MaxLogs) /\ Len(new) = Len(order) + 1
  BY <1>1, <1>2, <1>5
<1>7. DOMAIN new = 1 .. Len(order) + 1
  BY <1>2
<1>8. ASSUME NEW j \in DOMAIN order
      PROVE  \E k \in DOMAIN new : new[k] = order[j]
  <2>1. CASE j < i
    <3>1. j \in 1 .. Len(order) + 1
      BY <1>1, <1>8
    <3> QED
      BY <1>3, <1>7, <2>1, <3>1
  <2>2. CASE j >= i
    <3>1. j + 1 \in 1 .. Len(order) + 1 /\ ~(j + 1 < i) /\ j + 1 # i /\ (j + 1) - 1 = j
      BY <1>1, <1>8, <2>2
    <3> QED
      BY <1>3, <1>7, <3>1
  <2> QED
    BY <1>1, <1>8, <2>1, <2>2
<1>9. \E k \in DOMAIN new : new[k] = e
  <2>1. i \in 1 .. Len(order) + 1
    BY <1>1
  <2> QED
    BY <1>1, <1>3, <1>7, <2>1
<1>10. ASSUME NEW k \in DOMAIN new
       PROVE  new[k] = e \/ \E j \in DOMAIN order : new[k] = order[j]
  <2>1. k \in 1 .. Len(order) + 1
    BY <1>7, <1>10
  <2>2. CASE k < i
    <3>1. k \in DOMAIN order
      BY <1>1, <2>1, <2>2
    <3> QED
      BY <1>3, <2>1, <2>2, <3>1
  <2>3. CASE k = i
    BY <1>1, <1>3, <2>1, <2>3
  <2>4. CASE k > i
    <3>1. k - 1 \in DOMAIN order
      BY <1>1, <2>1, <2>4
    <3> QED
      BY <1>1, <1>3, <2>1, <2>4, <3>1
  <2> QED
    BY <1>1, <2>1, <2>2, <2>3, <2>4
<1> QED
  BY <1>6, <1>8, <1>9, <1>10 DEF new

-------------------------------------------------------------------------------
(* One lemma for each action of a reader and each part of the invariant: the  *)
(* entries, clients and threads; the types; the iterators.                    *)

LEMMA NotifyOneLives ==
  ASSUME LifeTypes, Lives, NEW c \in Clients, NotifyOne(c)
  PROVE  LifeTypes' /\ Lives'
<1>2. LifeTypes'
  <2> DEFINE clients == [clientRef EXCEPT ![c] = @ - 1]
  <2>1. clients \in [Clients -> Nat] /\ clients[c] + 1 \in Nat
    <3>1. clientRef[c] \in Nat \ {0}
      BY DEF LifeTypes, Lives, Life, NotifyOne, One
    <3> QED
      BY <3>1 DEF LifeTypes
  <2>2. /\ pc' \in {pc, Woken(c), [pc EXCEPT ![c] = "loop"]}
        /\ clientRef' \in {clients, [clients EXCEPT ![c] = @ + 1]}
        /\ mRefCount' \in {mRefCount, [mRefCount EXCEPT ![c] = mRefCount[c] + 1],
                           [mRefCount EXCEPT ![c] = (mRefCount[c] + 1) - 1]}
    BY DEF NotifyOne, Trigger, startReader
  <2>3. clientRef' \in [Clients -> Nat]
    BY <2>1, <2>2
  <2>4. mRefCount' \in [Clients -> Nat]
    BY <2>2 DEF LifeTypes
  <2>5. pc' \in [Clients -> {"none", "loop", "first", "walk", "send", "flushed", "failed",
                           "wait", "stop"}]
    BY <2>2 DEF LifeTypes, Woken
  <2>6. /\ UNCHANGED <<times, allocated, mRelease, mError, socket, mClients>>
        /\ safeList' = safeList \ {c}
    BY DEF NotifyOne
  <2> QED
    BY <2>3, <2>4, <2>5, <2>6 DEF LifeTypes
<1>3. Lives'
  <2> SUFFICES ASSUME NEW d \in Clients PROVE Life(d)'
    BY DEF Lives
  <2>1. Life(d) /\ Life(c)
    BY DEF Lives
  <2>2. CASE d = c
    BY <2>1, <2>2 DEF LifeTypes, Life, NotifyOne, Trigger, startReader, Woken, One, threadRunning, isError, listVars, flagVars, rangeVars, threadVars, clientVars, writerVars, historyVars
  <2>3. CASE d # c
    BY <2>1, <2>3 DEF LifeTypes, Life, NotifyOne, Trigger, startReader, Woken, One, threadRunning, isError, listVars, flagVars, rangeVars, threadVars, clientVars, writerVars, historyVars
  <2> QED
    BY <2>2, <2>3
<1> QED
  BY <1>2, <1>3

LEMMA RequestLives ==
  ASSUME LifeTypes, Lives, NEW c \in Clients, Request(c)
  PROVE  LifeTypes' /\ Lives'
<1>2. LifeTypes'
  <2>1. clientRef' \in [Clients -> Nat] /\ mRefCount' \in [Clients -> Nat]
    <3>1. \/ clientRef' = [clientRef EXCEPT ![c] = 1]
          \/ clientRef' = [[clientRef EXCEPT ![c] = 1] EXCEPT ![c] = @ + 1]
      BY DEF Request, startReader
    <3>2. [clientRef EXCEPT ![c] = 1] \in [Clients -> Nat]
      BY DEF LifeTypes
    <3>3. mRefCount' = [mRefCount EXCEPT ![c] = 1] \/ mRefCount' = [mRefCount EXCEPT ![c] = 0]
      BY DEF Request, startReader
    <3> QED
      BY <3>1, <3>2, <3>3 DEF LifeTypes
  <2>2. allocated' \in [Clients -> BOOLEAN] /\ socket' \in [Clients -> {"new", "open", "closed"}]
    BY DEF LifeTypes, Request, startReader, One, threadRunning, isError, listVars, flagVars, rangeVars, threadVars, clientVars, writerVars, historyVars
  <2>3. pc' = pc \/ pc' = [pc EXCEPT ![c] = "loop"]
    BY DEF Request, startReader, One, threadRunning, isError, listVars, flagVars, rangeVars, threadVars, clientVars, writerVars, historyVars
  <2> QED
    BY <2>1, <2>2, <2>3 DEF LifeTypes, Request, startReader, One, threadRunning, isError, listVars, flagVars, rangeVars, threadVars, clientVars, writerVars, historyVars
<1>3. Lives'
  <2> SUFFICES ASSUME NEW d \in Clients PROVE Life(d)'
    BY DEF Lives
  <2>1. Life(d) /\ Life(c)
    BY DEF Lives
  <2>2. CASE d = c
    BY <2>1, <2>2 DEF LifeTypes, Life, Request, startReader, One, threadRunning, isError, listVars, flagVars, rangeVars, threadVars, clientVars, writerVars, historyVars
  <2>3. CASE d # c
    BY <2>1, <2>3 DEF LifeTypes, Life, Request, startReader, One, threadRunning, isError, listVars, flagVars, rangeVars, threadVars, clientVars, writerVars, historyVars
  <2> QED
    BY <2>2, <2>3
<1> QED
  BY <1>2, <1>3

LEMMA CloseLives ==
  ASSUME LifeTypes, Lives, NEW c \in Clients, Close(c)
  PROVE  LifeTypes' /\ Lives'
<1>2. LifeTypes'
  BY DEF LifeTypes, Lives, Life, Close, One, threadRunning, isError, listVars, flagVars, rangeVars, threadVars, clientVars, writerVars, historyVars
<1>3. Lives'
  <2> SUFFICES ASSUME NEW d \in Clients PROVE Life(d)'
    BY DEF Lives
  <2>1. Life(d) /\ Life(c)
    BY DEF Lives
  <2>2. CASE d = c
    BY <2>1, <2>2 DEF LifeTypes, Life, Close, One, threadRunning, isError, listVars, flagVars, rangeVars, threadVars, clientVars, writerVars, historyVars
  <2>3. CASE d # c
    BY <2>1, <2>3 DEF LifeTypes, Life, Close, One, threadRunning, isError, listVars, flagVars, rangeVars, threadVars, clientVars, writerVars, historyVars
  <2> QED
    BY <2>2, <2>3
<1> QED
  BY <1>2, <1>3

LEMMA HangUpLives ==
  ASSUME LifeTypes, Lives, NEW c \in Clients, HangUp(c)
  PROVE  LifeTypes' /\ Lives'
<1>2. LifeTypes'
  <2>1. clientRef[c] - 1 \in Nat /\ Life(c)
    BY DEF Lives, LifeTypes, Life, HangUp, Release, Woken, One, threadRunning, isError, listVars, flagVars, rangeVars, threadVars, clientVars, writerVars, historyVars
  <2>2. clientRef' \in [Clients -> Nat]
    BY <2>1 DEF LifeTypes, HangUp, Release, Woken, One, threadRunning, isError, listVars, flagVars, rangeVars, threadVars, clientVars, writerVars, historyVars
  <2>3. allocated' \in [Clients -> BOOLEAN] /\ mRelease' \in [Clients -> BOOLEAN]
    BY DEF LifeTypes, HangUp, Release, Woken, One, threadRunning, isError, listVars, flagVars, rangeVars, threadVars, clientVars, writerVars, historyVars
  <2>4. CASE c \in times
    BY <2>2, <2>3, <2>4 DEF LifeTypes, HangUp, Release, Woken, One, threadRunning, isError, listVars, flagVars, rangeVars, threadVars, clientVars, writerVars, historyVars
  <2>5. CASE c \notin times
    BY <2>2, <2>5 DEF LifeTypes, HangUp, Release, Woken, One, threadRunning, isError, listVars, flagVars, rangeVars, threadVars, clientVars, writerVars, historyVars
  <2> QED
    BY <2>4, <2>5
<1>3. Lives'
  <2> SUFFICES ASSUME NEW d \in Clients PROVE Life(d)'
    BY DEF Lives
  <2>1. Life(d) /\ Life(c)
    BY DEF Lives
  <2>2. CASE d = c /\ c \in times
    <3>1. times' = times \ {c} /\ mClients' = mClients \ {c} /\ c \in mClients
          /\ safeList' = safeList /\ socket' = socket /\ mRefCount' = mRefCount
          /\ socket[c] = "closed"
      BY <2>2 DEF HangUp, writerVars
    <3>2. mRelease'[c] /\ pc'[c] = IF pc[c] = "wait" THEN "loop" ELSE pc[c]
      BY <2>2 DEF LifeTypes, HangUp, Release, Woken
    <3>3. allocated'[c] = (mRefCount[c] # 0 \/ threadRunning(c)) /\ clientRef'[c] = clientRef[c] - 1
      BY <2>2 DEF LifeTypes, HangUp
    <3>4. threadRunning(c)' = threadRunning(c) /\ pc'[c] # "wait"
      BY <3>2 DEF threadRunning
    <3>5. clientRef[c] = 1 + One(c \in safeList) + One(threadRunning(c))
      BY <2>1, <3>1 DEF Life, One
    <3>6. allocated'[c] <=> threadRunning(c)'
      BY <2>1, <3>3, <3>4 DEF Life, One
    <3>7. mRefCount'[c] = One(threadRunning(c)')
      BY <2>1, <3>1, <3>4 DEF Life
    <3>8. clientRef'[c] = One(c \in safeList') + One(threadRunning(c)')
      BY <3>1, <3>3, <3>4, <3>5 DEF One
    <3>9. c \notin times' /\ c \notin mClients' /\ socket'[c] = "closed"
      BY <3>1
    <3>10. clientRef'[c] = One(c \in mClients') + One(c \in safeList') + One(threadRunning(c)')
      BY <3>8, <3>9 DEF One
    <3> QED
      BY <2>2, <3>2, <3>4, <3>6, <3>7, <3>9, <3>10 DEF Life
  <2>4. CASE d = c /\ c \notin times
    BY <2>1, <2>4 DEF LifeTypes, Life, HangUp, Release, Woken, One, threadRunning, isError, listVars, flagVars, rangeVars, threadVars, clientVars, writerVars, historyVars
  <2>3. CASE d # c
    BY <2>1, <2>3 DEF LifeTypes, Life, HangUp, Release, Woken, One, threadRunning, isError, listVars, flagVars, rangeVars, threadVars, clientVars, writerVars, historyVars
  <2> QED
    BY <2>2, <2>3, <2>4
<1> QED
  BY <1>2, <1>3

LEMMA LoopLives ==
  ASSUME LifeTypes, Lives, NEW c \in Clients, Loop(c)
  PROVE  LifeTypes' /\ Lives'
<1>2. LifeTypes'
  BY DEF LifeTypes, Lives, Life, Loop, Goes, One, threadRunning, isError, listVars, flagVars, rangeVars, threadVars, clientVars, writerVars, historyVars
<1>3. Lives'
  <2> SUFFICES ASSUME NEW d \in Clients PROVE Life(d)'
    BY DEF Lives
  <2>1. Life(d) /\ Life(c)
    BY DEF Lives
  <2>2. CASE d = c
    BY <2>1, <2>2 DEF LifeTypes, Life, Loop, Goes, One, threadRunning, isError, listVars, flagVars, rangeVars, threadVars, clientVars, writerVars, historyVars
  <2>3. CASE d # c
    BY <2>1, <2>3 DEF LifeTypes, Life, Loop, Goes, One, threadRunning, isError, listVars, flagVars, rangeVars, threadVars, clientVars, writerVars, historyVars
  <2> QED
    BY <2>2, <2>3
<1> QED
  BY <1>2, <1>3

LEMMA FirstPassLives ==
  ASSUME LifeTypes, Lives, NEW c \in Clients, FirstPass(c)
  PROVE  LifeTypes' /\ Lives'
<1>2. LifeTypes'
  BY DEF LifeTypes, Lives, Life, FirstPass, Goes, One, threadRunning, isError, listVars, flagVars, rangeVars, threadVars, clientVars, writerVars, historyVars
<1>3. Lives'
  <2> SUFFICES ASSUME NEW d \in Clients PROVE Life(d)'
    BY DEF Lives
  <2>1. Life(d) /\ Life(c)
    BY DEF Lives
  <2>2. CASE d = c
    BY <2>1, <2>2 DEF LifeTypes, Life, FirstPass, Goes, One, threadRunning, isError, listVars, flagVars, rangeVars, threadVars, clientVars, writerVars, historyVars
  <2>3. CASE d # c
    BY <2>1, <2>3 DEF LifeTypes, Life, FirstPass, Goes, One, threadRunning, isError, listVars, flagVars, rangeVars, threadVars, clientVars, writerVars, historyVars
  <2> QED
    BY <2>2, <2>3
<1> QED
  BY <1>2, <1>3

LEMMA WalkLives ==
  ASSUME LifeTypes, Lives, NEW c \in Clients, Walk(c)
  PROVE  LifeTypes' /\ Lives'
<1>2. LifeTypes'
  BY DEF LifeTypes, Lives, Life, Walk, Visit, Goes, One, threadRunning, isError, listVars, flagVars, rangeVars, threadVars, clientVars, writerVars, historyVars
<1>3. Lives'
  <2> SUFFICES ASSUME NEW d \in Clients PROVE Life(d)'
    BY DEF Lives
  <2>1. Life(d) /\ Life(c)
    BY DEF Lives
  <2>2. CASE d = c
    BY <2>1, <2>2 DEF LifeTypes, Life, Walk, Visit, Goes, One, threadRunning, isError, listVars, flagVars, rangeVars, threadVars, clientVars, writerVars, historyVars
  <2>3. CASE d # c
    BY <2>1, <2>3 DEF LifeTypes, Life, Walk, Visit, Goes, One, threadRunning, isError, listVars, flagVars, rangeVars, threadVars, clientVars, writerVars, historyVars
  <2> QED
    BY <2>2, <2>3
<1> QED
  BY <1>2, <1>3

LEMMA WalkEndLives ==
  ASSUME LifeTypes, Lives, NEW c \in Clients, WalkEnd(c)
  PROVE  LifeTypes' /\ Lives'
<1>2. LifeTypes'
  BY DEF LifeTypes, Lives, Life, WalkEnd, Goes, One, threadRunning, isError, listVars, flagVars, rangeVars, threadVars, clientVars, writerVars, historyVars
<1>3. Lives'
  <2> SUFFICES ASSUME NEW d \in Clients PROVE Life(d)'
    BY DEF Lives
  <2>1. Life(d) /\ Life(c)
    BY DEF Lives
  <2>2. CASE d = c
    BY <2>1, <2>2 DEF LifeTypes, Life, WalkEnd, Goes, One, threadRunning, isError, listVars, flagVars, rangeVars, threadVars, clientVars, writerVars, historyVars
  <2>3. CASE d # c
    BY <2>1, <2>3 DEF LifeTypes, Life, WalkEnd, Goes, One, threadRunning, isError, listVars, flagVars, rangeVars, threadVars, clientVars, writerVars, historyVars
  <2> QED
    BY <2>2, <2>3
<1> QED
  BY <1>2, <1>3

LEMMA SendLives ==
  ASSUME LifeTypes, Lives, NEW c \in Clients, Send(c)
  PROVE  LifeTypes' /\ Lives'
<1>2. LifeTypes'
  BY DEF LifeTypes, Lives, Life, Send, Goes, One, threadRunning, isError, listVars, flagVars, rangeVars, threadVars, clientVars, writerVars, historyVars
<1>3. Lives'
  <2> SUFFICES ASSUME NEW d \in Clients PROVE Life(d)'
    BY DEF Lives
  <2>1. Life(d) /\ Life(c)
    BY DEF Lives
  <2>2. CASE d = c
    BY <2>1, <2>2 DEF LifeTypes, Life, Send, Goes, One, threadRunning, isError, listVars, flagVars, rangeVars, threadVars, clientVars, writerVars, historyVars
  <2>3. CASE d # c
    BY <2>1, <2>3 DEF LifeTypes, Life, Send, Goes, One, threadRunning, isError, listVars, flagVars, rangeVars, threadVars, clientVars, writerVars, historyVars
  <2> QED
    BY <2>2, <2>3
<1> QED
  BY <1>2, <1>3

LEMMA FlushedLives ==
  ASSUME LifeTypes, Lives, NEW c \in Clients, Flushed(c)
  PROVE  LifeTypes' /\ Lives'
<1>2. LifeTypes'
  BY DEF LifeTypes, Lives, Life, Flushed, Goes, One, threadRunning, isError, listVars, flagVars, rangeVars, threadVars, clientVars, writerVars, historyVars
<1>3. Lives'
  <2> SUFFICES ASSUME NEW d \in Clients PROVE Life(d)'
    BY DEF Lives
  <2>1. Life(d) /\ Life(c)
    BY DEF Lives
  <2>2. CASE d = c
    BY <2>1, <2>2 DEF LifeTypes, Life, Flushed, Goes, One, threadRunning, isError, listVars, flagVars, rangeVars, threadVars, clientVars, writerVars, historyVars
  <2>3. CASE d # c
    BY <2>1, <2>3 DEF LifeTypes, Life, Flushed, Goes, One, threadRunning, isError, listVars, flagVars, rangeVars, threadVars, clientVars, writerVars, historyVars
  <2> QED
    BY <2>2, <2>3
<1> QED
  BY <1>2, <1>3

LEMMA StopLives ==
  ASSUME LifeTypes, Lives, NEW c \in Clients, Stop(c)
  PROVE  LifeTypes' /\ Lives'
<1>2. LifeTypes'
  BY DEF LifeTypes, Lives, Life, Stop, Goes, One, threadRunning, isError, listVars, flagVars, rangeVars, threadVars, clientVars, writerVars, historyVars
<1>3. Lives'
  <2> SUFFICES ASSUME NEW d \in Clients PROVE Life(d)'
    BY DEF Lives
  <2>1. Life(d) /\ Life(c)
    BY DEF Lives
  <2>2. CASE d = c
    <3>1. threadRunning(c) /\ mRefCount[c] = 1
      BY <2>1 DEF LifeTypes, Life, Stop, Goes, One, threadRunning, isError, listVars, flagVars, rangeVars, threadVars, clientVars, writerVars, historyVars
    <3>2. pc'[c] = "none" /\ times' = times \ {c} /\ mClients' = mClients \ {c}
          /\ safeList' = safeList /\ socket' = socket
      BY DEF LifeTypes, Stop, Goes, One, threadRunning, isError, listVars, flagVars, rangeVars, threadVars, clientVars, writerVars, historyVars
    <3>3. mRelease'[c] /\ mRefCount'[c] = 0
      BY <2>1, <3>1 DEF LifeTypes, Life, Stop, Goes, One, threadRunning, isError, listVars, flagVars, rangeVars, threadVars, clientVars, writerVars, historyVars
    <3>4. ~allocated'[c]
      BY <3>3 DEF LifeTypes, Stop
    <3>5. clientRef'[c] = One(c \in safeList)
      BY <2>1, <3>1 DEF LifeTypes, Life, Stop, Goes, One, threadRunning, isError, listVars, flagVars, rangeVars, threadVars, clientVars, writerVars, historyVars
    <3>6. socket[c] # "new"
      BY <2>1, <3>1 DEF Life
    <3> QED
      BY <2>2, <3>2, <3>3, <3>4, <3>5, <3>6 DEF Life, One, threadRunning
  <2>3. CASE d # c
    BY <2>1, <2>3 DEF LifeTypes, Life, Stop, Goes, One, threadRunning, isError, listVars, flagVars, rangeVars, threadVars, clientVars, writerVars, historyVars
  <2> QED
    BY <2>2, <2>3
<1> QED
  BY <1>2, <1>3

LEMMA NotifyOneTypes ==
  ASSUME RestTypes, NEW c \in Clients, NotifyOne(c)
  PROVE  RestTypes'
  BY LogBufferAssumption DEF RestTypes, NotifyOne, Trigger, startReader, Woken, listVars, flagVars, rangeVars, threadVars, clientVars, writerVars, historyVars

LEMMA RequestTypes ==
  ASSUME RestTypes, NEW c \in Clients, Request(c)
  PROVE  RestTypes'
<1>1. mEnd' \in [Clients -> Nat]
  BY OrderFacts DEF RestTypes, Request
<1> QED
  BY <1>1 DEF RestTypes, Request, listVars, flagVars, rangeVars, threadVars, clientVars, writerVars, historyVars

LEMMA CloseTypes ==
  ASSUME RestTypes, NEW c \in Clients, Close(c)
  PROVE  RestTypes'
  BY LogBufferAssumption DEF RestTypes, Close, listVars, flagVars, rangeVars, threadVars, clientVars, writerVars, historyVars

LEMMA HangUpTypes ==
  ASSUME RestTypes, NEW c \in Clients, HangUp(c)
  PROVE  RestTypes'
  BY LogBufferAssumption DEF RestTypes, HangUp, Release, Woken, listVars, flagVars, rangeVars, threadVars, clientVars, writerVars, historyVars

LEMMA LoopTypes ==
  ASSUME RestTypes, NEW c \in Clients, Loop(c)
  PROVE  RestTypes'
  BY LogBufferAssumption DEF RestTypes, Loop, Goes, listVars, flagVars, rangeVars, threadVars, clientVars, writerVars, historyVars

LEMMA FirstPassTypes ==
  ASSUME RestTypes, NEW c \in Clients, FirstPass(c)
  PROVE  RestTypes'
<1>1. Cardinality(Ahead(c)) \in Nat /\ \A i \in Ahead(c) : order[i] \in Nat
  <2>1. Ahead(c) \subseteq DOMAIN order
    BY DEF Ahead, Positions
  <2>2. IsFiniteSet(Ahead(c))
    BY <2>1, OrderFacts, FS_Subset
  <2>3. \A i \in Ahead(c) : order[i] \in Nat
    BY <2>1, OrderFacts
  <2> QED
    BY <2>2, <2>3, FS_CardinalityType
<1>2. mStart' \in [Clients -> Nat]
  BY <1>1 DEF RestTypes, FirstPass, First
<1>3. tail' \in [Clients -> [mTail : Nat, mCount : Nat, mIndex : Nat]]
  <2> DEFINE r == [tail[c] EXCEPT !.mCount = @ + Cardinality(Ahead(c))]
  <2>1. tail[c] \in [mTail : Nat, mCount : Nat, mIndex : Nat]
    BY DEF RestTypes
  <2>2. r \in [mTail : Nat, mCount : Nat, mIndex : Nat]
    BY <1>1, <2>1
  <2>3. tail' = [tail EXCEPT ![c] = r]
    BY DEF FirstPass
  <2> QED
    BY <2>2, <2>3 DEF RestTypes
<1> QED
  BY <1>2, <1>3 DEF RestTypes, FirstPass, Goes, listVars, flagVars, rangeVars, threadVars, clientVars, writerVars, historyVars

LEMMA WalkTypes ==
  ASSUME RestTypes, NEW c \in Clients, Walk(c)
  PROVE  RestTypes'
<1>1. PICK i \in First(Ahead(c)) : Visit(c, order[i])
  BY DEF Walk
<1>2. order[i] \in Nat
  <2>1. i \in DOMAIN order
    BY DEF First, Ahead, Positions
  <2> QED
    BY <2>1, OrderFacts
<1>3. skipAhead' \in [Clients -> Nat] /\ mStart' \in [Clients -> Nat] /\ at' \in [Clients -> Nat]
  <2>1. at' \in [Clients -> Nat]
    BY <1>1, <1>2 DEF RestTypes, Visit
  <2>2. CASE Skips(c)
    <3>1. skipAhead[c] \in Nat /\ skipAhead[c] - 1 \in Nat
      BY <2>2, SMTT(30) DEF RestTypes, Skips
    <3>2. skipAhead' = [skipAhead EXCEPT ![c] = skipAhead[c] - 1] /\ mStart' = mStart
      BY <1>1, <2>2 DEF Visit
    <3> QED
      BY <2>1, <3>1, <3>2 DEF RestTypes
  <2>3. CASE ~Skips(c)
    BY <1>1, <1>2, <2>1, <2>3 DEF RestTypes, Visit
  <2> QED
    BY <2>2, <2>3
<1>4. tail' \in [Clients -> [mTail : Nat, mCount : Nat, mIndex : Nat]]
  <2>1. CASE Skips(c)
    BY <1>1, <2>1 DEF RestTypes, Visit
  <2>2. CASE ~Skips(c)
    <3>1. tail[c] \in [mTail : Nat, mCount : Nat, mIndex : Nat]
      BY DEF RestTypes
    <3>2. \E m \in {0, tail[c].mTail}, n \in {tail[c].mIndex, tail[c].mIndex + 1} :
            tail' = [tail EXCEPT ![c] = [mTail |-> m, mCount |-> tail[c].mCount, mIndex |-> n]]
      BY <1>1, <2>2 DEF Visit
    <3> QED
      BY <3>1, <3>2 DEF RestTypes
  <2> QED
    BY <2>1, <2>2
<1>5. elementsLock' \in {NOBODY, c}
  BY <1>1 DEF Visit
<1> QED
  BY <1>3, <1>4, <1>5 DEF RestTypes, Walk, listVars, flagVars, rangeVars, threadVars, clientVars, writerVars, historyVars

LEMMA WalkEndTypes ==
  ASSUME RestTypes, NEW c \in Clients, WalkEnd(c)
  PROVE  RestTypes'
  BY LogBufferAssumption DEF RestTypes, WalkEnd, Goes, listVars, flagVars, rangeVars, threadVars, clientVars, writerVars, historyVars

LEMMA SendTypes ==
  ASSUME RestTypes, NEW c \in Clients, Send(c)
  PROVE  RestTypes'
<1>1. start' \in [Clients -> Nat] /\ at' \in [Clients -> Nat]
  <2>1. \/ start' = start /\ at' = at
        \/ start' = [start EXCEPT ![c] = 0] /\ at' = [at EXCEPT ![c] = 0]
    BY DEF Send
  <2>2. start \in [Clients -> Nat] /\ at \in [Clients -> Nat]
    BY DEF RestTypes
  <2> QED
    BY <2>1, <2>2
<1> QED
  BY <1>1 DEF RestTypes, Send, listVars, flagVars, rangeVars, threadVars, clientVars, writerVars, historyVars

LEMMA FlushedTypes ==
  ASSUME RestTypes, NEW c \in Clients, Flushed(c)
  PROVE  RestTypes'
  BY LogBufferAssumption DEF RestTypes, Flushed, Goes, listVars, flagVars, rangeVars, threadVars, clientVars, writerVars, historyVars

LEMMA StopTypes ==
  ASSUME RestTypes, NEW c \in Clients, Stop(c)
  PROVE  RestTypes'
  BY LogBufferAssumption DEF RestTypes, Stop, Goes, listVars, flagVars, rangeVars, threadVars, clientVars, writerVars, historyVars

LEMMA NotifyOneIterators ==
  ASSUME LifeTypes, RestTypes, Lives, Iterators, NEW c \in Clients, NotifyOne(c)
  PROVE  Iterators'
<1>1. (writer' = "prune" <=> elementsLock' = WRITER) /\ order' = order /\ live' = live
      /\ (safeList' # {} => writer' = "signal")
  BY LogBufferAssumption DEF Iterators, RestTypes, NotifyOne, Trigger, startReader, Woken, listVars, flagVars, rangeVars, threadVars, clientVars, writerVars, historyVars
<1>2. ASSUME NEW d \in Clients PROVE Iterator(d)'
  <2>1. Iterator(d) /\ Iterator(c)
    BY DEF Iterators
  <2>2. CASE d = c
    <3>1. pc'[c] = pc[c] \/ (pc[c] \in {"none", "wait"} /\ pc'[c] = "loop")
      BY DEF LifeTypes, NotifyOne, Trigger, startReader, Woken, listVars, flagVars, rangeVars, threadVars, clientVars, writerVars, historyVars, threadRunning
    <3>2. at' = at /\ mStart' = mStart /\ times' = times /\ elementsLock' = elementsLock
      BY DEF NotifyOne, Trigger, startReader, Woken, listVars, flagVars, rangeVars, threadVars, clientVars, writerVars, historyVars
    <3> QED
      BY <1>1, <2>1, <2>2, <3>1, <3>2 DEF Iterator
  <2>3. CASE d # c
    BY <2>1, <2>3, LogBufferAssumption DEF LifeTypes, RestTypes, Iterator, NotifyOne, Trigger, startReader, Woken, listVars, flagVars, rangeVars, threadVars, clientVars, writerVars, historyVars
  <2> QED
    BY <2>2, <2>3
<1> QED
  BY <1>1, <1>2 DEF Iterators

LEMMA RequestIterators ==
  ASSUME LifeTypes, RestTypes, Lives, Iterators, NEW c \in Clients, Request(c)
  PROVE  Iterators'
<1>1. (writer' = "prune" <=> elementsLock' = WRITER) /\ order' = order /\ live' = live
      /\ (safeList' # {} => writer' = "signal")
  BY LogBufferAssumption DEF Iterators, RestTypes, Request, startReader, listVars, flagVars, rangeVars, threadVars, clientVars, writerVars, historyVars
<1>2. ASSUME NEW d \in Clients PROVE Iterator(d)'
  <2>1. Iterator(d) /\ Iterator(c)
    BY DEF Iterators
  <2>2. CASE d = c
    <3>1. pc[c] = "none"
      BY DEF Lives, Life, Request, threadRunning
    <3>2. at'[c] = 0
      BY <2>1, <2>2, <3>1 DEF Iterator, Request
    <3>3. pc'[c] # "send"
      BY <3>1 DEF LifeTypes, Request, startReader
    <3> QED
      BY <2>2, <3>2, <3>3 DEF Iterator
  <2>3. CASE d # c
    <3>1. pc'[d] = pc[d] /\ at'[d] = at[d]
      BY <2>3 DEF LifeTypes, RestTypes, Request, startReader, listVars, flagVars, rangeVars, threadVars, clientVars, writerVars, historyVars
    <3>2. mStart'[d] = mStart[d] /\ (d \in times <=> d \in times')
      BY <2>3 DEF RestTypes, Request, startReader, listVars, flagVars, rangeVars, threadVars, clientVars, writerVars, historyVars
    <3>3. elementsLock' = elementsLock /\ elementsLock' \in {elementsLock, NOBODY, c}
      BY DEF Request, startReader, listVars, flagVars, rangeVars, threadVars, clientVars, writerVars, historyVars
    <3> QED
      BY <1>1, <2>1, <2>3, <3>1, <3>2, <3>3, LogBufferAssumption DEF Iterator
  <2> QED
    BY <2>2, <2>3
<1> QED
  BY <1>1, <1>2 DEF Iterators

LEMMA CloseIterators ==
  ASSUME LifeTypes, RestTypes, Lives, Iterators, NEW c \in Clients, Close(c)
  PROVE  Iterators'
<1>1. (writer' = "prune" <=> elementsLock' = WRITER) /\ order' = order /\ live' = live
      /\ (safeList' # {} => writer' = "signal")
  BY LogBufferAssumption DEF Iterators, RestTypes, Close, listVars, flagVars, rangeVars, threadVars, clientVars, writerVars, historyVars
<1>2. ASSUME NEW d \in Clients PROVE Iterator(d)'
  <2>1. Iterator(d) /\ Iterator(c)
    BY DEF Iterators
  <2>2. CASE d = c
    BY <2>1, <2>2, LogBufferAssumption DEF LifeTypes, RestTypes, Iterator, Close, listVars, flagVars, rangeVars, threadVars, clientVars, writerVars, historyVars
  <2>3. CASE d # c
    BY <2>1, <2>3, LogBufferAssumption DEF LifeTypes, RestTypes, Iterator, Close, listVars, flagVars, rangeVars, threadVars, clientVars, writerVars, historyVars
  <2> QED
    BY <2>2, <2>3
<1> QED
  BY <1>1, <1>2 DEF Iterators

LEMMA HangUpIterators ==
  ASSUME LifeTypes, RestTypes, Lives, Iterators, NEW c \in Clients, HangUp(c)
  PROVE  Iterators'
<1>1. (writer' = "prune" <=> elementsLock' = WRITER) /\ order' = order /\ live' = live
      /\ (safeList' # {} => writer' = "signal")
  BY LogBufferAssumption DEF Iterators, RestTypes, HangUp, Release, Woken, listVars, flagVars, rangeVars, threadVars, clientVars, writerVars, historyVars
<1>2. ASSUME NEW d \in Clients PROVE Iterator(d)'
  <2>1. Iterator(d) /\ Iterator(c)
    BY DEF Iterators
  <2>2. CASE d = c
    BY <2>1, <2>2, LogBufferAssumption DEF LifeTypes, RestTypes, Iterator, HangUp, Release, Woken, listVars, flagVars, rangeVars, threadVars, clientVars, writerVars, historyVars
  <2>3. CASE d # c
    BY <2>1, <2>3, LogBufferAssumption DEF LifeTypes, RestTypes, Iterator, HangUp, Release, Woken, listVars, flagVars, rangeVars, threadVars, clientVars, writerVars, historyVars
  <2> QED
    BY <2>2, <2>3
<1> QED
  BY <1>1, <1>2 DEF Iterators

LEMMA LoopIterators ==
  ASSUME LifeTypes, RestTypes, Lives, Iterators, NEW c \in Clients, Loop(c)
  PROVE  Iterators'
<1>1. (writer' = "prune" <=> elementsLock' = WRITER) /\ order' = order /\ live' = live
      /\ (safeList' # {} => writer' = "signal")
  BY LogBufferAssumption DEF Iterators, RestTypes, Loop, Goes, listVars, flagVars, rangeVars, threadVars, clientVars, writerVars, historyVars
<1>2. ASSUME NEW d \in Clients PROVE Iterator(d)'
  <2>1. Iterator(d) /\ Iterator(c)
    BY DEF Iterators
  <2>2. CASE d = c
    BY <2>1, <2>2, LogBufferAssumption DEF LifeTypes, RestTypes, Iterator, Loop, Goes, listVars, flagVars, rangeVars, threadVars, clientVars, writerVars, historyVars
  <2>3. CASE d # c
    BY <2>1, <2>3, LogBufferAssumption DEF LifeTypes, RestTypes, Iterator, Loop, Goes, listVars, flagVars, rangeVars, threadVars, clientVars, writerVars, historyVars
  <2> QED
    BY <2>2, <2>3
<1> QED
  BY <1>1, <1>2 DEF Iterators

LEMMA FirstPassIterators ==
  ASSUME LifeTypes, RestTypes, Lives, Iterators, NEW c \in Clients, FirstPass(c)
  PROVE  Iterators'
<1>1. (writer' = "prune" <=> elementsLock' = WRITER) /\ order' = order /\ live' = live
      /\ (safeList' # {} => writer' = "signal")
  BY LogBufferAssumption DEF Iterators, RestTypes, FirstPass, Goes, listVars, flagVars, rangeVars, threadVars, clientVars, writerVars, historyVars
<1>2. ASSUME NEW d \in Clients PROVE Iterator(d)'
  <2>1. Iterator(d) /\ Iterator(c)
    BY DEF Iterators
  <2>2. CASE d = c
    BY <2>1, <2>2, LogBufferAssumption DEF LifeTypes, RestTypes, Iterator, FirstPass, Goes, listVars, flagVars, rangeVars, threadVars, clientVars, writerVars, historyVars
  <2>3. CASE d # c
    BY <2>1, <2>3, LogBufferAssumption DEF LifeTypes, RestTypes, Iterator, FirstPass, Goes, listVars, flagVars, rangeVars, threadVars, clientVars, writerVars, historyVars
  <2> QED
    BY <2>2, <2>3
<1> QED
  BY <1>1, <1>2 DEF Iterators

LEMMA WalkIterators ==
  ASSUME LifeTypes, RestTypes, Lives, Iterators, NEW c \in Clients, Walk(c)
  PROVE  Iterators'
<1>1. (writer' = "prune" <=> elementsLock' = WRITER) /\ order' = order /\ live' = live
      /\ (safeList' # {} => writer' = "signal")
  BY LogBufferAssumption DEF Iterators, RestTypes, Walk, Visit, Goes, listVars, flagVars, rangeVars, threadVars, clientVars, writerVars, historyVars
<1>2. ASSUME NEW d \in Clients PROVE Iterator(d)'
  <2>1. Iterator(d) /\ Iterator(c)
    BY DEF Iterators
  <2>2. CASE d = c
    <3>1. PICK i \in First(Ahead(c)) : Visit(c, order[i])
      BY DEF Walk
    <3>2. order[i] \in live /\ at'[c] = order[i] /\ live' = live /\ times' = times
      BY <3>1 DEF RestTypes, First, Ahead, Positions, Walk, Visit, listVars, flagVars
    <3>3. CASE elementsLock' = c /\ pc'[c] = "walk"
      BY <2>2, <3>2, <3>3 DEF Iterator
    <3>4. CASE ~(elementsLock' = c /\ pc'[c] = "walk")
      <4> DEFINE send == ~Truncated(c) /\ ~isError(c) /\ ~BeforeTail(c)
      <4>0. /\ pc \in [Clients -> {"none", "loop", "first", "walk", "send", "flushed", "failed",
                                  "wait", "stop"}]
            /\ mStart \in [Clients -> Nat] /\ pc[c] = "walk"
        BY DEF LifeTypes, RestTypes, Walk
      <4>1. pc'[c] = "send" /\ mStart'[c] = order[i] /\ elementsLock' = NOBODY /\ ~isError(c)
        <5>1. CASE Skips(c)
          <6>1. elementsLock' = c /\ pc' = pc
            BY <3>1, <5>1 DEF Visit
          <6> QED
            BY <3>4, <4>0, <6>1
        <5>2. CASE ~Skips(c)
          <6>1. /\ mStart' = [mStart EXCEPT ![c] = order[i]]
                /\ elementsLock' = IF send THEN NOBODY ELSE c
                /\ pc' = [pc EXCEPT ![c] = IF send THEN "send" ELSE "walk"]
            BY <3>1, <5>2 DEF Visit, Goes
          <6>2. mStart'[c] = order[i] /\ pc'[c] = IF send THEN "send" ELSE "walk"
            BY <4>0, <6>1
          <6>3. send
            BY <3>4, <6>1, <6>2
          <6>4. elementsLock' = NOBODY /\ pc'[c] = "send"
            BY <6>1, <6>2, <6>3
          <6>5. ~isError(c)
            BY <6>3
          <6> QED
            BY <6>2, <6>4, <6>5
        <5> QED
          BY <5>1, <5>2
      <4>2. c \in times
        BY <4>1 DEF Lives, Life, Walk, threadRunning, isError
      <4> QED
        BY <2>2, <3>2, <4>1, <4>2, LogBufferAssumption DEF Iterator
    <3> QED
      BY <3>3, <3>4
  <2>3. CASE d # c
    <3>1. pc'[d] = pc[d] /\ at'[d] = at[d]
      BY <2>3 DEF LifeTypes, RestTypes, Walk, Visit, Goes, listVars, flagVars, rangeVars, threadVars, clientVars, writerVars, historyVars
    <3>2. mStart'[d] = mStart[d] /\ (d \in times <=> d \in times')
      BY <2>3 DEF RestTypes, Walk, Visit, Goes, listVars, flagVars, rangeVars, threadVars, clientVars, writerVars, historyVars
    <3>3. elementsLock \in {NOBODY, c} /\ elementsLock' \in {elementsLock, NOBODY, c}
      BY DEF Walk, Visit, Goes, listVars, flagVars, rangeVars, threadVars, clientVars, writerVars, historyVars
    <3> QED
      BY <1>1, <2>1, <2>3, <3>1, <3>2, <3>3, LogBufferAssumption DEF Iterator
  <2> QED
    BY <2>2, <2>3
<1> QED
  BY <1>1, <1>2 DEF Iterators

LEMMA WalkEndIterators ==
  ASSUME LifeTypes, RestTypes, Lives, Iterators, NEW c \in Clients, WalkEnd(c)
  PROVE  Iterators'
<1>1. (writer' = "prune" <=> elementsLock' = WRITER) /\ order' = order /\ live' = live
      /\ (safeList' # {} => writer' = "signal")
  BY LogBufferAssumption DEF Iterators, RestTypes, WalkEnd, Goes, listVars, flagVars, rangeVars, threadVars, clientVars, writerVars, historyVars
<1>2. ASSUME NEW d \in Clients PROVE Iterator(d)'
  <2>1. Iterator(d) /\ Iterator(c)
    BY DEF Iterators
  <2>2. CASE d = c
    BY <2>1, <2>2, LogBufferAssumption DEF LifeTypes, RestTypes, Iterator, WalkEnd, Goes, listVars, flagVars, rangeVars, threadVars, clientVars, writerVars, historyVars
  <2>3. CASE d # c
    BY <2>1, <2>3, LogBufferAssumption DEF LifeTypes, RestTypes, Iterator, WalkEnd, Goes, listVars, flagVars, rangeVars, threadVars, clientVars, writerVars, historyVars
  <2> QED
    BY <2>2, <2>3
<1> QED
  BY <1>1, <1>2 DEF Iterators

LEMMA SendIterators ==
  ASSUME LifeTypes, RestTypes, Lives, Iterators, NEW c \in Clients, Send(c)
  PROVE  Iterators'
<1>1. (writer' = "prune" <=> elementsLock' = WRITER) /\ order' = order /\ live' = live
      /\ (safeList' # {} => writer' = "signal")
  BY LogBufferAssumption DEF Iterators, RestTypes, Send, Goes, listVars, flagVars, rangeVars, threadVars, clientVars, writerVars, historyVars
<1>2. ASSUME NEW d \in Clients PROVE Iterator(d)'
  <2>1. Iterator(d) /\ Iterator(c)
    BY DEF Iterators
  <2>2. CASE d = c
    <3>1. /\ pc[c] = "send" /\ elementsLock' = elementsLock
          /\ times' = times /\ mStart' = mStart
          /\ \/ pc'[c] = "walk" /\ at'[c] = at[c]
             \/ pc'[c] = "failed" /\ at'[c] = 0
      BY DEF LifeTypes, RestTypes, Send, Goes, flagVars, rangeVars
    <3> QED
      BY <1>1, <2>1, <2>2, <3>1 DEF Iterator
  <2>3. CASE d # c
    <3>1. pc'[d] = pc[d] /\ at'[d] = at[d]
      BY <2>3 DEF LifeTypes, RestTypes, Send, Goes, listVars, flagVars, rangeVars, threadVars, clientVars, writerVars, historyVars
    <3>2. mStart'[d] = mStart[d] /\ (d \in times <=> d \in times')
      BY <2>3 DEF RestTypes, Send, Goes, listVars, flagVars, rangeVars, threadVars, clientVars, writerVars, historyVars
    <3>3. elementsLock' = elementsLock /\ elementsLock' \in {elementsLock, NOBODY, c}
      BY DEF Send, Goes, listVars, flagVars, rangeVars, threadVars, clientVars, writerVars, historyVars
    <3> QED
      BY <1>1, <2>1, <2>3, <3>1, <3>2, <3>3, LogBufferAssumption DEF Iterator
  <2> QED
    BY <2>2, <2>3
<1> QED
  BY <1>1, <1>2 DEF Iterators

LEMMA FlushedIterators ==
  ASSUME LifeTypes, RestTypes, Lives, Iterators, NEW c \in Clients, Flushed(c)
  PROVE  Iterators'
<1>1. (writer' = "prune" <=> elementsLock' = WRITER) /\ order' = order /\ live' = live
      /\ (safeList' # {} => writer' = "signal")
  BY LogBufferAssumption DEF Iterators, RestTypes, Flushed, Goes, listVars, flagVars, rangeVars, threadVars, clientVars, writerVars, historyVars
<1>2. ASSUME NEW d \in Clients PROVE Iterator(d)'
  <2>1. Iterator(d) /\ Iterator(c)
    BY DEF Iterators
  <2>2. CASE d = c
    BY <2>1, <2>2, LogBufferAssumption DEF LifeTypes, RestTypes, Iterator, Flushed, Goes, listVars, flagVars, rangeVars, threadVars, clientVars, writerVars, historyVars
  <2>3. CASE d # c
    BY <2>1, <2>3, LogBufferAssumption DEF LifeTypes, RestTypes, Iterator, Flushed, Goes, listVars, flagVars, rangeVars, threadVars, clientVars, writerVars, historyVars
  <2> QED
    BY <2>2, <2>3
<1> QED
  BY <1>1, <1>2 DEF Iterators

LEMMA StopIterators ==
  ASSUME LifeTypes, RestTypes, Lives, Iterators, NEW c \in Clients, Stop(c)
  PROVE  Iterators'
<1>1. (writer' = "prune" <=> elementsLock' = WRITER) /\ order' = order /\ live' = live
      /\ (safeList' # {} => writer' = "signal")
  BY LogBufferAssumption DEF Iterators, RestTypes, Stop, Goes, listVars, flagVars, rangeVars, threadVars, clientVars, writerVars, historyVars
<1>2. ASSUME NEW d \in Clients PROVE Iterator(d)'
  <2>1. Iterator(d) /\ Iterator(c)
    BY DEF Iterators
  <2>2. CASE d = c
    BY <2>1, <2>2, LogBufferAssumption DEF LifeTypes, RestTypes, Iterator, Stop, Goes, listVars, flagVars, rangeVars, threadVars, clientVars, writerVars, historyVars
  <2>3. CASE d # c
    BY <2>1, <2>3, LogBufferAssumption DEF LifeTypes, RestTypes, Iterator, Stop, Goes, listVars, flagVars, rangeVars, threadVars, clientVars, writerVars, historyVars
  <2> QED
    BY <2>2, <2>3
<1> QED
  BY <1>1, <1>2 DEF Iterators

-------------------------------------------------------------------------------
(* The writer and the clear command.                                         *)

(* prune erases unprotected elements, and tells at most one reader to go.  *)
LEMMA PruneStep ==
  ASSUME LifeTypes, RestTypes, NEW rows \in Nat, Prune(rows)
  PROVE  /\ live' \subseteq live /\ live \ live' \subseteq Unlocked
         /\ \/ mRelease' = mRelease /\ pc' = pc
            \/ \E c \in Clients : Release(c) /\ c \in Owned
         /\ skipAhead' \in [Clients -> Nat]
<1>1. PICK gone \in SUBSET Unlocked :
        LET missing == rows - Cardinality(gone)
            short == missing > 0 /\ Unlocked # live
        IN /\ IF rows <= Cardinality(Unlocked) THEN Cardinality(gone) = rows ELSE gone = Unlocked
           /\ live' = live \ gone
           /\ \/ /\ short /\ Cardinality(live') > 2 * Size
                 /\ \E c \in Clients : Oldest(c) /\ Release(c)
                 /\ UNCHANGED skipAhead
              \/ /\ short /\ Cardinality(live') <= 2 * Size
                 /\ \E c \in Clients :
                      Oldest(c) /\ skipAhead' = [skipAhead EXCEPT ![c] = missing]
                 /\ UNCHANGED <<mRelease, pc>>
              \/ ~short /\ UNCHANGED <<mRelease, pc, skipAhead>>
  BY DEF Prune
<1>2. live' = live \ gone /\ gone \subseteq Unlocked
  BY <1>1
<1>3. (mRelease' = mRelease /\ pc' = pc) \/ (\E c \in Clients : Release(c) /\ c \in Owned)
  BY <1>1 DEF Oldest
<1>4. IsFiniteSet(gone) /\ Cardinality(gone) \in Nat
  <2>1. gone \subseteq 1 .. Len(order) /\ Len(order) \in Nat
    BY <1>2 DEF RestTypes, Unlocked
  <2>2. IsFiniteSet(1 .. Len(order))
    BY <2>1, FS_Interval
  <2>3. IsFiniteSet(gone)
    BY <2>1, <2>2, FS_Subset
  <2> QED
    BY <2>3, FS_CardinalityType
<1>5. \/ skipAhead' = skipAhead
      \/ /\ rows - Cardinality(gone) > 0
         /\ \E c \in Clients : skipAhead' = [skipAhead EXCEPT ![c] = rows - Cardinality(gone)]
  BY <1>1
<1>6. skipAhead \in [Clients -> Nat]
  BY DEF RestTypes
<1>7. rows - Cardinality(gone) > 0 => rows - Cardinality(gone) \in Nat
  BY <1>4
<1>8. skipAhead' \in [Clients -> Nat]
  BY <1>5, <1>6, <1>7
<1> QED
  BY <1>2, <1>3, <1>8

(* What a reader's thread is at is protected.                              *)
LEMMA NotUnlocked ==
  ASSUME RestTypes, Iterators, NEW c \in Owned, at[c] \in live, mStart[c] = at[c]
  PROVE  at[c] \notin Unlocked
<1>1. PICK i \in DOMAIN order : order[i] = at[c]
  BY DEF Iterators
<1>2. i \in Positions /\ i <= i /\ ~(order[i] < mStart[c])
  BY <1>1, OrderFacts DEF Positions
<1> QED
  BY <1>1, <1>2 DEF Unlocked

(* MaybePrune and Clear leave every entry, client and thread in order.     *)
LEMMA ReleaseLives ==
  ASSUME LifeTypes, Lives,
         \/ mRelease' = mRelease /\ pc' = pc
         \/ \E c \in Clients : Release(c) /\ c \in Owned,
         UNCHANGED <<times, allocated, mRefCount, mError, socket, mClients, clientRef, safeList>>
  PROVE  LifeTypes' /\ Lives'
<1>1. CASE mRelease' = mRelease /\ pc' = pc
  BY <1>1 DEF LifeTypes, Lives, Life, threadRunning, isError
<1>2. ASSUME NEW c \in Clients, Release(c), c \in Owned
      PROVE  LifeTypes' /\ Lives'
  <2>1. LifeTypes'
    BY <1>2 DEF LifeTypes, Release, Woken
  <2>2. ASSUME NEW d \in Clients PROVE Life(d)'
    <3>1. Life(d) /\ threadRunning(d)' = threadRunning(d)
      BY <1>2 DEF LifeTypes, Lives, Release, Woken, threadRunning
    <3>2. CASE d = c
      <4>1. mRelease'[d] /\ pc'[d] # "wait"
        BY <1>2, <3>2 DEF LifeTypes, Release, Woken
      <4> QED
        BY <3>1, <4>1 DEF Life
    <3>3. CASE d # c
      <4>1. mRelease'[d] = mRelease[d] /\ pc'[d] = pc[d] /\ mError' = mError
        BY <1>2, <3>3 DEF LifeTypes, Release, Woken
      <4> QED
        BY <3>1, <4>1 DEF Life, isError
    <3> QED
      BY <3>2, <3>3
  <2> QED
    BY <2>1, <2>2 DEF Lives
<1> QED
  BY <1>1, <1>2

LEMMA PruneIterators ==
  ASSUME LifeTypes, RestTypes, Lives, Iterators,
         \/ mRelease' = mRelease /\ pc' = pc
         \/ \E c \in Clients : Release(c) /\ c \in Owned,
         live' \subseteq live, live \ live' \subseteq Unlocked,
         elementsLock \in {NOBODY, WRITER}, elementsLock' = NOBODY,
         writer' # "prune", safeList' # {} => writer' = "signal",
         UNCHANGED <<order, times, mStart, at>>
  PROVE  Iterators'
<1>1. live' \subseteq {order'[i] : i \in DOMAIN order'}
  BY DEF Iterators
<1>2. ASSUME NEW d \in Clients PROVE Iterator(d)'
  <2>1. Iterator(d) /\ Life(d)
    BY DEF Iterators, Lives
  <2>2. pc'[d] = pc[d] \/ (pc[d] = "wait" /\ pc'[d] = "loop")
    BY DEF LifeTypes, Release, Woken
  <2>3. elementsLock # d
    BY LogBufferAssumption
  <2>4. ASSUME at[d] # 0, d \in times PROVE at[d] \in live'
    <3>1. pc[d] \in {"walk", "send"} /\ at[d] \in live /\ mStart[d] = at[d]
      BY <2>1, <2>3, <2>4 DEF Iterator
    <3>2. d \in Owned
      BY <2>1, <2>4, <3>1 DEF Owned, Life, One, threadRunning
    <3>3. at[d] \notin Unlocked
      BY <3>1, <3>2, NotUnlocked
    <3> QED
      BY <3>1, <3>3
  <2> QED
    BY <2>1, <2>2, <2>3, <2>4, LogBufferAssumption DEF Iterator
<1> QED
  BY <1>1, <1>2, LogBufferAssumption DEF Iterators

LEMMA LogKeeps ==
  ASSUME LifeTypes, RestTypes, Lives, Iterators, Log
  PROVE  LifeTypes' /\ RestTypes' /\ Lives' /\ Iterators'
<1> DEFINE e == Len(order) + 1
<1>1. LifeTypes' /\ Lives'
  BY DEF Log, LifeTypes, Lives, Life, flagVars, threadVars, clientVars, threadRunning, isError
<1>2. e \in 1 .. MaxLogs /\ order \in Seq(1 .. MaxLogs) /\ live' = live \cup {e}
      /\ live \subseteq 1 .. Len(order) /\ Len(order) \in Nat
  <2>1. e + clears <= MaxLogs /\ clears \in Nat /\ Len(order) \in Nat
    BY OrderFacts DEF Log, RestTypes
  <2>2. e \in 1 .. MaxLogs
    BY <2>1, LogBufferAssumption
  <2> QED
    BY <2>1, <2>2 DEF Log, RestTypes
<1>3. order' = Append(order, e) \/ \E i \in DOMAIN order : order' = InsertBefore(i, e)
  BY DEF Log, Later, Positions
<1>4. /\ order' \in Seq(1 .. MaxLogs) /\ Len(order') = e
      /\ {order'[j] : j \in DOMAIN order'} = {order[j] : j \in DOMAIN order} \cup {e}
  <2>1. CASE order' = Append(order, e)
    <3>1. order' \in Seq(1 .. MaxLogs) /\ Len(order') = e /\ DOMAIN order' = 1 .. e
          /\ DOMAIN order = 1 .. Len(order)
      BY <1>2, <2>1
    <3>2. \A j \in DOMAIN order : j \in DOMAIN order' /\ order'[j] = order[j]
      BY <1>2, <2>1, <3>1
    <3>3. order'[e] = e /\ \A j \in DOMAIN order' : j = e \/ j \in DOMAIN order
      BY <1>2, <2>1, <3>1
    <3> QED
      BY <1>2, <3>1, <3>2, <3>3
  <2>2. ASSUME NEW i \in DOMAIN order, order' = InsertBefore(i, e)
        PROVE  /\ order' \in Seq(1 .. MaxLogs) /\ Len(order') = e
               /\ {order'[j] : j \in DOMAIN order'} = {order[j] : j \in DOMAIN order} \cup {e}
    <3>1. MaxLogs \in Nat /\ order \in Seq(1 .. MaxLogs) /\ e \in 1 .. MaxLogs
      BY <1>2, LogBufferAssumption
    <3>2. /\ InsertBefore(i, e) \in Seq(1 .. MaxLogs)
          /\ Len(InsertBefore(i, e)) = Len(order) + 1
          /\ {InsertBefore(i, e)[j] : j \in DOMAIN InsertBefore(i, e)}
               = {order[j] : j \in DOMAIN order} \cup {e}
      BY <3>1, <2>2, InsertType
    <3> QED
      BY <2>2, <3>2
  <2> QED
    BY <1>3, <2>1, <2>2
<1>5. RestTypes'
  <2>1. live' \subseteq 1 .. Len(order')
    <3>1. 1 .. Len(order) \subseteq 1 .. e /\ e \in 1 .. e
      BY <1>2
    <3> QED
      BY <1>2, <1>4, <3>1
  <2>2. elementsLock' = WRITER /\ writer' = "prune"
    BY DEF Log
  <2> QED
    BY <1>4, <2>1, <2>2 DEF Log, RestTypes, rangeVars, threadVars
<1>6. Iterators'
  <2>1. live' \subseteq {order'[i] : i \in DOMAIN order'}
    BY <1>2, <1>4 DEF Iterators
  <2>2. ASSUME NEW d \in Clients PROVE Iterator(d)'
    <3>1. Iterator(d)
      BY DEF Iterators
    <3> QED
      BY <1>2, <3>1, LogBufferAssumption DEF Log, Iterator, flagVars, rangeVars, threadVars
  <2> QED
    BY <2>1, <2>2, LogBufferAssumption DEF Log, Iterators
<1> QED
  BY <1>1, <1>5, <1>6

LEMMA MaybePruneKeeps ==
  ASSUME LifeTypes, RestTypes, Lives, Iterators, MaybePrune
  PROVE  LifeTypes' /\ RestTypes' /\ Lives' /\ Iterators'
<1> DEFINE sizes == Cardinality(live)
<1>1. /\ live' \subseteq live /\ live \ live' \subseteq Unlocked
      /\ \/ mRelease' = mRelease /\ pc' = pc
         \/ \E c \in Clients : Release(c) /\ c \in Owned
      /\ skipAhead' \in [Clients -> Nat]
  <2>1. CASE sizes > Size
    <3>1. sizes - (Size * 9) \div 10 \in Nat
      <4>1. IsFiniteSet(live)
        BY OrderFacts, FS_Subset DEF RestTypes
      <4>2. sizes \in Nat /\ Size \in Nat
        BY <4>1, FS_CardinalityType, LogBufferAssumption
      <4>3. (Size * 9) \div 10 \in Nat /\ (Size * 9) \div 10 <= Size
        BY <4>2
      <4> QED
        BY <2>1, <4>2, <4>3
    <3>2. Prune(sizes - (Size * 9) \div 10)
      BY <2>1 DEF MaybePrune
    <3> QED
      BY <3>1, <3>2, PruneStep
  <2>2. CASE ~(sizes > Size)
    BY <2>2 DEF MaybePrune, pruneVars, RestTypes
  <2> QED
    BY <2>1, <2>2
<1>2. UNCHANGED <<order, times, allocated, mRefCount, mError, mStart, mEnd, tail, start, at,
                  socket, mClients, clientRef, safeList, clears>>
  BY DEF MaybePrune, unpruned, clientVars
<1>3. elementsLock = WRITER /\ elementsLock' = NOBODY /\ writer' = "notify" /\ safeList' = {}
  BY <1>2 DEF MaybePrune, Iterators
<1>4. LifeTypes' /\ Lives'
  BY <1>1, <1>2, ReleaseLives
<1>5. RestTypes'
  BY <1>1, <1>2, <1>3 DEF RestTypes
<1>6. Iterators'
  BY <1>1, <1>2, <1>3, PruneIterators
<1> QED
  BY <1>4, <1>5, <1>6

LEMMA ClearKeeps ==
  ASSUME LifeTypes, RestTypes, Lives, Iterators, Clear
  PROVE  LifeTypes' /\ RestTypes' /\ Lives' /\ Iterators'
<1>1. /\ live' \subseteq live /\ live \ live' \subseteq Unlocked
      /\ \/ mRelease' = mRelease /\ pc' = pc
         \/ \E c \in Clients : Release(c) /\ c \in Owned
      /\ skipAhead' \in [Clients -> Nat]
  <2>1. CASE Prune(AllRows)
    BY <2>1, PruneStep, LogBufferAssumption
  <2>2. CASE /\ \E gone \in SUBSET Unlocked : live' = live \ gone
             /\ UNCHANGED <<mRelease, pc, skipAhead>>
    BY <2>2 DEF RestTypes
  <2> QED
    BY <2>1, <2>2 DEF Clear
<1>2. UNCHANGED <<order, times, allocated, mRefCount, mError, mStart, mEnd, tail, start, at,
                  socket, mClients, clientRef, safeList, elementsLock, writer>>
  BY DEF Clear, unpruned, clientVars
<1>3. elementsLock = NOBODY /\ elementsLock' = NOBODY /\ writer' # "prune"
      /\ (safeList' # {} => writer' = "signal")
  BY <1>2, LogBufferAssumption DEF Clear, Iterators
<1>4. LifeTypes' /\ Lives'
  BY <1>1, <1>2, ReleaseLives
<1>5. RestTypes'
  <2>1. clears' \in 0 .. MaxLogs
    <3>1. Len(order) \in Nat /\ clears \in Nat /\ Len(order) + clears < MaxLogs /\ clears' = clears + 1
      BY OrderFacts DEF Clear, RestTypes
    <3> QED
      BY <3>1, LogBufferAssumption
  <2> QED
    BY <1>1, <1>2, <2>1 DEF RestTypes
<1>6. Iterators'
  BY <1>1, <1>2, <1>3, PruneIterators
<1> QED
  BY <1>4, <1>5, <1>6

LEMMA NotifyKeeps ==
  ASSUME LifeTypes, RestTypes, Lives, Iterators, Notify
  PROVE  LifeTypes' /\ RestTypes' /\ Lives' /\ Iterators'
<1>1. UNCHANGED <<order, live, elementsLock, times, allocated, mRefCount, mRelease, mError,
                  mStart, mEnd, skipAhead, tail, pc, start, at, socket, mClients, clears>>
      /\ writer = "notify" /\ writer' = "signal"
  BY DEF Notify, listVars, flagVars, rangeVars, threadVars
<1>2. \A d \in Clients : clientRef'[d] = clientRef[d] + One(d \in mClients)
  BY DEF Notify
<1>3. LifeTypes'
  <2>1. clientRef' \in [Clients -> Nat]
    BY DEF LifeTypes, Notify, One
  <2> QED
    BY <1>1, <2>1 DEF LifeTypes, Notify
<1>4. safeList = {}
  BY <1>1 DEF Iterators
<1>5. ASSUME NEW d \in Clients PROVE Life(d)'
  <2>1. Life(d) /\ safeList' = mClients
    BY DEF Lives, Notify
  <2>2. clientRef'[d] = One(d \in mClients) + One(d \in safeList') + One(threadRunning(d))
    BY <1>2, <1>4, <2>1 DEF Life, One
  <2>3. socket[d] = "new" => d \notin safeList'
    BY <2>1 DEF Life
  <2> QED
    BY <1>1, <2>1, <2>2, <2>3 DEF Life, threadRunning, isError
<1>6. RestTypes'
  BY <1>1 DEF RestTypes
<1>7. Iterators'
  BY <1>1 DEF Iterators, Iterator
<1> QED
  BY <1>3, <1>5, <1>6, <1>7 DEF Lives

LEMMA IdleKeeps ==
  ASSUME LifeTypes, RestTypes, Lives, Iterators, Notified \/ UNCHANGED vars
  PROVE  LifeTypes' /\ RestTypes' /\ Lives' /\ Iterators'
<1>1. UNCHANGED <<order, live, elementsLock, times, allocated, mRefCount, mRelease, mError,
                  mStart, mEnd, skipAhead, tail, pc, start, at, socket, mClients, clientRef,
                  safeList, clears>>
      /\ (writer' = writer \/ (writer = "signal" /\ writer' = "idle" /\ safeList = {}))
  BY DEF Notified, vars, listVars, flagVars, rangeVars, threadVars, clientVars, writerVars
<1>2. LifeTypes' /\ RestTypes'
  BY <1>1 DEF LifeTypes, RestTypes
<1>3. Lives'
  BY <1>1 DEF Lives, Life, threadRunning, isError
<1>4. Iterators'
  BY <1>1 DEF Iterators, Iterator
<1> QED
  BY <1>2, <1>3, <1>4

-------------------------------------------------------------------------------
(* The theorems.                                                             *)

Inv == LifeTypes /\ RestTypes /\ Lives /\ Iterators

LEMMA InitInv ==
  ASSUME Init
  PROVE  Inv
<1>1. LifeTypes
  BY DEF Init, LifeTypes
<1>2. RestTypes
  <2>1. order \in Seq(1 .. MaxLogs) /\ live \subseteq 1 .. Len(order)
    BY DEF Init
  <2>2. tail \in [Clients -> [mTail : Nat, mCount : Nat, mIndex : Nat]]
    BY LogBufferAssumption DEF Init
  <2> QED
    BY <2>1, <2>2, LogBufferAssumption DEF Init, RestTypes
<1>3. Lives
  BY DEF Init, Lives, Life, One, threadRunning
<1>4. Iterators
  BY LogBufferAssumption DEF Init, Iterators, Iterator
<1> QED
  BY <1>1, <1>2, <1>3, <1>4 DEF Inv

LEMMA NextInv ==
  ASSUME Inv, [Next]_vars
  PROVE  Inv'
<1> USE DEF Inv
<1>1. CASE Log
  BY <1>1, LogKeeps
<1>2. CASE MaybePrune
  BY <1>2, MaybePruneKeeps
<1>3. CASE Clear
  BY <1>3, ClearKeeps
<1>4. CASE Notify
  BY <1>4, NotifyKeeps
<1>5. CASE Notified \/ UNCHANGED vars
  BY <1>5, IdleKeeps
<1>6. ASSUME NEW c \in Clients, NotifyOne(c) PROVE Inv'
  BY <1>6, NotifyOneLives, NotifyOneTypes, NotifyOneIterators
<1>7. ASSUME NEW c \in Clients, Request(c) PROVE Inv'
  BY <1>7, RequestLives, RequestTypes, RequestIterators
<1>8. ASSUME NEW c \in Clients, Close(c) PROVE Inv'
  BY <1>8, CloseLives, CloseTypes, CloseIterators
<1>9. ASSUME NEW c \in Clients, HangUp(c) PROVE Inv'
  BY <1>9, HangUpLives, HangUpTypes, HangUpIterators
<1>10. ASSUME NEW c \in Clients, Reader(c) PROVE Inv'
  <2>1. CASE Loop(c)
    BY <2>1, LoopLives, LoopTypes, LoopIterators
  <2>2. CASE FirstPass(c)
    BY <2>2, FirstPassLives, FirstPassTypes, FirstPassIterators
  <2>3. CASE Walk(c)
    BY <2>3, WalkLives, WalkTypes, WalkIterators
  <2>4. CASE WalkEnd(c)
    BY <2>4, WalkEndLives, WalkEndTypes, WalkEndIterators
  <2>5. CASE Send(c)
    BY <2>5, SendLives, SendTypes, SendIterators
  <2>6. CASE Flushed(c)
    BY <2>6, FlushedLives, FlushedTypes, FlushedIterators
  <2>7. CASE Stop(c)
    BY <2>7, StopLives, StopTypes, StopIterators
  <2> QED
    BY <1>10, <2>1, <2>2, <2>3, <2>4, <2>5, <2>6, <2>7 DEF Reader
<1>11. CASE Quiet
  <2>1. UNCHANGED vars
    BY <1>11 DEF Quiet
  <2> QED
    BY <2>1, IdleKeeps
<1> QED
  BY <1>1, <1>2, <1>3, <1>4, <1>5, <1>6, <1>7, <1>8, <1>9, <1>10, <1>11 DEF Next

LEMMA SpecInv == Spec => []Inv
<1>1. Init => Inv
  BY InitInv
<1>2. Inv /\ [Next]_vars => Inv'
  BY NextInv
<1> QED
  BY <1>1, <1>2, PTL DEF Spec

(* The state of the buffer and its threads is well formed.                 *)
THEOREM TypeCorrect == Spec => []TypeOK
<1>1. Inv => TypeOK
  BY TypesSplit DEF Inv
<1> QED
  BY <1>1, SpecInv, PTL

(* prune and clear never erase the element a reader's thread is at while    *)
(* the reader is in mTimes, whatever connections are given up: "range       *)
(* locking in LastLogTimes looks after us" (LogBuffer.cpp:505).             *)
THEOREM ListedRangesLocked == Spec => [](\A c \in times : at[c] # 0 => at[c] \in live)
<1>1. Inv => \A c \in times : at[c] # 0 => at[c] \in live
  BY DEF Inv, LifeTypes, Iterators, Iterator
<1> QED
  BY <1>1, SpecInv, PTL

(* So range locking fails only for a reader that doSocketDelete took off    *)
(* mTimes inside flushTo (LogReader.cpp:171); if that does not happen the   *)
(* element a thread is at is always in the list.                            *)
THEOREM RangeLocked ==
  ASSUME ~LateHangUp
  PROVE  Spec => []RangeLocking
<1>1. Inv => RangeLocking
  BY DEF Inv, Iterators, Iterator, RangeLocking
<1> QED
  BY <1>1, SpecInv, PTL

LEMMA LivesHold == Spec => []Lives
<1>1. Inv => Lives
  BY DEF Inv
<1> QED
  BY <1>1, SpecInv, PTL

(* LogTimes.h: an entry exists as long as mTimes or a thread refers to it,  *)
(* and has a reference exactly when a thread runs on it.                    *)
THEOREM EntriesAreFreed == Spec => []EntryLifetime
<1>1. Lives => EntryLifetime
  BY DEF Lives, Life, EntryLifetime, One
<1> QED
  BY <1>1, LivesHold, PTL

(* SocketClient.cpp: a client is referred to as often as the listener, a     *)
(* notification under way and a thread use it.                               *)
THEOREM ClientsAreClosed == Spec => []ClientLifetime
<1>1. Lives => ClientLifetime
  BY DEF Lives, Life, ClientLifetime, One
<1> QED
  BY <1>1, LivesHold, PTL

(* LogTimeEntry::threadStart: no thread sleeps that should go.               *)
THEOREM SleepersStay == Spec => []SleepersAreWanted
<1>1. Lives => SleepersAreWanted
  BY DEF Lives, Life, SleepersAreWanted
<1> QED
  BY <1>1, LivesHold, PTL
===============================================================================
