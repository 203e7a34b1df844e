------------------------------- MODULE LogBuffer ------------------------------
(***************************************************************************)
(* logd: the buffer of log elements, the thread that logs into it, the     *)
(* thread of administrative commands, the listener of the readers' socket  *)
(* and one thread for each reader (LogBuffer.cpp, LogTimes.cpp, LogTimes.h,*)
(* FlushCommand.cpp, LogReader.cpp, SocketListener.cpp).                   *)
(*                                                                         *)
(* Two mutexes: mLogElementsLock, which a reader gives up for every        *)
(* element it writes to its client, and timesLock, whose sections only     *)
(* take leaf locks and are single steps here.  An element a reader writes  *)
(* outside the locks is kept by the reader's mStart ("range locking").     *)
(* An element is named by its monotonic time, its number in the order of   *)
(* logging; every element has one size and belongs to one log id.          *)
(***************************************************************************)
EXTENDS Naturals, Sequences, FiniteSets

CONSTANTS
  Clients,     (* connections to the readers' socket                           *)
  NonBlock,    (* those that ask for dumpAndClose                              *)
  Leaving,     (* those that may close their connection                        *)
  TailOf,      (* the tail=<n> of each request, 0 if there is none             *)
  Size,        (* log_buffer_size, in elements                                 *)
  AllRows,     (* the ULONG_MAX rows of a clear                                *)
  Failing,     (* bound: those whose thread pthread_create may refuse          *)
  MaxLogs,     (* bound: messages logged and clear commands                    *)
  LateHangUp,  (* TRUE: the listener may notice a closed connection while the  *)
               (* reader's thread is inside flushTo                            *)
  NOBODY, WRITER

ASSUME LogBufferAssumption ==
  /\ NonBlock \subseteq Clients /\ Leaving \subseteq Clients /\ Failing \subseteq Clients
  /\ TailOf \in [Clients -> Nat]
  /\ Size \in Nat \ {0} /\ AllRows \in Nat /\ MaxLogs \in Nat
  /\ LateHangUp \in BOOLEAN
  /\ NOBODY \notin Clients /\ WRITER \notin Clients /\ NOBODY # WRITER

VARIABLES
  (* LogBuffer *)
  order,        (* all elements logged, in the order of the list mLogElements   *)
  live,         (* those that are in the list still                             *)
  elementsLock, (* the owner of mLogElementsLock                                *)
  times,        (* mTimes, the entries of readers; their order is left out      *)
  (* LogTimeEntry *)
  allocated, mRefCount, mRelease, mError, mStart, mEnd, skipAhead,
  tail,         (* mTail, mCount and mIndex                                     *)
  (* the threads *)
  pc,           (* of a reader's thread; "none": threadRunning is false         *)
  start,        (* the start of its pass over the list                          *)
  at,           (* the element its iterator is at, 0 before the first           *)
  writer,       (* of the thread that logs                                      *)
  clears,
  (* SocketListener and the clients *)
  socket, mClients, clientRef,
  safeList,     (* the clients runOnEachSocket has still to run on              *)
  (* history *)
  received,     (* the elements written to each client                          *)
  owed,         (* those logged while it followed the log                       *)
  dropped       (* those its thread was told to leave out                       *)

listVars == <<order, live>>
flagVars == <<times, allocated, mRefCount, mRelease, mError>>
rangeVars == <<mStart, mEnd, skipAhead, tail>>
threadVars == <<pc, start, at>>
clientVars == <<socket, mClients, clientRef>>
writerVars == <<writer, clears, safeList>>
historyVars == <<received, owed, dropped>>

vars == <<listVars, elementsLock, flagVars, rangeVars, threadVars, clientVars,
          writerVars, historyVars>>

One(b) == IF b THEN 1 ELSE 0

threadRunning(c) == pc[c] # "none"
isError(c) == mRelease[c] \/ mError[c]
Owned == {c \in times : mRefCount[c] # 0}

Init ==
  /\ order = <<>> /\ live = {}
  /\ elementsLock = NOBODY
  /\ times = {}
  /\ allocated = [c \in Clients |-> FALSE]
  /\ mRefCount = [c \in Clients |-> 0]
  /\ mRelease = allocated /\ mError = allocated
  /\ mStart = mRefCount /\ mEnd = mRefCount /\ skipAhead = mRefCount
  /\ tail = [c \in Clients |-> [mTail |-> TailOf[c], mCount |-> 0, mIndex |-> 0]]
  /\ pc = [c \in Clients |-> "none"]
  /\ start = mRefCount /\ at = mRefCount
  /\ writer = "idle" /\ clears = 0 /\ safeList = {}
  /\ socket = [c \in Clients |-> "new"] /\ mClients = {} /\ clientRef = mRefCount
  /\ received = [c \in Clients |-> <<>>]
  /\ owed = [c \in Clients |-> {}] /\ dropped = owed

-------------------------------------------------------------------------------
(* The writer: LogBuffer::log, then LogReader::notifyNewLog.                 *)

Positions == {i \in DOMAIN order : order[i] \in live}
First(S) == {i \in S : \A j \in S : i <= j}

(* Where the walk from the end stops depends on the clocks of those who    *)
(* log; it never looks at the first element.                               *)
Later == {i \in Positions : \E j \in Positions : j < i}

(* A reader that follows the log, or a dump that began after element e.    *)
RegionLocked(e) == \E c \in Owned : c \notin NonBlock \/ mEnd[c] >= e

InsertBefore(i, e) ==
  [j \in 1 .. Len(order) + 1 |->
     IF j < i THEN order[j] ELSE IF j = i THEN e ELSE order[j - 1]]

Log ==
  LET e == Len(order) + 1
  IN /\ writer = "idle" /\ elementsLock = NOBODY /\ e + clears <= MaxLogs
     /\ \/ order' = Append(order, e)
        \/ \E last \in Later :
             ~RegionLocked(order[last]) /\ order' = InsertBefore(last, e)
     /\ live' = live \cup {e}
     /\ owed' = [c \in Clients |->
                   IF c \in Owned \ NonBlock THEN owed[c] \cup {e} ELSE owed[c]]
     /\ elementsLock' = WRITER
     /\ writer' = "prune"
     /\ UNCHANGED <<flagVars, rangeVars, threadVars, clientVars, clears, safeList,
                    received, dropped>>

Woken(c) == [pc EXCEPT ![c] = IF @ = "wait" THEN "loop" ELSE @]

(* The entry prune respects, any of those furthest back.                   *)
Oldest(c) == c \in Owned /\ \A d \in Owned : mStart[c] <= mStart[d]

(* Mutant: a dump, whose thread ends by itself, locks no region. *)
MutUnlocked ==
  {e \in live : \A i, j \in Positions :
     order[j] = e /\ i <= j => \A c \in Owned \ NonBlock : order[i] < mStart[c]}

(* Mutant: only dumps lock a region. *)
MutUnlockedByDumps ==
  {e \in live : \A i, j \in Positions :
     order[j] = e /\ i <= j => \A c \in Owned \cap NonBlock : order[i] < mStart[c]}

(* The elements in front of the first one a reader may still need.         *)
Unlocked ==
  {e \in live : \A i, j \in Positions :
     order[j] = e /\ i <= j => \A c \in Owned : order[i] < mStart[c]}

(* Mutant: release_Locked without the signal. *)
MutRelease(c) == mRelease' = [mRelease EXCEPT ![c] = TRUE] /\ UNCHANGED pc

(* release_Locked of an entry somebody refers to. *)
Release(c) == mRelease' = [mRelease EXCEPT ![c] = TRUE] /\ pc' = Woken(c)

(* prune: which of the unprotected elements go depends on the sizes of the *)
(* uids and the two lists, how many does not.  If they are too few, the    *)
(* oldest reader is told to skip, or to go when the buffer has outgrown    *)
(* twice its size.                                                         *)
Prune(rows) ==
  \E gone \in SUBSET Unlocked :
    LET missing == rows - Cardinality(gone)
        short == missing > 0 /\ Unlocked # live
    IN /\ IF rows <= Cardinality(Unlocked) THEN Cardinality(gone) = rows ELSE gone = Unlocked
       /\ live' = live \ gone
       /\ \/ /\ short /\ Cardinality(live') > 2 * Size
             /\ \E c \in Clients : Oldest(c) /\ Release(c)
             /\ UNCHANGED skipAhead
          \/ /\ short /\ Cardinality(live') <= 2 * Size
             /\ \E c \in Clients :
                  Oldest(c) /\ skipAhead' = [skipAhead EXCEPT ![c] = missing]
             /\ UNCHANGED <<mRelease, pc>>
          \/ ~short /\ UNCHANGED <<mRelease, pc, skipAhead>>

pruneVars == <<live, mRelease, pc, skipAhead>>

unpruned == <<order, times, allocated, mRefCount, mError, mStart, mEnd, tail,
              start, at, clientVars, safeList, historyVars>>

(* maybePrune: down to nine tenths of the size. *)
MaybePrune ==
  LET sizes == Cardinality(live)
  IN /\ writer = "prune"
     /\ IF sizes > Size THEN Prune(sizes - (Size * 9) \div 10) ELSE UNCHANGED pruneVars
     /\ elementsLock' = NOBODY
     /\ writer' = "notify"
     /\ UNCHANGED <<unpruned, clears>>

(* CommandListener: clear by one with the credentials, and by another uid. *)
Clear ==
  /\ elementsLock = NOBODY /\ Len(order) + clears < MaxLogs
  /\ clears' = clears + 1
  /\ \/ Prune(AllRows)
     \/ /\ \E gone \in SUBSET Unlocked : live' = live \ gone
        /\ UNCHANGED <<mRelease, pc, skipAhead>>
  /\ UNCHANGED <<unpruned, elementsLock, writer>>

(* runOnEachSocket: a copy of the list of clients, each with a reference.  *)
Notify ==
  /\ writer = "notify"
  /\ writer' = "signal"
  /\ safeList' = mClients
  /\ clientRef' = [c \in Clients |-> clientRef[c] + One(c \in mClients)]
  /\ UNCHANGED <<listVars, elementsLock, flagVars, rangeVars, threadVars, socket, mClients,
                 clears, historyVars>>

-------------------------------------------------------------------------------
(* Readers come and go: LogReader::onDataAvailable, FlushCommand.            *)

(* Mutant: the reference to the entry is kept when there is no thread. *)
MutstartReader(c, refs, clients) ==
  /\ pc' = [pc EXCEPT ![c] = IF c \in Failing THEN @ ELSE "loop"]
  /\ mRefCount' = [mRefCount EXCEPT ![c] = refs]
  /\ clientRef' = [clients EXCEPT ![c] = @ + One(c \notin Failing)]

(* startReader_Locked: the thread may not come to be; then the references   *)
(* of the client and of the entry are returned.  clients: clientRef before. *)
startReader(c, refs, clients) ==
  \/ /\ pc' = [pc EXCEPT ![c] = "loop"]
     /\ mRefCount' = [mRefCount EXCEPT ![c] = refs]
     /\ clientRef' = [clients EXCEPT ![c] = @ + 1]
  \/ /\ c \in Failing
     /\ mRefCount' = [mRefCount EXCEPT ![c] = refs - 1]
     /\ clientRef' = clients
     /\ UNCHANGED pc

(* runSocketCommand for a client that has an entry. *)
Trigger(c, clients) ==
  LET running == threadRunning(c) \/ isError(c) \/ c \in NonBlock
  IN \/ /\ running
        /\ pc' = Woken(c)
        /\ clientRef' = clients
        /\ UNCHANGED mRefCount
     \/ /\ ~running
        /\ startReader(c, mRefCount[c] + 1, clients)

(* Mutant: a client that has no entry keeps the reference of the list. *)
MutNotifyOne(c) ==
  /\ writer = "signal" /\ c \in safeList
  /\ safeList' = safeList \ {c}
  /\ writer' = IF safeList' = {} THEN "idle" ELSE writer
  /\ IF c \in times THEN Trigger(c, [clientRef EXCEPT ![c] = @ - 1])
     ELSE UNCHANGED <<pc, clientRef, mRefCount>>
  /\ UNCHANGED <<listVars, elementsLock, times, allocated, mRelease, mError, rangeVars,
                 start, at, socket, mClients, clears, historyVars>>

NotifyOne(c) ==
  LET clients == [clientRef EXCEPT ![c] = @ - 1]
  IN /\ writer = "signal" /\ c \in safeList
     /\ safeList' = safeList \ {c}
     /\ writer' = IF safeList' = {} THEN "idle" ELSE writer
     /\ IF c \in times THEN Trigger(c, clients)
        ELSE clientRef' = clients /\ UNCHANGED <<pc, mRefCount>>
     /\ UNCHANGED <<listVars, elementsLock, times, allocated, mRelease, mError, rangeVars,
                    start, at, socket, mClients, clears, historyVars>>

Notified ==
  /\ writer = "signal" /\ safeList = {}
  /\ writer' = "idle"
  /\ UNCHANGED <<listVars, elementsLock, flagVars, rangeVars, threadVars, clientVars,
                 clears, safeList, historyVars>>

(* A connection is accepted and its one request makes its entry.  Before   *)
(* the request it has none, and NotifyOne would pass it over.              *)
Request(c) ==
  /\ socket[c] = "new"
  /\ socket' = [socket EXCEPT ![c] = "open"]
  /\ mClients' = mClients \cup {c}
  /\ allocated' = [allocated EXCEPT ![c] = TRUE]
  /\ times' = times \cup {c}
  /\ mEnd' = [mEnd EXCEPT ![c] = Len(order)]
  /\ startReader(c, 1, [clientRef EXCEPT ![c] = 1])
  /\ UNCHANGED <<listVars, elementsLock, mRelease, mError, mStart, skipAhead, tail, start, at,
                 writerVars, historyVars>>

Close(c) ==
  /\ c \in Leaving /\ socket[c] = "open"
  /\ socket' = [socket EXCEPT ![c] = "closed"]
  /\ UNCHANGED <<listVars, elementsLock, flagVars, rangeVars, threadVars, mClients, clientRef,
                 writerVars, historyVars>>

(* The listener reads the end of the connection: doSocketDelete, release.  *)
HangUp(c) ==
  /\ socket[c] = "closed" /\ c \in mClients
  /\ LateHangUp \/ pc[c] \notin {"walk", "send"}
  /\ IF c \in times
     THEN /\ times' = times \ {c}
          /\ Release(c)
          /\ allocated' = [allocated EXCEPT ![c] = mRefCount[c] # 0 \/ threadRunning(c)]
     ELSE UNCHANGED <<times, allocated, mRelease, pc>>
  /\ mClients' = mClients \ {c}
  /\ clientRef' = [clientRef EXCEPT ![c] = @ - 1]
  /\ UNCHANGED <<listVars, elementsLock, mRefCount, mError, rangeVars, start, at, socket,
                 writerVars, historyVars>>

-------------------------------------------------------------------------------
(* A reader's thread: LogTimeEntry::threadStart, LogBuffer::flushTo.         *)

Goes(c, to) == pc' = [pc EXCEPT ![c] = to]

Loop(c) ==
  /\ pc[c] = "loop"
  /\ start' = [start EXCEPT ![c] = mStart[c]]
  /\ at' = [at EXCEPT ![c] = 0]
  /\ Goes(c, IF isError(c) THEN "stop" ELSE IF tail[c].mTail # 0 THEN "first" ELSE "walk")
  /\ UNCHANGED <<listVars, elementsLock, flagVars, rangeVars, clientVars, writerVars,
                 historyVars>>

(* Mutant: the element at start is offered again. *)
MutAhead(c) ==
  {i \in Positions : /\ order[i] >= start[c]
                     /\ \A j \in DOMAIN order : order[j] = at[c] => i > j}

(* The elements flushTo offers to the filter from now on. *)
Ahead(c) ==
  {i \in Positions : /\ order[i] > start[c]
                     /\ \A j \in DOMAIN order : order[j] = at[c] => i > j}

(* FilterFirstPass counts; the lock is held all along. *)
FirstPass(c) ==
  /\ pc[c] = "first" /\ elementsLock = NOBODY
  /\ tail' = [tail EXCEPT ![c].mCount = @ + Cardinality(Ahead(c))]
  /\ \/ /\ tail[c].mCount = 0
        /\ \E i \in First(Ahead(c)) : mStart' = [mStart EXCEPT ![c] = order[i]]
     \/ /\ tail[c].mCount # 0 \/ Ahead(c) = {}
        /\ UNCHANGED mStart
  /\ Goes(c, "walk")
  /\ UNCHANGED <<listVars, elementsLock, flagVars, mEnd, skipAhead, start, at, clientVars,
                 writerVars, historyVars>>

(* Mutant: the race between the passes is not closed. *)
MutTruncated(c) == FALSE

Truncated(c) == c \in NonBlock /\ tail[c].mTail # 0 /\ tail[c].mIndex >= tail[c].mCount

(* It is more than mTail elements from the end. *)
BeforeTail(c) == tail[c].mTail # 0 /\ tail[c].mIndex + 1 + tail[c].mTail <= tail[c].mCount

(* Mutant: triggerSkip_Locked leaves a count that is not looked at. *)
MutSkips(c) == TRUE

Skips(c) == skipAhead[c] > 0

(* FilterSecondPass for the next element: to leave it out, or to send it   *)
(* and give up the lock.                                                   *)
Visit(c, e) ==
  LET send == ~Truncated(c) /\ ~isError(c) /\ ~BeforeTail(c)
  IN /\ at' = [at EXCEPT ![c] = e]
     /\ \/ /\ Skips(c)
           /\ skipAhead' = [skipAhead EXCEPT ![c] = @ - 1]
           /\ dropped' = [dropped EXCEPT ![c] = @ \cup {e}]
           /\ elementsLock' = c
           /\ UNCHANGED <<mStart, tail, pc>>
        \/ /\ ~Skips(c)
           /\ mStart' = [mStart EXCEPT ![c] = e]
           /\ tail' = [tail EXCEPT ![c] =
                [mTail |-> IF send /\ c \notin NonBlock THEN 0 ELSE @.mTail,
                 mCount |-> @.mCount,
                 mIndex |-> IF Truncated(c) \/ isError(c) \/ @.mTail = 0 THEN @.mIndex
                            ELSE @.mIndex + 1]]
           /\ dropped' = [dropped EXCEPT ![c] = IF send THEN @ ELSE @ \cup {e}]
           /\ elementsLock' = IF send THEN NOBODY ELSE c
           /\ Goes(c, IF send THEN "send" ELSE "walk")
           /\ UNCHANGED skipAhead

Walk(c) ==
  /\ pc[c] = "walk" /\ elementsLock \in {NOBODY, c}
  /\ \E i \in First(Ahead(c)) : Visit(c, order[i])
  /\ UNCHANGED <<listVars, flagVars, mEnd, start, clientVars, writerVars, received, owed>>

WalkEnd(c) ==
  /\ pc[c] = "walk" /\ elementsLock \in {NOBODY, c} /\ Ahead(c) = {}
  /\ elementsLock' = NOBODY
  /\ Goes(c, "flushed")
  /\ start' = [start EXCEPT ![c] = 0] /\ at' = [at EXCEPT ![c] = 0]
  /\ UNCHANGED <<listVars, flagVars, rangeVars, clientVars, writerVars, historyVars>>

(* LogBufferElement::flushTo, with no lock held. *)
Send(c) ==
  /\ pc[c] = "send"
  /\ \/ /\ socket[c] # "closed"
        /\ received' = [received EXCEPT ![c] = Append(@, at[c])]
        /\ Goes(c, "walk")
        /\ UNCHANGED <<start, at>>
     \/ /\ socket[c] = "closed"
        /\ Goes(c, "failed")
        /\ start' = [start EXCEPT ![c] = 0] /\ at' = [at EXCEPT ![c] = 0]
        /\ UNCHANGED received
  /\ UNCHANGED <<listVars, elementsLock, flagVars, rangeVars, clientVars,
                 writerVars, owed, dropped>>

(* After flushTo: to the end of the thread, or to sleep. *)
Flushed(c) ==
  /\ pc[c] \in {"flushed", "failed"}
  /\ mError' = [mError EXCEPT ![c] = @ \/ pc[c] = "failed"]
  /\ Goes(c, IF c \in NonBlock \/ mRelease[c] \/ mError'[c] THEN "stop" ELSE "wait")
  /\ UNCHANGED <<listVars, elementsLock, times, allocated, mRefCount, mRelease, rangeVars,
                 start, at, clientVars, writerVars, historyVars>>

(* threadStop: an entry in error leaves the list, the client is released.  *)
Stop(c) ==
  /\ pc[c] = "stop"
  /\ mError' = [mError EXCEPT ![c] = @ \/ c \in NonBlock]
  /\ times' = times \ {c}
  /\ mRelease' = [mRelease EXCEPT ![c] = @ \/ c \in times]
  /\ mClients' = mClients \ {c}
  /\ clientRef' = [clientRef EXCEPT ![c] = @ - 1 - One(c \in mClients)]
  /\ mRefCount' = [mRefCount EXCEPT ![c] = IF @ > 0 THEN @ - 1 ELSE 0]
  /\ allocated' = [allocated EXCEPT ![c] = mRefCount'[c] # 0 \/ ~mRelease'[c]]
  /\ Goes(c, "none")
  /\ UNCHANGED <<listVars, elementsLock, rangeVars, start, at, socket, writerVars, historyVars>>

(* Everything was logged and every reader sleeps or is gone. *)
Quiet ==
  /\ Len(order) + clears = MaxLogs /\ writer = "idle"
  /\ \A c \in Clients : pc[c] \in {"none", "wait"}
  /\ UNCHANGED vars

Reader(c) ==
  Loop(c) \/ FirstPass(c) \/ Walk(c) \/ WalkEnd(c) \/ Send(c) \/ Flushed(c) \/ Stop(c)

Next ==
  \/ Log
  \/ MaybePrune
  \/ Clear
  \/ Notify
  \/ Notified
  \/ \E c \in Clients : NotifyOne(c)
  \/ \E c \in Clients : Request(c)
  \/ \E c \in Clients : Close(c)
  \/ \E c \in Clients : HangUp(c)
  \/ \E c \in Clients : Reader(c)
  \/ Quiet

Spec == Init /\ [][Next]_vars

-------------------------------------------------------------------------------
(* The state is well formed. *)
TypeOK ==
  /\ order \in Seq(1 .. MaxLogs) /\ live \subseteq 1 .. Len(order)
  /\ elementsLock \in Clients \cup {NOBODY, WRITER}
  /\ times \subseteq Clients
  /\ allocated \in [Clients -> BOOLEAN] /\ mRefCount \in [Clients -> Nat]
  /\ mRelease \in [Clients -> BOOLEAN] /\ mError \in [Clients -> BOOLEAN]
  /\ mStart \in [Clients -> Nat] /\ mEnd \in [Clients -> Nat] /\ skipAhead \in [Clients -> Nat]
  /\ tail \in [Clients -> [mTail : Nat, mCount : Nat, mIndex : Nat]]
  /\ pc \in [Clients -> {"none", "loop", "first", "walk", "send", "flushed", "failed",
                         "wait", "stop"}]
  /\ start \in [Clients -> Nat] /\ at \in [Clients -> Nat]
  /\ writer \in {"idle", "prune", "notify", "signal"} /\ clears \in 0 .. MaxLogs
  /\ socket \in [Clients -> {"new", "open", "closed"}]
  /\ mClients \subseteq Clients /\ safeList \subseteq Clients
  /\ clientRef \in [Clients -> Nat]

(* "range locking in LastLogTimes looks after us" (LogBuffer.cpp:505): the  *)
(* element a thread is at, which it writes with no lock held and steps on   *)
(* from afterwards, is in the list until the thread has left it.            *)
RangeLocking == \A c \in Clients : at[c] # 0 => at[c] \in live

(* The lifetime of LogTimeEntry (LogTimes.h): entries in the list and those *)
(* a thread runs on exist; one that neither holds does not; the last        *)
(* reference goes with the thread.                                          *)
EntryLifetime ==
  \A c \in Clients :
    /\ allocated[c] <=> c \in times \/ threadRunning(c)
    /\ mRefCount[c] = IF threadRunning(c) THEN 1 ELSE 0

(* The lifetime of SocketClient: one reference for the listener's list, one *)
(* for the copy runOnEachSocket works on and one for the reader's thread,   *)
(* so that the connection is closed exactly when nobody uses it.            *)
ClientLifetime ==
  \A c \in Clients :
    clientRef[c] = One(c \in mClients) + One(c \in safeList) + One(threadRunning(c))

Following(c) == c \in Owned \ NonBlock /\ ~isError(c) /\ pc[c] # "failed"

Received(c) == {received[c][i] : i \in DOMAIN received[c]}

(* prune and the readers: an element logged while a reader follows the log  *)
(* is sent, or left out because the reader was told so, or kept for its     *)
(* next pass or this one; it is never erased behind the reader's back nor   *)
(* passed over, whatever is pruned or cleared.                              *)
NoLogLost ==
  \A c \in Clients : Following(c) =>
    \A e \in owed[c] : \/ e \in Received(c) \cup dropped[c]
                       \/ e \in live /\ mStart[c] < e
                       \/ e \in live /\ mStart[c] = e /\ pc[c] \in {"walk", "send"}

(* log() places an element at the end when a reader follows ("if end is     *)
(* region locked, place element at end of list"): however the loggers'      *)
(* clocks disagree, such a reader gets each new element once, in the order  *)
(* of logging.                                                              *)
InOrderOnce ==
  \A c \in Clients : \A i, j \in DOMAIN received[c] :
    i < j /\ {received[c][i], received[c][j]} \subseteq owed[c]
      => received[c][i] < received[c][j]

(* "Truncate to close race between first and second pass": a dump with      *)
(* tail=n is never longer than n, whatever is logged between the passes.    *)
TailIsTail ==
  \A c \in NonBlock : TailOf[c] # 0 => Len(received[c]) <= TailOf[c]

(* LogTimeEntry::threadStart: the flags are set and looked at under         *)
(* timesLock, so that no thread sleeps on its condition that should go: a   *)
(* dump, or a reader that was kicked or has hung up.                        *)
SleepersAreWanted ==
  \A c \in Clients : pc[c] = "wait" => c \in times \ NonBlock /\ ~isError(c)
===============================================================================
