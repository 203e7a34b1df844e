---------------------- MODULE AdbStreamDeliveryProofs -------------------------
(***************************************************************************)
(* Theorems about what the ends of a stream of AdbStream receive, for any   *)
(* number of streams, chunks and faults, if a server restarts only when its *)
(* connection is established.                                               *)
(*                                                                         *)
(* They rest on Sessions of AdbStreamProofs, in three layers.  Flow: of     *)
(* each direction of a stream one token exists at most, in turn the right   *)
(* to read, a WRITE, a packet to be written and an OKAY.  Closes: a CLOSE   *)
(* comes behind all that was read, and finds it written or waiting.  Owing: *)
(* an open socket has a peer and the token of its direction exists, or it   *)
(* will learn that it has none.                                             *)
(***************************************************************************)
EXTENDS AdbStreamProofs

-------------------------------------------------------------------------------
(* Flow.                                                                     *)

Delivered(p, k) == chunks[Other(p)][k] = Len(written[p][k])
Outstanding(p, k) == chunks[Other(p)][k] = Len(written[p][k]) + 1
Last(p, k) == <<Other(p), k, chunks[Other(p)][k]>>

Writes(p, k) == {n \in DOMAIN wire[p] : wire[p][n].cmd = "WRTE" /\ wire[p][n].data[2] = k}
Okays(p, i) == {n \in DOMAIN wire[p] : wire[p][n].cmd = "OKAY" /\ wire[p][n].arg1 = i}

InOrder(p, k) ==
  /\ Len(written[p][k]) <= chunks[Other(p)][k]
  /\ \A n \in DOMAIN written[p][k] : written[p][k][n] = <<Other(p), k, n>>

OneWrite(p, k) ==
  \A n \in Writes(Other(p), k) :
    /\ wire[Other(p)][n].data = Last(p, k) /\ Outstanding(p, k)
    /\ \A m \in Writes(Other(p), k) : m = n

OnePending(p, i, k) ==
  LET s == socket[p][i] IN s.stream = k /\ s.pending # <<>> =>
    s.pending = <<Last(p, k)>> /\ Outstanding(p, k) /\ Writes(Other(p), k) = {}

(* An end that may read, now or after an OKAY, has delivered all.            *)
OneCredit(p, i, k) ==
  LET s == socket[p][i] IN s.state = "open" /\ s.stream = k =>
    /\ s.reading => Delivered(Other(p), k) /\ Okays(Other(p), i) = {}
    /\ \A n \in Okays(Other(p), i) :
         Delivered(Other(p), k) /\ \A m \in Okays(Other(p), i) : m = n

NothingYet ==
  /\ \A p \in Peers, k \in Streams : opened < k => chunks[p][k] = 0
  /\ \A n \in DOMAIN wire[Host] : wire[Host][n].cmd = "OPEN" =>
       \A p \in Peers : chunks[p][wire[Host][n].data[2]] = 0

Flow ==
  /\ \A p \in Peers, k \in Streams : InOrder(p, k) /\ OneWrite(p, k)
  /\ \A p \in Peers, i \in Ids, k \in Streams : OnePending(p, i, k) /\ OneCredit(p, i, k)
  /\ NothingYet

-------------------------------------------------------------------------------
(* Closes.                                                                   *)

OpenFor(p, k) == \E i \in Ids : socket[p][i].state = "open" /\ socket[p][i].stream = k

(* Nothing of stream k that end p's socket i should get is missing.          *)
Arriving(p, i, k) ==
  Delivered(p, k) \/ socket[p][i].pending # <<>> \/ Writes(Other(p), k) # {}

CloseTo(p, n, i) == wire[p][n].cmd = "CLSE" /\ wire[p][n].arg1 = i

NothingLost(p, i, k) ==
  LET q == Other(p) IN
  socket[p][i].state = "open" /\ socket[p][i].stream = k =>
    /\ ~broken[q] /\ OpenFor(q, k) => Arriving(p, i, k)
    /\ \A n \in DOMAIN wire[q] : CloseTo(q, n, i) =>
         /\ ~OpenFor(q, k) /\ Arriving(p, i, k)
         /\ \A m \in Writes(q, k) : m < n

(* What was read for end p of stream k is written or waits to be.           *)
Held(p, k) ==
  Delivered(p, k) \/ \E i \in Ids : socket[p][i].stream = k /\ socket[p][i].pending # <<>>

(* A stream that was closed because its other end was.                       *)
ClosedWell(p, k) ==
  ended[p][k] = "clse" =>
    /\ k <= opened
    /\ ~OpenFor(p, k) /\ ~OpenFor(Other(p), k) /\ Writes(Other(p), k) = {}
    /\ \A n \in DOMAIN wire[Host] : wire[Host][n].cmd = "OPEN" => wire[Host][n].data[2] # k
    /\ Held(p, k)

(* No socket of the device but j takes what is sent of stream k.             *)
Receives(j, k) ==
  \A l \in Ids : socket[Device][l].state = "open" /\ socket[Device][l].stream = k => l = j

Receivers ==
  /\ \A n \in DOMAIN wire[Host] :
       wire[Host][n].cmd = "WRTE" => Receives(wire[Host][n].arg1, wire[Host][n].data[2])
  /\ \A i \in Ids : LET s == socket[Host][i] IN
       s.state = "open" /\ s.peer # 0 => Receives(s.peer, s.stream)
  /\ online[Host] => \A n \in DOMAIN wire[Device] :
       wire[Device][n].cmd = "OKAY" => Receives(wire[Device][n].arg0, StreamOf(wire[Device][n].arg1))

Closes ==
  /\ Receivers
  /\ \A p \in Peers, i \in Ids, k \in Streams : NothingLost(p, i, k)
  /\ \A p \in Peers, k \in Streams : ClosedWell(p, k)

-------------------------------------------------------------------------------
(* How a step leaves alone what it does not touch.                           *)

(* The packets of some commands are those of before, d places further on.   *)
Come(r, d, commands) ==
  /\ d \in Nat
  /\ \A n \in DOMAIN wire'[r] : wire'[r][n].cmd \in commands =>
       /\ n \in Nat /\ n + d \in DOMAIN wire[r] /\ wire'[r][n] = wire[r][n + d]

Carries == {"WRTE", "OKAY", "OPEN"}

WritesCome(r, d, k) ==
  d \in Nat /\ \A n \in Writes(r, k)' :
    n \in Nat /\ n + d \in Writes(r, k) /\ wire'[r][n] = wire[r][n + d]

OkaysCome(r, d, i) == d \in Nat /\ \A n \in Okays(r, i)' : n \in Nat /\ n + d \in Okays(r, i)

LEMMA TokensCome ==
  ASSUME NEW r, NEW d, NEW c, Come(r, d, c)
  PROVE  /\ "WRTE" \in c => \A k : WritesCome(r, d, k)
         /\ "OKAY" \in c => \A i : OkaysCome(r, d, i)
<1>1. \A k : Writes(r, k)' = {n \in DOMAIN wire'[r] : wire'[r][n].cmd = "WRTE" /\ wire'[r][n].data[2] = k}
  BY DEF Writes
<1>2. \A i : Okays(r, i)' = {n \in DOMAIN wire'[r] : wire'[r][n].cmd = "OKAY" /\ wire'[r][n].arg1 = i}
  BY DEF Okays
<1> QED
  BY <1>1, <1>2 DEF Come, WritesCome, OkaysCome, Writes, Okays

(* Of stream k nothing new was read at p's other end or written at p.        *)
Rests(p, k) == chunks'[Other(p)][k] = chunks[Other(p)][k] /\ written'[p][k] = written[p][k]

LEMMA FlowTypes ==
  ASSUME IInv
  PROVE  /\ \A p \in Peers, k \in Streams :
              /\ chunks[p][k] \in Nat /\ written[p][k] \in Seq(Data)
              /\ Len(written[p][k]) \in Nat
              /\ DOMAIN written[p][k] = 1 .. Len(written[p][k])
         /\ \A p \in Peers, i \in Ids : socket[p][i].state # "free" =>
              socket[p][i].stream \in Streams /\ socket[p][i].pending \in Seq(Data)
<1>1. HistoryOK /\ SocketsWhole
  BY InvParts
<1> QED
  BY <1>1, InUse DEF HistoryOK

LEMMA OrderRests ==
  ASSUME NEW p, NEW k, InOrder(p, k), Rests(p, k)
  PROVE  InOrder(p, k)'
  BY DEF InOrder, Rests

LEMMA WritesRest ==
  ASSUME NEW p, NEW k, NEW d, WritesCome(Other(p), d, k), Rests(p, k)
  PROVE  /\ OneWrite(p, k) => OneWrite(p, k)'
         /\ Writes(Other(p), k) = {} => Writes(Other(p), k)' = {}
<1> DEFINE q == Other(p)
<1>1. \A n \in Writes(q, k)' :
        n \in Nat /\ n + d \in Writes(q, k) /\ wire'[q][n] = wire[q][n + d]
  BY DEF WritesCome
<1>2. d \in Nat
  BY DEF WritesCome
<1>3. ASSUME OneWrite(p, k)
      PROVE  OneWrite(p, k)'
  <2> SUFFICES ASSUME NEW n \in Writes(q, k)'
               PROVE  /\ wire'[q][n].data = Last(p, k)' /\ Outstanding(p, k)'
                      /\ \A m \in Writes(q, k)' : m = n
    BY DEF OneWrite
  <2>1. /\ n \in Nat /\ n + d \in Writes(q, k) /\ wire'[q][n] = wire[q][n + d]
    BY <1>1
  <2>2. /\ wire[q][n + d].data = Last(p, k) /\ Outstanding(p, k)
        /\ \A m \in Writes(q, k) : m = n + d
    BY <1>3, <2>1 DEF OneWrite
  <2>3. Last(p, k)' = Last(p, k) /\ Outstanding(p, k)'
    BY <2>2 DEF Last, Outstanding, Rests
  <2>4. ASSUME NEW m \in Writes(q, k)'
        PROVE  m = n
    <3>1. m \in Nat /\ m + d = n + d
      BY <1>1, <2>2
    <3> QED
      BY <1>2, <2>1, <3>1
  <2> QED
    BY <2>1, <2>2, <2>3, <2>4
<1> QED
  BY <1>1, <1>3

LEMMA PendingRests ==
  ASSUME NEW p, NEW i, NEW k, OnePending(p, i, k),
         NEW d, WritesCome(Other(p), d, k),
         socket'[p][i].stream = k /\ socket'[p][i].pending # <<>> =>
           /\ socket[p][i].stream = k /\ socket'[p][i].pending = socket[p][i].pending
           /\ Rests(p, k)
  PROVE  OnePending(p, i, k)'
<1> SUFFICES ASSUME socket'[p][i].stream = k, socket'[p][i].pending # <<>>
             PROVE  /\ socket'[p][i].pending = <<Last(p, k)'>> /\ Outstanding(p, k)'
                    /\ Writes(Other(p), k)' = {}
  BY DEF OnePending
<1>1. /\ socket[p][i].stream = k /\ socket'[p][i].pending = socket[p][i].pending
      /\ Rests(p, k)
  OBVIOUS
<1>2. /\ socket[p][i].pending = <<Last(p, k)>> /\ Outstanding(p, k)
      /\ Writes(Other(p), k) = {}
  BY <1>1 DEF OnePending
<1>3. Writes(Other(p), k)' = {}
  BY <1>1, <1>2, WritesRest
<1> QED
  BY <1>1, <1>2, <1>3 DEF Last, Outstanding, Rests

LEMMA CreditRests ==
  ASSUME NEW p, NEW i, NEW k, OneCredit(p, i, k),
         NEW d, OkaysCome(Other(p), d, i),
         socket'[p][i].state = "open" /\ socket'[p][i].stream = k =>
           /\ socket[p][i].state = "open" /\ socket[p][i].stream = k
           /\ socket'[p][i].reading => socket[p][i].reading
           /\ Rests(Other(p), k)
  PROVE  OneCredit(p, i, k)'
<1> DEFINE q == Other(p)
<1> SUFFICES ASSUME socket'[p][i].state = "open", socket'[p][i].stream = k
             PROVE  /\ socket'[p][i].reading => Delivered(q, k)' /\ Okays(q, i)' = {}
                    /\ \A n \in Okays(q, i)' :
                         Delivered(q, k)' /\ \A m \in Okays(q, i)' : m = n
  BY DEF OneCredit
<1>1. \A n \in Okays(q, i)' : n \in Nat /\ n + d \in Okays(q, i)
  BY DEF OkaysCome
<1>2. d \in Nat
  BY DEF OkaysCome
<1>3. Delivered(q, k) => Delivered(q, k)'
  BY DEF Delivered, Rests
<1>4. /\ socket[p][i].reading => Delivered(q, k) /\ Okays(q, i) = {}
      /\ \A n \in Okays(q, i) :
           Delivered(q, k) /\ \A m \in Okays(q, i) : m = n
  BY DEF OneCredit
<1>5. ASSUME NEW n \in Okays(q, i)'
      PROVE  Delivered(q, k) /\ \A m \in Okays(q, i)' : m = n
  <2>1. n \in Nat /\ n + d \in Okays(q, i)
    BY <1>1
  <2>2. ASSUME NEW m \in Okays(q, i)'
        PROVE  m = n
    <3>1. m \in Nat /\ m + d = n + d
      BY <1>1, <1>4, <2>1
    <3> QED
      BY <1>2, <2>1, <3>1
  <2> QED
    BY <1>4, <2>1, <2>2
<1> QED
  BY <1>1, <1>3, <1>4, <1>5

LEMMA NothingRests ==
  ASSUME NothingYet, NEW d, NEW c, Come(Host, d, c), "OPEN" \in c,
         opened \in Nat, opened' \in Nat, opened <= opened',
         \A p \in Peers, k \in Streams : chunks'[p][k] = chunks[p][k],
         \A n \in DOMAIN wire[Host] : wire[Host][n].cmd = "OPEN" => wire[Host][n].data[2] \in Streams
  PROVE  NothingYet'
<1>1. \A p \in Peers, k \in Streams : opened' < k => chunks'[p][k] = 0
  BY DEF NothingYet, Streams
<1>2. \A n \in DOMAIN wire'[Host] : wire'[Host][n].cmd = "OPEN" =>
        \A p \in Peers : chunks'[p][wire'[Host][n].data[2]] = 0
  BY DEF NothingYet, Come
<1> QED
  BY <1>1, <1>2 DEF NothingYet

LEMMA OpenStreams ==
  ASSUME IInv
  PROVE  \A n \in DOMAIN wire[Host] : wire[Host][n].cmd = "OPEN" =>
           wire[Host][n].data[2] \in Streams /\ wire[Host][n].data[2] <= opened
<1> SUFFICES ASSUME NEW n \in DOMAIN wire[Host], wire[Host][n].cmd = "OPEN"
             PROVE  wire[Host][n].data[2] \in Streams /\ wire[Host][n].data[2] <= opened
  OBVIOUS
<1>1. /\ local_socket_next_id[Device] <= wire[Host][n].data[2] /\ wire[Host][n].data[2] <= opened
      /\ local_socket_next_id[Device] \in 1 .. MaxOpens + 1
      /\ wire[Host][n].data[2] \in 0 .. MaxOpens
  BY InvParts, Types, ReceivedIds DEF Numbered, OpensFrom
<1> QED
  BY <1>1 DEF Streams

(* A step that carries nothing on: no chunk is read or written.              *)
Rest(d, e) ==
  /\ Come(Host, d, Carries) /\ Come(Device, e, Carries)
  /\ UNCHANGED <<chunks, written, opened>>
  /\ \A r \in Peers, i \in Ids :
       LET s == socket[r][i]
           t == socket'[r][i] IN
       /\ t.stream # 0 /\ t.pending # <<>> => t.stream = s.stream /\ t.pending = s.pending
       /\ t.state = "open" =>
            s.state = "open" /\ t.stream = s.stream /\ (t.reading => s.reading)

LEMMA FlowRests ==
  ASSUME IInv, Flow, NEW d, NEW e, Rest(d, e)
  PROVE  Flow'
<1>1. /\ Come(Host, d, Carries) /\ Come(Device, e, Carries)
      /\ "WRTE" \in Carries /\ "OKAY" \in Carries /\ "OPEN" \in Carries
      /\ Other(Host) = Device /\ Other(Device) = Host
      /\ \A p \in Peers : p = Host \/ p = Device
      /\ \A p \in Peers : Other(p) \in Peers
  BY TwoPeers DEF Rest, Carries
<1>2. \A p \in Peers : \E c : /\ \A k : WritesCome(Other(p), c, k)
                             /\ \A i : OkaysCome(Other(p), c, i)
  BY <1>1, TokensCome
<1>3. \A p \in Peers, k \in Streams : Rests(p, k)
  BY DEF Rest, Rests
<1>4. ASSUME NEW p \in Peers, NEW k \in Streams
      PROVE  InOrder(p, k)' /\ OneWrite(p, k)'
  BY <1>1, <1>2, <1>3, OrderRests, WritesRest DEF Flow
<1>5. ASSUME NEW p \in Peers, NEW i \in Ids, NEW k \in Streams
      PROVE  OnePending(p, i, k)'
  <2>1. PICK c : WritesCome(Other(p), c, k) /\ OkaysCome(Other(p), c, i)
    BY <1>2
  <2>2. socket'[p][i].stream = k /\ socket'[p][i].pending # <<>> =>
          socket[p][i].stream = k /\ socket'[p][i].pending = socket[p][i].pending
    BY DEF Rest, Streams
  <2>3. OnePending(p, i, k)
    BY DEF Flow
  <2> QED
    BY <1>1, <1>3, <2>1, <2>2, <2>3, PendingRests
<1>6. ASSUME NEW p \in Peers, NEW i \in Ids, NEW k \in Streams
      PROVE  OneCredit(p, i, k)'
  <2>1. PICK c : WritesCome(Other(p), c, k) /\ OkaysCome(Other(p), c, i)
    BY <1>2
  <2>2. socket'[p][i].state = "open" /\ socket'[p][i].stream = k =>
          /\ socket[p][i].state = "open" /\ socket[p][i].stream = k
          /\ socket'[p][i].reading => socket[p][i].reading
    BY DEF Rest
  <2>3. OneCredit(p, i, k)
    BY DEF Flow
  <2>4. Rests(Other(p), k)
    BY <1>1, <1>3
  <2> QED
    BY <1>1, <2>1, <2>2, <2>3, <2>4, CreditRests
<1>7. NothingYet'
  <2>1. /\ NothingYet /\ opened' = opened /\ opened \in Nat /\ opened <= opened
        /\ \A p \in Peers, k \in Streams : chunks'[p][k] = chunks[p][k]
    BY InvParts DEF Flow, Rest
  <2> QED
    BY <1>1, <2>1, OpenStreams, NothingRests
<1> QED
  BY <1>4, <1>5, <1>6, <1>7 DEF Flow

LEMMA TakesCome ==
  ASSUME IInv, NEW p \in Peers, NEW d, NEW sent, Passes(p, d, sent)
  PROVE  Come(Other(p), d, Carries)
<1>1. /\ d \in {0, 1}
      /\ \A n \in DOMAIN wire'[Other(p)] : /\ n \in Nat /\ n + d \in DOMAIN wire[Other(p)]
                                           /\ wire'[Other(p)][n] = wire[Other(p)][n + d]
  BY PassesWires
<1> QED
  BY <1>1 DEF Come

LEMMA PassesCome ==
  ASSUME IInv, NEW p \in Peers, NEW d, NEW sent, Passes(p, d, sent),
         NEW c, \A n \in DOMAIN sent : sent[n].cmd \notin c
  PROVE  Come(p, 0, c)
<1>1. /\ \A n \in DOMAIN wire[p] : wire'[p][n] = wire[p][n]
      /\ \A n \in DOMAIN wire'[p] : /\ n \in Nat
                                    /\ \/ n \in DOMAIN wire[p]
                                       \/ /\ n - Len(wire[p]) \in DOMAIN sent
                                          /\ wire'[p][n] = sent[n - Len(wire[p])]
  BY PassesWires
<1>2. ASSUME NEW n \in DOMAIN wire'[p], wire'[p][n].cmd \in c
      PROVE  n \in Nat /\ n + 0 \in DOMAIN wire[p] /\ wire'[p][n] = wire[p][n + 0]
  <2>1. n \in Nat /\ n \in DOMAIN wire[p] /\ wire'[p][n] = wire[p][n]
    BY <1>1, <1>2
  <2>2. n + 0 = n
    BY <2>1
  <2> QED
    BY <2>1, <2>2
<1> QED
  BY <1>2 DEF Come

LEMMA PassesTokens ==
  ASSUME IInv, NEW p \in Peers, NEW d, NEW sent, Passes(p, d, sent)
  PROVE  /\ \A k : WritesCome(Other(p), d, k)
         /\ \A i : OkaysCome(Other(p), d, i)
         /\ \A k : (\A n \in DOMAIN sent : sent[n].cmd = "WRTE" => sent[n].data[2] # k) =>
              WritesCome(p, 0, k)
         /\ \A i : (\A n \in DOMAIN sent : sent[n].cmd = "OKAY" => sent[n].arg1 # i) =>
              OkaysCome(p, 0, i)
         /\ Come(Other(p), d, {"OPEN"})
         /\ (\A n \in DOMAIN sent : sent[n].cmd # "OPEN") => Come(p, 0, {"OPEN"})
<1>1. Come(Other(p), d, Carries) /\ "WRTE" \in Carries /\ "OKAY" \in Carries
  BY TakesCome DEF Carries
<1>2. Come(Other(p), d, {"OPEN"})
  BY <1>1 DEF Come, Carries
<1>3. /\ \A n \in DOMAIN wire[p] : wire'[p][n] = wire[p][n]
      /\ \A n \in DOMAIN wire'[p] : /\ n \in Nat
                                    /\ \/ n \in DOMAIN wire[p]
                                       \/ /\ n - Len(wire[p]) \in DOMAIN sent
                                          /\ wire'[p][n] = sent[n - Len(wire[p])]
  BY PassesWires
<1>4. \A n \in DOMAIN wire'[p] :
        /\ n \in Nat /\ n + 0 = n
        /\ \/ n \in DOMAIN wire[p] /\ wire'[p][n] = wire[p][n]
           \/ \E m \in DOMAIN sent : wire'[p][n] = sent[m]
  BY <1>3
<1>5. \A k : Writes(p, k)' = {n \in DOMAIN wire'[p] : wire'[p][n].cmd = "WRTE" /\ wire'[p][n].data[2] = k}
  BY DEF Writes
<1>6. \A i : Okays(p, i)' = {n \in DOMAIN wire'[p] : wire'[p][n].cmd = "OKAY" /\ wire'[p][n].arg1 = i}
  BY DEF Okays
<1>7. ASSUME NEW k, \A n \in DOMAIN sent : sent[n].cmd = "WRTE" => sent[n].data[2] # k
      PROVE  WritesCome(p, 0, k)
  <2>1. \A n \in Writes(p, k)' : n \in Nat /\ n + 0 = n /\ n \in Writes(p, k) /\ wire'[p][n] = wire[p][n]
    BY <1>4, <1>5, <1>7 DEF Writes
  <2> QED
    BY <2>1 DEF WritesCome
<1>8. ASSUME NEW i, \A n \in DOMAIN sent : sent[n].cmd = "OKAY" => sent[n].arg1 # i
      PROVE  OkaysCome(p, 0, i)
  <2>1. \A n \in Okays(p, i)' : n \in Nat /\ n + 0 = n /\ n \in Okays(p, i)
    BY <1>4, <1>6, <1>8 DEF Okays
  <2> QED
    BY <2>1 DEF OkaysCome
<1>9. ASSUME \A n \in DOMAIN sent : sent[n].cmd # "OPEN"
      PROVE  Come(p, 0, {"OPEN"})
  <2>1. \A n \in DOMAIN sent : sent[n].cmd \notin {"OPEN"}
    BY <1>9
  <2> QED
    BY <2>1, PassesCome
<1> QED
  BY <1>1, <1>2, <1>7, <1>8, <1>9, TokensCome

LEMMA ReconnectsRest ==
  ASSUME IInv, Flow, NEW d, NEW c, NEW new, NEW e, NEW b, NEW more,
         Reconnects(d, c, new, e, b, more), UNCHANGED <<chunks, written>>
  PROVE  Flow'
<1>1. /\ \A n \in DOMAIN wire'[Host] :
           \/ wire'[Host][n].cmd \in {"SYNC", "CNXN"}
           \/ n + d \in DOMAIN wire[Host] /\ wire'[Host][n] = wire[Host][n + d]
      /\ \A n \in DOMAIN wire'[Device] :
           \/ wire'[Device][n].cmd \in {"SYNC", "CNXN"}
           \/ n + e \in DOMAIN wire[Device] /\ wire'[Device][n] = wire[Device][n + e]
  BY MovedFacts DEF Reconnects, Connects
<1>2. /\ d \in Nat /\ e \in Nat
      /\ wire'[Host] \in Seq(Packets) /\ wire'[Device] \in Seq(Packets)
  BY DEF Reconnects, Moved
<1>3. /\ \A n \in DOMAIN wire'[Host] : n \in Nat
      /\ \A n \in DOMAIN wire'[Device] : n \in Nat
  BY <1>2
<1>4. Come(Host, d, Carries) /\ Come(Device, e, Carries)
  BY <1>1, <1>2, <1>3 DEF Come, Carries
<1>5. ASSUME NEW r \in Peers, NEW i \in Ids
      PROVE  LET s == socket[r][i]
                 t == socket'[r][i] IN
             /\ t.stream # 0 /\ t.pending # <<>> => t.stream = s.stream /\ t.pending = s.pending
             /\ t.state = "open" =>
                  s.state = "open" /\ t.stream = s.stream /\ (t.reading => s.reading)
  <2>1. Quieter(r, i)
    BY DEF Reconnects
  <2> QED
    BY <2>1 DEF Quieter, Free
<1>6. Rest(d, e)
  BY <1>4, <1>5 DEF Rest, Reconnects
<1> QED
  BY <1>6, FlowRests

(* Packets are dropped and one socket is closed. *)
LEMMA ClosingRests ==
  ASSUME IInv, Flow, NEW p \in Peers, NEW i \in Ids, NEW d, NEW sent,
         Passes(p, d, sent), \A n \in DOMAIN sent : sent[n].cmd = "CLSE",
         UNCHANGED <<chunks, written, opened>>,
         \A r \in Peers, l \in Ids : r # p \/ l # i => socket'[r][l] = socket[r][l],
         \/ socket'[p][i] \in {socket[p][i], Free}
         \/ /\ socket'[p][i].state = "closing" /\ socket'[p][i].stream = socket[p][i].stream
            /\ socket'[p][i].pending = socket[p][i].pending
  PROVE  Flow'
<1>1. \A n \in DOMAIN sent : sent[n].cmd \notin Carries
  BY DEF Carries
<1>2. d \in Nat /\ Come(Other(p), d, Carries) /\ Come(p, 0, Carries)
  <2>1. Come(Other(p), d, Carries) /\ Come(p, 0, Carries)
    BY <1>1, PassesCome, TakesCome
  <2> QED
    BY <2>1 DEF Come
<1>3. ASSUME NEW r \in Peers, NEW l \in Ids
      PROVE  LET s == socket[r][l]
                 t == socket'[r][l] IN
             /\ t.stream # 0 /\ t.pending # <<>> => t.stream = s.stream /\ t.pending = s.pending
             /\ t.state = "open" =>
                  s.state = "open" /\ t.stream = s.stream /\ (t.reading => s.reading)
  <2>1. CASE r # p \/ l # i
    BY <2>1
  <2>2. CASE r = p /\ l = i
    BY <2>2 DEF Free
  <2> QED
    BY <2>1, <2>2
<1>4. \E e, f : Rest(e, f)
  <2>1. (p = Host /\ Other(p) = Device) \/ (p = Device /\ Other(p) = Host)
    BY TwoPeers
  <2>2. \E e, f : Come(Host, e, Carries) /\ Come(Device, f, Carries)
    BY <1>2, <2>1
  <2> QED
    BY <1>3, <2>2 DEF Rest
<1> QED
  BY <1>4, FlowRests

LEMMA CloseCommands ==
  ASSUME NEW p, NEW s
  PROVE  \A n \in DOMAIN Sent(p, CloseMessage(s)) : Sent(p, CloseMessage(s))[n].cmd = "CLSE"
<1>1. \A m : \A n \in DOMAIN <<m>> : <<m>>[n] = m
  OBVIOUS
<1>2. Packet("CLSE", 0, s.peer).cmd = "CLSE"
  BY DEF Packet
<1>3. \A n \in DOMAIN <<Packet("CLSE", 0, s.peer)>> : <<Packet("CLSE", 0, s.peer)>>[n].cmd = "CLSE"
  BY <1>1, <1>2
<1> QED
  BY <1>3 DEF Sent, CloseMessage

LEMMA ConnectionsRest ==
  ASSUME IInv, Sessions, Flow,
         \/ \E p \in Peers : HandleConnect(p) \/ HandleSync(p)
         \/ Unplug
         \/ HostRestart /\ online[Host]
  PROVE  Flow'
<1>1. \E d, c, new, e, b, more : Reconnects(d, c, new, e, b, more)
  <2>1. CASE \E p \in Peers : HandleConnect(p)
    BY <2>1, TwoPeers, HostConnects, DeviceConnects
  <2>2. CASE \E p \in Peers : HandleSync(p)
    BY <2>2, TwoPeers, HostSyncs, DeviceSyncs
  <2>3. CASE Unplug
    BY <2>3, Unplugs
  <2>4. CASE HostRestart /\ online[Host]
    BY <2>4, Restarts
  <2> QED
    BY <2>1, <2>2, <2>3, <2>4
<1>2. UNCHANGED <<chunks, written>>
  BY DEF HandleConnect, HandleSync, Unplug, HostRestart, historyVars
<1> QED
  BY <1>1, <1>2, ReconnectsRest

LEMMA CloseRests ==
  ASSUME IInv, Sessions, Flow, NEW p \in Peers, HandleClose(p)
  PROVE  Flow'
<1> DEFINE i == Received(p).arg1
           s == socket[p][i]
           t == socket'[p][i]
<1>1. /\ i \in Ids /\ UNCHANGED <<chunks, written, opened>>
      /\ \A r \in Peers, l \in Ids : r # p \/ l # i => socket'[r][l] = socket[r][l]
      /\ t = Free \/ (t.state = "closing" /\ t.stream = s.stream /\ t.pending = s.pending)
      /\ Passes(p, 1, Sent(p, CloseMessage(s)))
  BY CloseIsOrdinary DEF Ordinary
<1> QED
  BY <1>1, CloseCommands, ClosingRests

LEMMA IgnoreRests ==
  ASSUME IInv, Sessions, Flow, NEW p \in Peers, NEW sent,
         Ordinary(p, 1, sent), \A n \in DOMAIN sent : sent[n].cmd = "CLSE",
         UNCHANGED <<socket, chunks, written, opened>>
  PROVE  Flow'
<1>1. 1 \in Ids
  BY AdbStreamAssumption DEF Ids
<1>2. Passes(p, 1, sent)
  BY DEF Ordinary
<1> QED
  BY <1>1, <1>2, ClosingRests

-------------------------------------------------------------------------------
(* The way of a stream to one of its ends.                                   *)

Way(p, k) ==
  /\ InOrder(p, k) /\ OneWrite(p, k)
  /\ \A i \in Ids : OnePending(p, i, k) /\ OneCredit(Other(p), i, k)

LEMMA FlowIsWays ==
  /\ Flow <=> NothingYet /\ \A p \in Peers, k \in Streams : Way(p, k)
  /\ Flow' <=> NothingYet' /\ \A p \in Peers, k \in Streams : Way(p, k)'
<1>1. Other(Host) = Device /\ Other(Device) = Host /\ \A p \in Peers : p = Host \/ p = Device
  BY TwoPeers
<1>2. Host \in Peers /\ Device \in Peers
  BY TwoPeers
<1>3. Flow <=> NothingYet /\ \A p \in Peers, k \in Streams : Way(p, k)
  BY <1>1, <1>2 DEF Flow, Way
<1>4. Flow' <=> NothingYet' /\ \A p \in Peers, k \in Streams : Way(p, k)'
  BY <1>1, <1>2 DEF Flow, Way
<1> QED
  BY <1>3, <1>4

LEMMA WayRests ==
  ASSUME NEW p \in Peers, NEW k \in Streams, Way(p, k), Rests(p, k),
         NEW d, WritesCome(Other(p), d, k), NEW e,
         \A i \in Ids :
           /\ socket'[p][i].stream = k /\ socket'[p][i].pending # <<>> =>
                socket[p][i].stream = k /\ socket'[p][i].pending = socket[p][i].pending
           /\ socket'[Other(p)][i].state = "open" /\ socket'[Other(p)][i].stream = k =>
                /\ socket[Other(p)][i].state = "open" /\ socket[Other(p)][i].stream = k
                /\ socket'[Other(p)][i].reading => socket[Other(p)][i].reading
                /\ OkaysCome(p, e, i)
  PROVE  Way(p, k)'
<1> DEFINE q == Other(p)
<1>1. Other(q) = p
  BY TwoPeers
<1>2. InOrder(p, k)' /\ OneWrite(p, k)'
  BY OrderRests, WritesRest DEF Way
<1>3. ASSUME NEW i \in Ids
      PROVE  OnePending(p, i, k)'
  BY PendingRests DEF Way
<1>4. ASSUME NEW i \in Ids
      PROVE  OneCredit(q, i, k)'
  <2>1. CASE ~(socket'[q][i].state = "open" /\ socket'[q][i].stream = k)
    BY <2>1 DEF OneCredit
  <2>2. CASE socket'[q][i].state = "open" /\ socket'[q][i].stream = k
    <3>1. OneCredit(q, i, k)
      BY DEF Way
    <3>2. OkaysCome(Other(q), e, i) /\ Rests(Other(q), k)
      BY <1>1, <2>2
    <3>3. /\ socket[q][i].state = "open" /\ socket[q][i].stream = k
          /\ socket'[q][i].reading => socket[q][i].reading
      BY <2>2
    <3> QED
      BY <3>1, <3>2, <3>3, CreditRests
  <2> QED
    BY <2>1, <2>2
<1> QED
  BY <1>2, <1>3, <1>4 DEF Way

(* An end takes and sends packets that are nothing to the way of k to r.     *)
LEMMA WayPasses ==
  ASSUME IInv, NEW p \in Peers, NEW d, NEW sent, Passes(p, d, sent),
         NEW r \in Peers, NEW k \in Streams, Way(r, k), Rests(r, k),
         r # p => \A n \in DOMAIN sent : sent[n].cmd = "WRTE" => sent[n].data[2] # k,
         \A i \in Ids :
           /\ socket'[r][i].stream = k /\ socket'[r][i].pending # <<>> =>
                socket[r][i].stream = k /\ socket'[r][i].pending = socket[r][i].pending
           /\ socket'[Other(r)][i].state = "open" /\ socket'[Other(r)][i].stream = k =>
                /\ socket[Other(r)][i].state = "open" /\ socket[Other(r)][i].stream = k
                /\ socket'[Other(r)][i].reading => socket[Other(r)][i].reading
                /\ r = p => \A n \in DOMAIN sent : sent[n].cmd = "OKAY" => sent[n].arg1 # i
  PROVE  Way(r, k)'
<1>1. CASE r = p
  <2>1. WritesCome(Other(r), d, k)
    BY <1>1, PassesTokens
  <2>2. \A i \in Ids : socket'[Other(r)][i].state = "open" /\ socket'[Other(r)][i].stream = k =>
          OkaysCome(r, 0, i)
    BY <1>1, PassesTokens
  <2> QED
    BY <2>1, <2>2, WayRests
<1>2. CASE r = Other(p)
  <2>1. r # p /\ Other(r) = p
    BY <1>2, TwoPeers, AdbStreamAssumption
  <2>2. WritesCome(Other(r), 0, k)
    BY <2>1, PassesTokens
  <2>3. \A i \in Ids : OkaysCome(r, d, i)
    BY <1>2, PassesTokens
  <2> QED
    BY <2>2, <2>3, WayRests
<1> QED
  BY <1>1, <1>2, TwoPeers

(* What end p sends, and the sockets that change, belong to stream k.        *)
Concerns(p, sent, k) ==
  /\ \A n \in DOMAIN sent :
       /\ sent[n].cmd = "WRTE" => sent[n].data[2] = k
       /\ sent[n].cmd = "OKAY" => \A i \in Ids :
            sent[n].arg1 = i /\ socket'[Other(p)][i].state = "open" => socket'[Other(p)][i].stream = k
  /\ \A x \in Peers, i \in Ids : socket'[x][i] = socket[x][i] \/ socket'[x][i].stream \in {0, k}

LEMMA OthersPass ==
  ASSUME IInv, NEW p \in Peers, NEW d, NEW sent, Passes(p, d, sent), NEW k0, Concerns(p, sent, k0),
         NEW r \in Peers, NEW k \in Streams, k # k0, Way(r, k), Rests(r, k)
  PROVE  Way(r, k)'
<1>1. Other(r) \in Peers /\ k # 0
  BY TwoPeers DEF Streams
<1>2. \A x \in Peers, i \in Ids : socket'[x][i].stream = k => socket'[x][i] = socket[x][i]
  BY <1>1 DEF Concerns
<1>3. r # p => \A n \in DOMAIN sent : sent[n].cmd = "WRTE" => sent[n].data[2] # k
  BY DEF Concerns
<1>4. ASSUME NEW i \in Ids
      PROVE  /\ socket'[r][i].stream = k /\ socket'[r][i].pending # <<>> =>
                  socket[r][i].stream = k /\ socket'[r][i].pending = socket[r][i].pending
             /\ socket'[Other(r)][i].state = "open" /\ socket'[Other(r)][i].stream = k =>
                  /\ socket[Other(r)][i].state = "open" /\ socket[Other(r)][i].stream = k
                  /\ socket'[Other(r)][i].reading => socket[Other(r)][i].reading
                  /\ r = p => \A n \in DOMAIN sent : sent[n].cmd = "OKAY" => sent[n].arg1 # i
  BY <1>1, <1>2 DEF Concerns
<1> QED
  BY <1>3, <1>4, WayPasses

LEMMA Distinct ==
  ASSUME IInv, Sessions, NEW p \in Peers, NEW i \in Ids, NEW l \in Ids,
         socket[p][i].state # "free", socket[p][l].state # "free",
         socket[p][i].stream = socket[p][l].stream
  PROVE  i = l
<1>1. CASE p = Host
  <2>1. StreamOf(i) = StreamOf(l)
    BY <1>1 DEF Sessions, HostIds
  <2>2. /\ i \in Nat /\ l \in Nat /\ opened \in Nat /\ local_socket_next_id[Host] \in Nat
    BY Types, PeerTypes
  <2> QED
    BY <2>1, <2>2 DEF StreamOf
<1>2. CASE p = Device
  BY <1>2 DEF Sessions, DeviceIds
<1> QED
  BY <1>1, <1>2, TwoPeers

LEMMA PartnerStream ==
  ASSUME IInv, Sessions, NEW p \in Peers, NEW i \in Ids, NEW r \in Ids,
         socket[p][i].state = "open", Partner(p, i, r), socket[Other(p)][r].state = "open"
  PROVE  socket[Other(p)][r].stream = socket[p][i].stream
<1>1. CASE p = Host
  BY <1>1, TwoPeers DEF Partner, IsStream
<1>2. CASE p = Device
  <2>1. Host \in Peers /\ Other(p) = Host /\ socket[Host][r].state = "open"
    BY <1>2, TwoPeers
  <2>2. online[Host]
    BY <2>1, OpenSocketFacts
  <2> QED
    BY <1>2, <2>1, <2>2 DEF Partner, Sessions, HostIds
<1> QED
  BY <1>1, <1>2, TwoPeers

LEMMA WrittenPasses ==
  ASSUME IInv, NEW p \in Peers, NEW d, NEW sent, Passes(p, d, sent),
         NEW r \in Peers, NEW k \in Streams, Way(r, k), Rests(r, k),
         r # p => \A n \in DOMAIN sent : sent[n].cmd = "WRTE" => sent[n].data[2] # k,
         \A i \in Ids : socket'[r][i].stream = k /\ socket'[r][i].pending # <<>> =>
           socket[r][i].stream = k /\ socket'[r][i].pending = socket[r][i].pending
  PROVE  InOrder(r, k)' /\ OneWrite(r, k)' /\ \A i \in Ids : OnePending(r, i, k)'
<1>1. PICK c : WritesCome(Other(r), c, k)
  <2>1. CASE r = p
    BY <2>1, PassesTokens
  <2>2. CASE r = Other(p)
    <3>1. r # p /\ Other(r) = p
      BY <2>2, TwoPeers, AdbStreamAssumption
    <3> QED
      BY <3>1, PassesTokens
  <2> QED
    BY <2>1, <2>2, TwoPeers
<1>2. InOrder(r, k)' /\ OneWrite(r, k)'
  BY <1>1, OrderRests, WritesRest DEF Way
<1>3. ASSUME NEW i \in Ids
      PROVE  OnePending(r, i, k)'
  BY <1>1, PendingRests DEF Way
<1> QED
  BY <1>2, <1>3

(* One socket may read again, after an OKAY.                                 *)
LEMMA OkayFlows ==
  ASSUME IInv, Sessions, Flow, NEW p \in Peers, HandleOkay(p)
  PROVE  Flow'
<1> DEFINE q == Other(p)
<1>1. PICK j \in Ids, k0 \in Streams :
        /\ socket[p][j].state = "open" /\ socket[p][j].stream = k0
        /\ wire[q] # <<>> /\ Received(p).cmd = "OKAY" /\ Received(p).arg1 = j
        /\ socket' = [socket EXCEPT ![p][j].peer = IF @ = 0 THEN Received(p).arg0 ELSE @,
                                    ![p][j].reading = TRUE]
        /\ UNCHANGED <<chunks, written, opened>>
  BY OpenSocketFacts DEF HandleOkay, Finds, Handles, countVars, historyVars
<1>2. /\ socket'[p][j].state = "open" /\ socket'[p][j].stream = k0
      /\ socket'[p][j].pending = socket[p][j].pending
      /\ \A r \in Peers, l \in Ids : r # p \/ l # j => socket'[r][l] = socket[r][l]
  <2>1. socket \in [Peers -> [Ids -> Sockets]]
    BY InvParts DEF TypeOK
  <2>2. socket[p][j] \in Sockets
    BY <2>1
  <2> QED
    BY <1>1, <2>1, <2>2 DEF Sockets
<1>3. Passes(p, 1, <<>>) /\ \A n \in DOMAIN <<>> : FALSE
  BY OkayIsOrdinary DEF Ordinary
<1>4. /\ \A r \in Peers, k \in Streams : Way(r, k) /\ Rests(r, k)
      /\ NothingYet
  BY <1>1, FlowIsWays DEF Rests
<1>5. q \in Peers /\ Other(q) = p /\ q # p
  BY TwoPeers, AdbStreamAssumption
<1> HIDE DEF q
<1>6. ASSUME NEW r \in Peers, NEW k \in Streams, k # k0
      PROVE  Way(r, k)'
  <2>1. Concerns(p, <<>>, k0)
    BY <1>2, <1>3 DEF Concerns
  <2> QED
    BY <1>3, <1>4, <1>6, <2>1, OthersPass
<1>7. Way(p, k0)'
  <2>1. ASSUME NEW i \in Ids
        PROVE  /\ socket'[p][i].stream = k0 /\ socket'[p][i].pending # <<>> =>
                    socket[p][i].stream = k0 /\ socket'[p][i].pending = socket[p][i].pending
               /\ socket'[q][i] = socket[q][i]
    BY <1>1, <1>2, <1>5
  <2>2. Way(p, k0) /\ Rests(p, k0)
    BY <1>4
  <2> QED
    BY <1>3, <2>1, <2>2, WayPasses DEF q
<1>8. Way(q, k0)'
  <2>1. InOrder(q, k0)' /\ OneWrite(q, k0)' /\ \A i \in Ids : OnePending(q, i, k0)'
    BY <1>2, <1>3, <1>4, <1>5, WrittenPasses
  <2>2. ASSUME NEW i \in Ids
        PROVE  OneCredit(p, i, k0)'
    <3>1. \A l : OkaysCome(q, 1, l)
      BY <1>3, PassesTokens DEF q
    <3>2. OneCredit(p, i, k0)
      BY <1>4, <1>5 DEF Way
    <3>3. CASE i # j
      <4>1. socket'[p][i] = socket[p][i] /\ Rests(q, k0)
        BY <1>2, <1>4, <1>5, <3>3
      <4> QED
        BY <3>1, <3>2, <4>1, CreditRests DEF q
    <3>4. CASE i = j
      <4>1. 1 \in Okays(q, j)
        BY <1>1, ReceivedFacts DEF Okays, q
      <4>2. Delivered(q, k0) /\ \A n \in Okays(q, j) : n = 1
        BY <1>1, <3>2, <3>4, <4>1 DEF OneCredit, q
      <4>3. Delivered(q, k0)'
        BY <1>1, <4>2 DEF Delivered
      <4>4. Okays(q, j)' = {}
        <5> SUFFICES ASSUME NEW n \in Okays(q, j)'
                     PROVE  FALSE
          BY DEF Okays
        <5>1. n \in Nat /\ n + 1 = 1
          BY <3>1, <4>2 DEF OkaysCome
        <5>2. DOMAIN wire'[q] = 1 .. Len(wire'[q]) /\ Len(wire'[q]) \in Nat
          BY <1>3, PassesWires DEF q
        <5>3. n \in DOMAIN wire'[q]
          BY DEF Okays
        <5> QED
          BY <5>1, <5>2, <5>3
      <4> QED
        BY <3>4, <4>3, <4>4 DEF OneCredit, q
    <3> QED
      BY <3>3, <3>4
  <2> QED
    BY <1>5, <2>1, <2>2 DEF Way
<1>9. NothingYet'
  <2>1. Come(Host, 0, {"OPEN"}) \/ Come(Host, 1, {"OPEN"})
    BY <1>3, PassesTokens, TwoPeers
  <2> QED
    BY <1>1, <1>4, <2>1, OpenStreams, InvParts, NothingRests
<1> QED
  BY <1>6, <1>7, <1>8, <1>9, TwoPeers, FlowIsWays DEF q

(* Nothing of stream k waits at p any more, and an OKAY may ask for the next. *)
Drains(p, sent, k) ==
  /\ \A i \in Ids :
       /\ socket'[Other(p)][i] = socket[Other(p)][i]
       /\ socket'[p][i] = socket[p][i] \/ socket'[p][i].stream \in {0, k}
       /\ socket'[p][i].stream = k => socket'[p][i].pending = <<>>
       /\ socket'[p][i].state = "open" =>
            /\ socket[p][i].state = "open" /\ socket'[p][i].stream = socket[p][i].stream
            /\ socket'[p][i].reading => socket[p][i].reading
  /\ \A n \in DOMAIN sent :
       /\ n = 1 /\ sent[n].cmd = "OKAY"
       /\ \A i \in Ids : sent[n].arg1 = i /\ socket[Other(p)][i].state = "open" =>
            socket[Other(p)][i].stream = k

LEMMA LastIsWritten ==
  ASSUME IInv, Flow, NEW p \in Peers, NEW d, NEW sent, Passes(p, d, sent),
         NEW k \in Streams, UNCHANGED <<chunks, opened>>,
         Outstanding(p, k), Writes(Other(p), k)' = {},
         written' = [written EXCEPT ![p][k] = Append(@, Last(p, k))],
         Drains(p, sent, k)
  PROVE  Flow'
<1>0. /\ \A i \in Ids : socket'[Other(p)][i] = socket[Other(p)][i]
      /\ \A i \in Ids :
           /\ socket'[p][i] = socket[p][i] \/ socket'[p][i].stream \in {0, k}
           /\ socket'[p][i].stream = k => socket'[p][i].pending = <<>>
           /\ socket'[p][i].state = "open" =>
                /\ socket[p][i].state = "open" /\ socket'[p][i].stream = socket[p][i].stream
                /\ socket'[p][i].reading => socket[p][i].reading
      /\ \A n \in DOMAIN sent : n = 1 /\ sent[n].cmd = "OKAY"
      /\ \A n \in DOMAIN sent : \A i \in Ids :
           sent[n].arg1 = i /\ socket[Other(p)][i].state = "open" => socket[Other(p)][i].stream = k
  BY DEF Drains
<1> USE <1>0
<1> DEFINE q == Other(p)
<1>1. /\ \A r \in Peers, l \in Streams : Way(r, l)
      /\ NothingYet /\ q \in Peers /\ Other(q) = p /\ q # p
      /\ \A r \in Peers : r = p \/ r = q
  BY FlowIsWays, TwoPeers, AdbStreamAssumption
<1>2. /\ chunks[q][k] \in Nat /\ written[p][k] \in Seq(Data) /\ Len(written[p][k]) \in Nat
      /\ DOMAIN written[p][k] = 1 .. Len(written[p][k])
  BY <1>1, FlowTypes
<1>3. /\ written'[p][k] = Append(written[p][k], Last(p, k))
      /\ \A r \in Peers, l \in Streams : r # p \/ l # k => written'[r][l] = written[r][l]
  BY InvParts DEF TypeOK
<1>4. chunks[q][k] = Len(written[p][k]) + 1
  BY DEF Outstanding
<1>5. InOrder(p, k) /\ OneWrite(p, k) /\ \A i \in Ids : OneCredit(q, i, k)
  BY <1>1 DEF Way
<1> HIDE DEF q
<1>6. ASSUME NEW r \in Peers, NEW l \in Streams, l # k
      PROVE  Way(r, l)'
  <2>1. Rests(r, l)
    BY <1>3, <1>6 DEF Rests
  <2>2. Concerns(p, sent, k)
    BY <1>1 DEF Concerns, q
  <2> QED
    BY <1>1, <1>6, <2>1, <2>2, OthersPass
<1>7. Way(p, k)'
  <2>1. InOrder(p, k)'
    <3>1. Len(written'[p][k]) = Len(written[p][k]) + 1
      BY <1>2, <1>3
    <3>2. ASSUME NEW n \in DOMAIN written'[p][k]
          PROVE  written'[p][k][n] = <<q, k, n>>
      <4>1. CASE n \in DOMAIN written[p][k]
        BY <1>2, <1>3, <1>5, <4>1 DEF InOrder, q
      <4>2. CASE n = Len(written[p][k]) + 1
        BY <1>2, <1>3, <1>4, <4>2 DEF Last, q
      <4> QED
        BY <1>2, <1>3, <4>1, <4>2
    <3>3. Len(written'[p][k]) <= chunks'[q][k]
      BY <1>2, <1>4, <3>1
    <3> QED
      BY <3>2, <3>3 DEF InOrder, q
  <2>2. OneWrite(p, k)'
    BY DEF OneWrite
  <2>3. ASSUME NEW i \in Ids
        PROVE  OnePending(p, i, k)'
    BY DEF OnePending
  <2>4. ASSUME NEW i \in Ids
        PROVE  OneCredit(q, i, k)'
    <3> SUFFICES ASSUME socket'[q][i].state = "open", socket'[q][i].stream = k
                 PROVE  /\ socket'[q][i].reading => Delivered(p, k)' /\ Okays(p, i)' = {}
                        /\ \A n \in Okays(p, i)' :
                             Delivered(p, k)' /\ \A m \in Okays(p, i)' : m = n
      BY <1>1 DEF OneCredit
    <3>1. ~Delivered(p, k)
      BY <1>2, <1>4 DEF Delivered, q
    <3>2. socket[q][i].state = "open" /\ socket[q][i].stream = k /\ socket'[q][i] = socket[q][i]
      BY DEF q
    <3>3. ~socket[q][i].reading /\ Okays(p, i) = {}
      BY <1>1, <1>5, <3>1, <3>2 DEF OneCredit
    <3>4. Delivered(p, k)'
      BY <1>2, <1>3, <1>4 DEF Delivered, q
    <3>5. \A n \in Okays(p, i)' : n = Len(wire[p]) + 1
      <4> SUFFICES ASSUME NEW n \in Okays(p, i)'
                   PROVE  n = Len(wire[p]) + 1
        BY DEF Okays
      <4>1. n \in DOMAIN wire'[p] /\ wire'[p][n].cmd = "OKAY" /\ wire'[p][n].arg1 = i
        BY DEF Okays
      <4>2. /\ n \in Nat
            /\ \/ n \in DOMAIN wire[p] /\ wire'[p][n] = wire[p][n]
               \/ n - Len(wire[p]) \in DOMAIN sent
        BY <4>1, PassesWires
      <4>3. n \notin DOMAIN wire[p] \/ wire'[p][n] # wire[p][n]
        BY <3>3, <4>1 DEF Okays
      <4>4. n - Len(wire[p]) = 1 /\ Len(wire[p]) \in Nat
        BY <4>2, <4>3, Types
      <4> QED
        BY <4>2, <4>4
    <3> QED
      BY <3>2, <3>3, <3>4, <3>5
  <2> QED
    BY <1>1, <2>1, <2>2, <2>3, <2>4 DEF Way, q
<1>8. Way(q, k)'
  <2>1. Rests(q, k)
    BY <1>1, <1>3 DEF Rests
  <2>2. \A n \in DOMAIN sent : sent[n].cmd # "WRTE"
    OBVIOUS
  <2>3. \A i \in Ids : socket'[q][i] = socket[q][i]
    BY DEF q
  <2> QED
    BY <1>1, <2>1, <2>2, <2>3, WayPasses
<1>9. NothingYet'
  <2>1. \A n \in DOMAIN sent : sent[n].cmd # "OPEN"
    OBVIOUS
  <2>2. Come(Host, 0, {"OPEN"}) \/ Come(Host, d, {"OPEN"})
    BY <2>1, PassesTokens, TwoPeers
  <2> QED
    BY <1>1, <2>2, OpenStreams, InvParts, NothingRests
<1> QED
  BY <1>1, <1>6, <1>7, <1>8, <1>9, FlowIsWays

(* An end takes the one WRITE of a stream that is under way to it.           *)
LEMMA WriteTaken ==
  ASSUME IInv, NEW p \in Peers, NEW k \in Streams, OneWrite(p, k),
         NEW sent, Passes(p, 1, sent), 1 \in Writes(Other(p), k)
  PROVE  /\ wire[Other(p)][1].data = Last(p, k) /\ Outstanding(p, k)
         /\ Writes(Other(p), k)' = {}
<1> DEFINE q == Other(p)
<1>1. /\ wire[q][1].data = Last(p, k) /\ Outstanding(p, k)
      /\ \A n \in Writes(q, k) : n = 1
  BY DEF OneWrite
<1>2. WritesCome(q, 1, k)
  BY PassesTokens
<1>3. DOMAIN wire'[q] = 1 .. Len(wire'[q]) /\ Len(wire'[q]) \in Nat
  BY PassesWires
<1>4. ASSUME NEW n \in Writes(q, k)'
      PROVE  FALSE
  <2>1. n \in Nat /\ n + 1 = 1
    BY <1>1, <1>2 DEF WritesCome
  <2>2. n \in DOMAIN wire'[q]
    BY DEF Writes
  <2> QED
    BY <1>3, <2>1, <2>2
<1> QED
  BY <1>1, <1>4 DEF Writes

LEMMA OneOkay ==
  ASSUME NEW p, NEW a, NEW b
  PROVE  \A n \in DOMAIN Sent(p, <<Okay(a, b)>>) :
           LET m == Sent(p, <<Okay(a, b)>>)[n] IN n = 1 /\ m.cmd = "OKAY" /\ m.arg1 = b
<1>1. \A m : \A n \in DOMAIN <<m>> : n = 1 /\ <<m>>[n] = m
  OBVIOUS
<1>2. Okay(a, b).cmd = "OKAY" /\ Okay(a, b).arg1 = b
  BY DEF Okay, Packet
<1>3. \A n \in DOMAIN <<Okay(a, b)>> : n = 1 /\ <<Okay(a, b)>>[n] = Okay(a, b)
  BY <1>1
<1>4. \A n \in DOMAIN <<>> : FALSE
  OBVIOUS
<1> QED
  BY <1>2, <1>3, <1>4 DEF Sent

(* The chunk is queued.                                                      *)
LEMMA LastWaits ==
  ASSUME IInv, Flow, NEW p \in Peers, Passes(p, 1, <<>>),
         NEW j \in Ids, NEW k \in Streams, UNCHANGED <<chunks, written, opened>>,
         Outstanding(p, k), Writes(Other(p), k)' = {},
         \A i \in Ids : socket[p][i].stream = k => socket[p][i].pending = <<>>,
         \A r \in Peers, l \in Ids : r # p \/ l # j => socket'[r][l] = socket[r][l],
         socket'[p][j].stream = k, socket[p][j].stream = k, socket[p][j].state = "open",
         socket'[p][j].pending = <<Last(p, k)>>, socket'[p][j].reading = socket[p][j].reading
  PROVE  Flow'
<1> DEFINE q == Other(p)
<1>1. /\ \A r \in Peers, l \in Streams : Way(r, l) /\ Rests(r, l)
      /\ NothingYet /\ q \in Peers /\ Other(q) = p /\ q # p
      /\ \A r \in Peers : r = p \/ r = q
  BY FlowIsWays, TwoPeers, AdbStreamAssumption DEF Rests
<1>2. \A n \in DOMAIN <<>> : FALSE
  OBVIOUS
<1> HIDE DEF q
<1>3. ASSUME NEW r \in Peers, NEW l \in Streams, l # k
      PROVE  Way(r, l)'
  <2>1. Concerns(p, <<>>, k)
    BY <1>2 DEF Concerns
  <2> QED
    BY <1>1, <1>3, <1>2, <2>1, OthersPass
<1>4. Way(p, k)'
  <2>1. InOrder(p, k)' /\ OneWrite(p, k)'
    BY <1>1, OrderRests DEF OneWrite, Way
  <2>2. Last(p, k)' = Last(p, k) /\ Outstanding(p, k)'
    BY DEF Last, Outstanding
  <2>3. ASSUME NEW i \in Ids
        PROVE  OnePending(p, i, k)'
    <3>1. CASE i = j
      BY <2>2, <3>1 DEF OnePending
    <3>2. CASE i # j
      BY <3>2 DEF OnePending
    <3> QED
      BY <3>1, <3>2
  <2>4. ASSUME NEW i \in Ids
        PROVE  OneCredit(q, i, k)'
    <3>1. OneCredit(q, i, k) /\ Rests(p, k)
      BY <1>1 DEF Way, q
    <3>2. OkaysCome(p, 0, i)
      BY <1>2, PassesTokens
    <3>3. socket'[q][i] = socket[q][i]
      BY <1>1
    <3> QED
      BY <1>1, <3>1, <3>2, <3>3, CreditRests
  <2> QED
    BY <1>1, <2>1, <2>3, <2>4 DEF Way, q
<1>5. Way(q, k)'
  <2>1. Way(q, k) /\ Rests(q, k)
    BY <1>1
  <2>2. ASSUME NEW i \in Ids
        PROVE  /\ socket'[q][i] = socket[q][i]
               /\ socket'[p][i].state = "open" /\ socket'[p][i].stream = k =>
                    /\ socket[p][i].state = "open" /\ socket[p][i].stream = k
                    /\ socket'[p][i].reading => socket[p][i].reading
    BY <1>1
  <2> QED
    BY <1>1, <1>2, <2>1, <2>2, WayPasses
<1>6. NothingYet'
  <2>1. Come(Host, 0, {"OPEN"}) \/ Come(Host, 1, {"OPEN"})
    BY <1>2, PassesTokens, TwoPeers
  <2> QED
    BY <1>1, <2>1, OpenStreams, InvParts, NothingRests
<1> QED
  BY <1>1, <1>3, <1>4, <1>5, <1>6, FlowIsWays

LEMMA WriteFlows ==
  ASSUME IInv, Sessions, Flow, NEW p \in Peers, HandleWrite(p)
  PROVE  Flow'
<1> DEFINE q == Other(p)
           m == Received(p)
<1>1. PICK j \in Ids, k \in Streams :
        /\ j = m.arg1 /\ socket[p][j].state = "open" /\ socket[p][j].stream = k
        /\ m.data[2] = k /\ Partner(p, j, m.arg0)
        /\ UNCHANGED <<chunks, opened>>
        /\ \A r \in Peers, l \in Ids : r # p \/ l # j => socket'[r][l] = socket[r][l]
        /\ \/ /\ socket[p][j].pending = <<>> /\ UNCHANGED <<socket, ended>>
              /\ written' = [written EXCEPT ![p][k] = Append(@, m.data)]
              /\ Ordinary(p, 1, Sent(p, <<Okay(j, m.arg0)>>))
           \/ /\ socket'[p][j].state = "open" /\ socket'[p][j].stream = k
              /\ socket'[p][j].reading = socket[p][j].reading
              /\ socket'[p][j].pending = Append(socket[p][j].pending, m.data)
              /\ UNCHANGED written
              /\ Ordinary(p, 1, <<>>)
           \/ /\ socket'[p][j] = Free
              /\ UNCHANGED written
              /\ Ordinary(p, 1, Sent(p, CloseMessage(socket[p][j])))
  BY WriteIsOrdinary
<1>2. /\ \A r \in Peers, l \in Streams : Way(r, l)
      /\ q \in Peers /\ q # p
  BY FlowIsWays, TwoPeers, AdbStreamAssumption
<1>3. /\ m = wire[q][1] /\ 1 \in Writes(q, k)
  BY <1>1, ReceivedFacts DEF Writes, HandleWrite, Handles
<1>4. ASSUME NEW i \in Ids, socket[p][i].stream = k
      PROVE  socket[p][i].pending = <<>>
  BY <1>2, <1>3, <1>4 DEF Way, OnePending
<1>5. ASSUME NEW sent, Ordinary(p, 1, sent)
      PROVE  /\ Passes(p, 1, sent)
             /\ m.data = Last(p, k) /\ Outstanding(p, k) /\ Writes(q, k)' = {}
  BY <1>2, <1>3, <1>5, WriteTaken DEF Ordinary, Way
<1>6. CASE /\ socket[p][j].pending = <<>> /\ UNCHANGED <<socket, ended>>
           /\ written' = [written EXCEPT ![p][k] = Append(@, m.data)]
           /\ Ordinary(p, 1, Sent(p, <<Okay(j, m.arg0)>>))
  <2>1. \A i \in Ids : i = m.arg0 /\ socket[q][i].state = "open" => socket[q][i].stream = k
    BY <1>1, PartnerStream
  <2> DEFINE sent == Sent(p, <<Okay(j, m.arg0)>>)
  <2>2. \A n \in DOMAIN sent : n = 1 /\ sent[n].cmd = "OKAY" /\ sent[n].arg1 = m.arg0
    BY OneOkay
  <2>3. /\ Passes(p, 1, sent)
        /\ m.data = Last(p, k) /\ Outstanding(p, k) /\ Writes(q, k)' = {}
    BY <1>5, <1>6
  <2>4. written' = [written EXCEPT ![p][k] = Append(@, Last(p, k))]
    BY <1>6, <2>3
  <2>5. Drains(p, sent, k)
    <3>1. socket' = socket
      BY <1>6
    <3>2. \A n \in DOMAIN sent :
            /\ n = 1 /\ sent[n].cmd = "OKAY"
            /\ \A i \in Ids :
                 sent[n].arg1 = i /\ socket[q][i].state = "open" => socket[q][i].stream = k
      BY <2>1, <2>2
    <3> HIDE DEF sent
    <3> QED
      BY <1>4, <3>1, <3>2 DEF Drains
  <2> HIDE DEF sent
  <2> QED
    BY <1>1, <2>3, <2>4, <2>5, LastIsWritten
<1>7. CASE /\ socket'[p][j].state = "open" /\ socket'[p][j].stream = k
           /\ socket'[p][j].reading = socket[p][j].reading
           /\ socket'[p][j].pending = Append(socket[p][j].pending, m.data)
           /\ UNCHANGED written
           /\ Ordinary(p, 1, <<>>)
  <2>1. /\ Passes(p, 1, <<>>)
        /\ m.data = Last(p, k) /\ Outstanding(p, k) /\ Writes(q, k)' = {}
    BY <1>5, <1>7
  <2>2. socket'[p][j].pending = <<Last(p, k)>>
    <3>1. socket[p][j].pending = <<>>
      BY <1>1, <1>4
    <3>2. \A d : Append(<<>>, d) = <<d>>
      OBVIOUS
    <3> QED
      BY <1>7, <2>1, <3>1, <3>2
  <2> QED
    BY <1>1, <1>4, <1>7, <2>1, <2>2, LastWaits
<1>8. CASE /\ socket'[p][j] = Free
           /\ UNCHANGED written
           /\ Ordinary(p, 1, Sent(p, CloseMessage(socket[p][j])))
  <2>1. Passes(p, 1, Sent(p, CloseMessage(socket[p][j])))
    BY <1>8 DEF Ordinary
  <2>2. \A n \in DOMAIN Sent(p, CloseMessage(socket[p][j])) :
          Sent(p, CloseMessage(socket[p][j]))[n].cmd = "CLSE"
    BY CloseCommands
  <2> QED
    BY <1>1, <1>8, <2>1, <2>2, ClosingRests
<1> QED
  BY <1>1, <1>6, <1>7, <1>8

LEMMA OneElement ==
  ASSUME NEW d, NEW w, w = <<d>>, NEW n \in 1 .. Len(w)
  PROVE  /\ SubSeq(w, n + 1, Len(w)) = <<>> /\ SubSeq(w, 1, n) = <<d>>
         /\ \A S : \A v \in Seq(S) : v \o SubSeq(w, 1, n) = Append(v, d)
<1>1. n = 1 /\ Len(w) = 1
  OBVIOUS
<1>2. SubSeq(w, n + 1, Len(w)) = <<>>
  BY <1>1
<1>3. SubSeq(w, 1, n) = <<d>>
  <2>1. w \in Seq({d}) /\ w[1] = d
    OBVIOUS
  <2>2. \A v \in Seq({d}) : Len(v) = 1 => v = <<d>>
    OBVIOUS
  <2>3. SubSeq(w, 1, 1) \in Seq({d}) /\ Len(SubSeq(w, 1, 1)) = 1
    <3>1. \A a \in 1 .. 1 : w[a] \in {d}
      BY <2>1
    <3>2. Len(SubSeq(w, 1, 1)) = 1
      BY <1>1, <2>1
    <3> QED
      BY <1>1, <2>1, <3>1, <3>2
  <2> QED
    BY <1>1, <2>2, <2>3
<1>4. \A S : \A v \in Seq(S) : v \o <<d>> = Append(v, d)
  OBVIOUS
<1> QED
  BY <1>2, <1>3, <1>4

LEMMA WriteEventFlows ==
  ASSUME IInv, Sessions, Flow, NEW p \in Peers, NEW j \in Ids, WriteEvent(p, j)
  PROVE  Flow'
<1> DEFINE q == Other(p)
           s == socket[p][j]
           t == socket'[p][j]
<1>1. PICK k \in Streams :
        /\ s.state # "free" /\ s.stream = k /\ s.pending # <<>> /\ s.pending \in Seq(Data)
        /\ UNCHANGED <<chunks, opened>>
        /\ wire'[q] = wire[q]
        /\ \A r \in Peers, l \in Ids : r # p \/ l # j => socket'[r][l] = socket[r][l]
        /\ \/ \E n \in 1 .. Len(s.pending) :
                LET rest == SubSeq(s.pending, n + 1, Len(s.pending)) IN
                /\ written' = [written EXCEPT ![p][s.stream] = @ \o SubSeq(s.pending, 1, n)]
                /\ \/ rest = <<>> /\ t = Free /\ s.state = "closing"
                   \/ /\ t.state = s.state /\ t.stream = s.stream /\ t.reading = s.reading
                      /\ t.pending = rest
                /\ Ordinary(p, 0, Sent(p, IF rest = <<>> /\ s.state = "open"
                                          THEN <<Okay(j, s.peer)>> ELSE <<>>))
           \/ /\ \/ t = Free
                 \/ t.state = "closing" /\ t.stream = s.stream /\ t.pending = s.pending
              /\ UNCHANGED written
              /\ Ordinary(p, 0, Sent(p, CloseMessage(s)))
  BY WriteEventIsOrdinary
<1>2. /\ \A r \in Peers, l \in Streams : Way(r, l)
      /\ q \in Peers /\ q # p /\ Other(q) = p
  BY FlowIsWays, TwoPeers, AdbStreamAssumption
<1>3. s.pending = <<Last(p, k)>> /\ Outstanding(p, k) /\ Writes(q, k) = {}
  BY <1>1, <1>2 DEF Way, OnePending
<1>4. CASE /\ \/ t = Free
              \/ t.state = "closing" /\ t.stream = s.stream /\ t.pending = s.pending
           /\ UNCHANGED written
           /\ Ordinary(p, 0, Sent(p, CloseMessage(s)))
  <2>1. Passes(p, 0, Sent(p, CloseMessage(s)))
    BY <1>4 DEF Ordinary
  <2>2. \A n \in DOMAIN Sent(p, CloseMessage(s)) : Sent(p, CloseMessage(s))[n].cmd = "CLSE"
    BY CloseCommands
  <2>3. /\ UNCHANGED <<chunks, written, opened>>
        /\ \A r \in Peers, l \in Ids : r # p \/ l # j => socket'[r][l] = socket[r][l]
        /\ \/ socket'[p][j] \in {socket[p][j], Free}
           \/ /\ socket'[p][j].state = "closing" /\ socket'[p][j].stream = socket[p][j].stream
              /\ socket'[p][j].pending = socket[p][j].pending
    BY <1>1, <1>4
  <2> HIDE DEF s, t
  <2> QED
    BY <2>1, <2>2, <2>3, ClosingRests
<1>5. ASSUME NEW n \in 1 .. Len(s.pending),
             LET rest == SubSeq(s.pending, n + 1, Len(s.pending)) IN
             /\ written' = [written EXCEPT ![p][s.stream] = @ \o SubSeq(s.pending, 1, n)]
             /\ \/ rest = <<>> /\ t = Free /\ s.state = "closing"
                \/ /\ t.state = s.state /\ t.stream = s.stream /\ t.reading = s.reading
                   /\ t.pending = rest
             /\ Ordinary(p, 0, Sent(p, IF rest = <<>> /\ s.state = "open"
                                       THEN <<Okay(j, s.peer)>> ELSE <<>>))
      PROVE  Flow'
  <2> DEFINE sent == Sent(p, IF s.state = "open" THEN <<Okay(j, s.peer)>> ELSE <<>>)
             rest == SubSeq(s.pending, n + 1, Len(s.pending))
             some == SubSeq(s.pending, 1, n)
  <2>1. rest = <<>> /\ \A S : \A v \in Seq(S) : v \o some = Append(v, Last(p, k))
    BY <1>3, <1>5, OneElement
  <2>2. written' = [written EXCEPT ![p][k] = @ \o some]
    BY <1>1, <1>5
  <2>3. Ordinary(p, 0, sent)
    BY <1>5, <2>1
  <2>4. t = Free \/ (t.state = s.state /\ t.stream = k /\ t.reading = s.reading /\ t.pending = <<>>)
    BY <1>1, <1>5, <2>1
  <2> HIDE DEF rest, some
  <2>5. written' = [written EXCEPT ![p][k] = Append(@, Last(p, k))]
    <3>1. written[p][k] \in Seq(Data)
      BY FlowTypes
    <3>2. written[p][k] \o some = Append(written[p][k], Last(p, k))
      BY <2>1, <3>1
    <3> QED
      BY <2>2, <3>2
  <2>6. Writes(q, k)' = {}
    BY <1>1, <1>3 DEF Writes
  <2>7. \A i \in Ids : socket[p][i].stream = k => i = j
    <3> SUFFICES ASSUME NEW i \in Ids, socket[p][i].stream = k
                 PROVE  i = j
      OBVIOUS
    <3>1. socket[p][i].state # "free"
      BY PeerTypes DEF Streams
    <3> QED
      BY <1>1, <3>1, Distinct
  <2>8. \A n1 \in DOMAIN sent :
          /\ n1 = 1 /\ sent[n1].cmd = "OKAY"
          /\ \A i \in Ids :
               sent[n1].arg1 = i /\ socket[q][i].state = "open" => socket[q][i].stream = k
    <3>1. CASE s.state # "open"
      BY <3>1 DEF Sent
    <3>2. CASE s.state = "open"
      <4>1. s.peer # 0
        BY <1>1, <3>2, OpenSocketFacts
      <4>2. \A i \in Ids : i = s.peer /\ socket[q][i].state = "open" => socket[q][i].stream = k
        BY <1>1, <3>2, <4>1, PeerIsPartner, PartnerStream
      <4>3. sent = Sent(p, <<Okay(j, s.peer)>>)
        BY <3>2
      <4>4. \A n1 \in DOMAIN sent : n1 = 1 /\ sent[n1].cmd = "OKAY" /\ sent[n1].arg1 = s.peer
        BY <4>3, OneOkay
      <4> HIDE DEF sent
      <4> QED
        BY <4>2, <4>4
    <3> QED
      BY <3>1, <3>2
  <2> HIDE DEF sent
  <2>9. Drains(p, sent, k)
    <3>1. ASSUME NEW i \in Ids
          PROVE  /\ socket'[q][i] = socket[q][i]
                 /\ socket'[p][i] = socket[p][i] \/ socket'[p][i].stream \in {0, k}
                 /\ socket'[p][i].stream = k => socket'[p][i].pending = <<>>
                 /\ socket'[p][i].state = "open" =>
                      /\ socket[p][i].state = "open" /\ socket'[p][i].stream = socket[p][i].stream
                      /\ socket'[p][i].reading => socket[p][i].reading
      <4>1. CASE i = j
        <5>1. /\ Free.stream = 0 /\ Free.pending = <<>> /\ Free.state = "free"
          BY DEF Free
        <5>2. t.stream \in {0, k} /\ t.pending = <<>>
          BY <2>4, <5>1
        <5>3. t.state = "open" => s.state = "open" /\ t.stream = s.stream /\ t.reading = s.reading
          BY <1>1, <2>4, <5>1
        <5>4. socket'[q][j] = socket[q][j]
          BY <1>1, <1>2
        <5> QED
          BY <4>1, <5>2, <5>3, <5>4
      <4>2. CASE i # j
        BY <1>1, <1>2, <2>7, <4>2
      <4> QED
        BY <4>1, <4>2
    <3> QED
      BY <2>8, <3>1 DEF Drains
  <2>10. Passes(p, 0, sent)
    BY <2>3 DEF Ordinary
  <2> QED
    BY <1>1, <1>3, <2>5, <2>6, <2>9, <2>10, LastIsWritten
<1> QED
  BY <1>1, <1>4, <1>5

(* A socket that reads is not one whose OPEN is under way.                   *)
LEMMA ReadersAreHeard ==
  ASSUME IInv, Sessions, NEW p \in Peers, NEW j \in Ids,
         socket[p][j].state = "open", socket[p][j].reading
  PROVE  /\ socket[p][j].stream <= opened
         /\ \A n \in DOMAIN wire[Host] : wire[Host][n].cmd = "OPEN" =>
              wire[Host][n].data[2] # socket[p][j].stream
<1>1. CASE p = Host
  <2>1. j < local_socket_next_id[Host] /\ socket[Host][j].stream = j + opened + 1 - local_socket_next_id[Host]
    BY <1>1 DEF Sessions, HostIds, StreamOf
  <2>2. j \in Nat /\ local_socket_next_id[Host] \in Nat /\ opened \in Nat
    BY Types, PeerTypes
  <2>3. socket[Host][j].stream <= opened
    BY <2>1, <2>2
  <2>4. socket[Host][j].peer # 0
    BY <1>1 DEF Sessions, Unanswered
  <2> QED
    BY <1>1, <2>3, <2>4 DEF Sessions, Unheard
<1>2. CASE p = Device
  <2>1. \A n \in DOMAIN wire[Host] : wire[Host][n].cmd = "OPEN" => OpenPacket(wire[Host][n])
    BY DEF Sessions, PacketsBelong, HostPacket
  <2> QED
    BY <1>2, <2>1 DEF Sessions, DeviceIds, OpenPacket
<1> QED
  BY <1>1, <1>2, TwoPeers

Reads(p, k, sent) ==
  \A n \in DOMAIN sent :
    \/ n = 1 /\ sent[n].cmd = "WRTE" /\ sent[n].data = <<p, k, chunks[p][k] + 1>>
    \/ sent[n].cmd = "CLSE"

LEMMA ChunkIsRead ==
  ASSUME IInv, Sessions, Flow, NEW p \in Peers, NEW sent, Passes(p, 0, sent),
         NEW j \in Ids, NEW k \in Streams, UNCHANGED <<written, opened>>,
         socket[p][j].state = "open", socket[p][j].reading, socket[p][j].stream = k,
         chunks' = [chunks EXCEPT ![p][k] = @ + 1],
         \A r \in Peers, l \in Ids : r # p \/ l # j => socket'[r][l] = socket[r][l],
         ~socket'[p][j].reading,
         \/ socket'[p][j] = Free
         \/ socket'[p][j].stream = k /\ socket'[p][j].pending = socket[p][j].pending,
         Reads(p, k, sent)
  PROVE  Flow'
<1> DEFINE q == Other(p)
<1>1. /\ \A r \in Peers, l \in Streams : Way(r, l)
      /\ NothingYet /\ q \in Peers /\ Other(q) = p /\ q # p
      /\ \A r \in Peers : r = p \/ r = q
  BY FlowIsWays, TwoPeers, AdbStreamAssumption
<1>2. /\ chunks[p][k] \in Nat /\ Len(written[q][k]) \in Nat
      /\ DOMAIN written[q][k] = 1 .. Len(written[q][k])
  BY <1>1, FlowTypes
<1>3. /\ chunks'[p][k] = chunks[p][k] + 1
      /\ \A r \in Peers, l \in Streams : r # p \/ l # k => chunks'[r][l] = chunks[r][l]
  BY InvParts DEF TypeOK
<1>4. /\ InOrder(q, k) /\ OneWrite(q, k) /\ \A i \in Ids : OnePending(q, i, k)
      /\ OneCredit(p, j, k)
  BY <1>1 DEF Way
<1>5. chunks[p][k] = Len(written[q][k]) /\ Okays(q, j) = {}
  BY <1>1, <1>4 DEF OneCredit, Delivered
<1>6. Writes(p, k) = {} /\ \A i \in Ids : socket[q][i].stream = k => socket[q][i].pending = <<>>
  BY <1>1, <1>2, <1>4, <1>5 DEF OneWrite, OnePending, Outstanding, Writes
<1> HIDE DEF q
<1>7. /\ \A n \in DOMAIN sent : sent[n].cmd = "WRTE" => n = 1 /\ sent[n].data[2] = k
      /\ \A n \in DOMAIN sent : sent[n].cmd # "OKAY" /\ sent[n].cmd # "OPEN"
  BY DEF Reads
<1>8. ASSUME NEW r \in Peers, NEW l \in Streams, l # k
      PROVE  Way(r, l)'
  <2>1. Rests(r, l)
    BY <1>1, <1>3, <1>8, TwoPeers DEF Rests
  <2>2. Concerns(p, sent, k)
    BY <1>7 DEF Concerns, Free
  <2> QED
    BY <1>1, <1>8, <2>1, <2>2, OthersPass
<1>9. Way(p, k)'
  <2>1. Way(p, k) /\ Rests(p, k)
    BY <1>1, <1>3 DEF Rests, q
  <2>2. ASSUME NEW i \in Ids
        PROVE  /\ socket'[p][i].stream = k /\ socket'[p][i].pending # <<>> =>
                    socket[p][i].stream = k /\ socket'[p][i].pending = socket[p][i].pending
               /\ socket'[Other(p)][i] = socket[Other(p)][i]
    BY <1>1 DEF Free, q
  <2> QED
    BY <1>7, <2>1, <2>2, WayPasses
<1>10. Way(q, k)'
  <2>1. InOrder(q, k)'
    <3>1. Len(written'[q][k]) <= chunks'[p][k]
      BY <1>2, <1>3, <1>5
    <3> QED
      BY <1>1, <1>4, <3>1 DEF InOrder
  <2>2. ASSUME NEW n \in Writes(p, k)'
        PROVE  n = Len(wire[p]) + 1 /\ wire'[p][n].data = <<p, k, chunks'[p][k]>>
    <3>1. n \in DOMAIN wire'[p] /\ wire'[p][n].cmd = "WRTE" /\ wire'[p][n].data[2] = k
      BY DEF Writes
    <3>2. /\ n \in Nat
          /\ \/ n \in DOMAIN wire[p] /\ wire'[p][n] = wire[p][n]
             \/ n - Len(wire[p]) \in DOMAIN sent /\ wire'[p][n] = sent[n - Len(wire[p])]
      BY <3>1, PassesWires
    <3>3. n - Len(wire[p]) \in DOMAIN sent /\ wire'[p][n] = sent[n - Len(wire[p])]
      BY <1>6, <3>1, <3>2 DEF Writes
    <3>4. n - Len(wire[p]) = 1 /\ wire'[p][n].data = <<p, k, chunks[p][k] + 1>>
      BY <3>1, <3>3 DEF Reads
    <3>5. Len(wire[p]) \in Nat
      BY Types
    <3> QED
      BY <1>3, <3>2, <3>4, <3>5
  <2>3. OneWrite(q, k)'
    <3>1. Last(q, k)' = <<p, k, chunks'[p][k]>>
      BY <1>1 DEF Last
    <3>2. Outstanding(q, k)'
      BY <1>1, <1>3, <1>5 DEF Outstanding
    <3> QED
      BY <1>1, <2>2, <3>1, <3>2 DEF OneWrite
  <2>4. ASSUME NEW i \in Ids
        PROVE  OnePending(q, i, k)'
    BY <1>1, <1>6 DEF OnePending
  <2>5. ASSUME NEW i \in Ids
        PROVE  OneCredit(p, i, k)'
    <3>1. CASE i = j
      <4>1. OkaysCome(q, 0, i)
        BY PassesTokens DEF q
      <4>2. \A n \in Okays(q, i)' : FALSE
        BY <1>5, <3>1, <4>1 DEF OkaysCome
      <4> QED
        BY <3>1, <4>2 DEF OneCredit, q
    <3>2. CASE i # j
      <4>1. socket'[p][i] = socket[p][i]
        BY <3>2
      <4>2. ~(socket[p][i].state = "open" /\ socket[p][i].stream = k)
        BY <3>2, Distinct
      <4> QED
        BY <4>1, <4>2 DEF OneCredit
    <3> QED
      BY <3>1, <3>2
  <2> QED
    BY <1>1, <2>1, <2>3, <2>4, <2>5 DEF Way
<1>11. NothingYet'
  <2>1. /\ k <= opened
        /\ \A n \in DOMAIN wire[Host] : wire[Host][n].cmd = "OPEN" => wire[Host][n].data[2] # k
    BY ReadersAreHeard
  <2>2. opened \in Nat /\ k \in Nat
    BY InvParts DEF Streams
  <2>3. \A r \in Peers, l \in Streams : opened' < l => chunks'[r][l] = 0
    BY <1>1, <1>3, <2>1, <2>2 DEF NothingYet
  <2>4. Come(Host, 0, {"OPEN"})
    BY <1>7, PassesTokens, TwoPeers
  <2>5. \A n \in DOMAIN wire'[Host] : wire'[Host][n].cmd = "OPEN" =>
          \E m \in DOMAIN wire[Host] : wire[Host][m].cmd = "OPEN" /\ wire'[Host][n] = wire[Host][m]
    BY <2>4 DEF Come
  <2>6. \A n \in DOMAIN wire'[Host] : wire'[Host][n].cmd = "OPEN" =>
          \A r \in Peers : chunks'[r][wire'[Host][n].data[2]] = 0
    BY <1>1, <1>3, <2>1, <2>5, OpenStreams DEF NothingYet
  <2> QED
    BY <2>3, <2>6 DEF NothingYet
<1> QED
  BY <1>1, <1>8, <1>9, <1>10, <1>11, FlowIsWays

LEMMA TwoElements ==
  ASSUME NEW S, NEW v \in Seq(S), NEW w \in Seq(S), Len(v) = 1, Len(w) = 1,
         NEW n \in DOMAIN (v \o w)
  PROVE  (n = 1 /\ (v \o w)[n] = v[1]) \/ (v \o w)[n] = w[1]
<1>1. /\ v \o w \in Seq(S) /\ Len(v \o w) = Len(v) + Len(w)
      /\ \A i \in 1 .. Len(v) + Len(w) :
           (v \o w)[i] = IF i <= Len(v) THEN v[i] ELSE w[i - Len(v)]
  BY ConcatProperties
<1>2. n \in 1 .. 2
  BY <1>1
<1>3. (v \o w)[1] = v[1]
  BY <1>1
<1>4. (v \o w)[2] = w[1]
  <2>1. 2 \in 1 .. Len(v) + Len(w) /\ ~(2 <= Len(v)) /\ 2 - Len(v) = 1
    OBVIOUS
  <2> QED
    BY <1>1, <2>1
<1> QED
  BY <1>2, <1>3, <1>4

LEMMA ReadPackets ==
  ASSUME NEW p \in Peers, NEW j, socket[p][j].stream \in Streams
  PROVE  LET s == socket[p][j] IN
         /\ Reads(p, s.stream, Sent(p, <<WritePacket(p, j)>>))
         /\ Reads(p, s.stream, Sent(p, <<WritePacket(p, j)>> \o CloseMessage(s)))
<1> DEFINE s == socket[p][j]
           m == WritePacket(p, j)
           c == Packet("CLSE", 0, s.peer)
<1>1. m.cmd = "WRTE" /\ m.data = <<p, s.stream, chunks[p][s.stream] + 1>> /\ c.cmd = "CLSE"
  BY DEF WritePacket, Packet
<1> HIDE DEF m, c, s
<1>2. \A n \in DOMAIN <<m>> : n = 1 /\ <<m>>[n] = m
  OBVIOUS
<1>3. /\ <<m>> \o <<>> = <<m>>
      /\ \A n \in DOMAIN (<<m>> \o <<c>>) :
           (n = 1 /\ (<<m>> \o <<c>>)[n] = m) \/ (<<m>> \o <<c>>)[n] = c
  <2>1. <<m>> \in Seq({m, c}) /\ <<c>> \in Seq({m, c}) /\ Len(<<m>>) = 1 /\ Len(<<c>>) = 1
    OBVIOUS
  <2>2. \A v \in Seq({m, c}) : v \o <<>> = v
    OBVIOUS
  <2>3. <<m>>[1] = m /\ <<c>>[1] = c
    OBVIOUS
  <2> QED
    BY <2>1, <2>2, <2>3, TwoElements
<1>4. \A n \in DOMAIN <<>> : FALSE
  OBVIOUS
<1>5. CloseMessage(s) = <<>> \/ CloseMessage(s) = <<c>>
  BY DEF CloseMessage, c
<1>6. Reads(p, s.stream, <<m>>) /\ Reads(p, s.stream, <<>>) /\ Reads(p, s.stream, <<m>> \o <<c>>)
  BY <1>1, <1>2, <1>3, <1>4 DEF Reads
<1> QED
  BY <1>3, <1>5, <1>6 DEF Sent, s, m

LEMMA ReadEventFlows ==
  ASSUME IInv, Sessions, Flow, NEW p \in Peers, NEW j \in Ids, ReadEvent(p, j)
  PROVE  Flow'
<1> DEFINE s == socket[p][j]
           t == socket'[p][j]
<1>1. PICK k \in Streams :
        /\ s.state = "open" /\ s.reading /\ s.stream = k
        /\ UNCHANGED <<written, opened>>
        /\ \A r \in Peers, l \in Ids : r # p \/ l # j => socket'[r][l] = socket[r][l]
        /\ \/ /\ t.state = "open" /\ t.stream = s.stream /\ t.pending = s.pending /\ ~t.reading
              /\ chunks' = [chunks EXCEPT ![p][s.stream] = @ + 1]
              /\ Ordinary(p, 0, Sent(p, <<WritePacket(p, j)>>))
           \/ /\ \/ t = Free
                 \/ t.state = "closing" /\ t.stream = s.stream /\ t.pending = s.pending
              /\ \/ /\ chunks' = [chunks EXCEPT ![p][s.stream] = @ + 1]
                    /\ Ordinary(p, 0, Sent(p, <<WritePacket(p, j)>> \o CloseMessage(s)))
                 \/ /\ UNCHANGED chunks
                    /\ Ordinary(p, 0, Sent(p, CloseMessage(s)))
  BY ReadEventIsOrdinary
<1>2. t.state = "closing" \/ t = Free => ~t.reading
  <2>1. IInv'
    BY ReadEventKeeps
  <2>2. t.state = "closing" => ~t.reading
    BY <2>1 DEF IInv, TypeOK
  <2> QED
    BY <2>2 DEF Free
<1>3. /\ Reads(p, k, Sent(p, <<WritePacket(p, j)>>))
      /\ Reads(p, k, Sent(p, <<WritePacket(p, j)>> \o CloseMessage(s)))
  BY <1>1, ReadPackets
<1>4. ASSUME NEW sent, Reads(p, k, sent), Ordinary(p, 0, sent), ~t.reading,
             t = Free \/ (t.stream = s.stream /\ t.pending = s.pending),
             chunks' = [chunks EXCEPT ![p][s.stream] = @ + 1]
      PROVE  Flow'
  <2>1. Passes(p, 0, sent)
    BY <1>4 DEF Ordinary
  <2> QED
    BY <1>1, <1>4, <2>1, ChunkIsRead
<1>5. CASE /\ \/ t = Free
              \/ t.state = "closing" /\ t.stream = s.stream /\ t.pending = s.pending
           /\ UNCHANGED chunks
           /\ Ordinary(p, 0, Sent(p, CloseMessage(s)))
  <2>1. Passes(p, 0, Sent(p, CloseMessage(s)))
    BY <1>5 DEF Ordinary
  <2>2. \A n \in DOMAIN Sent(p, CloseMessage(s)) : Sent(p, CloseMessage(s))[n].cmd = "CLSE"
    BY CloseCommands
  <2> QED
    BY <1>1, <1>5, <2>1, <2>2, ClosingRests
<1> QED
  BY <1>1, <1>2, <1>3, <1>4, <1>5

(* A socket of the device reads, and the server may: nothing was read yet.   *)
LEMMA AcceptFlows ==
  ASSUME IInv, Sessions, Flow, Accepts
  PROVE  Flow'
<1>1. PICK j \in Ids, k \in Streams, a \in Ids :
        LET m == Received(Device)
            t == socket'[Device][j] IN
        /\ j = local_socket_next_id[Device] /\ a = m.arg0 /\ k = m.data[2]
        /\ m = wire[Host][1] /\ m.cmd = "OPEN" /\ OpenPacket(m)
        /\ 1 \in DOMAIN wire[Host]
        /\ t.state = "open" /\ t.stream = k /\ t.reading /\ t.pending = <<>>
        /\ \A r \in Peers, l \in Ids : r # Device \/ l # j => socket'[r][l] = socket[r][l]
        /\ UNCHANGED <<opened, chunks, written>>
        /\ Passes(Device, 1, Sent(Device, <<Okay(j, a)>>))
  BY AcceptFacts
<1>2. /\ \A r \in Peers, l \in Streams : Way(r, l) /\ Rests(r, l)
      /\ NothingYet /\ Host \in Peers /\ Device \in Peers /\ Host # Device
      /\ Other(Host) = Device /\ Other(Device) = Host
      /\ \A r \in Peers : r = Host \/ r = Device
  BY <1>1, FlowIsWays, TwoPeers, AdbStreamAssumption DEF Rests
<1>3. \A r \in Peers : Delivered(r, k)' /\ Delivered(r, k)
  <2>1. \A r \in Peers : chunks[r][k] = 0 /\ Len(written[r][k]) \in Nat
    BY <1>1, <1>2, FlowTypes DEF NothingYet
  <2>2. \A r \in Peers : Len(written[r][k]) <= chunks[Other(r)][k]
    BY <1>2 DEF Way, InOrder
  <2> QED
    BY <1>1, <1>2, <2>1, <2>2 DEF Delivered
<1> DEFINE sent == Sent(Device, <<Okay(j, a)>>)
<1>4. \A n \in DOMAIN sent : n = 1 /\ sent[n].cmd = "OKAY" /\ sent[n].arg1 = a
  BY OneOkay
<1>5. Passes(Device, 1, sent)
  BY <1>1
<1> HIDE DEF sent
<1>6. /\ \A i \in Ids : socket'[Host][i] = socket[Host][i]
      /\ \A i \in Ids : socket[Host][i].state = "open" => (socket[Host][i].stream = k <=> i = a)
  <2>1. ASSUME NEW i \in Ids, socket[Host][i].state = "open"
        PROVE  socket[Host][i].stream = k <=> i = a
    <3>1. online[Host]
      BY <1>2, <2>1, OpenSocketFacts
    <3>2. k = StreamOf(a) /\ socket[Host][i].stream = StreamOf(i)
      BY <1>1, <2>1, <3>1 DEF OpenPacket, Sessions, HostIds
    <3>3. /\ i \in Nat /\ a \in Nat /\ opened \in Nat /\ local_socket_next_id[Host] \in Nat
      BY Types, PeerTypes
    <3> QED
      BY <3>2, <3>3 DEF StreamOf
  <2> QED
    BY <1>1, <1>2, <2>1
<1>7. ASSUME NEW r \in Peers, NEW l \in Streams, l # k
      PROVE  Way(r, l)'
  <2>1. Concerns(Device, sent, k)
    BY <1>1, <1>2, <1>4, <1>6 DEF Concerns
  <2> QED
    BY <1>2, <1>5, <1>7, <2>1, OthersPass
<1>8. ASSUME NEW r \in Peers
      PROVE  InOrder(r, k)' /\ OneWrite(r, k)' /\ \A i \in Ids : OnePending(r, i, k)'
  <2>1. ASSUME NEW i \in Ids, socket'[r][i].pending # <<>>
        PROVE  socket'[r][i] = socket[r][i]
    BY <1>1, <1>2, <2>1
  <2>2. \A n \in DOMAIN sent : sent[n].cmd = "WRTE" => sent[n].data[2] # k
    BY <1>4
  <2> QED
    BY <1>2, <1>5, <2>1, <2>2, WrittenPasses
<1>9. ASSUME NEW i \in Ids
      PROVE  OneCredit(Device, i, k)'
  <2>1. OkaysCome(Host, 1, i)
    BY <1>2, <1>5, PassesTokens
  <2>2. CASE i = j
    <3>1. \A n \in DOMAIN wire[Host] : wire[Host][n].cmd = "OKAY" => wire[Host][n].arg1 < j
      BY <1>1 DEF Sessions, PacketsBelong, HostPacket, Addressed
    <3>2. j \in Nat
      BY PeerTypes
    <3>3. Okays(Host, i) = {}
      BY <2>2, <3>1, <3>2 DEF Okays
    <3>4. \A n \in Okays(Host, i)' : FALSE
      BY <2>1, <3>3 DEF OkaysCome
    <3>5. Okays(Host, i)' = {}
      BY <3>4 DEF Okays
    <3> QED
      BY <1>2, <1>3, <3>5 DEF OneCredit
  <2>3. CASE i # j
    <3>1. socket'[Device][i] = socket[Device][i] /\ OneCredit(Device, i, k) /\ Rests(Host, k)
      BY <1>1, <1>2, <2>3 DEF Way
    <3> QED
      BY <1>2, <2>1, <3>1, CreditRests
  <2> QED
    BY <2>2, <2>3
<1>10. ASSUME NEW i \in Ids
       PROVE  OneCredit(Host, i, k)'
  <2> SUFFICES ASSUME socket'[Host][i].state = "open", socket'[Host][i].stream = k
               PROVE  /\ ~socket'[Host][i].reading
                      /\ \A n \in Okays(Device, i)' : \A m \in Okays(Device, i)' : m = n
    BY <1>2, <1>3 DEF OneCredit
  <2>1. socket[Host][i].state = "open" /\ socket[Host][i].stream = k /\ i = a
    BY <1>6
  <2>2. ~socket[Host][i].reading
    BY <1>1, <1>2, <2>1, ReadersAreHeard
  <2>3. online[Host]
    BY <1>2, <2>1, OpenSocketFacts
  <2>4. Okays(Device, i) = {}
    BY <1>1, <2>1, <2>3 DEF OpenPacket, Okays, Addressed
  <2>5. ASSUME NEW n \in Okays(Device, i)'
        PROVE  n = Len(wire[Device]) + 1
    <3>1. n \in DOMAIN wire'[Device] /\ wire'[Device][n].cmd = "OKAY" /\ wire'[Device][n].arg1 = i
      BY DEF Okays
    <3>2. /\ n \in Nat
          /\ \/ n \in DOMAIN wire[Device] /\ wire'[Device][n] = wire[Device][n]
             \/ n - Len(wire[Device]) \in DOMAIN sent
      BY <1>2, <1>5, <3>1, PassesWires
    <3>3. n - Len(wire[Device]) = 1 /\ Len(wire[Device]) \in Nat
      BY <1>2, <1>4, <2>4, <3>1, <3>2, Types DEF Okays
    <3> QED
      BY <3>2, <3>3
  <2> QED
    BY <1>6, <2>2, <2>5
<1>11. NothingYet'
  <2>1. Come(Host, 1, {"OPEN"})
    BY <1>2, <1>5, PassesTokens
  <2> QED
    BY <1>1, <1>2, <2>1, OpenStreams, InvParts, NothingRests
<1>12. \A r \in Peers : Way(r, k)'
  BY <1>2, <1>8, <1>9, <1>10 DEF Way
<1> QED
  BY <1>2, <1>7, <1>11, <1>12, FlowIsWays

(* A stream is opened: nobody reads yet. *)
LEMMA OpenFlows ==
  ASSUME IInv, Sessions, Flow, Open
  PROVE  Flow'
<1>1. PICK j \in Ids, k \in Streams :
        /\ j = local_socket_next_id[Host] /\ k = opened + 1 /\ opened' = k /\ online[Host]
        /\ UNCHANGED <<chunks, written>>
        /\ \A l \in Ids : socket'[Device][l] = socket[Device][l]
        /\ \A l \in Ids : l # j => socket'[Host][l] = socket[Host][l]
        /\ socket[Host][j].state = "free"
        /\ socket'[Host][j] = NewSocket(0, k) \/ socket'[Host][j] = socket[Host][j]
        /\ OpenOf(j, k).cmd = "OPEN" /\ OpenOf(j, k).data[2] = k
        /\ Passes(Host, 0, Sent(Host, <<OpenOf(j, k)>>))
  BY OpenFacts
<1>2. /\ \A r \in Peers, l \in Streams : Way(r, l) /\ Rests(r, l)
      /\ NothingYet /\ Host \in Peers /\ Device \in Peers /\ Host # Device
      /\ Other(Host) = Device /\ Other(Device) = Host
      /\ \A r \in Peers : r = Host \/ r = Device
  BY <1>1, FlowIsWays, TwoPeers, AdbStreamAssumption DEF Rests
<1>3. /\ socket'[Host][j].state = "open" => ~socket'[Host][j].reading
      /\ socket'[Host][j].stream = k => socket'[Host][j].pending = <<>>
      /\ socket'[Host][j].stream \in {0, k}
  <2>1. socket[Host][j].stream = 0 /\ k # 0
    BY <1>1, <1>2 DEF IInv, TypeOK, Streams
  <2>2. CASE socket'[Host][j] = NewSocket(0, k)
    BY <2>2 DEF NewSocket, Free
  <2>3. CASE socket'[Host][j] = socket[Host][j]
    BY <1>1, <2>1, <2>3
  <2> QED
    BY <1>1, <2>2, <2>3
<1> DEFINE sent == Sent(Host, <<OpenOf(j, k)>>)
<1>4. \A n \in DOMAIN sent : sent[n].cmd = "OPEN" /\ sent[n].data[2] = k
  <2>1. \A m : \A n \in DOMAIN <<m>> : <<m>>[n] = m
    OBVIOUS
  <2>2. \A n \in DOMAIN <<OpenOf(j, k)>> : <<OpenOf(j, k)>>[n] = OpenOf(j, k)
    BY <2>1
  <2>3. \A n \in DOMAIN <<>> : FALSE
    OBVIOUS
  <2> QED
    BY <1>1, <2>2, <2>3 DEF Sent
<1>5. Passes(Host, 0, sent)
  BY <1>1
<1> HIDE DEF sent
<1>6. ASSUME NEW r \in Peers, NEW l \in Streams, l # k
      PROVE  Way(r, l)'
  <2>1. Concerns(Host, sent, k)
    BY <1>1, <1>2, <1>3, <1>4 DEF Concerns
  <2> QED
    BY <1>2, <1>5, <1>6, <2>1, OthersPass
<1>7. ASSUME NEW r \in Peers
      PROVE  InOrder(r, k)' /\ OneWrite(r, k)' /\ \A i \in Ids : OnePending(r, i, k)'
  <2>1. ASSUME NEW i \in Ids, socket'[r][i].stream = k, socket'[r][i].pending # <<>>
        PROVE  socket'[r][i] = socket[r][i]
    BY <1>1, <1>2, <1>3, <2>1
  <2>2. \A n \in DOMAIN sent : sent[n].cmd = "WRTE" => sent[n].data[2] # k
    BY <1>4
  <2> QED
    BY <1>2, <1>5, <2>1, <2>2, WrittenPasses
<1>8. ASSUME NEW i \in Ids
      PROVE  OneCredit(Device, i, k)'
  <2>1. OkaysCome(Host, 0, i)
    <3>1. \A n \in DOMAIN sent : sent[n].cmd = "OKAY" => sent[n].arg1 # i
      BY <1>4
    <3> QED
      BY <1>2, <1>5, <3>1, PassesTokens
  <2>2. socket'[Device][i] = socket[Device][i] /\ OneCredit(Device, i, k) /\ Rests(Host, k)
    BY <1>1, <1>2 DEF Way
  <2> QED
    BY <1>2, <2>1, <2>2, CreditRests
<1>9. ASSUME NEW i \in Ids
      PROVE  OneCredit(Host, i, k)'
  <2>1. OkaysCome(Device, 0, i)
    BY <1>2, <1>5, PassesTokens
  <2>2. CASE i = j
    <3>1. \A n \in DOMAIN wire[Device] : wire[Device][n].cmd = "OKAY" => wire[Device][n].arg1 < j
      BY <1>1 DEF Sessions, PacketsBelong, DevicePacket, Addressed
    <3>2. j \in Nat
      BY PeerTypes
    <3>3. Okays(Device, i) = {}
      BY <2>2, <3>1, <3>2 DEF Okays
    <3>4. \A n \in Okays(Device, i)' : FALSE
      BY <2>1, <3>3 DEF OkaysCome
    <3> QED
      BY <1>2, <1>3, <2>2, <3>4 DEF OneCredit
  <2>3. CASE i # j
    <3>1. socket'[Host][i] = socket[Host][i] /\ OneCredit(Host, i, k) /\ Rests(Device, k)
      BY <1>1, <1>2, <2>3 DEF Way
    <3> QED
      BY <1>2, <2>1, <3>1, CreditRests
  <2> QED
    BY <2>2, <2>3
<1>10. NothingYet'
  <2>1. opened \in Nat /\ \A l \in Streams : l \in Nat
    BY InvParts DEF Streams
  <2>2. \A r \in Peers : chunks[r][k] = 0 /\ \A l \in Streams : opened' < l => chunks[r][l] = 0
    BY <1>1, <1>2, <2>1 DEF NothingYet
  <2>3. ASSUME NEW n \in DOMAIN wire'[Host], wire'[Host][n].cmd = "OPEN"
        PROVE  \A r \in Peers : chunks[r][wire'[Host][n].data[2]] = 0
    <3>1. \/ n \in DOMAIN wire[Host] /\ wire'[Host][n] = wire[Host][n]
          \/ n - Len(wire[Host]) \in DOMAIN sent /\ wire'[Host][n] = sent[n - Len(wire[Host])]
      BY <1>2, <1>5, PassesWires
    <3>2. CASE n \in DOMAIN wire[Host] /\ wire'[Host][n] = wire[Host][n]
      BY <1>2, <2>3, <3>2 DEF NothingYet
    <3>3. CASE n - Len(wire[Host]) \in DOMAIN sent /\ wire'[Host][n] = sent[n - Len(wire[Host])]
      BY <1>4, <2>2, <3>3
    <3> QED
      BY <3>1, <3>2, <3>3
  <2> QED
    BY <1>1, <2>2, <2>3 DEF NothingYet
<1>11. \A r \in Peers : Way(r, k)'
  BY <1>2, <1>7, <1>8, <1>9 DEF Way
<1> QED
  BY <1>2, <1>6, <1>10, <1>11, FlowIsWays

-------------------------------------------------------------------------------
(* The flow, in every state.                                                 *)

LEMMA FlowStart == Init => Flow
<1> SUFFICES ASSUME Init
             PROVE  Flow
  OBVIOUS
<1>1. /\ \A p \in Peers : p = Host \/ p = Device
      /\ Host \in Peers /\ Device \in Peers /\ Host # Device
      /\ \A p \in Peers : Other(p) \in Peers
  BY TwoPeers, AdbStreamAssumption
<1>2. /\ \A p \in Peers, i \in Ids : socket[p][i] = Free
      /\ \A p \in Peers, k \in Streams : chunks[p][k] = 0 /\ written[p][k] = <<>>
      /\ wire[Host] = <<Connection>> /\ wire[Device] = <<>>
  BY <1>1 DEF Init
<1>3. /\ \A p \in Peers : \A n \in DOMAIN wire[p] : wire[p][n].cmd = "CNXN"
      /\ \A n \in DOMAIN <<>> : FALSE
      /\ Len(<<>>) = 0
  <2>1. \A n \in DOMAIN <<Connection>> : <<Connection>>[n] = Connection
    OBVIOUS
  <2>2. (\A n \in DOMAIN <<>> : FALSE) /\ Len(<<>>) = 0
    OBVIOUS
  <2> QED
    BY <1>1, <1>2, <2>1, <2>2 DEF Connection, Packet
<1>4. ASSUME NEW p \in Peers, NEW k \in Streams
      PROVE  InOrder(p, k) /\ OneWrite(p, k)
  BY <1>1, <1>2, <1>3 DEF InOrder, OneWrite, Writes
<1>5. ASSUME NEW p \in Peers, NEW i \in Ids, NEW k \in Streams
      PROVE  OnePending(p, i, k) /\ OneCredit(p, i, k)
  BY <1>2 DEF OnePending, OneCredit, Free
<1>6. NothingYet
  BY <1>1, <1>2, <1>3 DEF NothingYet
<1> QED
  BY <1>4, <1>5, <1>6 DEF Flow

LEMMA PacketFlows ==
  ASSUME IInv, Sessions, Flow, NEW p \in Peers, HandlePacket(p)
  PROVE  Flow'
<1>1. CASE p = Device /\ HandleOpen
  <2> DEFINE c == Packet("CLSE", 0, Received(Device).arg0)
  <2>1. CASE Accepts
    BY <2>1, AcceptFlows
  <2>2. CASE /\ Handles(Device, "OPEN") /\ online[Device]
             /\ Replies(Device, <<c>>)
             /\ UNCHANGED <<socket, endVars, opened, chunks, written>>
    <3>1. Ordinary(Device, 1, Sent(Device, <<c>>))
      BY <2>2, RejectIsOrdinary
    <3>2. \A n \in DOMAIN Sent(Device, <<c>>) : Sent(Device, <<c>>)[n].cmd = "CLSE"
      <4>1. \A m : \A n \in DOMAIN <<m>> : <<m>>[n] = m
        OBVIOUS
      <4>2. \A n \in DOMAIN <<c>> : <<c>>[n] = c
        BY <4>1
      <4>3. c.cmd = "CLSE"
        BY DEF Packet
      <4> HIDE DEF c
      <4> QED
        BY <4>2, <4>3 DEF Sent
    <3> HIDE DEF c
    <3> QED
      BY <1>1, <2>2, <3>1, <3>2, IgnoreRests
  <2> QED
    BY <1>1, <2>1, <2>2 DEF HandleOpen, Accepts, endVars, countVars, historyVars
<1>2. CASE HandleOkay(p)
  BY <1>2, OkayFlows
<1>3. CASE HandleWrite(p)
  BY <1>3, WriteFlows
<1>4. CASE HandleClose(p)
  BY <1>4, CloseRests
<1>5. CASE HandleConnect(p) \/ HandleSync(p)
  BY <1>5, ConnectionsRest
<1>6. CASE Ignore(p)
  <2>1. Ordinary(p, 1, <<>>) /\ UNCHANGED <<socket, chunks, written, opened>>
    BY <1>6, IgnoreIsOrdinary
  <2>2. \A n \in DOMAIN <<>> : FALSE
    OBVIOUS
  <2> QED
    BY <2>1, <2>2, IgnoreRests
<1> QED
  BY <1>1, <1>2, <1>3, <1>4, <1>5, <1>6 DEF HandlePacket

(* Between two restarts the server is heard: the step is a settled one.      *)
LEMMA SettledSteps ==
  ASSUME IInv, HostRestart, [SettledRestart]_vars
  PROVE  online[Host]
<1>1. faults \in Nat
  BY InvParts, AdbStreamAssumption DEF CountersOK
<1>2. ~UNCHANGED vars
  BY <1>1 DEF vars, countVars, HostRestart
<1> QED
  BY <1>2 DEF SettledRestart

LEMMA FlowStep ==
  IInv /\ Sessions /\ Flow /\ [Next]_vars /\ [SettledRestart]_vars => Flow'
<1> SUFFICES ASSUME IInv, Sessions, Flow, [Next]_vars, [SettledRestart]_vars
             PROVE  Flow'
  OBVIOUS
<1>1. CASE Open
  BY <1>1, OpenFlows
<1>2. CASE \E p \in Peers : HandlePacket(p)
  BY <1>2, PacketFlows
<1>3. CASE \E p \in Peers, i \in Ids : WriteEvent(p, i)
  BY <1>3, WriteEventFlows
<1>4. CASE \E p \in Peers, i \in Ids : ReadEvent(p, i)
  BY <1>4, ReadEventFlows
<1>5. CASE Unplug
  BY <1>5, ConnectionsRest
<1>6. CASE HostRestart
  BY <1>6, SettledSteps, ConnectionsRest
<1>7. CASE UNCHANGED vars
  <2>1. UNCHANGED <<socket, wire, opened, chunks, written>>
    BY <1>7 DEF vars, countVars, historyVars
  <2>2. \A p \in Peers, k \in Streams : InOrder(p, k)' /\ OneWrite(p, k)'
    BY <2>1 DEF Flow, InOrder, OneWrite, Writes, Outstanding, Last
  <2>3. \A p \in Peers, i \in Ids, k \in Streams : OnePending(p, i, k)' /\ OneCredit(p, i, k)'
    BY <2>1 DEF Flow, OnePending, OneCredit, Writes, Okays, Outstanding, Delivered, Last
  <2>4. NothingYet'
    BY <2>1 DEF Flow, NothingYet
  <2> QED
    BY <2>2, <2>3, <2>4 DEF Flow
<1> QED
  BY <1>1, <1>2, <1>3, <1>4, <1>5, <1>6, <1>7 DEF Next

LEMMA FlowHolds == Spec /\ [][SettledRestart]_vars => []Flow
  BY FlowStart, FlowStep, Always, SessionsHold, PTL DEF Spec

(* An end of a stream reads again only when the WRITE it sent was answered   *)
(* (the ready callback of remote_socket_enqueue in sockets.c): one WRITE is  *)
(* under way or waits at the other end, also when ids are used again.        *)
THEOREM OneWriteAlways == Spec /\ [][SettledRestart]_vars => []OneWriteAtATime
<1>1. IInv /\ Flow => OneWriteAtATime
  <2> SUFFICES ASSUME IInv, Flow, NEW p \in Peers, NEW k \in Streams
               PROVE  /\ \A n, m \in Underway(p, k) : n = m
                      /\ \A i \in Ids : socket[Other(p)][i].stream = k =>
                           /\ Len(socket[Other(p)][i].pending) <= 1
                           /\ socket[Other(p)][i].pending = <<>> \/ Underway(p, k) = {}
    BY DEF OneWriteAtATime
  <2>1. /\ Other(p) \in Peers /\ Other(Other(p)) = p /\ Underway(p, k) = Writes(p, k)
        /\ OneWrite(Other(p), k)
    BY TwoPeers DEF Underway, Writes, Flow
  <2>2. \A n, m \in Underway(p, k) : n = m
    BY <2>1 DEF OneWrite
  <2>3. ASSUME NEW i \in Ids, socket[Other(p)][i].stream = k, socket[Other(p)][i].pending # <<>>
        PROVE  Len(socket[Other(p)][i].pending) <= 1 /\ Underway(p, k) = {}
    <3>1. socket[Other(p)][i].pending = <<Last(Other(p), k)>> /\ Underway(p, k) = {}
      BY <2>1, <2>3 DEF Flow, OnePending
    <3>2. \A d : Len(<<d>>) <= 1
      OBVIOUS
    <3> QED
      BY <3>1, <3>2
  <2>4. Len(<<>>) <= 1
    OBVIOUS
  <2> QED
    BY <2>2, <2>3, <2>4
<1> QED
  BY <1>1, Always, FlowHolds, PTL

(* What local_socket_enqueue and the write events of an end write to its     *)
(* descriptor are the first chunks the other end of the stream read, none    *)
(* twice, none left out and none of another stream, although a new server    *)
(* gives the ids of its predecessor to its own streams (sockets.c, adb.c).   *)
THEOREM InOrderAlways == Spec /\ [][SettledRestart]_vars => []DeliveredInOrder
<1>1. Flow => DeliveredInOrder
  BY DEF DeliveredInOrder, Flow, InOrder
<1> QED
  BY <1>1, FlowHolds, Always, PTL

-------------------------------------------------------------------------------
(* Who receives what is sent.                                                *)

(* What end p sends names the socket of the device that there is.            *)
Names(p, sent) ==
  \A n \in DOMAIN sent :
    /\ p = Host /\ sent[n].cmd = "WRTE" => Receives(sent[n].arg1, sent[n].data[2])
    /\ p = Device /\ sent[n].cmd = "OKAY" /\ online[Host] =>
         Receives(sent[n].arg0, StreamOf(sent[n].arg1))

LEMMA ReceivesStay ==
  ASSUME NEW j, NEW k, Receives(j, k),
         \A l \in Ids : socket'[Device][l].state = "open" =>
           socket[Device][l].state = "open" /\ socket'[Device][l].stream = socket[Device][l].stream
  PROVE  Receives(j, k)'
  BY DEF Receives

LEMMA OrdinaryReceivers ==
  ASSUME IInv, Sessions, Receivers, NEW p \in Peers, NEW d, NEW sent, Ordinary(p, d, sent),
         Names(p, sent),
         \A i \in Ids : LET s == socket'[Host][i] IN
           s.state = "open" /\ s.peer # 0 => Receives(s.peer, s.stream)
  PROVE  Receivers'
<1>1. /\ Host \in Peers /\ Device \in Peers /\ Host # Device
      /\ Other(Host) = Device /\ Other(Device) = Host
      /\ p = Host \/ p = Device
  BY TwoPeers, AdbStreamAssumption
<1>2. \A l \in Ids : socket'[Device][l].state = "open" =>
        socket[Device][l].state = "open" /\ socket'[Device][l].stream = socket[Device][l].stream
  <2>1. \A r \in Peers, i \in Ids : socket'[r][i].state # "free" =>
          socket[r][i].state # "free" /\ socket'[r][i].stream = socket[r][i].stream
    BY OrdinarySockets
  <2>2. \A r \in Peers, i \in Ids : socket'[r][i].state = "open" => socket[r][i].state = "open"
    BY OrdinarySockets
  <2> QED
    BY <1>1, <2>1, <2>2
<1>3. UNCHANGED <<online, opened, local_socket_next_id>>
  BY DEF Ordinary, Passes
<1>4. \A r \in Peers : \A n \in DOMAIN wire'[r] :
        \/ \E m \in DOMAIN wire[r] : wire'[r][n] = wire[r][m]
        \/ r = p /\ \E m \in DOMAIN sent : wire'[r][n] = sent[m]
  <2>1. \A n \in DOMAIN wire'[p] :
          \/ \E m \in DOMAIN wire[p] : wire'[p][n] = wire[p][m]
          \/ \E m \in DOMAIN sent : wire'[p][n] = sent[m]
    BY OrdinaryWires
  <2>2. \A n \in DOMAIN wire'[Other(p)] :
          \E m \in DOMAIN wire[Other(p)] : wire'[Other(p)][n] = wire[Other(p)][m]
    BY OrdinaryWires
  <2>3. \A r \in Peers : r = p \/ r = Other(p)
    BY <1>1, TwoPeers
  <2> QED
    BY <2>1, <2>2, <2>3
<1>5. ASSUME NEW n \in DOMAIN wire'[Host], wire'[Host][n].cmd = "WRTE"
      PROVE  Receives(wire'[Host][n].arg1, wire'[Host][n].data[2])
  BY <1>1, <1>4, <1>5 DEF Receivers, Names
<1>6. ASSUME NEW n \in DOMAIN wire'[Device], wire'[Device][n].cmd = "OKAY", online[Host]
      PROVE  Receives(wire'[Device][n].arg0, StreamOf(wire'[Device][n].arg1))
  BY <1>1, <1>4, <1>6 DEF Receivers, Names
<1>7. \A n \in DOMAIN wire'[Host] :
        wire'[Host][n].cmd = "WRTE" => \A l \in Ids :
          socket'[Device][l].state = "open"
            /\ socket'[Device][l].stream = wire'[Host][n].data[2] => l = wire'[Host][n].arg1
  BY <1>2, <1>5 DEF Receives
<1>8. \A i \in Ids : LET s == socket'[Host][i] IN
        s.state = "open" /\ s.peer # 0 => \A l \in Ids :
          socket'[Device][l].state = "open" /\ socket'[Device][l].stream = s.stream => l = s.peer
  BY <1>2 DEF Receives
<1>9. online'[Host] => \A n \in DOMAIN wire'[Device] :
         wire'[Device][n].cmd = "OKAY" => \A l \in Ids :
           socket'[Device][l].state = "open"
             /\ socket'[Device][l].stream = StreamOf(wire'[Device][n].arg1) => l = wire'[Device][n].arg0
  BY <1>2, <1>3, <1>6 DEF Receives
<1> QED
  BY <1>3, <1>7, <1>8, <1>9 DEF Receivers, Receives, StreamOf

LEMMA OwnOkay ==
  ASSUME IInv, Sessions, NEW p \in Peers, NEW i \in Ids, NEW r, socket[p][i].state = "open",
         Partner(p, i, r)
  PROVE  Names(p, Sent(p, <<Okay(i, r)>>)) /\ Names(p, <<>>) /\ Names(p, Sent(p, <<>>))
<1>1. \A m : \A n \in DOMAIN <<m>> : <<m>>[n] = m
  OBVIOUS
<1>2. \A n \in DOMAIN <<>> : FALSE
  OBVIOUS
<1>3. Okay(i, r).cmd = "OKAY" /\ Okay(i, r).arg0 = i /\ Okay(i, r).arg1 = r
  BY DEF Okay, Packet
<1>4. p = Device /\ online[Host] => Receives(i, StreamOf(r))
  BY Distinct DEF Partner, Receives
<1>5. Names(p, <<>>)
  BY <1>2 DEF Names
<1>6. Names(p, <<Okay(i, r)>>)
  <2>1. \A n \in DOMAIN <<Okay(i, r)>> : <<Okay(i, r)>>[n] = Okay(i, r)
    BY <1>1
  <2> QED
    BY <1>3, <1>4, <2>1 DEF Names
<1> QED
  BY <1>5, <1>6 DEF Sent

LEMMA OthersAreNames ==
  ASSUME NEW p, NEW sent, \A n \in DOMAIN sent : sent[n].cmd = "CLSE"
  PROVE  Names(p, sent)
  BY DEF Names

LEMMA OwnWrite ==
  ASSUME IInv, Receivers, NEW p \in Peers, NEW i \in Ids,
         socket[p][i].state = "open", socket[p][i].peer # 0
  PROVE  /\ Names(p, Sent(p, <<WritePacket(p, i)>>))
         /\ Names(p, Sent(p, <<WritePacket(p, i)>> \o CloseMessage(socket[p][i])))
<1> DEFINE s == socket[p][i]
           m == WritePacket(p, i)
           c == Packet("CLSE", 0, s.peer)
<1>1. m.cmd = "WRTE" /\ m.arg1 = s.peer /\ m.data[2] = s.stream /\ c.cmd = "CLSE"
  BY DEF WritePacket, Packet
<1>2. p = Host => Receives(s.peer, s.stream)
  BY DEF Receivers
<1> HIDE DEF m, c, s
<1>3. /\ \A n \in DOMAIN <<m>> : <<m>>[n] = m
      /\ \A n \in DOMAIN (<<m>> \o <<c>>) : (<<m>> \o <<c>>)[n] = m \/ (<<m>> \o <<c>>)[n] = c
      /\ \A n \in DOMAIN <<>> : FALSE
  <2>1. <<m>> \in Seq({m, c}) /\ <<c>> \in Seq({m, c}) /\ Len(<<m>>) = 1 /\ Len(<<c>>) = 1
    OBVIOUS
  <2>2. <<m>>[1] = m /\ <<c>>[1] = c
    OBVIOUS
  <2>3. /\ \A n \in DOMAIN <<m>> : <<m>>[n] = m
        /\ \A n \in DOMAIN <<>> : FALSE
    OBVIOUS
  <2>4. \A n \in DOMAIN (<<m>> \o <<c>>) :
          (n = 1 /\ (<<m>> \o <<c>>)[n] = <<m>>[1]) \/ (<<m>> \o <<c>>)[n] = <<c>>[1]
    BY <2>1, TwoElements
  <2> QED
    BY <2>2, <2>3, <2>4
<1>4. CloseMessage(s) = <<c>>
  BY DEF CloseMessage, c, s
<1>5. Names(p, <<m>>) /\ Names(p, <<m>> \o <<c>>) /\ Names(p, <<>>)
  BY <1>1, <1>2, <1>3, AdbStreamAssumption DEF Names
<1> QED
  BY <1>4, <1>5 DEF Sent, m, s

LEMMA PeersStay ==
  ASSUME IInv, NEW p \in Peers, NEW j \in Ids,
         HandleWrite(p) \/ HandleClose(p) \/ WriteEvent(p, j) \/ ReadEvent(p, j)
  PROVE  \A r \in Peers, i \in Ids : socket'[r][i].state = "open" =>
           /\ socket[r][i].state = "open"
           /\ socket'[r][i].peer = socket[r][i].peer /\ socket'[r][i].stream = socket[r][i].stream
<1>1. socket \in [Peers -> [Ids -> Sockets]]
  BY InvParts DEF TypeOK
<1>2. ASSUME NEW x \in Ids, NEW t, socket' = [socket EXCEPT ![p][x] = t],
             t.state = "open" => /\ socket[p][x].state = "open"
                                 /\ t.peer = socket[p][x].peer /\ t.stream = socket[p][x].stream
      PROVE  \A r \in Peers, i \in Ids : socket'[r][i].state = "open" =>
               /\ socket[r][i].state = "open"
               /\ socket'[r][i].peer = socket[r][i].peer /\ socket'[r][i].stream = socket[r][i].stream
  BY <1>1, <1>2
<1>3. \A s : Closed(s).state # "open"
  BY DEF Closed, Free
<1>4. CASE HandleWrite(p)
  <2> DEFINE x == Received(p).arg1
             s == socket[p][x]
  <2>1. x \in Ids /\ s \in Sockets /\ s.state = "open"
    BY <1>1, <1>4 DEF HandleWrite, Finds
  <2>2. \/ UNCHANGED socket
        \/ socket' = [socket EXCEPT ![p][x] = [s EXCEPT !.pending = Append(@, Received(p).data)]]
        \/ socket' = [socket EXCEPT ![p][x] = Closed(s)]
    BY <1>4 DEF HandleWrite
  <2>3. LET t == [s EXCEPT !.pending = Append(@, Received(p).data)] IN
        t.peer = s.peer /\ t.stream = s.stream
    BY <2>1 DEF Sockets
  <2>4. CASE UNCHANGED socket
    BY <2>4
  <2>5. CASE socket' = [socket EXCEPT ![p][x] = [s EXCEPT !.pending = Append(@, Received(p).data)]]
    BY <1>2, <2>1, <2>3, <2>5
  <2>6. CASE socket' = [socket EXCEPT ![p][x] = Closed(s)]
    BY <1>2, <1>3, <2>1, <2>6
  <2> QED
    BY <2>2, <2>4, <2>5, <2>6
<1>5. CASE HandleClose(p)
  <2>1. Received(p).arg1 \in Ids
    BY <1>5 DEF HandleClose, Finds
  <2> QED
    BY <1>2, <1>3, <1>5, <2>1 DEF HandleClose
<1>6. CASE WriteEvent(p, j)
  <2> DEFINE s == socket[p][j]
  <2>1. s \in Sockets
    BY <1>1
  <2>2. \/ \E rest : socket' = [socket EXCEPT ![p][j] = [s EXCEPT !.pending = rest]]
        \/ socket' = [socket EXCEPT ![p][j] = Closed(s)]
    BY <1>6 DEF WriteEvent, Drain
  <2>3. ASSUME NEW rest, socket' = [socket EXCEPT ![p][j] = [s EXCEPT !.pending = rest]]
        PROVE  \A r \in Peers, i \in Ids : socket'[r][i].state = "open" =>
                 /\ socket[r][i].state = "open"
                 /\ socket'[r][i].peer = socket[r][i].peer /\ socket'[r][i].stream = socket[r][i].stream
    <3> DEFINE t == [s EXCEPT !.pending = rest]
    <3>1. t.state = s.state /\ t.peer = s.peer /\ t.stream = s.stream
      BY <2>1 DEF Sockets
    <3>2. socket' = [socket EXCEPT ![p][j] = t]
      BY <2>3
    <3> HIDE DEF t
    <3> QED
      BY <1>2, <3>1, <3>2
  <2>4. CASE socket' = [socket EXCEPT ![p][j] = Closed(s)]
    BY <1>2, <1>3, <2>4
  <2> QED
    BY <2>2, <2>3, <2>4
<1>7. CASE ReadEvent(p, j)
  <2> DEFINE s == socket[p][j]
  <2>1. s \in Sockets
    BY <1>1
  <2>2. \/ socket' = [socket EXCEPT ![p][j] = [s EXCEPT !.reading = FALSE]]
        \/ socket' = [socket EXCEPT ![p][j] = Closed(s)]
    BY <1>7 DEF ReadEvent
  <2>3. LET t == [s EXCEPT !.reading = FALSE] IN
          t.state = s.state /\ t.peer = s.peer /\ t.stream = s.stream
    BY <2>1 DEF Sockets
  <2> QED
    BY <1>2, <1>3, <2>2, <2>3
<1> QED
  BY <1>4, <1>5, <1>6, <1>7

LEMMA DataReceivers ==
  ASSUME IInv, Sessions, Receivers, NEW p \in Peers, NEW d, NEW sent, Ordinary(p, d, sent),
         Names(p, sent),
         \A r \in Peers, i \in Ids : socket'[r][i].state = "open" =>
           /\ socket[r][i].state = "open"
           /\ socket'[r][i].peer = socket[r][i].peer /\ socket'[r][i].stream = socket[r][i].stream
  PROVE  Receivers'
<1>1. \A i \in Ids : LET s == socket'[Host][i] IN
        s.state = "open" /\ s.peer # 0 => Receives(s.peer, s.stream)
  BY TwoPeers DEF Receivers
<1> QED
  BY <1>1, OrdinaryReceivers

LEMMA OkayReceivers ==
  ASSUME IInv, Sessions, Receivers, NEW p \in Peers, HandleOkay(p)
  PROVE  Receivers'
<1>1. Ordinary(p, 1, <<>>) /\ Names(p, <<>>)
  <2>1. \A n \in DOMAIN <<>> : FALSE
    OBVIOUS
  <2> QED
    BY <2>1, OkayIsOrdinary DEF Names
<1>2. PICK j \in Ids :
        /\ j = Received(p).arg1 /\ online[p] /\ socket[p][j].state = "open"
        /\ wire[Other(p)] # <<>> /\ Received(p).cmd = "OKAY"
        /\ socket' = [socket EXCEPT ![p][j].peer = IF @ = 0 THEN Received(p).arg0 ELSE @,
                                    ![p][j].reading = TRUE]
  BY DEF HandleOkay, Finds, Handles
<1>3. /\ socket'[p][j].state = "open" /\ socket'[p][j].stream = socket[p][j].stream
      /\ socket'[p][j].peer = IF socket[p][j].peer = 0 THEN Received(p).arg0 ELSE socket[p][j].peer
      /\ \A r \in Peers, l \in Ids : r # p \/ l # j => socket'[r][l] = socket[r][l]
  <2>1. socket \in [Peers -> [Ids -> Sockets]]
    BY InvParts DEF TypeOK
  <2>2. socket[p][j] \in Sockets
    BY <2>1
  <2> QED
    BY <1>2, <2>1, <2>2 DEF Sockets
<1>4. Host \in Peers /\ Other(Host) = Device
  BY TwoPeers
<1>5. ASSUME p = Host, socket[p][j].peer = 0
      PROVE  Receives(Received(p).arg0, socket[p][j].stream)
  <2>1. /\ 1 \in DOMAIN wire[Device] /\ wire[Device][1] = Received(p)
    BY <1>2, <1>4, <1>5, ReceivedFacts
  <2>2. socket[p][j].stream = StreamOf(j)
    BY <1>2, <1>5 DEF Sessions, HostIds
  <2> QED
    BY <1>2, <1>5, <2>1, <2>2 DEF Receivers
<1>6. \A i \in Ids : LET s == socket'[Host][i] IN
        s.state = "open" /\ s.peer # 0 => Receives(s.peer, s.stream)
  <2> SUFFICES ASSUME NEW i \in Ids, socket'[Host][i].state = "open", socket'[Host][i].peer # 0
               PROVE  Receives(socket'[Host][i].peer, socket'[Host][i].stream)
    OBVIOUS
  <2>1. CASE p = Host /\ i = j /\ socket[p][j].peer = 0
    BY <1>3, <1>5, <2>1
  <2>2. CASE ~(p = Host /\ i = j /\ socket[p][j].peer = 0)
    <3>1. /\ socket[Host][i].state = "open" /\ socket'[Host][i].peer = socket[Host][i].peer
          /\ socket'[Host][i].stream = socket[Host][i].stream
      BY <1>2, <1>3, <1>4, <2>2
    <3> QED
      BY <3>1 DEF Receivers
  <2> QED
    BY <2>1, <2>2
<1> QED
  BY <1>1, <1>6, OrdinaryReceivers

LEMMA EventReceivers ==
  ASSUME IInv, Sessions, Receivers, NEW p \in Peers, NEW j \in Ids,
         HandleWrite(p) \/ HandleClose(p) \/ WriteEvent(p, j) \/ ReadEvent(p, j)
  PROVE  Receivers'
<1>1. \A r \in Peers, i \in Ids : socket'[r][i].state = "open" =>
        /\ socket[r][i].state = "open"
        /\ socket'[r][i].peer = socket[r][i].peer /\ socket'[r][i].stream = socket[r][i].stream
  BY PeersStay
<1>2. \A s : Names(p, Sent(p, CloseMessage(s)))
  BY CloseCommands, OthersAreNames
<1>3. Names(p, <<>>) /\ Names(p, Sent(p, <<>>))
  <2>1. \A n \in DOMAIN <<>> : FALSE
    OBVIOUS
  <2> QED
    BY <2>1 DEF Names, Sent
<1>4. \E d, sent : Ordinary(p, d, sent) /\ Names(p, sent)
  <2>1. CASE HandleWrite(p)
    <3> DEFINE m == Received(p)
               i == m.arg1
    <3>1. /\ i \in Ids /\ socket[p][i].state = "open" /\ Partner(p, i, m.arg0)
          /\ \/ Ordinary(p, 1, Sent(p, <<Okay(i, m.arg0)>>))
             \/ Ordinary(p, 1, <<>>)
             \/ Ordinary(p, 1, Sent(p, CloseMessage(socket[p][i])))
      BY <2>1, WriteIsOrdinary
    <3>2. Names(p, Sent(p, <<Okay(i, m.arg0)>>))
      BY <3>1, OwnOkay
    <3> QED
      BY <1>2, <1>3, <3>1, <3>2
  <2>2. CASE HandleClose(p)
    BY <1>2, <2>2, CloseIsOrdinary
  <2>3. CASE WriteEvent(p, j)
    <3> DEFINE s == socket[p][j]
    <3>1. /\ s.pending # <<>>
          /\ \/ s.state = "open" /\ Ordinary(p, 0, Sent(p, <<Okay(j, s.peer)>>))
             \/ Ordinary(p, 0, Sent(p, <<>>))
             \/ Ordinary(p, 0, Sent(p, CloseMessage(s)))
      BY <2>3, WriteEventIsOrdinary
    <3>2. s.state = "open" => Names(p, Sent(p, <<Okay(j, s.peer)>>))
      BY <3>1, OpenSocketFacts, PeerIsPartner, OwnOkay
    <3> QED
      BY <1>2, <1>3, <3>1, <3>2
  <2>4. CASE ReadEvent(p, j)
    <3> DEFINE s == socket[p][j]
    <3>1. /\ s.state = "open" /\ s.peer # 0
          /\ \/ Ordinary(p, 0, Sent(p, <<WritePacket(p, j)>>))
             \/ Ordinary(p, 0, Sent(p, <<WritePacket(p, j)>> \o CloseMessage(s)))
             \/ Ordinary(p, 0, Sent(p, CloseMessage(s)))
      BY <2>4, ReadEventIsOrdinary
    <3> QED
      BY <1>2, <3>1, OwnWrite
  <2> QED
    BY <2>1, <2>2, <2>3, <2>4
<1> QED
  BY <1>1, <1>4, DataReceivers

LEMMA IgnoreReceivers ==
  ASSUME IInv, Sessions, Receivers, NEW p \in Peers, NEW sent, Ordinary(p, 1, sent),
         \A n \in DOMAIN sent : sent[n].cmd = "CLSE", UNCHANGED socket
  PROVE  Receivers'
  BY OthersAreNames, DataReceivers

LEMMA AcceptReceivers ==
  ASSUME IInv, Sessions, Flow, Receivers, Accepts
  PROVE  Receivers'
<1>1. PICK j \in Ids, k \in Streams, a \in Ids :
        LET m == Received(Device)
            t == socket'[Device][j] IN
        /\ a = m.arg0 /\ k = m.data[2]
        /\ m = wire[Host][1] /\ m.cmd = "OPEN" /\ OpenPacket(m)
        /\ 1 \in DOMAIN wire[Host]
        /\ t.state = "open" /\ t.stream = k
        /\ \A r \in Peers, l \in Ids : r # Device \/ l # j => socket'[r][l] = socket[r][l]
        /\ UNCHANGED <<opened, online>> /\ local_socket_next_id'[Host] = local_socket_next_id[Host]
        /\ j = local_socket_next_id[Device]
        /\ Passes(Device, 1, Sent(Device, <<Okay(local_socket_next_id[Device], a)>>))
  BY AcceptFacts
<1>2. /\ Host \in Peers /\ Device \in Peers /\ Host # Device
      /\ Other(Host) = Device /\ Other(Device) = Host
  BY TwoPeers, AdbStreamAssumption
<1>3. Writes(Host, k) = {}
  <2>1. chunks[Host][k] = 0
    BY <1>1, <1>2 DEF Flow, NothingYet
  <2>2. Len(written[Device][k]) \in Nat /\ OneWrite(Device, k)
    BY <1>2, FlowTypes DEF Flow
  <2>3. ~Outstanding(Device, k)
    BY <1>2, <2>1, <2>2 DEF Outstanding
  <2> QED
    BY <1>2, <2>2, <2>3 DEF OneWrite, Writes
<1>4. \A x, y : Receives(x, y) /\ y # k =>
        \A l \in Ids : socket'[Device][l].state = "open" /\ socket'[Device][l].stream = y => l = x
  BY <1>1, <1>2 DEF Receives
<1>5. \A l \in Ids : socket'[Device][l].state = "open" /\ socket'[Device][l].stream = k => l = j
  <2>1. \A l \in Ids : socket[Device][l].state = "open" => socket[Device][l].stream # k
    BY <1>1 DEF OpenPacket
  <2> QED
    BY <1>1, <1>2, <2>1
<1>6. \A n \in DOMAIN wire'[Host] :
        wire'[Host][n].cmd = "WRTE" => \A l \in Ids :
          socket'[Device][l].state = "open"
            /\ socket'[Device][l].stream = wire'[Host][n].data[2] => l = wire'[Host][n].arg1
  <2> SUFFICES ASSUME NEW n \in DOMAIN wire'[Host], wire'[Host][n].cmd = "WRTE"
               PROVE  \A l \in Ids : socket'[Device][l].state = "open"
                        /\ socket'[Device][l].stream = wire'[Host][n].data[2] => l = wire'[Host][n].arg1
    OBVIOUS
  <2>1. n + 1 \in DOMAIN wire[Host] /\ wire'[Host][n] = wire[Host][n + 1]
    BY <1>1, <1>2, PassesWires
  <2>2. wire'[Host][n].data[2] # k
    BY <1>3, <2>1 DEF Writes
  <2>3. Receives(wire'[Host][n].arg1, wire'[Host][n].data[2])
    BY <2>1 DEF Receivers
  <2> QED
    BY <1>4, <2>2, <2>3
<1>7. ASSUME NEW i \in Ids, socket'[Host][i].state = "open", socket'[Host][i].peer # 0
      PROVE  \A l \in Ids : socket'[Device][l].state = "open"
               /\ socket'[Device][l].stream = socket'[Host][i].stream => l = socket'[Host][i].peer
  <2>1. socket'[Host][i] = socket[Host][i]
    BY <1>1, <1>2
  <2>2. socket[Host][i].stream # k
    BY <1>1, <1>7, <2>1 DEF Sessions, Unheard
  <2>3. Receives(socket[Host][i].peer, socket[Host][i].stream)
    BY <1>7, <2>1 DEF Receivers
  <2> QED
    BY <1>4, <2>1, <2>2, <2>3
<1>8. ASSUME online[Host], NEW n \in DOMAIN wire'[Device], wire'[Device][n].cmd = "OKAY"
      PROVE  \A l \in Ids : socket'[Device][l].state = "open"
               /\ socket'[Device][l].stream = StreamOf(wire'[Device][n].arg1) => l = wire'[Device][n].arg0
  <2> DEFINE sent == Sent(Device, <<Okay(j, a)>>)
  <2>1. \/ n \in DOMAIN wire[Device] /\ wire'[Device][n] = wire[Device][n]
        \/ \E x \in DOMAIN sent : wire'[Device][n] = sent[x]
    BY <1>1, <1>2, PassesWires
  <2>2. k = StreamOf(a)
    BY <1>1, <1>8 DEF OpenPacket
  <2>3. CASE n \in DOMAIN wire[Device] /\ wire'[Device][n] = wire[Device][n]
    <3>1. Receives(wire[Device][n].arg0, StreamOf(wire[Device][n].arg1))
      BY <1>8, <2>3 DEF Receivers
    <3>2. wire[Device][n].arg1 # a
      BY <1>1, <1>8, <2>3 DEF OpenPacket, Addressed
    <3>3. StreamOf(wire[Device][n].arg1) # StreamOf(a)
      <4>1. wire[Device][n].arg1 \in Nat /\ a \in Nat /\ opened \in Nat /\ local_socket_next_id[Host] \in Nat
        <5>1. wire[Device][n] \in Packets
          BY <1>2, <2>3, Types
        <5>2. wire[Device][n].arg1 \in 0 .. MaxOpens
          BY <5>1, ReceivedIds
        <5> QED
          BY <1>2, <5>2, Types, PeerTypes
      <4> QED
        BY <3>2, <4>1 DEF StreamOf
    <3> QED
      BY <1>4, <2>2, <2>3, <3>1, <3>3
  <2>4. CASE \E x \in DOMAIN sent : wire'[Device][n] = sent[x]
    <3>1. \A x \in DOMAIN sent : sent[x] = Okay(j, a)
      <4>1. \A m : \A x \in DOMAIN <<m>> : <<m>>[x] = m
        OBVIOUS
      <4>2. \A x \in DOMAIN <<>> : FALSE
        OBVIOUS
      <4>3. \A x \in DOMAIN <<Okay(j, a)>> : <<Okay(j, a)>>[x] = Okay(j, a)
        BY <4>1
      <4> QED
        BY <4>2, <4>3 DEF Sent
    <3>2. Okay(j, a).arg0 = j /\ Okay(j, a).arg1 = a
      BY DEF Okay, Packet
    <3> HIDE DEF sent
    <3>3. wire'[Device][n].arg0 = j /\ wire'[Device][n].arg1 = a
      BY <2>4, <3>1, <3>2
    <3> QED
      BY <1>5, <2>2, <3>3
  <2> QED
    BY <2>1, <2>3, <2>4
<1> QED
  BY <1>1, <1>6, <1>7, <1>8 DEF Receivers, Receives, StreamOf

LEMMA OpenReceivers ==
  ASSUME IInv, Sessions, Receivers, Open
  PROVE  Receivers'
<1>1. PICK j \in Ids, k \in Streams :
        /\ opened' = opened + 1 /\ online[Host] /\ UNCHANGED online
        /\ j = local_socket_next_id[Host] /\ k = opened + 1
        /\ local_socket_next_id'[Host] = local_socket_next_id[Host] + 1
        /\ \A l \in Ids : socket'[Device][l] = socket[Device][l]
        /\ \A l \in Ids : l # j => socket'[Host][l] = socket[Host][l]
        /\ \/ socket'[Host][j] = NewSocket(0, k)
           \/ socket'[Host][j] = socket[Host][j]
        /\ OpenOf(j, k).cmd = "OPEN"
        /\ Passes(Host, 0, Sent(Host, <<OpenOf(j, k)>>))
  BY OpenFacts
<1>2. /\ Host \in Peers /\ Device \in Peers /\ Host # Device
      /\ Other(Host) = Device /\ Other(Device) = Host
  BY TwoPeers, AdbStreamAssumption
<1>3. ASSUME NEW n \in DOMAIN wire'[Host], wire'[Host][n].cmd = "WRTE"
      PROVE  n \in DOMAIN wire[Host] /\ wire'[Host][n] = wire[Host][n]
  <2> DEFINE sent == Sent(Host, <<OpenOf(j, k)>>)
  <2>1. \/ n \in DOMAIN wire[Host] /\ wire'[Host][n] = wire[Host][n]
        \/ \E x \in DOMAIN sent : wire'[Host][n] = sent[x]
    BY <1>1, <1>2, PassesWires
  <2>2. \A x \in DOMAIN sent : sent[x].cmd = "OPEN"
    <3>1. \A m : \A x \in DOMAIN <<m>> : <<m>>[x] = m
      OBVIOUS
    <3>2. \A x \in DOMAIN <<>> : FALSE
      OBVIOUS
    <3>3. \A x \in DOMAIN <<OpenOf(j, k)>> : <<OpenOf(j, k)>>[x] = OpenOf(j, k)
      BY <3>1
    <3> QED
      BY <1>1, <3>2, <3>3 DEF Sent
  <2> HIDE DEF sent
  <2> QED
    BY <1>3, <2>1, <2>2
<1>4. \A n \in DOMAIN wire'[Device] : \E m \in DOMAIN wire[Device] : wire'[Device][n] = wire[Device][m]
  BY <1>1, <1>2, PassesWires
<1>5. \A i \in Nat : i + opened' + 1 - local_socket_next_id'[Host] = StreamOf(i)
  BY <1>1, Types DEF StreamOf
<1>6. \A n \in DOMAIN wire'[Device] : wire'[Device][n].arg1 \in Nat
  <2>1. \A n \in DOMAIN wire[Device] : wire[Device][n] \in Packets
    BY <1>2, Types
  <2>2. \A n \in DOMAIN wire[Device] : wire[Device][n].arg1 \in 0 .. MaxOpens
    BY <2>1, ReceivedIds
  <2> QED
    BY <1>4, <2>2
<1>7. \A i \in Ids : LET s == socket'[Host][i] IN
        s.state = "open" /\ s.peer # 0 => Receives(s.peer, s.stream)
  <2>1. NewSocket(0, k).peer = 0
    BY DEF NewSocket, Free
  <2> QED
    BY <1>1, <2>1 DEF Receivers
<1>8. \A n \in DOMAIN wire'[Host] :
        wire'[Host][n].cmd = "WRTE" => Receives(wire'[Host][n].arg1, wire'[Host][n].data[2])
  BY <1>3 DEF Receivers
<1>9. \A n \in DOMAIN wire'[Device] :
        wire'[Device][n].cmd = "OKAY" =>
          Receives(wire'[Device][n].arg0,
                   wire'[Device][n].arg1 + opened' + 1 - local_socket_next_id'[Host])
  BY <1>1, <1>4, <1>5, <1>6 DEF Receivers
<1> QED
  BY <1>1, <1>7, <1>8, <1>9 DEF Receivers, Receives, StreamOf

LEMMA ConnectionReceivers ==
  ASSUME IInv, Sessions, Receivers, NEW d, NEW c, NEW new, NEW e, NEW b, NEW more,
         Reconnects(d, c, new, e, b, more),
         \/ ~online'[Host]
         \/ online[Host] /\ local_socket_next_id'[Host] = local_socket_next_id[Host]
         \/ \A n \in DOMAIN wire'[Device] : wire'[Device][n].cmd # "OKAY"
  PROVE  Receivers'
<1>1. Host \in Peers /\ Device \in Peers
  BY TwoPeers
<1>2. /\ \A n \in DOMAIN wire'[Host] :
           wire'[Host][n].cmd \in {"SYNC", "CNXN"} \/ \E m \in DOMAIN wire[Host] : wire'[Host][n] = wire[Host][m]
      /\ \A n \in DOMAIN wire'[Device] :
           wire'[Device][n].cmd \in {"SYNC", "CNXN"} \/ \E m \in DOMAIN wire[Device] : wire'[Device][n] = wire[Device][m]
  BY MovedFacts DEF Reconnects, Connects
<1>3. \A r \in Peers, i \in Ids : socket'[r][i].state = "open" => socket'[r][i] = socket[r][i]
  BY QuieterFacts DEF Reconnects
<1>4. \A x, y : Receives(x, y) =>
        \A l \in Ids : socket'[Device][l].state = "open" /\ socket'[Device][l].stream = y => l = x
  BY <1>1, <1>3 DEF Receives
<1>5. \A n \in DOMAIN wire'[Host] :
        wire'[Host][n].cmd = "WRTE" => Receives(wire'[Host][n].arg1, wire'[Host][n].data[2])
  BY <1>2 DEF Receivers
<1>6. \A i \in Ids : LET s == socket'[Host][i] IN
        s.state = "open" /\ s.peer # 0 => Receives(s.peer, s.stream)
  BY <1>1, <1>3 DEF Receivers
<1>7. online'[Host] => \A n \in DOMAIN wire'[Device] :
        wire'[Device][n].cmd = "OKAY" =>
          Receives(wire'[Device][n].arg0,
                   wire'[Device][n].arg1 + opened' + 1 - local_socket_next_id'[Host])
  BY <1>2 DEF Receivers, Reconnects, StreamOf
<1>8. \A n \in DOMAIN wire'[Host] :
        wire'[Host][n].cmd = "WRTE" => \A l \in Ids :
          socket'[Device][l].state = "open"
            /\ socket'[Device][l].stream = wire'[Host][n].data[2] => l = wire'[Host][n].arg1
  BY <1>4, <1>5
<1>9. \A i \in Ids : LET s == socket'[Host][i] IN
        s.state = "open" /\ s.peer # 0 => \A l \in Ids :
          socket'[Device][l].state = "open" /\ socket'[Device][l].stream = s.stream => l = s.peer
  BY <1>4, <1>6
<1>10. online'[Host] => \A n \in DOMAIN wire'[Device] :
         wire'[Device][n].cmd = "OKAY" => \A l \in Ids :
           socket'[Device][l].state = "open"
             /\ socket'[Device][l].stream
                  = wire'[Device][n].arg1 + opened' + 1 - local_socket_next_id'[Host]
             => l = wire'[Device][n].arg0
  BY <1>4, <1>7
<1> QED
  BY <1>8, <1>9, <1>10 DEF Receivers, Receives, StreamOf

-------------------------------------------------------------------------------
(* What a step leaves of a stream that is or was closed.                     *)

Shut(p, k) == ClosedWell(p, k) /\ \A i \in Ids : NothingLost(p, i, k)

LEMMA ClosesAreShut ==
  /\ Closes <=> Receivers /\ \A p \in Peers, k \in Streams : Shut(p, k)
  /\ Closes' <=> Receivers' /\ \A p \in Peers, k \in Streams : Shut(p, k)'
BY DEF Closes, Shut

ClosesCome(r, d, i) ==
  d \in Nat /\ \A n \in DOMAIN wire'[r] :
    wire'[r][n].cmd = "CLSE" /\ wire'[r][n].arg1 = i =>
      n \in Nat /\ n + d \in DOMAIN wire[r] /\ wire'[r][n] = wire[r][n + d]

(* The open sockets of stream k were open, and what was to arrive still is.  *)
Leaves(r, k) ==
  /\ \A x \in Peers, i \in Ids : socket'[x][i].state = "open" /\ socket'[x][i].stream = k =>
       socket[x][i].state = "open" /\ socket[x][i].stream = k
  /\ \A i \in Ids : socket'[r][i].state = "open" /\ socket'[r][i].stream = k =>
       (Arriving(r, i, k) => Arriving(r, i, k)')
  /\ ended'[r][k] = "clse" => ended[r][k] = "clse" /\ (Held(r, k) => Held(r, k)')

LEMMA LostRests ==
  ASSUME NEW p \in Peers, NEW i \in Ids, NEW k \in Streams, NothingLost(p, i, k), Leaves(p, k),
         NEW d, WritesCome(Other(p), d, k), ClosesCome(Other(p), d, i),
         broken'[Other(p)] = broken[Other(p)]
  PROVE  NothingLost(p, i, k)'
<1> DEFINE q == Other(p)
<1>1. q \in Peers
  BY TwoPeers
<1> HIDE DEF q
<1> SUFFICES ASSUME socket'[p][i].state = "open", socket'[p][i].stream = k
             PROVE  /\ ~broken'[q] /\ OpenFor(q, k)' => Arriving(p, i, k)'
                    /\ \A n \in DOMAIN wire'[q] :
                         wire'[q][n].cmd = "CLSE" /\ wire'[q][n].arg1 = i =>
                           /\ ~OpenFor(q, k)' /\ Arriving(p, i, k)'
                           /\ \A m \in Writes(q, k)' : m < n
  BY DEF NothingLost, CloseTo, q
<1>2. socket[p][i].state = "open" /\ socket[p][i].stream = k
  BY DEF Leaves
<1>3. Arriving(p, i, k) => Arriving(p, i, k)'
  BY DEF Leaves
<1>4. OpenFor(q, k)' => OpenFor(q, k)
  BY <1>1 DEF Leaves, OpenFor
<1>5. ~broken'[q] /\ OpenFor(q, k)' => Arriving(p, i, k)'
  BY <1>2, <1>3, <1>4 DEF NothingLost, q
<1>6. ASSUME NEW n \in DOMAIN wire'[q], wire'[q][n].cmd = "CLSE", wire'[q][n].arg1 = i
      PROVE  /\ ~OpenFor(q, k)' /\ Arriving(p, i, k)'
             /\ \A m \in Writes(q, k)' : m < n
  <2>1. d \in Nat /\ n \in Nat /\ n + d \in DOMAIN wire[q] /\ CloseTo(q, n + d, i)
    BY <1>6 DEF ClosesCome, CloseTo, q
  <2>2. ~OpenFor(q, k) /\ Arriving(p, i, k) /\ \A m \in Writes(q, k) : m < n + d
    BY <1>2, <2>1 DEF NothingLost, q
  <2>3. \A m \in Writes(q, k)' : m \in Nat /\ m + d \in Writes(q, k)
    BY DEF WritesCome, q
  <2>4. \A m \in Writes(q, k)' : m \in Nat /\ m + d < n + d
    BY <2>2, <2>3
  <2>5. \A m \in Writes(q, k)' : m < n
    BY <2>1, <2>4
  <2> QED
    BY <1>3, <1>4, <2>2, <2>5
<1> QED
  BY <1>5, <1>6

LEMMA WellRests ==
  ASSUME NEW p \in Peers, NEW k \in Streams, k \in Nat, ClosedWell(p, k), Leaves(p, k),
         NEW d, WritesCome(Other(p), d, k),
         opened \in Nat, opened' \in Nat, opened <= opened',
         \A n \in DOMAIN wire'[Host] : wire'[Host][n].cmd = "OPEN" =>
           \/ wire'[Host][n].data[2] # k
           \/ \E m \in DOMAIN wire[Host] : wire'[Host][n] = wire[Host][m]
  PROVE  ClosedWell(p, k)'
<1> DEFINE q == Other(p)
<1>1. q \in Peers
  BY TwoPeers
<1>2. SUFFICES ASSUME ended'[p][k] = "clse"
               PROVE  /\ k <= opened'
                      /\ ~OpenFor(p, k)' /\ ~OpenFor(q, k)' /\ Writes(q, k)' = {}
                      /\ \A n \in DOMAIN wire'[Host] :
                           wire'[Host][n].cmd = "OPEN" => wire'[Host][n].data[2] # k
                      /\ Held(p, k)'
  BY DEF ClosedWell
<1>3. ended[p][k] = "clse" /\ (Held(p, k) => Held(p, k)')
  BY <1>2 DEF Leaves
<1>4. /\ k <= opened
      /\ ~OpenFor(p, k) /\ ~OpenFor(q, k) /\ Writes(q, k) = {}
      /\ \A n \in DOMAIN wire[Host] : wire[Host][n].cmd = "OPEN" => wire[Host][n].data[2] # k
      /\ Held(p, k)
  BY <1>3 DEF ClosedWell
<1> HIDE DEF q
<1>5. (OpenFor(q, k)' => OpenFor(q, k)) /\ (OpenFor(p, k)' => OpenFor(p, k))
  BY <1>1 DEF Leaves, OpenFor
<1>6. Writes(q, k)' = {}
  BY <1>4 DEF WritesCome, q
<1>7. k <= opened'
  BY <1>4
<1> QED
  BY <1>3, <1>4, <1>5, <1>6, <1>7

LEMMA ClosesPass ==
  ASSUME IInv, NEW p \in Peers, NEW d, NEW sent, Passes(p, d, sent)
  PROVE  /\ \A i : ClosesCome(Other(p), d, i)
         /\ \A i : (\A n \in DOMAIN sent : sent[n].cmd = "CLSE" => sent[n].arg1 # i) =>
              ClosesCome(p, 0, i)
<1>1. d \in Nat
  BY PassesWires
<1>2. \A n \in DOMAIN wire'[Other(p)] :
        n \in Nat /\ n + d \in DOMAIN wire[Other(p)] /\ wire'[Other(p)][n] = wire[Other(p)][n + d]
  BY PassesWires
<1>3. \A n \in DOMAIN wire'[p] :
        /\ n \in Nat
        /\ \/ n \in DOMAIN wire[p] /\ wire'[p][n] = wire[p][n]
           \/ \E m \in DOMAIN sent : wire'[p][n] = sent[m]
  BY PassesWires
<1>4. \A n \in Nat : n + 0 = n
  OBVIOUS
<1>5. ASSUME NEW i, \A n \in DOMAIN sent : sent[n].cmd = "CLSE" => sent[n].arg1 # i
      PROVE  ClosesCome(p, 0, i)
  BY <1>3, <1>4, <1>5 DEF ClosesCome
<1> QED
  BY <1>1, <1>2, <1>5 DEF ClosesCome

LEMMA WritesStay ==
  ASSUME IInv, NEW p \in Peers, NEW d, NEW sent, Passes(p, d, sent), NEW k
  PROVE  /\ Writes(p, k) # {} => Writes(p, k)' # {}
         /\ (d = 1 => 1 \notin Writes(Other(p), k)) =>
              (Writes(Other(p), k) # {} => Writes(Other(p), k)' # {})
<1>1. \A n \in DOMAIN wire[p] : n \in DOMAIN wire'[p] /\ wire'[p][n] = wire[p][n]
  BY PassesWires
<1>2. \A n \in DOMAIN wire[Other(p)] : d < n =>
        n - d \in DOMAIN wire'[Other(p)] /\ wire'[Other(p)][n - d] = wire[Other(p)][n]
  BY PassesWires
<1>3. d \in {0, 1} /\ \A n \in DOMAIN wire[Other(p)] : n \in Nat /\ n # 0
  <2>1. Other(p) \in Peers
    BY TwoPeers
  <2>2. DOMAIN wire[Other(p)] = 1 .. Len(wire[Other(p)])
    BY <2>1, Types
  <2> QED
    BY <2>2, PassesWires
<1>4. Writes(p, k) # {} => Writes(p, k)' # {}
  BY <1>1 DEF Writes
<1>5. ASSUME d = 1 => 1 \notin Writes(Other(p), k), NEW n \in Writes(Other(p), k)
      PROVE  Writes(Other(p), k)' # {}
  <2>1. n \in DOMAIN wire[Other(p)] /\ d < n
    BY <1>3, <1>5 DEF Writes
  <2>2. n - d \in Writes(Other(p), k)'
    BY <1>2, <1>5, <2>1 DEF Writes
  <2> QED
    BY <2>2
<1> QED
  BY <1>4, <1>5

LEMMA ArrivingStays ==
  ASSUME NEW r, NEW i, NEW k, Rests(r, k),
         socket[r][i].pending # <<>> => socket'[r][i].pending # <<>>,
         Writes(Other(r), k) # {} => Writes(Other(r), k)' # {}
  PROVE  Arriving(r, i, k) => Arriving(r, i, k)'
BY DEF Arriving, Rests, Delivered

LEMMA HeldStays ==
  ASSUME NEW r, NEW k, Rests(r, k),
         \A i \in Ids : socket[r][i].stream = k /\ socket[r][i].pending # <<>> =>
           socket'[r][i].stream = k /\ socket'[r][i].pending # <<>>
  PROVE  Held(r, k) => Held(r, k)'
BY DEF Held, Rests, Delivered

(* What end p sends, to end r too, says nothing of stream k.                 *)
Silent(p, sent, r, k) ==
  \A n \in DOMAIN sent :
    /\ sent[n].cmd = "OPEN" => sent[n].data[2] # k
    /\ r # p /\ sent[n].cmd = "WRTE" => sent[n].data[2] # k
    /\ r # p /\ sent[n].cmd = "CLSE" => \A i \in Ids :
         sent[n].arg1 = i => ~(socket'[r][i].state = "open" /\ socket'[r][i].stream = k)

LEMMA ShutPasses ==
  ASSUME IInv, NEW p \in Peers, NEW d, NEW sent, Passes(p, d, sent),
         NEW r \in Peers, NEW k \in Streams, Shut(r, k), Leaves(r, k), Silent(p, sent, r, k),
         opened' \in Nat, opened <= opened'
  PROVE  Shut(r, k)'
<1>1. r = p \/ (r = Other(p) /\ r # p /\ Other(r) = p)
  BY TwoPeers
<1>2. opened \in Nat /\ k \in Nat
  BY Types DEF Streams
<1>3. UNCHANGED broken
  BY DEF Passes
<1>4. \A n \in DOMAIN wire'[Host] : wire'[Host][n].cmd = "OPEN" =>
        \/ wire'[Host][n].data[2] # k
        \/ \E m \in DOMAIN wire[Host] : wire'[Host][n] = wire[Host][m]
  <2>1. \A n \in DOMAIN wire'[p] :
          \/ n \in DOMAIN wire[p] /\ wire'[p][n] = wire[p][n]
          \/ \E m \in DOMAIN sent : wire'[p][n] = sent[m]
    BY PassesWires
  <2>2. \A n \in DOMAIN wire'[Other(p)] :
          \E m \in DOMAIN wire[Other(p)] : wire'[Other(p)][n] = wire[Other(p)][m]
    BY PassesWires
  <2>3. Host = p \/ Host = Other(p)
    BY TwoPeers
  <2> QED
    BY <2>1, <2>2, <2>3 DEF Silent
<1>5. \E e : WritesCome(Other(r), e, k) /\ ClosedWell(r, k)'
  <2>1. \E e : WritesCome(Other(r), e, k)
    BY <1>1, PassesTokens DEF Silent
  <2> QED
    BY <1>2, <1>4, <2>1, WellRests DEF Shut
<1>6. ASSUME NEW i \in Ids
      PROVE  NothingLost(r, i, k)'
  <2>1. CASE ~(socket'[r][i].state = "open" /\ socket'[r][i].stream = k)
    BY <2>1 DEF NothingLost
  <2>2. CASE r = p
    <3>1. WritesCome(Other(r), d, k) /\ ClosesCome(Other(r), d, i)
      BY <2>2, PassesTokens, ClosesPass
    <3> QED
      BY <1>3, <3>1, LostRests DEF Shut
  <2>3. CASE /\ socket'[r][i].state = "open" /\ socket'[r][i].stream = k
             /\ r # p /\ Other(r) = p
    <3>1. WritesCome(p, 0, k)
      BY <2>3, PassesTokens DEF Silent
    <3>2. ClosesCome(p, 0, i)
      BY <2>3, ClosesPass DEF Silent
    <3> QED
      BY <1>3, <2>3, <3>1, <3>2, LostRests DEF Shut
  <2> QED
    BY <1>1, <2>1, <2>2, <2>3
<1> QED
  BY <1>5, <1>6 DEF Shut

(* A step of end p is about stream k0.                                        *)
Touches(p, d, sent, k0) ==
  /\ \A n \in DOMAIN sent :
       /\ sent[n].cmd \in {"WRTE", "OPEN"} => sent[n].data[2] = k0
       /\ sent[n].cmd = "CLSE" => \A i \in Ids :
            sent[n].arg1 = i /\ socket[Other(p)][i].state = "open" => socket[Other(p)][i].stream = k0
  /\ d = 1 /\ wire[Other(p)][1].cmd = "WRTE" => wire[Other(p)][1].data[2] = k0
  /\ \A x \in Peers, i \in Ids :
       socket'[x][i] = socket[x][i] \/ (socket[x][i].stream \in {0, k0} /\ socket'[x][i].stream \in {0, k0})
  /\ \A x \in Peers, k \in Streams : k # k0 => ended'[x][k] = ended[x][k] /\ Rests(x, k)

LEMMA OthersShut ==
  ASSUME IInv, NEW p \in Peers, NEW d, NEW sent, Passes(p, d, sent), NEW k0, Touches(p, d, sent, k0),
         NEW r \in Peers, NEW k \in Streams, k # k0, Shut(r, k),
         opened' \in Nat, opened <= opened'
  PROVE  Shut(r, k)'
<1>1. k # 0
  BY DEF Streams
<1>2. \A x \in Peers, i \in Ids :
        socket'[x][i].stream = k \/ socket[x][i].stream = k => socket'[x][i] = socket[x][i]
  BY <1>1 DEF Touches
<1>3. Rests(r, k) /\ ended'[r][k] = ended[r][k]
  BY DEF Touches
<1>4. Writes(Other(r), k) # {} => Writes(Other(r), k)' # {}
  <2>1. d = 1 => 1 \notin Writes(Other(p), k)
    BY DEF Touches, Writes
  <2>2. r = p \/ Other(r) = p
    BY TwoPeers
  <2> QED
    BY <2>1, <2>2, WritesStay
<1>5. \A i \in Ids : socket'[r][i].state = "open" /\ socket'[r][i].stream = k =>
        (Arriving(r, i, k) => Arriving(r, i, k)')
  BY <1>2, <1>3, <1>4, ArrivingStays
<1>6. Held(r, k) => Held(r, k)'
  <2>1. \A i \in Ids : socket[r][i].stream = k /\ socket[r][i].pending # <<>> =>
          socket'[r][i].stream = k /\ socket'[r][i].pending # <<>>
    BY <1>2
  <2> QED
    BY <1>3, <2>1, HeldStays
<1>7. Leaves(r, k)
  BY <1>2, <1>3, <1>5, <1>6 DEF Leaves
<1>8. Silent(p, sent, r, k)
  <2>1. ASSUME r # p, NEW i \in Ids, socket'[r][i].state = "open", socket'[r][i].stream = k,
               NEW n \in DOMAIN sent, sent[n].cmd = "CLSE"
        PROVE  sent[n].arg1 # i
    <3>1. r = Other(p) /\ socket[r][i].state = "open" /\ socket[r][i].stream = k
      BY <1>2, <2>1, TwoPeers
    <3> QED
      BY <2>1, <3>1 DEF Touches
  <2>2. ASSUME NEW n \in DOMAIN sent
        PROVE  /\ sent[n].cmd = "OPEN" => sent[n].data[2] # k
               /\ sent[n].cmd = "WRTE" => sent[n].data[2] # k
    BY <2>2 DEF Touches
  <2> QED
    BY <2>1, <2>2 DEF Silent
<1> QED
  BY <1>7, <1>8, ShutPasses

LEMMA TouchCloses ==
  ASSUME IInv, Closes, Receivers', NEW p \in Peers, NEW d, NEW sent, Passes(p, d, sent),
         opened' \in Nat, opened <= opened', NEW k0, Touches(p, d, sent, k0),
         k0 \in Streams => Shut(p, k0)' /\ Shut(Other(p), k0)'
  PROVE  Closes'
<1>1. ASSUME NEW r \in Peers, NEW k \in Streams
      PROVE  Shut(r, k)'
  <2>1. CASE k = k0
    BY <2>1, TwoPeers
  <2>2. CASE k # k0
    BY <2>2, OthersShut, ClosesAreShut
  <2> QED
    BY <2>1, <2>2
<1> QED
  BY <1>1, ClosesAreShut

-------------------------------------------------------------------------------
(* Answers, packets for nobody, streams that are refused.                    *)

LEMMA CalmShut ==
  ASSUME IInv, NEW p \in Peers, NEW d, NEW sent, Passes(p, d, sent),
         NEW r \in Peers, NEW k \in Streams, Shut(r, k), Silent(p, sent, r, k),
         UNCHANGED <<chunks, written, ended, opened>>,
         \A x \in Peers, i \in Ids :
           /\ socket'[x][i].state = socket[x][i].state /\ socket'[x][i].stream = socket[x][i].stream
           /\ socket'[x][i].pending = socket[x][i].pending,
         r = p /\ d = 1 /\ OpenFor(p, k) => 1 \notin Writes(Other(p), k)
  PROVE  Shut(r, k)'
<1>1. Rests(r, k)
  BY DEF Rests
<1>2. r = p \/ Other(r) = p
  BY TwoPeers
<1>3. ASSUME NEW i \in Ids, socket'[r][i].state = "open", socket'[r][i].stream = k
      PROVE  Arriving(r, i, k) => Arriving(r, i, k)'
  <2>1. OpenFor(r, k)
    BY <1>3 DEF OpenFor
  <2>2. Writes(Other(r), k) # {} => Writes(Other(r), k)' # {}
    BY <1>2, <2>1, WritesStay
  <2>3. socket[r][i].pending # <<>> => socket'[r][i].pending # <<>>
    OBVIOUS
  <2> QED
    BY <1>1, <2>2, <2>3, ArrivingStays
<1>4. Held(r, k) => Held(r, k)'
  BY <1>1, HeldStays
<1>5. \A x \in Peers, i \in Ids : socket'[x][i].state = "open" /\ socket'[x][i].stream = k =>
        socket[x][i].state = "open" /\ socket[x][i].stream = k
  OBVIOUS
<1>6. Leaves(r, k)
  BY <1>3, <1>4, <1>5 DEF Leaves
<1>7. opened' \in Nat /\ opened <= opened'
  BY Types
<1> QED
  BY <1>6, <1>7, ShutPasses

LEMMA OkayCloses ==
  ASSUME IInv, Sessions, Closes, NEW p \in Peers, HandleOkay(p)
  PROVE  Closes'
<1>1. Receivers'
  BY OkayReceivers DEF Closes
<1>2. Passes(p, 1, <<>>) /\ UNCHANGED opened
  BY OkayIsOrdinary DEF Ordinary
<1>3. PICK j \in Ids :
        /\ Received(p).cmd = "OKAY" /\ wire[Other(p)] # <<>>
        /\ socket' = [socket EXCEPT ![p][j].peer = IF @ = 0 THEN Received(p).arg0 ELSE @,
                                    ![p][j].reading = TRUE]
        /\ UNCHANGED <<chunks, written, ended>>
  BY DEF HandleOkay, Finds, Handles, historyVars
<1>4. \A x \in Peers, i \in Ids :
        /\ socket'[x][i].state = socket[x][i].state /\ socket'[x][i].stream = socket[x][i].stream
        /\ socket'[x][i].pending = socket[x][i].pending
  <2>1. socket \in [Peers -> [Ids -> Sockets]]
    BY InvParts DEF TypeOK
  <2>2. socket[p][j] \in Sockets
    BY <2>1
  <2> QED
    BY <1>3, <2>1, <2>2 DEF Sockets
<1>5. \A k : 1 \notin Writes(Other(p), k)
  BY <1>3, ReceivedFacts DEF Writes
<1>6. \A r \in Peers, k \in Streams : Silent(p, <<>>, r, k)
  <2>1. \A n \in DOMAIN <<>> : FALSE
    OBVIOUS
  <2> QED
    BY <2>1 DEF Silent
<1>7. \A r \in Peers, k \in Streams : Shut(r, k)'
  BY <1>2, <1>3, <1>4, <1>5, <1>6, CalmShut, ClosesAreShut
<1> QED
  BY <1>1, <1>7, ClosesAreShut

(* A WRITE is for nobody only if no socket of its stream is open.            *)
LEMMA IgnoredWrites ==
  ASSUME IInv, Sessions, Receivers, NEW p \in Peers, Ignore(p),
         NEW k \in Streams, OpenFor(p, k)
  PROVE  1 \notin Writes(Other(p), k)
<1> SUFFICES ASSUME 1 \in Writes(Other(p), k)
             PROVE  FALSE
  OBVIOUS
<1>1. PICK i \in Ids : socket[p][i].state = "open" /\ socket[p][i].stream = k
  BY DEF OpenFor
<1>2. online[p]
  BY <1>1, OpenSocketFacts
<1> DEFINE m == Received(p)
<1>3. wire[Other(p)] # <<>>
  BY DEF Ignore, Handles
<1>4. 1 \in DOMAIN wire[Other(p)] /\ wire[Other(p)][1] = m /\ m.cmd = "WRTE" /\ m.data[2] = k
  BY <1>3, ReceivedFacts DEF Writes
<1>5. ~Finds(p)
  BY <1>4 DEF Ignore, Handles
<1>6. m.arg1 # i
  BY <1>1, <1>2, <1>5 DEF Finds
<1>7. CASE p = Device
  <2>1. Receives(m.arg1, k)
    BY <1>4, <1>7, TwoPeers DEF Receivers
  <2> QED
    BY <1>1, <1>6, <1>7, <2>1 DEF Receives
<1>8. CASE p = Host
  <2>1. DevicePacket(m)
    BY <1>4, <1>8, TwoPeers DEF Sessions, PacketsBelong
  <2>2. k = StreamOf(m.arg1)
    BY <1>2, <1>4, <1>8, <2>1 DEF DevicePacket
  <2>3. k = StreamOf(i)
    BY <1>1, <1>8 DEF Sessions, HostIds
  <2>4. m.arg1 \in Nat /\ i \in Nat /\ opened \in Nat /\ local_socket_next_id[Host] \in Nat
    BY <1>3, ReceivedFacts, Types, PeerTypes
  <2> QED
    BY <1>6, <2>2, <2>3, <2>4 DEF StreamOf
<1> QED
  BY <1>7, <1>8, TwoPeers

LEMMA IgnoreCloses ==
  ASSUME IInv, Sessions, Closes, NEW p \in Peers, Ignore(p)
  PROVE  Closes'
<1>1. Ordinary(p, 1, <<>>) /\ UNCHANGED <<socket, chunks, written, opened, ended>>
  BY IgnoreIsOrdinary
<1>2. Passes(p, 1, <<>>)
  BY <1>1 DEF Ordinary
<1>3. \A n \in DOMAIN <<>> : FALSE
  OBVIOUS
<1>4. Receivers'
  <2>1. \A n \in DOMAIN <<>> : <<>>[n].cmd = "CLSE"
    BY <1>3
  <2> QED
    BY <1>1, <2>1, IgnoreReceivers DEF Closes
<1>5. \A r \in Peers, k \in Streams : Silent(p, <<>>, r, k)
  BY <1>3 DEF Silent
<1>6. \A k \in Streams : OpenFor(p, k) => 1 \notin Writes(Other(p), k)
  BY IgnoredWrites DEF Closes
<1>7. \A r \in Peers, k \in Streams : Shut(r, k)'
  BY <1>1, <1>2, <1>5, <1>6, CalmShut, ClosesAreShut
<1> QED
  BY <1>4, <1>7, ClosesAreShut

LEMMA EmptyStream ==
  ASSUME IInv, Flow, NEW n \in DOMAIN wire[Host], wire[Host][n].cmd = "OPEN",
         NEW k, k = wire[Host][n].data[2]
  PROVE  /\ k \in Streams
         /\ \A p \in Peers : chunks[p][k] = 0 /\ Len(written[p][k]) = 0 /\ Delivered(p, k)
                             /\ Writes(p, k) = {}
<1>1. k \in Streams
  BY OpenStreams
<1>2. \A p \in Peers : chunks[p][k] = 0 /\ Other(p) \in Peers /\ Other(Other(p)) = p
  BY TwoPeers DEF Flow, NothingYet
<1>3. ASSUME NEW p \in Peers
      PROVE  /\ Len(written[p][k]) = 0 /\ Delivered(p, k) /\ ~Outstanding(p, k)
             /\ OneWrite(p, k)
  <2>1. InOrder(p, k) /\ OneWrite(p, k)
    BY <1>1 DEF Flow
  <2>2. Len(written[p][k]) \in Nat /\ Len(written[p][k]) <= 0
    BY <1>1, <1>2, <2>1, FlowTypes DEF InOrder
  <2>3. Len(written[p][k]) = 0
    BY <2>2
  <2> QED
    BY <1>2, <2>1, <2>3 DEF Delivered, Outstanding
<1>4. ASSUME NEW p \in Peers
      PROVE  Writes(p, k) = {}
  <2>1. OneWrite(Other(p), k) /\ ~Outstanding(Other(p), k)
    BY <1>2, <1>3
  <2> QED
    BY <1>2, <2>1 DEF OneWrite
<1> QED
  BY <1>1, <1>2, <1>3, <1>4

LEMMA RejectCloses ==
  ASSUME IInv, Sessions, Flow, Closes, Handles(Device, "OPEN"), online[Device],
         Replies(Device, <<Packet("CLSE", 0, Received(Device).arg0)>>),
         UNCHANGED <<socket, endVars, countVars, historyVars>>
  PROVE  Closes'
<1> DEFINE m == Received(Device)
<1>0. PICK k, a : k = m.data[2] /\ a = m.arg0
  OBVIOUS
<1> DEFINE c == Packet("CLSE", 0, a)
           sent == Sent(Device, <<c>>)
<1>1. /\ Host \in Peers /\ Device \in Peers /\ Host # Device
      /\ Other(Host) = Device /\ Other(Device) = Host
  BY TwoPeers, AdbStreamAssumption
<1>2. /\ 1 \in DOMAIN wire[Host] /\ wire[Host][1] = m /\ m.cmd = "OPEN"
      /\ a \in 0 .. MaxOpens
  BY <1>0, <1>1, ReceivedFacts DEF Handles
<1>3. UNCHANGED <<socket, chunks, written, ended, opened, online, broken, local_socket_next_id>>
  BY DEF endVars, countVars, historyVars
<1>4. Ordinary(Device, 1, sent)
  BY <1>0, <1>3, RejectIsOrdinary DEF endVars
<1>5. Passes(Device, 1, sent)
  BY <1>4 DEF Ordinary
<1>6. c.cmd = "CLSE" /\ c.arg1 = a
  BY DEF Packet
<1>7. \A n \in DOMAIN sent : sent[n] = c
  <2>1. \A x : \A n \in DOMAIN <<x>> : <<x>>[n] = x
    OBVIOUS
  <2>2. \A n \in DOMAIN <<>> : FALSE
    OBVIOUS
  <2>3. \A n \in DOMAIN <<c>> : <<c>>[n] = c
    BY <2>1
  <2> QED
    BY <2>2, <2>3 DEF Sent
<1>8. Receivers'
  <2>1. \A n \in DOMAIN sent : sent[n].cmd = "CLSE"
    BY <1>6, <1>7
  <2> HIDE DEF sent
  <2> QED
    BY <1>1, <1>3, <1>4, <2>1, IgnoreReceivers DEF Closes
<1>9. /\ k \in Streams
      /\ \A p \in Peers : Delivered(p, k) /\ Writes(p, k) = {}
  <2>1. wire[Host][1].cmd = "OPEN" /\ k = wire[Host][1].data[2]
    BY <1>0, <1>2
  <2> HIDE DEF m, c, sent
  <2> QED
    BY <1>2, <2>1, EmptyStream
<1>10. OpenPacket(m)
  BY <1>1, <1>2 DEF Sessions, PacketsBelong, HostPacket
<1>11. ~OpenFor(Device, k)
  BY <1>0, <1>10 DEF OpenPacket, OpenFor
<1>12. Touches(Device, 1, sent, k)
  <2>1. ASSUME NEW i \in Ids, i = a, socket[Host][i].state = "open"
        PROVE  socket[Host][i].stream = k
    <3>1. online[Host] /\ socket[Host][i].state # "free"
      BY <1>1, <2>1, OpenSocketFacts
    <3>2. k = StreamOf(a)
      BY <1>0, <1>10, <3>1 DEF OpenPacket
    <3>3. socket[Host][i].stream = StreamOf(i)
      BY <3>1 DEF Sessions, HostIds
    <3> QED
      BY <2>1, <3>2, <3>3
  <2>2. ASSUME NEW n \in DOMAIN sent
        PROVE  /\ sent[n].cmd = "CLSE"
               /\ \A i \in Ids : sent[n].arg1 = i /\ socket[Host][i].state = "open" =>
                    socket[Host][i].stream = k
    <3>1. sent[n] = c
      BY <1>7, <2>2
    <3> QED
      BY <1>6, <2>1, <3>1
  <2>3. \A x \in Peers, y \in Streams : ended'[x][y] = ended[x][y] /\ Rests(x, y)
    BY <1>3 DEF Rests
  <2>4. wire[Host][1].cmd = "OPEN"
    BY <1>2
  <2> HIDE DEF sent, c, m
  <2> QED
    BY <1>1, <1>3, <2>2, <2>3, <2>4 DEF Touches
<1> HIDE DEF sent, c, m
<1>13. Writes(Device, k)' = {}
  <2>1. \A n \in DOMAIN sent : sent[n].cmd = "WRTE" => sent[n].data[2] # k
    BY <1>6, <1>7
  <2>2. WritesCome(Device, 0, k)
    BY <1>1, <1>5, <2>1, PassesTokens
  <2> QED
    BY <1>9, <1>1, <2>2 DEF WritesCome
<1>14. Shut(Device, k)'
  <2>1. Silent(Device, sent, Device, k)
    BY <1>6, <1>7 DEF Silent
  <2>2. \A x : 1 \notin Writes(Host, x)
    BY <1>2 DEF Writes
  <2>3. Shut(Device, k)
    BY <1>1, <1>9, ClosesAreShut
  <2> QED
    BY <1>1, <1>3, <1>5, <1>9, <2>1, <2>2, <2>3, CalmShut
<1>15. Shut(Host, k)'
  <2>1. ended'[Host][k] # "clse"
    <3>1. ClosedWell(Host, k)
      BY <1>1, <1>9 DEF Closes
    <3> QED
      BY <1>0, <1>2, <1>3, <3>1 DEF ClosedWell, m
  <2>2. ~OpenFor(Device, k)'
    BY <1>3, <1>11 DEF OpenFor
  <2>3. \A i : Arriving(Host, i, k)'
    BY <1>1, <1>3, <1>9 DEF Arriving, Delivered
  <2>4. ClosedWell(Host, k)'
    BY <2>1 DEF ClosedWell
  <2>5. \A i \in Ids : NothingLost(Host, i, k)'
    BY <1>1, <1>13, <2>2, <2>3 DEF NothingLost
  <2> QED
    BY <2>4, <2>5 DEF Shut
<1>16. opened' \in Nat /\ opened <= opened'
  BY <1>3, Types
<1> QED
  BY <1>1, <1>5, <1>8, <1>12, <1>14, <1>15, <1>16, TouchCloses

-------------------------------------------------------------------------------
(* A socket is closed.                                                       *)

(* End p closes its socket j of stream k; what it sends ends in the CLOSE.    *)
Farewell(p, j, k, d, sent) ==
  LET s == socket[p][j]
      q == Other(p) IN
  /\ s.state = "open" /\ s.stream = k
  /\ socket'[p][j].state # "open" /\ socket'[p][j].stream \in {0, k}
  /\ \A r \in Peers, l \in Ids : r # p \/ l # j => socket'[r][l] = socket[r][l]
  /\ \A n \in DOMAIN sent :
       \/ sent[n].cmd = "WRTE" /\ sent[n].data[2] = k
       \/ n = Len(sent) /\ sent[n].cmd = "CLSE" /\ sent[n].arg1 = s.peer /\ s.peer # 0
  /\ d = 1 /\ wire[q][1].cmd = "WRTE" => wire[q][1].data[2] = k
  /\ \A x \in Peers, y \in Streams : y # k => ended'[x][y] = ended[x][y] /\ Rests(x, y)
  /\ ended'[q][k] = ended[q][k]
  /\ Rests(q, k) \/ (sent # <<>> => Writes(p, k)' # {})

LEMMA FarewellTouches ==
  ASSUME IInv, Sessions, NEW p \in Peers, NEW d, NEW sent, NEW j \in Ids, NEW k \in Streams,
         Farewell(p, j, k, d, sent)
  PROVE  Touches(p, d, sent, k) /\ ~OpenFor(p, k)'
<1>1. Other(p) \in Peers /\ Other(p) # p
  BY TwoPeers, AdbStreamAssumption
<1>2. ASSUME NEW n \in DOMAIN sent
      PROVE  /\ sent[n].cmd \in {"WRTE", "OPEN"} => sent[n].data[2] = k
             /\ sent[n].cmd = "CLSE" => \A i \in Ids :
                  sent[n].arg1 = i /\ socket[Other(p)][i].state = "open" => socket[Other(p)][i].stream = k
  <2>1. \/ sent[n].cmd = "WRTE" /\ sent[n].data[2] = k
        \/ /\ sent[n].cmd = "CLSE" /\ sent[n].arg1 = socket[p][j].peer
           /\ socket[p][j].peer # 0
    BY <1>2 DEF Farewell
  <2>2. socket[p][j].state = "open" /\ socket[p][j].stream = k
    BY DEF Farewell
  <2>3. ASSUME NEW i \in Ids, i = socket[p][j].peer, socket[p][j].peer # 0,
               socket[Other(p)][i].state = "open"
        PROVE  socket[Other(p)][i].stream = k
    <3>1. Partner(p, j, i)
      BY <2>2, <2>3, PeerIsPartner
    <3> QED
      BY <2>2, <2>3, <3>1, PartnerStream
  <2> QED
    BY <2>1, <2>3
<1>3. \A x \in Peers, i \in Ids :
        socket'[x][i] = socket[x][i] \/ (socket[x][i].stream \in {0, k} /\ socket'[x][i].stream \in {0, k})
  BY DEF Farewell
<1>4. Touches(p, d, sent, k)
  BY <1>2, <1>3 DEF Touches, Farewell
<1>5. ASSUME NEW i \in Ids, socket'[p][i].state = "open", socket'[p][i].stream = k
      PROVE  FALSE
  <2>1. i # j /\ socket'[p][i] = socket[p][i]
    BY <1>5 DEF Farewell
  <2>2. socket[p][j].state = "open" /\ socket[p][j].stream = k
    BY DEF Farewell
  <2> QED
    BY <1>5, <2>1, <2>2, Distinct
<1> QED
  BY <1>4, <1>5 DEF OpenFor

LEMMA FarewellShut ==
  ASSUME IInv, Sessions, Closes, NEW p \in Peers, NEW d, NEW sent, Passes(p, d, sent),
         NEW j \in Ids, NEW k \in Streams, Farewell(p, j, k, d, sent)
  PROVE  Shut(Other(p), k)'
<1> DEFINE q == Other(p)
<1>1. q \in Peers /\ Other(q) = p /\ q # p
  BY TwoPeers, AdbStreamAssumption
<1>2. OpenFor(p, k)
  BY DEF OpenFor, Farewell
<1>3. ~OpenFor(p, k)'
  BY FarewellTouches
<1> HIDE DEF q
<1>4. ClosedWell(q, k)'
  <2>1. ClosedWell(q, k) /\ ended'[q][k] = ended[q][k]
    BY <1>1 DEF Closes, Farewell, q
  <2>2. ended'[q][k] # "clse"
    BY <1>1, <1>2, <2>1 DEF ClosedWell
  <2> QED
    BY <2>2 DEF ClosedWell
<1>5. ASSUME NEW l \in Ids
      PROVE  NothingLost(q, l, k)'
  <2> SUFFICES ASSUME socket'[q][l].state = "open", socket'[q][l].stream = k,
                      NEW n \in DOMAIN wire'[p], wire'[p][n].cmd = "CLSE", wire'[p][n].arg1 = l
               PROVE  Arriving(q, l, k)' /\ \A m \in Writes(p, k)' : m < n
    BY <1>1, <1>3 DEF NothingLost, CloseTo
  <2>1. socket[q][l] = socket'[q][l]
    BY <1>1 DEF Farewell
  <2>2. NothingLost(q, l, k)
    BY <1>1 DEF Closes
  <2>3. ~CloseTo(p, n, l) \/ n \notin DOMAIN wire[p]
    BY <1>1, <1>2, <2>1, <2>2 DEF NothingLost
  <2>4. /\ n > Len(wire[p]) /\ n - Len(wire[p]) \in DOMAIN sent
        /\ wire'[p][n] = sent[n - Len(wire[p])]
        /\ ~broken[p] /\ n \in Nat
    <3>1. \A x \in DOMAIN wire[p] : x \in DOMAIN wire'[p] /\ wire'[p][x] = wire[p][x]
      BY PassesWires
    <3>2. n \notin DOMAIN wire[p]
      BY <2>3, <3>1 DEF CloseTo
    <3> QED
      BY <3>2, PassesWires
  <2>5. n = Len(wire[p]) + Len(sent)
    <3>1. n - Len(wire[p]) = Len(sent)
      BY <2>4 DEF Farewell
    <3>2. Len(wire[p]) \in Nat /\ n \in Nat
      BY <2>4, Types
    <3>3. n = Len(wire[p]) + (n - Len(wire[p]))
      BY <3>2
    <3> QED
      BY <3>1, <3>3
  <2>6. \A m \in Writes(p, k)' : m < n
    <3> SUFFICES ASSUME NEW m \in DOMAIN wire'[p], wire'[p][m].cmd = "WRTE"
                 PROVE  m < n
      BY DEF Writes
    <3>1. Len(wire'[p]) = n /\ DOMAIN wire'[p] = 1 .. n
      <4>1. Moved(wire[p], wire'[p], 0, Len(wire[p]), sent)
        BY DEF Passes
      <4>2. Len(wire'[p]) = Len(wire[p]) + Len(sent) /\ wire'[p] \in Seq(Packets)
        BY <4>1 DEF Moved
      <4> QED
        BY <2>5, <4>2
    <3>2. m # n
      OBVIOUS
    <3> QED
      BY <2>4, <3>1, <3>2
  <2>7. Arriving(q, l, k)'
    <3>1. Arriving(q, l, k)
      BY <1>1, <1>2, <2>1, <2>2, <2>4 DEF NothingLost
    <3>2. Writes(p, k) # {} => Writes(p, k)' # {}
      BY WritesStay
    <3>3. sent # <<>>
      <4>1. \A x \in DOMAIN <<>> : FALSE
        OBVIOUS
      <4> QED
        BY <2>4, <4>1
    <3>4. CASE Rests(q, k)
      BY <1>1, <2>1, <3>1, <3>2, <3>4, ArrivingStays
    <3>5. CASE Writes(p, k)' # {}
      BY <1>1, <3>5 DEF Arriving
    <3> QED
      BY <3>3, <3>4, <3>5 DEF Farewell, q
  <2> QED
    BY <2>6, <2>7
<1> QED
  BY <1>4, <1>5 DEF Shut, q

LEMMA FarewellCloses ==
  ASSUME IInv, Sessions, Closes, Receivers', NEW p \in Peers, NEW d, NEW sent, Passes(p, d, sent),
         NEW j \in Ids, NEW k \in Streams, Farewell(p, j, k, d, sent), UNCHANGED opened,
         ClosedWell(p, k)'
  PROVE  Closes'
<1>1. Touches(p, d, sent, k) /\ ~OpenFor(p, k)'
  BY FarewellTouches
<1>2. Shut(Other(p), k)'
  BY FarewellShut
<1>3. \A i \in Ids : ~(socket'[p][i].state = "open" /\ socket'[p][i].stream = k)
  BY <1>1 DEF OpenFor
<1>4. \A i \in Ids : NothingLost(p, i, k)'
  BY <1>3 DEF NothingLost
<1>5. Shut(p, k)'
  BY <1>4 DEF Shut
<1>6. opened' \in Nat /\ opened <= opened'
  BY Types
<1> QED
  BY <1>1, <1>2, <1>5, <1>6, TouchCloses

LEMMA CloseIsLast ==
  ASSUME NEW p, NEW s
  PROVE  \A n \in DOMAIN Sent(p, CloseMessage(s)) :
           LET m == Sent(p, CloseMessage(s)) IN
           n = Len(m) /\ m[n].cmd = "CLSE" /\ m[n].arg1 = s.peer /\ s.peer # 0
<1> DEFINE c == Packet("CLSE", 0, s.peer)
<1>1. c.cmd = "CLSE" /\ c.arg1 = s.peer
  BY DEF Packet
<1>2. \A x : \A n \in DOMAIN <<x>> : n = 1 /\ <<x>>[n] = x /\ Len(<<x>>) = 1
  OBVIOUS
<1>3. \A n \in DOMAIN <<>> : FALSE
  OBVIOUS
<1>4. \A n \in DOMAIN <<c>> : n = Len(<<c>>) /\ <<c>>[n].cmd = "CLSE" /\ <<c>>[n].arg1 = s.peer
  <2> HIDE DEF c
  <2> QED
    BY <1>1, <1>2
<1> QED
  BY <1>3, <1>4 DEF Sent, CloseMessage

LEMMA ClosedIsHeard ==
  ASSUME IInv, Sessions, NEW p \in Peers, NEW j \in Ids, socket[p][j].state = "open",
         1 \in DOMAIN wire[Other(p)], CloseTo(Other(p), 1, j)
  PROVE  /\ socket[p][j].stream <= opened
         /\ \A n \in DOMAIN wire[Host] : wire[Host][n].cmd = "OPEN" =>
              wire[Host][n].data[2] # socket[p][j].stream
<1>1. \A n \in DOMAIN wire[Host] : wire[Host][n].cmd = "OPEN" => OpenPacket(wire[Host][n])
  BY DEF Sessions, PacketsBelong, HostPacket
<1>2. CASE p = Host
  <2>1. j < local_socket_next_id[Host] /\ socket[Host][j].stream = StreamOf(j)
    BY <1>2 DEF Sessions, HostIds
  <2>2. j \in Nat /\ local_socket_next_id[Host] \in Nat /\ opened \in Nat
    BY Types, PeerTypes
  <2>3. socket[Host][j].stream <= opened
    BY <2>1, <2>2 DEF StreamOf
  <2>4. online[Host]
    BY <1>2, OpenSocketFacts
  <2>5. 1 \in DOMAIN wire[Device] /\ wire[Device][1].cmd = "CLSE" /\ wire[Device][1].arg1 = j
    BY <1>2, TwoPeers DEF CloseTo
  <2>6. ASSUME NEW n \in DOMAIN wire[Host], wire[Host][n].cmd = "OPEN"
        PROVE  wire[Host][n].data[2] # socket[Host][j].stream
    <3>1. OpenPacket(wire[Host][n])
      BY <1>1, <2>6
    <3>2. wire[Host][n].data[2] = StreamOf(wire[Host][n].arg0) /\ wire[Host][n].arg0 # j
      BY <2>4, <2>5, <3>1 DEF OpenPacket, Addressed
    <3>3. wire[Host][n].arg0 \in Nat
      <4>1. wire[Host][n] \in Packets
        BY Types
      <4> QED
        BY <4>1, ReceivedIds
    <3> QED
      BY <2>1, <2>2, <3>2, <3>3 DEF StreamOf
  <2> QED
    BY <1>2, <2>3, <2>6
<1>3. CASE p = Device
  BY <1>1, <1>3 DEF Sessions, DeviceIds, OpenPacket
<1> QED
  BY <1>2, <1>3, TwoPeers

LEMMA CloseCloses ==
  ASSUME IInv, Sessions, Closes, NEW p \in Peers, HandleClose(p)
  PROVE  Closes'
<1> DEFINE q == Other(p)
           m == Received(p)
<1>1. PICK j \in Ids, k \in Streams :
        LET s == socket[p][j]
            t == socket'[p][j] IN
        /\ j = m.arg1 /\ s.state = "open" /\ s.stream = k
        /\ m.cmd = "CLSE" /\ Ends(p, k, "clse")
        /\ UNCHANGED <<chunks, written, opened>>
        /\ \/ t = Free /\ s.pending = <<>>
           \/ t.state = "closing" /\ t.stream = s.stream /\ t.pending = s.pending
        /\ \A r \in Peers, l \in Ids : r # p \/ l # j => socket'[r][l] = socket[r][l]
        /\ Ordinary(p, 1, Sent(p, CloseMessage(s)))
  BY CloseIsOrdinary
<1>2. q \in Peers /\ q # p /\ Other(q) = p
  BY TwoPeers, AdbStreamAssumption
<1>3. 1 \in DOMAIN wire[q] /\ wire[q][1] = m
  BY ReceivedFacts DEF HandleClose, Handles
<1> DEFINE sent == Sent(p, CloseMessage(socket[p][j]))
<1>4. Passes(p, 1, sent)
  BY <1>1 DEF Ordinary
<1>5. \A x \in Peers, y \in Streams :
        ended'[x][y] = IF x = p /\ y = k THEN "clse" ELSE ended[x][y]
  <2>1. ended \in [Peers -> [Streams -> {"no", "eof", "error", "clse", "offline", "early"}]]
    BY InvParts DEF TypeOK
  <2> QED
    BY <1>1, <2>1 DEF Ends
<1>6. Farewell(p, j, k, 1, sent)
  <2>1. \A n \in DOMAIN sent :
          n = Len(sent) /\ sent[n].cmd = "CLSE" /\ sent[n].arg1 = socket[p][j].peer /\ socket[p][j].peer # 0
    BY CloseIsLast
  <2>2. socket'[p][j].state # "open" /\ socket'[p][j].stream \in {0, k}
    BY <1>1 DEF Free
  <2>3. \A x \in Peers, y \in Streams : Rests(x, y)
    BY <1>1 DEF Rests
  <2> HIDE DEF sent
  <2> QED
    BY <1>1, <1>2, <1>3, <1>5, <2>1, <2>2, <2>3 DEF Farewell
<1>7. Receivers'
  BY EventReceivers DEF Closes
<1>8. /\ ~OpenFor(q, k) /\ Arriving(p, j, k) /\ \A n \in Writes(q, k) : n < 1
  <2>1. NothingLost(p, j, k)
    BY DEF Closes
  <2>2. CloseTo(q, 1, j)
    BY <1>1, <1>3 DEF CloseTo
  <2> QED
    BY <1>1, <1>3, <2>1, <2>2 DEF NothingLost
<1>9. Writes(q, k) = {}
  <2>1. \A n \in Writes(q, k) : n \in 1 .. Len(wire[q]) /\ Len(wire[q]) \in Nat
    BY <1>2, Types DEF Writes
  <2> QED
    BY <1>8, <2>1
<1>10. /\ k <= opened
       /\ \A n \in DOMAIN wire[Host] : wire[Host][n].cmd = "OPEN" => wire[Host][n].data[2] # k
  BY <1>1, <1>3, ClosedIsHeard DEF CloseTo
<1>11. \A n \in DOMAIN wire'[Host] : wire'[Host][n].cmd = "OPEN" => wire'[Host][n].data[2] # k
  <2>1. \A n \in DOMAIN sent : sent[n].cmd = "CLSE"
    BY CloseIsLast
  <2> HIDE DEF sent
  <2>2. \A n \in DOMAIN wire'[p] :
          \/ n \in DOMAIN wire[p] /\ wire'[p][n] = wire[p][n]
          \/ \E x \in DOMAIN sent : wire'[p][n] = sent[x]
    BY <1>4, PassesWires
  <2>3. \A n \in DOMAIN wire'[q] : \E x \in DOMAIN wire[q] : wire'[q][n] = wire[q][x]
    BY <1>4, PassesWires
  <2>4. Host = p \/ Host = q
    BY TwoPeers
  <2> QED
    BY <1>10, <2>1, <2>2, <2>3, <2>4
<1>12. Writes(q, k)' = {}
  <2>1. WritesCome(q, 1, k)
    BY <1>4, PassesTokens
  <2> QED
    BY <1>9, <2>1 DEF WritesCome
<1>13. ~OpenFor(q, k)' /\ ~OpenFor(p, k)'
  <2>1. ~OpenFor(q, k)'
    BY <1>1, <1>2, <1>8 DEF OpenFor
  <2> QED
    BY <1>6, <2>1, FarewellTouches
<1>14. Held(p, k)'
  <2>1. CASE Delivered(p, k)
    BY <1>1, <2>1 DEF Held, Delivered
  <2>2. CASE ~Delivered(p, k)
    <3>1. socket[p][j].pending # <<>>
      BY <1>8, <1>9, <2>2 DEF Arriving
    <3>2. socket'[p][j].stream = k /\ socket'[p][j].pending # <<>>
      BY <1>1, <3>1
    <3> QED
      BY <3>2 DEF Held
  <2> QED
    BY <2>1, <2>2
<1>15. k <= opened'
  BY <1>1, <1>10
<1> HIDE DEF sent
<1>16. ClosedWell(p, k)'
  <2> HIDE DEF m
  <2> QED
    BY <1>11, <1>12, <1>13, <1>14, <1>15 DEF ClosedWell
<1> QED
  BY <1>1, <1>4, <1>6, <1>7, <1>16, FarewellCloses

-------------------------------------------------------------------------------
(* Data.                                                                     *)

(* The end that is not concerned keeps what it has of stream k.              *)
LEMMA QuietShut ==
  ASSUME IInv, NEW p \in Peers, NEW d, NEW sent, Passes(p, d, sent),
         NEW q, q = Other(p), NEW k \in Streams, Shut(q, k),
         Rests(q, k), ended'[q][k] = ended[q][k], UNCHANGED opened,
         \A n \in DOMAIN sent : sent[n].cmd = "OKAY",
         \A i \in Ids :
           /\ socket'[q][i] = socket[q][i]
           /\ socket'[p][i].state = "open" /\ socket'[p][i].stream = k =>
                socket[p][i].state = "open" /\ socket[p][i].stream = k
  PROVE  Shut(q, k)'
<1>1. q \in Peers /\ Other(q) = p /\ \A x \in Peers : x = p \/ x = q
  BY TwoPeers
<1>2. Writes(p, k) # {} => Writes(p, k)' # {}
  BY WritesStay
<1>3. \A i \in Ids : Arriving(q, i, k) => Arriving(q, i, k)'
  BY <1>1, <1>2, ArrivingStays
<1>4. Held(q, k) => Held(q, k)'
  BY HeldStays
<1>5. Leaves(q, k)
  BY <1>1, <1>3, <1>4 DEF Leaves
<1>6. Silent(p, sent, q, k)
  BY DEF Silent
<1>7. opened' \in Nat /\ opened <= opened'
  BY Types
<1> QED
  BY <1>1, <1>5, <1>6, <1>7, ShutPasses

(* What a step of end p and its socket j of stream k has in common when it   *)
(* sends no CLOSE.                                                           *)
Serves(p, j, k, d, sent) ==
  /\ Passes(p, d, sent) /\ UNCHANGED <<chunks, ended, opened>>
  /\ \A n \in DOMAIN sent : sent[n].cmd = "OKAY"
  /\ d = 1 /\ wire[Other(p)][1].cmd = "WRTE" => wire[Other(p)][1].data[2] = k
  /\ \A r \in Peers, l \in Ids : r # p \/ l # j => socket'[r][l] = socket[r][l]
  /\ socket[p][j].stream = k /\ socket'[p][j].stream \in {0, k}
  /\ socket'[p][j].state = "open" => socket[p][j].state = "open"

LEMMA ServesCloses ==
  ASSUME IInv, Closes, Receivers', NEW p \in Peers, NEW d, NEW sent, NEW j \in Ids, NEW k \in Streams,
         Serves(p, j, k, d, sent),
         \A x \in Peers, y \in Streams : x # p \/ y # k => written'[x][y] = written[x][y],
         \A i \in Ids : socket'[p][i].state = "open" /\ socket'[p][i].stream = k =>
           (Arriving(p, i, k) => Arriving(p, i, k)'),
         Held(p, k) => Held(p, k)'
  PROVE  Closes'
<1> DEFINE q == Other(p)
<1>1. q \in Peers /\ q # p /\ Other(q) = p /\ \A x \in Peers : x = p \/ x = q
  BY TwoPeers, AdbStreamAssumption
<1>2. Passes(p, d, sent) /\ opened' \in Nat /\ opened <= opened' /\ UNCHANGED <<chunks, ended, opened>>
  BY Types DEF Serves
<1>3. \A x \in Peers, y \in Streams : ended'[x][y] = ended[x][y] /\ (x = q \/ y # k => Rests(x, y))
  BY <1>1 DEF Serves, Rests
<1>4. \A x \in Peers, i \in Ids : socket'[x][i].state = "open" /\ socket'[x][i].stream = k =>
        socket[x][i].state = "open" /\ socket[x][i].stream = k
  BY DEF Serves
<1>5. \A n \in DOMAIN sent : sent[n].cmd = "OKAY"
  BY DEF Serves
<1>6. Touches(p, d, sent, k)
  <2>1. \A x \in Peers, i \in Ids : socket'[x][i] = socket[x][i]
          \/ (socket[x][i].stream \in {0, k} /\ socket'[x][i].stream \in {0, k})
    BY DEF Serves
  <2> QED
    BY <1>3, <1>5, <2>1 DEF Touches, Serves
<1>7. Shut(p, k) /\ Shut(q, k)
  BY <1>1, ClosesAreShut
<1>8. Shut(q, k)'
  <2>1. \A i \in Ids : socket'[q][i] = socket[q][i]
    BY <1>1 DEF Serves
  <2> HIDE DEF q
  <2>2. Other(p) = q
    BY DEF q
  <2> QED
    BY <1>1, <1>2, <1>3, <1>4, <1>5, <1>7, <2>1, <2>2, QuietShut
<1>9. Leaves(p, k)
  BY <1>3, <1>4 DEF Leaves
<1>10. Shut(p, k)'
  <2>1. Silent(p, sent, p, k)
    BY <1>5 DEF Silent
  <2> QED
    BY <1>2, <1>7, <1>9, <2>1, ShutPasses
<1> QED
  BY <1>2, <1>6, <1>8, <1>10, TouchCloses

LEMMA WrittenCloses ==
  ASSUME IInv, Closes, Receivers', NEW p \in Peers, NEW d, NEW sent, NEW j \in Ids, NEW k \in Streams,
         Serves(p, j, k, d, sent), Outstanding(p, k),
         written' = [written EXCEPT ![p][k] = Append(@, Last(p, k))]
  PROVE  Closes'
<1>1. Delivered(p, k)'
  <2>1. written \in [Peers -> [Streams -> Seq(Data)]]
    BY InvParts DEF TypeOK
  <2>2. written'[p][k] = Append(written[p][k], Last(p, k))
    BY <2>1
  <2>3. \A S, x : \A v \in Seq(S) : Len(Append(v, x)) = Len(v) + 1
    OBVIOUS
  <2>4. Len(written'[p][k]) = Len(written[p][k]) + 1
    BY <2>1, <2>2, <2>3
  <2> QED
    BY <2>4 DEF Delivered, Outstanding, Serves
<1>2. \A x \in Peers, y \in Streams : x # p \/ y # k => written'[x][y] = written[x][y]
  <2>1. written \in [Peers -> [Streams -> Seq(Data)]]
    BY InvParts DEF TypeOK
  <2> QED
    BY <2>1
<1> QED
  BY <1>1, <1>2, ServesCloses DEF Arriving, Held

LEMMA QueuedCloses ==
  ASSUME IInv, Sessions, Closes, Receivers', NEW p \in Peers, Passes(p, 1, <<>>),
         NEW j \in Ids, NEW k \in Streams, UNCHANGED <<chunks, written, ended, opened>>,
         wire[Other(p)][1].data[2] = k,
         \A r \in Peers, l \in Ids : r # p \/ l # j => socket'[r][l] = socket[r][l],
         socket[p][j].stream = k, socket[p][j].state = "open",
         socket'[p][j].stream = k, socket'[p][j].pending # <<>>
  PROVE  Closes'
<1>1. \A n \in DOMAIN <<>> : FALSE
  OBVIOUS
<1>2. Serves(p, j, k, 1, <<>>)
  BY <1>1 DEF Serves
<1>3. ASSUME NEW i \in Ids, socket'[p][i].state = "open", socket'[p][i].stream = k
      PROVE  i = j
  <2>1. CASE i # j
    <3>1. socket[p][i].state = "open" /\ socket[p][i].stream = k
      BY <1>3, <2>1
    <3> QED
      BY <3>1, Distinct
  <2> QED
    BY <2>1
<1>4. \A i \in Ids : socket'[p][i].state = "open" /\ socket'[p][i].stream = k => Arriving(p, i, k)'
  BY <1>3 DEF Arriving
<1>5. Held(p, k)'
  BY DEF Held
<1> QED
  BY <1>2, <1>4, <1>5, ServesCloses

LEMMA EndsFacts ==
  ASSUME IInv, NEW p \in Peers, NEW k \in Streams, NEW why, Ends(p, k, why)
  PROVE  \A x \in Peers, y \in Streams :
           ended'[x][y] = IF x = p /\ y = k THEN why ELSE ended[x][y]
<1>1. ended \in [Peers -> [Streams -> {"no", "eof", "error", "clse", "offline", "early"}]]
  BY InvParts DEF TypeOK
<1> QED
  BY <1>1 DEF Ends

LEMMA ErrorCloses ==
  ASSUME IInv, Sessions, Closes, Receivers', NEW p \in Peers, NEW d, NEW j \in Ids, NEW k \in Streams,
         NEW why, why # "clse", Ends(p, k, why),
         Passes(p, d, Sent(p, CloseMessage(socket[p][j]))),
         UNCHANGED <<chunks, written, opened>>,
         d = 1 /\ wire[Other(p)][1].cmd = "WRTE" => wire[Other(p)][1].data[2] = k,
         \A r \in Peers, l \in Ids : r # p \/ l # j => socket'[r][l] = socket[r][l],
         socket[p][j].state = "open", socket[p][j].stream = k,
         socket'[p][j].state # "open", socket'[p][j].stream \in {0, k}
  PROVE  Closes'
<1> DEFINE sent == Sent(p, CloseMessage(socket[p][j]))
<1>1. \A n \in DOMAIN sent :
        n = Len(sent) /\ sent[n].cmd = "CLSE" /\ sent[n].arg1 = socket[p][j].peer /\ socket[p][j].peer # 0
  BY CloseIsLast
<1>2. Passes(p, d, sent)
  OBVIOUS
<1> HIDE DEF sent
<1>3. \A x \in Peers, y \in Streams :
        ended'[x][y] = IF x = p /\ y = k THEN why ELSE ended[x][y]
  BY EndsFacts
<1>4. Other(p) \in Peers /\ Other(p) # p
  BY TwoPeers, AdbStreamAssumption
<1>5. \A x \in Peers, y \in Streams : Rests(x, y)
  BY DEF Rests
<1>6. Farewell(p, j, k, d, sent)
  BY <1>1, <1>3, <1>4, <1>5 DEF Farewell
<1>7. ClosedWell(p, k)'
  BY <1>3 DEF ClosedWell
<1> QED
  BY <1>2, <1>6, <1>7, FarewellCloses

(* What waits in a socket that was closed cannot be written.                 *)
LEMMA LateErrorCloses ==
  ASSUME IInv, Sessions, Closes, Receivers', NEW p \in Peers, NEW j \in Ids, NEW k \in Streams,
         NEW why, why # "clse", Ends(p, k, why), Passes(p, 0, <<>>),
         UNCHANGED <<chunks, written, opened>>,
         \A r \in Peers, l \in Ids : r # p \/ l # j => socket'[r][l] = socket[r][l],
         socket[p][j].state = "closing", socket[p][j].stream = k,
         socket'[p][j].state # "open", socket'[p][j].stream \in {0, k}
  PROVE  Closes'
<1> DEFINE q == Other(p)
<1>1. q \in Peers /\ q # p /\ Other(q) = p
  BY TwoPeers, AdbStreamAssumption
<1>2. \A x \in Peers, y \in Streams :
        ended'[x][y] = IF x = p /\ y = k THEN why ELSE ended[x][y]
  BY EndsFacts
<1>3. \A n \in DOMAIN <<>> : FALSE
  OBVIOUS
<1>4. Touches(p, 0, <<>>, k)
  <2>1. \A x \in Peers, y \in Streams : Rests(x, y)
    BY DEF Rests
  <2> QED
    BY <1>2, <1>3, <2>1 DEF Touches
<1>5. \A i \in Ids : ~(socket'[p][i].state = "open" /\ socket'[p][i].stream = k)
  <2> SUFFICES ASSUME NEW i \in Ids, socket'[p][i].state = "open", socket'[p][i].stream = k
               PROVE  FALSE
    OBVIOUS
  <2>1. i # j /\ socket[p][i].state = "open" /\ socket[p][i].stream = k
    OBVIOUS
  <2> QED
    BY <2>1, Distinct
<1>6. Shut(p, k)'
  <2>1. ClosedWell(p, k)'
    BY <1>2 DEF ClosedWell
  <2>2. \A i \in Ids : NothingLost(p, i, k)'
    BY <1>5 DEF NothingLost
  <2> QED
    BY <2>1, <2>2 DEF Shut
<1>7. Shut(q, k)'
  <2>1. Shut(q, k) /\ Rests(q, k) /\ ended'[q][k] = ended[q][k] /\ UNCHANGED opened
    BY <1>1, <1>2, ClosesAreShut DEF Rests
  <2>2. \A i \in Ids : socket'[q][i] = socket[q][i]
    BY <1>1
  <2>3. \A n \in DOMAIN <<>> : <<>>[n].cmd = "OKAY"
    BY <1>3
  <2> HIDE DEF q
  <2>4. q = Other(p)
    BY DEF q
  <2> QED
    BY <1>5, <2>1, <2>2, <2>3, <2>4, QuietShut
<1>8. opened' \in Nat /\ opened <= opened'
  BY Types
<1> QED
  BY <1>4, <1>6, <1>7, <1>8, TouchCloses

LEMMA WriteEventCloses ==
  ASSUME IInv, Sessions, Flow, Closes, NEW p \in Peers, NEW j \in Ids, WriteEvent(p, j)
  PROVE  Closes'
<1> DEFINE q == Other(p)
           s == socket[p][j]
           t == socket'[p][j]
<1>1. PICK k \in Streams :
        /\ s.state # "free" /\ s.stream = k /\ s.pending # <<>> /\ s.pending \in Seq(Data)
        /\ UNCHANGED <<chunks, opened>>
        /\ \A r \in Peers, l \in Ids : r # p \/ l # j => socket'[r][l] = socket[r][l]
        /\ \/ \E n \in 1 .. Len(s.pending) :
                LET rest == SubSeq(s.pending, n + 1, Len(s.pending)) IN
                /\ written' = [written EXCEPT ![p][s.stream] = @ \o SubSeq(s.pending, 1, n)]
                /\ \/ rest = <<>> /\ t = Free /\ s.state = "closing"
                   \/ /\ t.state = s.state /\ t.stream = s.stream /\ t.reading = s.reading
                      /\ t.pending = rest
                /\ Ordinary(p, 0, Sent(p, IF rest = <<>> /\ s.state = "open"
                                          THEN <<Okay(j, s.peer)>> ELSE <<>>))
                /\ UNCHANGED ended
           \/ /\ \/ t = Free
                 \/ t.state = "closing" /\ t.stream = s.stream /\ t.pending = s.pending
              /\ Ends(p, s.stream, "error")
              /\ UNCHANGED written
              /\ Ordinary(p, 0, Sent(p, CloseMessage(s)))
  BY WriteEventIsOrdinary
<1>2. Receivers'
  BY EventReceivers DEF Closes
<1>3. s.pending = <<Last(p, k)>> /\ Outstanding(p, k)
  BY <1>1, FlowIsWays DEF Way, OnePending
<1>4. CASE /\ \/ t = Free
              \/ t.state = "closing" /\ t.stream = s.stream /\ t.pending = s.pending
           /\ Ends(p, s.stream, "error")
           /\ UNCHANGED written
           /\ Ordinary(p, 0, Sent(p, CloseMessage(s)))
  <2>1. Passes(p, 0, Sent(p, CloseMessage(s)))
    BY <1>4 DEF Ordinary
  <2>2. t.state # "open" /\ t.stream \in {0, k} /\ "error" # "clse"
    <3>1. Free.state # "open" /\ Free.stream = 0 /\ "error" # "clse"
      BY DEF Free
    <3>2. t.state # "open" /\ t.stream \in {0, s.stream}
      BY <1>4, <3>1
    <3> QED
      BY <1>1, <3>1, <3>2
  <2>3. CASE s.state = "open"
    <3>1. Ends(p, k, "error")
      BY <1>1, <1>4
    <3>2. /\ UNCHANGED <<chunks, written, opened>>
          /\ \A r \in Peers, l \in Ids : r # p \/ l # j => socket'[r][l] = socket[r][l]
          /\ socket[p][j].stream = k /\ socket[p][j].state = "open"
      BY <1>1, <1>4, <2>3
    <3>3. 0 = 1 /\ wire[Other(p)][1].cmd = "WRTE" => wire[Other(p)][1].data[2] = k
      OBVIOUS
    <3> QED
      BY <1>2, <2>1, <2>2, <3>1, <3>2, <3>3, ErrorCloses
  <2>4. CASE s.state = "closing"
    <3>1. s.peer = 0
      BY <2>4 DEF IInv, TypeOK
    <3>2. Passes(p, 0, <<>>)
      BY <2>1, <3>1 DEF CloseMessage, Sent
    <3>3. Ends(p, k, "error")
      BY <1>1, <1>4
    <3>4. /\ UNCHANGED <<chunks, written, opened>>
          /\ \A r \in Peers, l \in Ids : r # p \/ l # j => socket'[r][l] = socket[r][l]
          /\ socket[p][j].stream = k /\ socket[p][j].state = "closing"
      BY <1>1, <1>4, <2>4
    <3> QED
      BY <1>2, <2>2, <3>2, <3>3, <3>4, LateErrorCloses
  <2>5. s \in Sockets
    BY InvParts DEF TypeOK
  <2>6. s.state \in {"free", "open", "closing"}
    BY <2>5 DEF Sockets
  <2> QED
    BY <1>1, <2>3, <2>4, <2>6
<1>5. ASSUME NEW n \in 1 .. Len(s.pending),
             LET rest == SubSeq(s.pending, n + 1, Len(s.pending)) IN
             /\ written' = [written EXCEPT ![p][s.stream] = @ \o SubSeq(s.pending, 1, n)]
             /\ \/ rest = <<>> /\ t = Free /\ s.state = "closing"
                \/ /\ t.state = s.state /\ t.stream = s.stream /\ t.reading = s.reading
                   /\ t.pending = rest
             /\ Ordinary(p, 0, Sent(p, IF rest = <<>> /\ s.state = "open"
                                       THEN <<Okay(j, s.peer)>> ELSE <<>>))
             /\ UNCHANGED ended
      PROVE  Closes'
  <2> DEFINE sent == Sent(p, IF s.state = "open" THEN <<Okay(j, s.peer)>> ELSE <<>>)
             rest == SubSeq(s.pending, n + 1, Len(s.pending))
             some == SubSeq(s.pending, 1, n)
  <2>1. rest = <<>> /\ \A S : \A v \in Seq(S) : v \o some = Append(v, Last(p, k))
    BY <1>3, <1>5, OneElement
  <2>2. written' = [written EXCEPT ![p][k] = @ \o some]
    BY <1>1, <1>5
  <2>3. Passes(p, 0, sent)
    BY <1>5, <2>1 DEF Ordinary
  <2>4. t = Free \/ (t.state = s.state /\ t.stream = k)
    BY <1>1, <1>5, <2>1
  <2> HIDE DEF rest, some
  <2>5. written' = [written EXCEPT ![p][k] = Append(@, Last(p, k))]
    <3>1. written[p][k] \in Seq(Data)
      BY FlowTypes
    <3>2. written[p][k] \o some = Append(written[p][k], Last(p, k))
      BY <2>1, <3>1
    <3> QED
      BY <2>2, <3>2
  <2>6. t.stream \in {0, k} /\ (t.state = "open" => s.state = "open")
    BY <2>4 DEF Free
  <2>7. \A i \in DOMAIN sent : sent[i].cmd = "OKAY"
    <3>1. CASE s.state # "open"
      BY <3>1 DEF Sent
    <3>2. CASE s.state = "open"
      <4>1. sent = Sent(p, <<Okay(j, s.peer)>>)
        BY <3>2
      <4>2. \A i \in DOMAIN sent : i = 1 /\ sent[i].cmd = "OKAY" /\ sent[i].arg1 = s.peer
        BY <4>1, OneOkay
      <4> QED
        BY <4>2
    <3> QED
      BY <3>1, <3>2
  <2>8. /\ UNCHANGED <<chunks, ended, opened>> /\ socket[p][j].stream = k
        /\ \A r \in Peers, l \in Ids : r # p \/ l # j => socket'[r][l] = socket[r][l]
    BY <1>1, <1>5
  <2>9. 0 = 1 /\ wire[Other(p)][1].cmd = "WRTE" => wire[Other(p)][1].data[2] = k
    OBVIOUS
  <2> HIDE DEF sent
  <2>10. Serves(p, j, k, 0, sent)
    BY <2>3, <2>6, <2>7, <2>8, <2>9 DEF Serves
  <2> QED
    BY <1>2, <1>3, <2>5, <2>10, WrittenCloses
<1> QED
  BY <1>1, <1>4, <1>5

LEMMA WriteCloses ==
  ASSUME IInv, Sessions, Flow, Closes, NEW p \in Peers, HandleWrite(p)
  PROVE  Closes'
<1> DEFINE q == Other(p)
           m == Received(p)
<1>1. PICK j \in Ids, k \in Streams :
        /\ j = m.arg1 /\ socket[p][j].state = "open" /\ socket[p][j].stream = k
        /\ m.data[2] = k
        /\ UNCHANGED <<chunks, opened>>
        /\ \A r \in Peers, l \in Ids : r # p \/ l # j => socket'[r][l] = socket[r][l]
        /\ \/ /\ socket[p][j].pending = <<>> /\ UNCHANGED <<socket, ended>>
              /\ written' = [written EXCEPT ![p][k] = Append(@, m.data)]
              /\ Ordinary(p, 1, Sent(p, <<Okay(j, m.arg0)>>))
           \/ /\ socket'[p][j].state = "open" /\ socket'[p][j].stream = k
              /\ socket'[p][j].pending = Append(socket[p][j].pending, m.data)
              /\ UNCHANGED <<written, ended>>
              /\ Ordinary(p, 1, <<>>)
           \/ /\ socket'[p][j] = Free
              /\ Ends(p, k, "error")
              /\ UNCHANGED written
              /\ Ordinary(p, 1, Sent(p, CloseMessage(socket[p][j])))
  BY WriteIsOrdinary
<1>2. q \in Peers /\ OneWrite(p, k)
  BY TwoPeers DEF Flow
<1>3. m = wire[q][1] /\ 1 \in Writes(q, k)
  BY <1>1, ReceivedFacts DEF Writes, HandleWrite, Handles
<1>4. Receivers'
  BY EventReceivers DEF Closes
<1>5. wire[q][1].data[2] = k
  BY <1>1, <1>3
<1>6. CASE /\ socket[p][j].pending = <<>> /\ UNCHANGED <<socket, ended>>
           /\ written' = [written EXCEPT ![p][k] = Append(@, m.data)]
           /\ Ordinary(p, 1, Sent(p, <<Okay(j, m.arg0)>>))
  <2> DEFINE sent == Sent(p, <<Okay(j, m.arg0)>>)
  <2>1. Passes(p, 1, sent)
    BY <1>6 DEF Ordinary
  <2>2. m.data = Last(p, k) /\ Outstanding(p, k)
    BY <1>2, <1>3, <2>1, WriteTaken
  <2>3. \A n \in DOMAIN sent : sent[n].cmd = "OKAY"
    BY OneOkay
  <2>4. written' = [written EXCEPT ![p][k] = Append(@, Last(p, k))]
    BY <1>6, <2>2
  <2> HIDE DEF sent
  <2>5. Serves(p, j, k, 1, sent)
    BY <1>1, <1>5, <1>6, <2>1, <2>3 DEF Serves
  <2> QED
    BY <1>4, <2>2, <2>4, <2>5, WrittenCloses
<1>7. CASE /\ socket'[p][j].state = "open" /\ socket'[p][j].stream = k
           /\ socket'[p][j].pending = Append(socket[p][j].pending, m.data)
           /\ UNCHANGED <<written, ended>>
           /\ Ordinary(p, 1, <<>>)
  <2>1. Passes(p, 1, <<>>)
    BY <1>7 DEF Ordinary
  <2>2. socket'[p][j].pending # <<>>
    <3>1. socket[p][j].pending \in Seq(Data)
      BY <1>1, FlowTypes
    <3>2. \A S, d : \A v \in Seq(S) : Len(Append(v, d)) = Len(v) + 1 /\ Len(v) \in Nat
      OBVIOUS
    <3>3. Len(socket'[p][j].pending) = Len(socket[p][j].pending) + 1
          /\ Len(socket[p][j].pending) \in Nat
      BY <1>7, <3>1, <3>2
    <3>4. Len(<<>>) = 0
      OBVIOUS
    <3> QED
      BY <3>3, <3>4
  <2>3. /\ UNCHANGED <<chunks, written, ended, opened>>
        /\ \A r \in Peers, l \in Ids : r # p \/ l # j => socket'[r][l] = socket[r][l]
        /\ socket[p][j].stream = k /\ socket[p][j].state = "open" /\ socket'[p][j].stream = k
    BY <1>1, <1>7
  <2> QED
    BY <1>4, <1>5, <2>1, <2>2, <2>3, QueuedCloses
<1>8. CASE /\ socket'[p][j] = Free
           /\ Ends(p, k, "error")
           /\ UNCHANGED written
           /\ Ordinary(p, 1, Sent(p, CloseMessage(socket[p][j])))
  <2>1. Passes(p, 1, Sent(p, CloseMessage(socket[p][j])))
    BY <1>8 DEF Ordinary
  <2>2. socket'[p][j].state # "open" /\ socket'[p][j].stream \in {0, k} /\ "error" # "clse"
    BY <1>8 DEF Free
  <2>3. /\ UNCHANGED <<chunks, written, opened>>
        /\ \A r \in Peers, l \in Ids : r # p \/ l # j => socket'[r][l] = socket[r][l]
        /\ socket[p][j].stream = k /\ socket[p][j].state = "open"
    BY <1>1, <1>8
  <2>4. 1 = 1 /\ wire[Other(p)][1].cmd = "WRTE" => wire[Other(p)][1].data[2] = k
    BY <1>5
  <2> QED
    BY <1>4, <1>8, <2>1, <2>2, <2>3, <2>4, ErrorCloses
<1> QED
  BY <1>1, <1>6, <1>7, <1>8

-------------------------------------------------------------------------------
(* Reading.                                                                  *)

(* The packets of a read, if any: the chunk, and behind it the CLOSE.        *)
LEMMA ReadIsSent ==
  ASSUME NEW p \in Peers, NEW j, socket[p][j].stream \in Streams
  PROVE  LET s == socket[p][j]
             one == <<WritePacket(p, j)>>
             two == one \o CloseMessage(s) IN
         /\ ~broken[p] => /\ 1 \in DOMAIN Sent(p, one) /\ 1 \in DOMAIN Sent(p, two)
                          /\ Sent(p, one)[1] = WritePacket(p, j)
                          /\ Sent(p, two)[1] = WritePacket(p, j)
         /\ broken[p] => Sent(p, one) = <<>> /\ Sent(p, two) = <<>>
         /\ WritePacket(p, j).cmd = "WRTE" /\ WritePacket(p, j).data[2] = s.stream
         /\ \A n \in DOMAIN Sent(p, one) : Sent(p, one)[n] = WritePacket(p, j)
         /\ \A n \in DOMAIN Sent(p, two) :
              \/ Sent(p, two)[n] = WritePacket(p, j)
              \/ /\ n = Len(Sent(p, two)) /\ s.peer # 0
                 /\ Sent(p, two)[n].cmd = "CLSE" /\ Sent(p, two)[n].arg1 = s.peer
<1> DEFINE s == socket[p][j]
           m == WritePacket(p, j)
           c == Packet("CLSE", 0, s.peer)
<1>1. m.cmd = "WRTE" /\ m.data[2] = s.stream /\ c.cmd = "CLSE" /\ c.arg1 = s.peer
  BY DEF WritePacket, Packet
<1> HIDE DEF m, c, s
<1>2. \A n \in DOMAIN <<m>> : n = 1 /\ <<m>>[n] = m
  OBVIOUS
<1>3. /\ <<m>> \o <<>> = <<m>> /\ 1 \in DOMAIN <<m>> /\ <<m>>[1] = m
      /\ 1 \in DOMAIN (<<m>> \o <<c>>) /\ (<<m>> \o <<c>>)[1] = m
      /\ Len(<<m>> \o <<c>>) = 2
      /\ \A n \in DOMAIN (<<m>> \o <<c>>) : (<<m>> \o <<c>>)[n] = m \/ (n = 2 /\ (<<m>> \o <<c>>)[n] = c)
  <2>1. <<m>> \in Seq({m, c}) /\ <<c>> \in Seq({m, c}) /\ Len(<<m>>) = 1 /\ Len(<<c>>) = 1
    OBVIOUS
  <2>2. \A v \in Seq({m, c}) : v \o <<>> = v
    OBVIOUS
  <2>3. <<m>>[1] = m /\ <<c>>[1] = c
    OBVIOUS
  <2>4. /\ <<m>> \o <<c>> \in Seq({m, c}) /\ Len(<<m>> \o <<c>>) = 1 + 1
        /\ \A n \in 1 .. 1 + 1 : (<<m>> \o <<c>>)[n] = IF n <= 1 THEN <<m>>[n] ELSE <<c>>[n - 1]
    BY <2>1, ConcatProperties
  <2>5. Len(<<m>> \o <<c>>) = 2 /\ DOMAIN (<<m>> \o <<c>>) = {1, 2}
    BY <2>4
  <2>6. (<<m>> \o <<c>>)[1] = m /\ (<<m>> \o <<c>>)[2] = c
    BY <2>3, <2>4
  <2>7. <<m>> \o <<>> = <<m>> /\ 1 \in DOMAIN <<m>>
    BY <2>1, <2>2
  <2> QED
    BY <2>3, <2>5, <2>6, <2>7
<1>4. \A n \in DOMAIN <<>> : FALSE
  OBVIOUS
<1>5. (s.peer = 0 /\ CloseMessage(s) = <<>>) \/ (s.peer # 0 /\ CloseMessage(s) = <<c>>)
  BY DEF CloseMessage, c
<1> QED
  BY <1>1, <1>2, <1>3, <1>4, <1>5 DEF Sent, s, m

LEMMA WriteIsSent ==
  ASSUME NEW p \in Peers, NEW d, NEW sent, Passes(p, d, sent), NEW k,
         1 \in DOMAIN sent, sent[1].cmd = "WRTE", sent[1].data[2] = k
  PROVE  Writes(p, k)' # {}
<1>1. Moved(wire[p], wire'[p], 0, Len(wire[p]), sent)
  BY DEF Passes
<1>2. 1 + Len(wire[p]) \in DOMAIN wire'[p] /\ wire'[p][1 + Len(wire[p])] = sent[1]
  BY <1>1, MovedFacts
<1>3. 1 + Len(wire[p]) \in Writes(p, k)'
  BY <1>2 DEF Writes
<1> QED
  BY <1>3

LEMMA ChunkElsewhere ==
  ASSUME IInv, NEW p \in Peers, NEW k \in Streams, UNCHANGED written,
         chunks' = [chunks EXCEPT ![p][k] = @ + 1]
  PROVE  \A x \in Peers, y \in Streams : x = p \/ y # k => Rests(x, y)
<1>1. chunks \in [Peers -> [Streams -> Nat]]
  BY InvParts DEF TypeOK
<1>2. \A x \in Peers : Other(x) \in Peers /\ (x = p => Other(x) # p)
  BY TwoPeers, AdbStreamAssumption
<1> QED
  BY <1>1, <1>2 DEF Rests

LEMMA ChunkCloses ==
  ASSUME IInv, Sessions, Closes, Receivers', NEW p \in Peers, NEW j \in Ids, NEW k \in Streams,
         Passes(p, 0, Sent(p, <<WritePacket(p, j)>>)), UNCHANGED <<written, ended, opened>>,
         chunks' = [chunks EXCEPT ![p][k] = @ + 1],
         \A r \in Peers, l \in Ids : r # p \/ l # j => socket'[r][l] = socket[r][l],
         socket[p][j].state = "open", socket[p][j].stream = k,
         socket'[p][j].stream = k, socket'[p][j].pending = socket[p][j].pending
  PROVE  Closes'
<1> DEFINE q == Other(p)
           sent == Sent(p, <<WritePacket(p, j)>>)
<1>1. q \in Peers /\ q # p /\ Other(q) = p
  BY TwoPeers, AdbStreamAssumption
<1>2. /\ \A n \in DOMAIN sent : sent[n].cmd = "WRTE" /\ sent[n].data[2] = k
      /\ ~broken[p] => 1 \in DOMAIN sent
  <2>1. /\ \A n \in DOMAIN sent : sent[n] = WritePacket(p, j)
        /\ ~broken[p] => 1 \in DOMAIN sent
        /\ WritePacket(p, j).cmd = "WRTE" /\ WritePacket(p, j).data[2] = k
    BY ReadIsSent
  <2> HIDE DEF sent
  <2> QED
    BY <2>1
<1>3. Passes(p, 0, sent)
  OBVIOUS
<1> HIDE DEF sent
<1>4. opened' \in Nat /\ opened <= opened' /\ UNCHANGED broken
  BY <1>3, Types DEF Passes
<1>5. \A x \in Peers, y \in Streams : x = p \/ y # k => Rests(x, y)
  BY ChunkElsewhere
<1>6. 0 = 1 /\ wire[Other(p)][1].cmd = "WRTE" => wire[Other(p)][1].data[2] = k
  OBVIOUS
<1>7. Touches(p, 0, sent, k)
  BY <1>2, <1>5, <1>6 DEF Touches
<1>8. OpenFor(p, k)
  BY DEF OpenFor
<1>9. \A x \in Peers, i \in Ids : socket'[x][i].state = "open" /\ socket'[x][i].stream = k =>
        socket[x][i].state = "open" /\ socket[x][i].stream = k
  OBVIOUS
<1>10. Shut(p, k)'
  <2>1. Writes(q, k) # {} => Writes(q, k)' # {}
    BY <1>3, WritesStay
  <2>2. \A i \in Ids : Arriving(p, i, k) => Arriving(p, i, k)'
    <3>1. \A i \in Ids : socket'[p][i].pending = socket[p][i].pending
      OBVIOUS
    <3> QED
      BY <1>5, <2>1, <3>1, ArrivingStays
  <2>3. Held(p, k) => Held(p, k)'
    <3>1. \A i \in Ids : socket[p][i].stream = k /\ socket[p][i].pending # <<>> =>
            socket'[p][i].stream = k /\ socket'[p][i].pending # <<>>
      OBVIOUS
    <3> QED
      BY <1>5, <3>1, HeldStays
  <2>4. Leaves(p, k)
    BY <1>9, <2>2, <2>3 DEF Leaves
  <2>5. Silent(p, sent, p, k)
    BY <1>2 DEF Silent
  <2>6. Shut(p, k)
    BY ClosesAreShut
  <2> QED
    BY <1>3, <1>4, <2>4, <2>5, <2>6, ShutPasses
<1> HIDE DEF q
<1>11. ClosedWell(q, k)'
  <2>1. ClosedWell(q, k)
    BY <1>1 DEF Closes
  <2>2. ended'[q][k] # "clse"
    BY <1>1, <1>8, <2>1 DEF ClosedWell
  <2> QED
    BY <2>2 DEF ClosedWell
<1>12. ASSUME NEW l \in Ids
       PROVE  NothingLost(q, l, k)'
  <2> SUFFICES ASSUME socket'[q][l].state = "open", socket'[q][l].stream = k
               PROVE  /\ ~broken'[p] => Arriving(q, l, k)'
                      /\ \A n \in DOMAIN wire'[p] :
                           ~(wire'[p][n].cmd = "CLSE" /\ wire'[p][n].arg1 = l)
    BY <1>1 DEF NothingLost, CloseTo
  <2>1. ~broken'[p] => Arriving(q, l, k)'
    <3>1. ~broken'[p] => Writes(p, k)' # {}
      BY <1>2, <1>3, <1>4, WriteIsSent
    <3> QED
      BY <1>1, <3>1 DEF Arriving
  <2>2. NothingLost(q, l, k) /\ socket[q][l].state = "open" /\ socket[q][l].stream = k
    BY <1>1 DEF Closes
  <2>3. \A n \in DOMAIN wire[p] : ~(wire[p][n].cmd = "CLSE" /\ wire[p][n].arg1 = l)
    BY <1>1, <1>8, <2>2 DEF NothingLost, CloseTo
  <2>4. \A n \in DOMAIN wire'[p] :
          \/ n \in DOMAIN wire[p] /\ wire'[p][n] = wire[p][n]
          \/ \E m \in DOMAIN sent : wire'[p][n] = sent[m]
    BY <1>3, PassesWires
  <2>5. \A n \in DOMAIN sent : sent[n].cmd # "CLSE"
    BY <1>2
  <2> QED
    BY <2>1, <2>3, <2>4, <2>5
<1>13. Shut(q, k)'
  BY <1>11, <1>12 DEF Shut
<1> QED
  BY <1>3, <1>4, <1>7, <1>10, <1>13, TouchCloses DEF q

LEMMA ReadEventCloses ==
  ASSUME IInv, Sessions, Closes, NEW p \in Peers, NEW j \in Ids, ReadEvent(p, j)
  PROVE  Closes'
<1> DEFINE s == socket[p][j]
           t == socket'[p][j]
<1>1. PICK k \in Streams :
        /\ s.state = "open" /\ s.stream = k
        /\ UNCHANGED <<written, opened>>
        /\ \A r \in Peers, l \in Ids : r # p \/ l # j => socket'[r][l] = socket[r][l]
        /\ \/ /\ t.state = "open" /\ t.stream = s.stream /\ t.pending = s.pending
              /\ UNCHANGED ended
              /\ chunks' = [chunks EXCEPT ![p][s.stream] = @ + 1]
              /\ Ordinary(p, 0, Sent(p, <<WritePacket(p, j)>>))
           \/ /\ \/ t = Free
                 \/ t.state = "closing" /\ t.stream = s.stream /\ t.pending = s.pending
              /\ Ends(p, s.stream, "eof")
              /\ \/ /\ chunks' = [chunks EXCEPT ![p][s.stream] = @ + 1]
                    /\ Ordinary(p, 0, Sent(p, <<WritePacket(p, j)>> \o CloseMessage(s)))
                 \/ /\ UNCHANGED chunks
                    /\ Ordinary(p, 0, Sent(p, CloseMessage(s)))
  BY ReadEventIsOrdinary
<1>2. Receivers'
  BY EventReceivers DEF Closes
<1>3. 0 = 1 /\ wire[Other(p)][1].cmd = "WRTE" => wire[Other(p)][1].data[2] = k
  OBVIOUS
<1>4. CASE /\ t.state = "open" /\ t.stream = s.stream /\ t.pending = s.pending
           /\ UNCHANGED ended
           /\ chunks' = [chunks EXCEPT ![p][s.stream] = @ + 1]
           /\ Ordinary(p, 0, Sent(p, <<WritePacket(p, j)>>))
  <2>1. Passes(p, 0, Sent(p, <<WritePacket(p, j)>>))
    BY <1>4 DEF Ordinary
  <2>2. /\ UNCHANGED <<written, ended, opened>> /\ chunks' = [chunks EXCEPT ![p][k] = @ + 1]
        /\ \A r \in Peers, l \in Ids : r # p \/ l # j => socket'[r][l] = socket[r][l]
        /\ socket[p][j].state = "open" /\ socket[p][j].stream = k
        /\ socket'[p][j].stream = k /\ socket'[p][j].pending = socket[p][j].pending
    BY <1>1, <1>4
  <2> QED
    BY <1>2, <2>1, <2>2, ChunkCloses
<1>5. CASE t = Free \/ (t.state = "closing" /\ t.stream = s.stream /\ t.pending = s.pending)
  <2>1. /\ t.state # "open" /\ t.stream \in {0, k} /\ "eof" # "clse"
        /\ UNCHANGED <<written, opened>>
        /\ \A r \in Peers, l \in Ids : r # p \/ l # j => socket'[r][l] = socket[r][l]
        /\ socket[p][j].state = "open" /\ socket[p][j].stream = k
    BY <1>1, <1>5 DEF Free
  <2>2. Ends(p, k, "eof")
    BY <1>1, <1>5, <2>1
  <2>3. CASE UNCHANGED chunks /\ Ordinary(p, 0, Sent(p, CloseMessage(s)))
    <3>1. Passes(p, 0, Sent(p, CloseMessage(s))) /\ UNCHANGED <<chunks, written, opened>>
      BY <2>1, <2>3 DEF Ordinary
    <3> QED
      BY <1>2, <1>3, <2>1, <2>2, <3>1, ErrorCloses
  <2>4. CASE /\ chunks' = [chunks EXCEPT ![p][s.stream] = @ + 1]
             /\ Ordinary(p, 0, Sent(p, <<WritePacket(p, j)>> \o CloseMessage(s)))
    <3> DEFINE sent == Sent(p, <<WritePacket(p, j)>> \o CloseMessage(s))
    <3>1. Passes(p, 0, sent)
      BY <2>4 DEF Ordinary
    <3>2. /\ \A n \in DOMAIN sent :
               \/ sent[n].cmd = "WRTE" /\ sent[n].data[2] = k
               \/ n = Len(sent) /\ sent[n].cmd = "CLSE" /\ sent[n].arg1 = s.peer /\ s.peer # 0
          /\ sent # <<>> =>
               1 \in DOMAIN sent /\ sent[1].cmd = "WRTE" /\ sent[1].data[2] = k
      <4>1. /\ ~broken[p] => 1 \in DOMAIN sent /\ sent[1] = WritePacket(p, j)
            /\ broken[p] => sent = <<>>
            /\ WritePacket(p, j).cmd = "WRTE" /\ WritePacket(p, j).data[2] = k
            /\ \A n \in DOMAIN sent :
                 \/ sent[n] = WritePacket(p, j)
                 \/ n = Len(sent) /\ s.peer # 0 /\ sent[n].cmd = "CLSE" /\ sent[n].arg1 = s.peer
        BY <2>1, ReadIsSent
      <4> HIDE DEF sent
      <4> QED
        BY <4>1
    <3> HIDE DEF sent
    <3>3. sent # <<>> => Writes(p, k)' # {}
      BY <3>1, <3>2, WriteIsSent
    <3>4. chunks' = [chunks EXCEPT ![p][k] = @ + 1] /\ UNCHANGED written
      BY <2>1, <2>4
    <3>5. \A x \in Peers, y \in Streams : y # k => Rests(x, y)
      <4>1. \A x \in Peers, y \in Streams : x = p \/ y # k => Rests(x, y)
        BY <3>4, ChunkElsewhere
      <4> QED
        BY <4>1
    <3>6. \A x \in Peers, y \in Streams :
            ended'[x][y] = IF x = p /\ y = k THEN "eof" ELSE ended[x][y]
      BY <2>2, EndsFacts
    <3>7. Other(p) \in Peers /\ Other(p) # p
      BY TwoPeers, AdbStreamAssumption
    <3>8. Farewell(p, j, k, 0, sent)
      BY <1>3, <2>1, <3>2, <3>3, <3>5, <3>6, <3>7 DEF Farewell
    <3>9. ClosedWell(p, k)'
      BY <3>6 DEF ClosedWell
    <3> QED
      BY <1>2, <2>1, <3>1, <3>8, <3>9, FarewellCloses
  <2> QED
    BY <1>1, <2>1, <2>3, <2>4
<1> QED
  BY <1>1, <1>4, <1>5

-------------------------------------------------------------------------------
(* A stream is accepted, or opened: nothing of it was read yet.              *)

LEMMA AcceptCloses ==
  ASSUME IInv, Sessions, Flow, Closes, Accepts
  PROVE  Closes'
<1>1. PICK j \in Ids, k \in Streams, a \in Ids :
        LET m == Received(Device)
            t == socket'[Device][j] IN
        /\ j = local_socket_next_id[Device] /\ a = m.arg0 /\ k = m.data[2]
        /\ m = wire[Host][1] /\ m.cmd = "OPEN" /\ OpenPacket(m)
        /\ 1 \in DOMAIN wire[Host]
        /\ t.state = "open" /\ t.stream = k
        /\ \A r \in Peers, l \in Ids : r # Device \/ l # j => socket'[r][l] = socket[r][l]
        /\ UNCHANGED <<opened, chunks, written, ended>>
        /\ Passes(Device, 1, Sent(Device, <<Okay(j, a)>>))
  BY AcceptFacts
<1>2. /\ Host \in Peers /\ Device \in Peers /\ Host # Device
      /\ Other(Host) = Device /\ Other(Device) = Host
      /\ \A r \in Peers : r = Host \/ r = Device
  BY TwoPeers, AdbStreamAssumption
<1>3. wire[Host][1].cmd = "OPEN" /\ wire[Host][1].data[2] = k /\ OpenPacket(wire[Host][1])
      /\ wire[Host][1].arg0 = a
  BY <1>1
<1>4. \A r \in Peers : Delivered(r, k)'
  <2>1. \A r \in Peers : Delivered(r, k)
    BY <1>1, <1>3, EmptyStream
  <2> QED
    BY <1>1, <2>1 DEF Delivered
<1> DEFINE sent == Sent(Device, <<Okay(j, a)>>)
<1>5. \A n \in DOMAIN sent : sent[n].cmd = "OKAY"
  BY OneOkay
<1>6. Passes(Device, 1, sent)
  BY <1>1
<1> HIDE DEF sent
<1>7. Receivers'
  BY AcceptReceivers DEF Closes
<1>8. socket[Device][j].stream = 0
  <2>1. socket[Device][j].state = "free"
    <3>1. j \in Nat
      BY PeerTypes
    <3>2. socket[Device][j].state # "free" => j < local_socket_next_id[Device]
      BY DEF Sessions, DeviceIds
    <3>3. ~(j < j) /\ local_socket_next_id[Device] = j
      BY <1>1, <3>1
    <3>4. socket[Device][j].state # "free" => j < j
      BY <3>2, <3>3
    <3> QED
      BY <3>3, <3>4
  <2> QED
    BY <1>2, <2>1, PeerTypes
<1>9. Touches(Device, 1, sent, k)
  <2>1. \A x \in Peers, i \in Ids :
          socket'[x][i] = socket[x][i] \/ (socket[x][i].stream \in {0, k} /\ socket'[x][i].stream \in {0, k})
    BY <1>1, <1>8
  <2>2. \A x \in Peers, y \in Streams : ended'[x][y] = ended[x][y] /\ Rests(x, y)
    BY <1>1 DEF Rests
  <2> QED
    BY <1>2, <1>3, <1>5, <2>1, <2>2 DEF Touches
<1>10. \A r \in Peers : ClosedWell(r, k)'
  <2>1. ASSUME NEW r \in Peers
        PROVE  ended'[r][k] # "clse"
    <3>1. ClosedWell(r, k)
      BY DEF Closes
    <3> QED
      BY <1>1, <1>3, <3>1 DEF ClosedWell
  <2> QED
    BY <2>1 DEF ClosedWell
<1>11. \A r \in Peers, i \in Ids : Arriving(r, i, k)'
  BY <1>4 DEF Arriving
<1>12. ASSUME NEW i \in Ids
       PROVE  NothingLost(Device, i, k)'
  <2> SUFFICES ASSUME socket'[Device][i].state = "open", socket'[Device][i].stream = k,
                      NEW n \in DOMAIN wire'[Host], wire'[Host][n].cmd = "CLSE", wire'[Host][n].arg1 = i
               PROVE  FALSE
    BY <1>2, <1>11 DEF NothingLost, CloseTo
  <2>1. i = j
    <3>1. \A l \in Ids : socket[Device][l].state # "free" => socket[Device][l].stream # k
      BY <1>3 DEF OpenPacket
    <3> QED
      BY <1>1, <1>2, <3>1
  <2>2. n + 1 \in DOMAIN wire[Host] /\ wire'[Host][n] = wire[Host][n + 1]
    BY <1>2, <1>6, PassesWires
  <2>3. wire[Host][n + 1].arg1 < j
    BY <1>1, <2>2 DEF Sessions, PacketsBelong, HostPacket, Addressed
  <2>4. j \in Nat
    BY PeerTypes
  <2> QED
    BY <2>1, <2>2, <2>3, <2>4
<1>13. ASSUME NEW i \in Ids
       PROVE  NothingLost(Host, i, k)'
  <2> SUFFICES ASSUME socket'[Host][i].state = "open", socket'[Host][i].stream = k,
                      NEW n \in DOMAIN wire'[Device], wire'[Device][n].cmd = "CLSE",
                      wire'[Device][n].arg1 = i
               PROVE  FALSE
    BY <1>2, <1>11 DEF NothingLost, CloseTo
  <2>1. socket[Host][i].state = "open" /\ socket[Host][i].stream = k
    BY <1>1, <1>2
  <2>2. online[Host]
    BY <1>2, <2>1, OpenSocketFacts
  <2>3. k = StreamOf(a) /\ k = StreamOf(i)
    BY <1>3, <2>1, <2>2 DEF OpenPacket, Sessions, HostIds
  <2>4. i = a
    <3>1. i \in Nat /\ a \in Nat /\ opened \in Nat /\ local_socket_next_id[Host] \in Nat
      BY Types, PeerTypes
    <3> QED
      BY <2>3, <3>1 DEF StreamOf
  <2>5. \/ n \in DOMAIN wire[Device] /\ wire'[Device][n] = wire[Device][n]
        \/ \E x \in DOMAIN sent : wire'[Device][n] = sent[x]
    BY <1>2, <1>6, PassesWires
  <2>6. n \in DOMAIN wire[Device] /\ wire'[Device][n] = wire[Device][n]
    BY <1>5, <2>5
  <2> QED
    BY <1>3, <2>2, <2>4, <2>6 DEF OpenPacket, Addressed
<1>14. \A r \in Peers : Shut(r, k)'
  BY <1>2, <1>10, <1>12, <1>13 DEF Shut
<1>15. opened' \in Nat /\ opened <= opened'
  BY <1>1, Types
<1> QED
  BY <1>2, <1>6, <1>7, <1>9, <1>14, <1>15, TouchCloses

LEMMA OpenCloses ==
  ASSUME IInv, Sessions, Closes, Open
  PROVE  Closes'
<1>1. PICK j \in Ids, k \in Streams :
        /\ j = local_socket_next_id[Host] /\ k = opened + 1 /\ opened' = k /\ online[Host]
        /\ UNCHANGED <<chunks, written>>
        /\ \A l \in Ids : socket'[Device][l] = socket[Device][l]
        /\ \A l \in Ids : l # j => socket'[Host][l] = socket[Host][l]
        /\ socket[Host][j].state = "free"
        /\ socket'[Host][j] = NewSocket(0, k) \/ socket'[Host][j] = socket[Host][j]
        /\ OpenOf(j, k).cmd = "OPEN" /\ OpenOf(j, k).data[2] = k
        /\ Passes(Host, 0, Sent(Host, <<OpenOf(j, k)>>))
  BY OpenFacts
<1>2. /\ Host \in Peers /\ Device \in Peers /\ Host # Device
      /\ Other(Host) = Device /\ Other(Device) = Host
      /\ \A r \in Peers : r = Host \/ r = Device
  BY TwoPeers, AdbStreamAssumption
<1>3. opened \in Nat /\ opened' \in Nat /\ opened <= opened' /\ ~(k <= opened)
  BY <1>1, Types
<1>4. \A x \in Peers, y \in Streams : ended'[x][y] = ended[x][y] \/ (y = k /\ ended'[x][y] = "early")
  <2>1. ended \in [Peers -> [Streams -> {"no", "eof", "error", "clse", "offline", "early"}]]
    BY InvParts DEF TypeOK
  <2>2. UNCHANGED ended \/ Ends(Host, k, "early")
    BY <1>1 DEF Open
  <2>3. CASE Ends(Host, k, "early")
    BY <2>1, <2>3 DEF Ends
  <2> QED
    BY <2>2, <2>3
<1> DEFINE sent == Sent(Host, <<OpenOf(j, k)>>)
<1>5. \A n \in DOMAIN sent : sent[n].cmd = "OPEN" /\ sent[n].data[2] = k
  <2>1. \A m : \A n \in DOMAIN <<m>> : <<m>>[n] = m
    OBVIOUS
  <2>2. \A n \in DOMAIN <<OpenOf(j, k)>> : <<OpenOf(j, k)>>[n] = OpenOf(j, k)
    BY <2>1
  <2>3. \A n \in DOMAIN <<>> : FALSE
    OBVIOUS
  <2> QED
    BY <1>1, <2>2, <2>3 DEF Sent
<1>6. Passes(Host, 0, sent)
  BY <1>1
<1> HIDE DEF sent
<1>7. Receivers'
  BY OpenReceivers DEF Closes
<1>8. socket[Host][j].stream = 0 /\ socket'[Host][j].stream \in {0, k}
  <2>1. socket[Host][j].stream = 0
    BY <1>1, <1>2, PeerTypes
  <2>2. NewSocket(0, k).stream = k
    BY DEF NewSocket, Free
  <2> QED
    BY <1>1, <2>1, <2>2
<1>9. Touches(Host, 0, sent, k)
  <2>1. \A x \in Peers, i \in Ids :
          socket'[x][i] = socket[x][i] \/ (socket[x][i].stream \in {0, k} /\ socket'[x][i].stream \in {0, k})
    BY <1>1, <1>2, <1>8
  <2>2. \A x \in Peers, y \in Streams : y # k => ended'[x][y] = ended[x][y] /\ Rests(x, y)
    BY <1>1, <1>4 DEF Rests
  <2>3. 0 = 1 /\ wire[Other(Host)][1].cmd = "WRTE" => wire[Other(Host)][1].data[2] = k
    OBVIOUS
  <2> QED
    BY <1>5, <2>1, <2>2, <2>3 DEF Touches
<1>10. \A r \in Peers : ClosedWell(r, k)'
  <2>1. ASSUME NEW r \in Peers
        PROVE  ended'[r][k] # "clse"
    <3>1. ended[r][k] # "clse"
      BY <1>3 DEF Closes, ClosedWell
    <3> QED
      BY <1>4, <3>1
  <2> QED
    BY <2>1 DEF ClosedWell
<1>11. \A i \in Ids : ~(socket'[Device][i].state = "open" /\ socket'[Device][i].stream = k)
  <2>1. \A i \in Ids : socket[Device][i].state = "open" => socket[Device][i].stream <= opened
    BY DEF Sessions, DeviceIds
  <2> QED
    BY <1>1, <1>3, <2>1
<1>12. ASSUME NEW i \in Ids, socket'[Host][i].state = "open", socket'[Host][i].stream = k
       PROVE  i = j
  <2>1. CASE i # j
    <3>1. socket[Host][i].state = "open" /\ socket[Host][i].stream = k
      BY <1>1, <1>12, <2>1
    <3>2. k = StreamOf(i) /\ i < local_socket_next_id[Host]
      BY <3>1 DEF Sessions, HostIds
    <3>3. i \in Nat /\ local_socket_next_id[Host] \in Nat
      BY Types, PeerTypes
    <3> QED
      BY <1>3, <3>2, <3>3 DEF StreamOf
  <2> QED
    BY <2>1
<1>13. \A i \in Ids : NothingLost(Device, i, k)'
  BY <1>11 DEF NothingLost
<1>14. ASSUME NEW i \in Ids
       PROVE  NothingLost(Host, i, k)'
  <2> SUFFICES ASSUME socket'[Host][i].state = "open", socket'[Host][i].stream = k,
                      NEW n \in DOMAIN wire'[Device], wire'[Device][n].cmd = "CLSE",
                      wire'[Device][n].arg1 = i
               PROVE  FALSE
    BY <1>2, <1>11 DEF NothingLost, CloseTo, OpenFor
  <2>1. i = j
    BY <1>12
  <2>2. n + 0 \in DOMAIN wire[Device] /\ wire'[Device][n] = wire[Device][n + 0] /\ n \in Nat
    BY <1>2, <1>6, PassesWires
  <2>3. n \in DOMAIN wire[Device] /\ wire'[Device][n] = wire[Device][n]
    BY <2>2
  <2>4. wire[Device][n].arg1 < j
    BY <1>1, <2>3 DEF Sessions, PacketsBelong, DevicePacket, Addressed
  <2>5. j \in Nat
    BY PeerTypes
  <2> QED
    BY <2>1, <2>3, <2>4, <2>5
<1>15. \A r \in Peers : Shut(r, k)'
  BY <1>2, <1>10, <1>13, <1>14 DEF Shut
<1> QED
  BY <1>2, <1>3, <1>6, <1>7, <1>9, <1>15, TouchCloses

-------------------------------------------------------------------------------
(* The connection.                                                           *)

(* How an end that closes streams with the connection leaves the others.     *)
Forgets(p, k) ==
  ended'[p][k] = "clse" =>
    /\ ended[p][k] = "clse"
    /\ \A i \in Ids : socket[p][i].stream = k /\ socket[p][i].state # "open" =>
         socket'[p][i] = socket[p][i]

(* Packets of end q are lost: the first d, and those behind the c after them. *)
Loses(q, d, c) ==
  /\ d \in Nat /\ c \in Nat
  /\ \A n \in DOMAIN wire'[q] :
       /\ n \in Nat
       /\ \/ wire'[q][n].cmd \in {"SYNC", "CNXN"}
          \/ n <= c /\ n + d \in DOMAIN wire[q] /\ wire'[q][n] = wire[q][n + d]
  /\ \A n \in DOMAIN wire[q] : d < n /\ n <= c + d =>
       n - d \in DOMAIN wire'[q] /\ wire'[q][n - d] = wire[q][n]

LEMMA ReconnectsLose ==
  ASSUME NEW d, NEW c, NEW new, NEW e, NEW b, NEW more, Reconnects(d, c, new, e, b, more)
  PROVE  Loses(Host, d, c) /\ Loses(Device, e, b)
<1>1. ASSUME NEW q, NEW x, NEW y, NEW z, Moved(wire[q], wire'[q], x, y, z), Connects(z)
      PROVE  Loses(q, x, y)
  <2>1. /\ \A n \in DOMAIN wire'[q] :
             \/ n <= y /\ n + x \in DOMAIN wire[q] /\ wire'[q][n] = wire[q][n + x]
             \/ n > y /\ n - y \in DOMAIN z /\ wire'[q][n] = z[n - y]
        /\ \A n \in DOMAIN wire[q] : x < n /\ n <= x + y =>
             n - x \in DOMAIN wire'[q] /\ wire'[q][n - x] = wire[q][n]
    BY <1>1, MovedFacts
  <2>2. /\ x \in Nat /\ y \in Nat /\ wire'[q] \in Seq(Packets)
        /\ \A n \in DOMAIN wire'[q] : n \in Nat
    BY <1>1 DEF Moved
  <2>3. x + y = y + x
    BY <2>2
  <2> QED
    BY <1>1, <2>1, <2>2, <2>3 DEF Loses, Connects
<1> QED
  BY <1>1 DEF Reconnects

LEMMA LossShut ==
  ASSUME IInv, NEW p \in Peers, NEW k \in Streams, Shut(p, k), Forgets(p, k),
         NEW d, NEW c, Loses(Other(p), d, c),
         \A r \in Peers, i \in Ids : Quieter(r, i),
         UNCHANGED <<opened, chunks, written>>,
         NoneOpen(p)' \/ (d = 0 /\ (NoneOpen(Other(p))' \/ broken'[Other(p)])),
         \A n \in DOMAIN wire'[Host] : wire'[Host][n].cmd = "OPEN" =>
           \E m \in DOMAIN wire[Host] : wire'[Host][n] = wire[Host][m]
  PROVE  Shut(p, k)'
<1> DEFINE q == Other(p)
<1>1. q \in Peers
  BY TwoPeers
<1>2. \A r \in Peers, i \in Ids : socket'[r][i].state = "open" => socket'[r][i] = socket[r][i]
  BY QuieterFacts
<1> HIDE DEF q
<1>3. \A r \in Peers : OpenFor(r, k)' => OpenFor(r, k)
  BY <1>2 DEF OpenFor
<1>4. d \in Nat /\ \A m \in Writes(q, k)' : m \in Nat /\ m + d \in Writes(q, k)
  <2>1. ASSUME NEW m \in DOMAIN wire'[q], wire'[q][m].cmd = "WRTE"
        PROVE  m \in Nat /\ m + d \in DOMAIN wire[q] /\ wire'[q][m] = wire[q][m + d]
    BY <2>1 DEF Loses, q
  <2> QED
    BY <2>1 DEF Writes, Loses
<1>5. ASSUME ended'[p][k] = "clse"
      PROVE  ClosedWell(p, k)'
  <2>1. /\ ended[p][k] = "clse"
        /\ \A i \in Ids : socket[p][i].stream = k /\ socket[p][i].state # "open" =>
             socket'[p][i] = socket[p][i]
    BY <1>5 DEF Forgets
  <2>2. /\ k <= opened
        /\ ~OpenFor(p, k) /\ ~OpenFor(q, k) /\ Writes(q, k) = {}
        /\ \A n \in DOMAIN wire[Host] : wire[Host][n].cmd = "OPEN" => wire[Host][n].data[2] # k
        /\ Held(p, k)
    BY <2>1 DEF Shut, ClosedWell, q
  <2>3. Writes(q, k)' = {}
    BY <1>4, <2>2
  <2>4. \A i \in Ids : socket[p][i].stream = k => socket'[p][i] = socket[p][i]
    BY <2>1, <2>2 DEF OpenFor
  <2>5. Held(p, k)'
    BY <2>2, <2>4 DEF Held, Delivered
  <2>6. /\ k <= opened' /\ ~OpenFor(p, k)' /\ ~OpenFor(q, k)'
        /\ \A n \in DOMAIN wire'[Host] : wire'[Host][n].cmd = "OPEN" => wire'[Host][n].data[2] # k
    BY <1>1, <1>3, <2>2
  <2> QED
    BY <2>3, <2>5, <2>6 DEF ClosedWell, q
<1>6. ASSUME NEW i \in Ids, socket'[p][i].state = "open", socket'[p][i].stream = k
      PROVE  NothingLost(p, i, k)'
  <2>1. socket'[p][i] = socket[p][i]
    BY <1>2, <1>6
  <2>2. d = 0 /\ (NoneOpen(q)' \/ broken'[q])
    BY <1>6 DEF NoneOpen, q
  <2>3. ~(~broken'[q] /\ OpenFor(q, k)')
    BY <1>1, <2>2 DEF NoneOpen, OpenFor
  <2>4. ASSUME NEW n \in DOMAIN wire'[q], wire'[q][n].cmd = "CLSE", wire'[q][n].arg1 = i
        PROVE  /\ ~OpenFor(q, k)' /\ Arriving(p, i, k)'
               /\ \A m \in Writes(q, k)' : m < n
    <3>1. n \in Nat /\ n <= c /\ n + d \in DOMAIN wire[q] /\ wire'[q][n] = wire[q][n + d]
      BY <2>4 DEF Loses, q
    <3>2. n + 0 = n
      BY <3>1
    <3>3. n \in DOMAIN wire[q] /\ CloseTo(q, n, i)
      BY <2>2, <2>4, <3>1, <3>2 DEF CloseTo
    <3>4. ~OpenFor(q, k) /\ Arriving(p, i, k) /\ \A m \in Writes(q, k) : m < n
      BY <1>6, <2>1, <3>3 DEF Shut, NothingLost, q
    <3>5. \A m \in Writes(q, k)' : m < n
      <4>1. \A m \in Writes(q, k)' : m + 0 = m
        BY <1>4
      <4> QED
        BY <1>4, <2>2, <3>4, <4>1
    <3>6. ASSUME NEW m \in Writes(q, k)
          PROVE  Writes(q, k)' # {}
      <4>1. m \in DOMAIN wire[q] /\ m < n
        BY <3>4 DEF Writes
      <4>2. m \in Nat /\ m # 0
        <5>1. wire[q] \in Seq(Packets)
          BY <1>1, Types
        <5> QED
          BY <4>1, <5>1
      <4>3. c \in Nat
        BY DEF Loses
      <4>4. 0 < m /\ m - 0 = m
        BY <4>2
      <4>5. m <= c + 0
        BY <3>1, <4>1, <4>2, <4>3
      <4>6. m \in DOMAIN wire'[q] /\ wire'[q][m] = wire[q][m]
        BY <2>2, <4>1, <4>4, <4>5 DEF Loses, q
      <4> QED
        BY <4>6 DEF Writes
    <3>7. Arriving(p, i, k)'
      BY <2>1, <3>4, <3>6 DEF Arriving, Delivered, q
    <3> QED
      BY <1>1, <1>3, <3>4, <3>5, <3>7
  <2> QED
    BY <2>3, <2>4 DEF NothingLost, CloseTo, q
<1>7. \A i \in Ids : NothingLost(p, i, k)'
  BY <1>6 DEF NothingLost
<1>8. ClosedWell(p, k)'
  BY <1>5 DEF ClosedWell
<1> QED
  BY <1>7, <1>8 DEF Shut

LEMMA ConnectionShut ==
  ASSUME IInv, Sessions, Closes, NEW d, NEW c, NEW new, NEW e, NEW b, NEW more,
         Reconnects(d, c, new, e, b, more), Cuts(d, e),
         UNCHANGED <<chunks, written>>,
         \A p \in Peers, k \in Streams : Forgets(p, k)
  PROVE  Closes'
<1>1. /\ Host \in Peers /\ Device \in Peers
      /\ Other(Host) = Device /\ Other(Device) = Host
      /\ \A p \in Peers : p = Host \/ p = Device
  BY TwoPeers
<1>2. Receivers'
  BY ConnectionReceivers DEF Cuts, Closes
<1>3. Loses(Host, d, c) /\ Loses(Device, e, b)
  BY ReconnectsLose
<1>4. /\ UNCHANGED <<opened, chunks, written>>
      /\ \A r \in Peers, i \in Ids : Quieter(r, i)
  BY DEF Reconnects
<1>5. \A n \in DOMAIN wire'[Host] : wire'[Host][n].cmd = "OPEN" =>
        \E m \in DOMAIN wire[Host] : wire'[Host][n] = wire[Host][m]
  BY <1>3 DEF Loses
<1>6. ASSUME NEW k \in Streams
      PROVE  Shut(Device, k)'
  <2>1. Shut(Device, k) /\ Forgets(Device, k) /\ Loses(Other(Device), d, c)
    BY <1>1, <1>3, ClosesAreShut
  <2>2. NoneOpen(Device)' \/ (d = 0 /\ (NoneOpen(Other(Device))' \/ broken'[Other(Device)]))
    BY <1>1 DEF Cuts
  <2> QED
    BY <1>1, <1>4, <1>5, <2>1, <2>2, LossShut
<1>7. ASSUME NEW k \in Streams
      PROVE  Shut(Host, k)'
  <2>1. Shut(Host, k) /\ Forgets(Host, k) /\ Loses(Other(Host), e, b)
    BY <1>1, <1>3, ClosesAreShut
  <2>2. NoneOpen(Host)' \/ (e = 0 /\ (NoneOpen(Other(Host))' \/ broken'[Other(Host)]))
    BY <1>1 DEF Cuts
  <2> QED
    BY <1>1, <1>4, <1>5, <2>1, <2>2, LossShut
<1> QED
  BY <1>1, <1>2, <1>6, <1>7, ClosesAreShut

LEMMA ClosingForgets ==
  ASSUME IInv, NEW p \in Peers, NEW closing \in SUBSET OpenSockets(p), CloseAll(p, closing)
  PROVE  \A r \in Peers, k \in Streams : Forgets(r, k)
<1>1. ended \in [Peers -> [Streams -> {"no", "eof", "error", "clse", "offline", "early"}]]
  BY InvParts DEF TypeOK
<1>2. /\ \A k \in Streams : ended'[p][k] = IF \E i \in closing : socket[p][i].stream = k
                                          THEN "offline" ELSE ended[p][k]
      /\ \A r \in Peers, k \in Streams : r # p => ended'[r][k] = ended[r][k]
  BY <1>1 DEF CloseAll
<1>3. /\ \A i \in Ids \ closing : socket'[p][i] = socket[p][i]
      /\ \A i \in Ids : socket'[Other(p)][i] = socket[Other(p)][i]
  BY CloseAllQuiets
<1>4. \A r \in Peers : r = p \/ r = Other(p)
  BY TwoPeers
<1>5. \A i \in Ids : socket[p][i].state # "open" => i \notin closing
  BY DEF OpenSockets
<1>6. ASSUME NEW k \in Streams
      PROVE  Forgets(p, k)
  <2>1. ended'[p][k] = "clse" => ended[p][k] = "clse"
    BY <1>2
  <2> QED
    BY <1>3, <1>5, <2>1 DEF Forgets
<1>7. ASSUME NEW r \in Peers, NEW k \in Streams, r # p
      PROVE  Forgets(r, k)
  BY <1>2, <1>3, <1>4, <1>7 DEF Forgets
<1> QED
  BY <1>6, <1>7

LEMMA ConnectionsForget ==
  ASSUME IInv,
         \/ \E p \in Peers : HandleConnect(p) \/ HandleSync(p)
         \/ Unplug
         \/ HostRestart
  PROVE  \A p \in Peers, k \in Streams : Forgets(p, k)
<1>1. ASSUME NEW p \in Peers, HandleConnect(p) \/ HandleSync(p)
      PROVE  \A r \in Peers, k \in Streams : Forgets(r, k)
  <2>1. \E closing \in SUBSET OpenSockets(p) : CloseAll(p, closing)
    <3>1. Disconnected(p) \in SUBSET OpenSockets(p) /\ {} \in SUBSET OpenSockets(p)
      BY DEF Disconnected
    <3> QED
      BY <1>1, <3>1 DEF HandleConnect, HandleSync
  <2> QED
    BY <2>1, ClosingForgets
<1>2. CASE Unplug
  BY <1>2 DEF Unplug, historyVars, Forgets
<1>3. CASE HostRestart
  <2>1. /\ ended \in [Peers -> [Streams -> {"no", "eof", "error", "clse", "offline", "early"}]]
        /\ socket \in [Peers -> [Ids -> Sockets]]
        /\ Host \in Peers /\ Device \in Peers /\ Host # Device
        /\ \A p \in Peers : p = Host \/ p = Device
    BY InvParts, TwoPeers, AdbStreamAssumption DEF TypeOK
  <2>2. /\ \A k \in Streams : ended'[Host][k] = IF \E i \in Ids : socket[Host][i].stream = k
                                               THEN "offline" ELSE ended[Host][k]
        /\ \A k \in Streams : ended'[Device][k] = ended[Device][k]
        /\ \A i \in Ids : socket'[Device][i] = socket[Device][i]
    BY <1>3, <2>1 DEF HostRestart
  <2>3. ASSUME NEW k \in Streams
        PROVE  Forgets(Host, k) /\ Forgets(Device, k)
    BY <2>2 DEF Forgets
  <2> QED
    BY <2>1, <2>3
<1> QED
  BY <1>1, <1>2, <1>3

LEMMA ConnectionsClose ==
  ASSUME IInv, Sessions, Closes,
         \/ \E p \in Peers : HandleConnect(p) \/ HandleSync(p)
         \/ Unplug
         \/ HostRestart /\ online[Host]
  PROVE  Closes'
<1>1. \E d, c, new, e, b, more : Reconnects(d, c, new, e, b, more) /\ Cuts(d, e)
  <2>1. CASE \E p \in Peers : HandleConnect(p)
    BY <2>1, TwoPeers, HostConnects, DeviceConnects
  <2>2. CASE \E p \in Peers : HandleSync(p)
    BY <2>2, TwoPeers, HostSyncs, DeviceSyncs
  <2>3. CASE Unplug
    BY <2>3, Unplugs
  <2>4. CASE HostRestart /\ online[Host]
    BY <2>4, Restarts
  <2> QED
    BY <2>1, <2>2, <2>3, <2>4
<1>2. UNCHANGED <<chunks, written>>
  BY DEF HandleConnect, HandleSync, Unplug, HostRestart, historyVars
<1>3. \A p \in Peers, k \in Streams : Forgets(p, k)
  BY ConnectionsForget
<1> QED
  BY <1>1, <1>2, <1>3, ConnectionShut

-------------------------------------------------------------------------------
(* All steps.                                                                *)

LEMMA ClosesStart == Init => Closes
<1> SUFFICES ASSUME Init
             PROVE  Closes
  OBVIOUS
<1>1. /\ \A p \in Peers : p = Host \/ p = Device
      /\ Host \in Peers /\ Device \in Peers
  BY TwoPeers, AdbStreamAssumption
<1>2. /\ \A p \in Peers, i \in Ids : socket[p][i].state = "free"
      /\ \A p \in Peers, k \in Streams : ended[p][k] = "no"
      /\ wire[Host] = <<Connection>> /\ ~online[Host]
  <2>1. \A p \in Peers, i \in Ids : socket[p][i] = Free
    BY DEF Init
  <2>2. (\A p \in Peers, k \in Streams : ended[p][k] = "no") /\ ~online[Host]
    BY <1>1 DEF Init
  <2>3. wire[Host] = <<Connection>>
    BY <1>1 DEF Init
  <2> QED
    BY <2>1, <2>2, <2>3 DEF Free
<1>3. \A n \in DOMAIN wire[Host] : wire[Host][n].cmd = "CNXN"
  <2>1. \A n \in DOMAIN <<Connection>> : <<Connection>>[n] = Connection
    OBVIOUS
  <2> QED
    BY <1>2, <2>1 DEF Connection, Packet
<1>4. Receivers
  BY <1>1, <1>2, <1>3 DEF Receivers
<1> QED
  BY <1>1, <1>2, <1>4 DEF Closes, NothingLost, ClosedWell

LEMMA PacketCloses ==
  ASSUME IInv, Sessions, Flow, Closes, NEW p \in Peers, HandlePacket(p)
  PROVE  Closes'
<1>1. CASE p = Device /\ HandleOpen
  <2>1. CASE Accepts
    BY <2>1, AcceptCloses
  <2>2. CASE /\ Handles(Device, "OPEN") /\ online[Device]
             /\ Replies(Device, <<Packet("CLSE", 0, Received(Device).arg0)>>)
             /\ UNCHANGED <<socket, endVars, countVars, historyVars>>
    BY <2>2, RejectCloses
  <2> QED
    BY <1>1, <2>1, <2>2 DEF HandleOpen, Accepts, endVars
<1>2. CASE HandleOkay(p)
  BY <1>2, OkayCloses
<1>3. CASE HandleWrite(p)
  BY <1>3, WriteCloses
<1>4. CASE HandleClose(p)
  BY <1>4, CloseCloses
<1>5. CASE HandleConnect(p) \/ HandleSync(p)
  BY <1>5, ConnectionsClose
<1>6. CASE Ignore(p)
  BY <1>6, IgnoreCloses
<1> QED
  BY <1>1, <1>2, <1>3, <1>4, <1>5, <1>6 DEF HandlePacket

LEMMA ClosesStep ==
  IInv /\ Sessions /\ Flow /\ Closes /\ [Next]_vars /\ [SettledRestart]_vars => Closes'
<1> SUFFICES ASSUME IInv, Sessions, Flow, Closes, [Next]_vars, [SettledRestart]_vars
             PROVE  Closes'
  OBVIOUS
<1>1. CASE Open
  BY <1>1, OpenCloses
<1>2. CASE \E p \in Peers : HandlePacket(p)
  BY <1>2, PacketCloses
<1>3. CASE \E p \in Peers, i \in Ids : WriteEvent(p, i)
  BY <1>3, WriteEventCloses
<1>4. CASE \E p \in Peers, i \in Ids : ReadEvent(p, i)
  BY <1>4, ReadEventCloses
<1>5. CASE Unplug
  BY <1>5, ConnectionsClose
<1>6. CASE HostRestart
  BY <1>6, SettledSteps, ConnectionsClose
<1>7. CASE UNCHANGED vars
  <2>1. UNCHANGED <<socket, local_socket_next_id, online, broken, wire, opened, chunks, written, ended>>
    BY <1>7 DEF vars, endVars, countVars, historyVars
  <2>2. Receivers'
    BY <2>1 DEF Closes, Receivers, Receives, StreamOf
  <2>3. \A p \in Peers, i \in Ids, k \in Streams : NothingLost(p, i, k)'
    BY <2>1 DEF Closes, NothingLost, CloseTo, OpenFor, Arriving, Delivered, Writes
  <2>4. \A p \in Peers, k \in Streams : ClosedWell(p, k)'
    BY <2>1 DEF Closes, ClosedWell, OpenFor, Held, Delivered, Writes
  <2> QED
    BY <2>2, <2>3, <2>4 DEF Closes
<1> QED
  BY <1>1, <1>2, <1>3, <1>4, <1>5, <1>6, <1>7 DEF Next

LEMMA ClosesHold == Spec /\ [][SettledRestart]_vars => []Closes
  BY ClosesStart, ClosesStep, Always, SessionsHold, FlowHolds, PTL DEF Spec

(* An end that closes a stream because a CLOSE came, and has no socket of it *)
(* any more, wrote all the other end read: local_socket_close_locked keeps   *)
(* the socket until its packets are written, and a CLOSE never overtakes the *)
(* WRITE before it, nor belongs to another stream of the id (sockets.c).     *)
THEOREM NothingCutOffAlways == Spec /\ [][SettledRestart]_vars => []NothingCutOff
<1>1. Closes => NothingCutOff
  <2> SUFFICES ASSUME Closes, NEW p \in Peers, NEW k \in Streams, ended[p][k] = "clse",
                      \A i \in Ids : socket[p][i].stream # k
               PROVE  Len(written[p][k]) = chunks[Other(p)][k]
    BY DEF NothingCutOff
  <2>1. Held(p, k)
    BY DEF Closes, ClosedWell
  <2> QED
    BY <2>1 DEF Held, Delivered
<1> QED
  BY <1>1, ClosesHold, PTL

-------------------------------------------------------------------------------
(* Owing.                                                                    *)

Early(p, k) == ended[p][k] = "early"

Renewed(p) == \E n \in DOMAIN wire[p] : wire[p][n].cmd = "CNXN"
Closing(p, i) == \E n \in DOMAIN wire[p] : CloseTo(p, n, i)
Asked(p, k) == \E n \in DOMAIN wire[p] : wire[p][n].cmd = "OPEN" /\ wire[p][n].data[2] = k
HasPending(p, k) ==
  \E i \in Ids : /\ socket[p][i].state = "open" /\ socket[p][i].stream = k
                 /\ socket[p][i].pending # <<>>

(* The connection of end p is lost, or a new one is on its way.              *)
Cut(p) == broken[p] \/ Renewed(Other(p))

(* End p's socket i of stream k will be closed or be told whether it is open. *)
Gone(p, i, k) == Cut(p) \/ Closing(Other(p), i) \/ Asked(p, k)

(* The token of this direction of the stream.                                *)
Token(p, i, k) ==
  \/ socket[p][i].reading \/ Okays(Other(p), i) # {}
  \/ Writes(p, k) # {} \/ HasPending(Other(p), k)

Served(p, i, k) == Gone(p, i, k) \/ (OpenFor(Other(p), k) /\ Token(p, i, k))

(* Either there are two ends and the token is not lost, or the end that is   *)
(* left will learn it.                                                       *)
Company(p, i, k) ==
  LET s == socket[p][i] IN
  s.state = "open" /\ s.stream = k /\ ~Early(Other(p), k) => Served(p, i, k)

(* The server has no socket of a stream whose client was gone early.         *)
EarlyStreams ==
  \A k \in Streams :
    /\ ~Early(Device, k)
    /\ Early(Host, k) => k <= opened /\ \A i \in Ids : socket[Host][i].stream # k

(* The device is online before the server is.                                *)
Tied == ~broken[Host] /\ (online[Host] \/ Renewed(Device)) => online[Device]

(* A WRITE of the device names the one socket that may have sent it.         *)
Senders ==
  \A n \in DOMAIN wire[Device] :
    wire[Device][n].cmd = "WRTE" => Receives(wire[Device][n].arg0, wire[Device][n].data[2])

(* Whoever sent an OPEN still waits for the answer.                          *)
Asking == \A k \in Streams : Asked(Host, k) => Early(Host, k) \/ OpenFor(Host, k) \/ Cut(Device)

Owing ==
  /\ EarlyStreams /\ Tied /\ Senders /\ Asking
  /\ \A p \in Peers, i \in Ids, k \in Streams : Company(p, i, k)

-------------------------------------------------------------------------------
(* What stays on the wires.                                                  *)

LEMMA PacketsStay ==
  ASSUME IInv, NEW p \in Peers, NEW d, NEW sent, Passes(p, d, sent), NEW x \in Peers,
         NEW n \in DOMAIN wire[x]
  PROVE  \/ \E l \in DOMAIN wire'[x] : wire'[x][l] = wire[x][n]
         \/ x = Other(p) /\ d = 1 /\ n = 1
<1>1. CASE x = p
  <2>1. n \in DOMAIN wire'[x] /\ wire'[x][n] = wire[x][n]
    BY <1>1, PassesWires
  <2> QED
    BY <2>1
<1>2. CASE x = Other(p)
  <2>1. d \in {0, 1} /\ n \in Nat /\ n >= 1
    BY <1>2, PassesWires, Types
  <2>2. d < n => n - d \in DOMAIN wire'[x] /\ wire'[x][n - d] = wire[x][n]
    BY <1>2, PassesWires
  <2>3. d < n \/ (d = 1 /\ n = 1)
    BY <2>1
  <2> QED
    BY <1>2, <2>2, <2>3
<1> QED
  BY <1>1, <1>2, TwoPeers, Types

(* A packet that is waited for stays, or it is the one that is taken.        *)
LEMMA WitnessesStay ==
  ASSUME IInv, NEW p \in Peers, NEW d, NEW sent, Passes(p, d, sent), NEW x \in Peers,
         NEW i, NEW k
  PROVE  LET m == wire[Other(p)][1]
             taken == x = Other(p) /\ d = 1 IN
         /\ Renewed(x) => Renewed(x)'
         /\ Closing(x, i) => Closing(x, i)' \/ (taken /\ m.cmd = "CLSE" /\ m.arg1 = i)
         /\ Okays(x, i) # {} => Okays(x, i)' # {} \/ (taken /\ m.cmd = "OKAY" /\ m.arg1 = i)
         /\ Writes(x, k) # {} => Writes(x, k)' # {} \/ (taken /\ m.cmd = "WRTE" /\ m.data[2] = k)
         /\ Asked(x, k) => Asked(x, k)' \/ (taken /\ m.cmd = "OPEN" /\ m.data[2] = k)
<1>1. Renewed(x) => Renewed(x)'
  <2> SUFFICES ASSUME NEW n \in DOMAIN wire[x], wire[x][n].cmd = "CNXN"
               PROVE  \E l \in DOMAIN wire'[x] : wire'[x][l].cmd = "CNXN"
    BY DEF Renewed
  <2>1. ~(x = Other(p) /\ d = 1 /\ n = 1)
    BY DEF Passes, Addressed
  <2> QED
    BY <2>1, PacketsStay
<1>2. Closing(x, i) => Closing(x, i)' \/ (x = Other(p) /\ d = 1 /\ CloseTo(x, 1, i))
  <2> SUFFICES ASSUME NEW n \in DOMAIN wire[x], CloseTo(x, n, i), ~(x = Other(p) /\ d = 1 /\ n = 1)
               PROVE  \E l \in DOMAIN wire'[x] : wire'[x][l].cmd = "CLSE" /\ wire'[x][l].arg1 = i
    BY DEF Closing, CloseTo
  <2> QED
    BY PacketsStay DEF CloseTo
<1>3. ASSUME Okays(x, i) # {}
      PROVE  Okays(x, i)' # {} \/ (x = Other(p) /\ d = 1 /\ wire[x][1].cmd = "OKAY" /\ wire[x][1].arg1 = i)
  <2>1. PICK n \in DOMAIN wire[x] : wire[x][n].cmd = "OKAY" /\ wire[x][n].arg1 = i
    BY <1>3 DEF Okays
  <2>2. (\E l \in DOMAIN wire'[x] : wire'[x][l] = wire[x][n]) => Okays(x, i)' # {}
    BY <2>1 DEF Okays
  <2> QED
    BY <2>1, <2>2, PacketsStay
<1>4. ASSUME Writes(x, k) # {}
      PROVE  Writes(x, k)' # {} \/ (x = Other(p) /\ d = 1 /\ wire[x][1].cmd = "WRTE" /\ wire[x][1].data[2] = k)
  <2>1. PICK n \in DOMAIN wire[x] : wire[x][n].cmd = "WRTE" /\ wire[x][n].data[2] = k
    BY <1>4 DEF Writes
  <2>2. (\E l \in DOMAIN wire'[x] : wire'[x][l] = wire[x][n]) => Writes(x, k)' # {}
    BY <2>1 DEF Writes
  <2> QED
    BY <2>1, <2>2, PacketsStay
<1>5. ASSUME Asked(x, k)
      PROVE  Asked(x, k)' \/ (x = Other(p) /\ d = 1 /\ wire[x][1].cmd = "OPEN" /\ wire[x][1].data[2] = k)
  <2>1. PICK n \in DOMAIN wire[x] : wire[x][n].cmd = "OPEN" /\ wire[x][n].data[2] = k
    BY <1>5 DEF Asked
  <2>2. (\E l \in DOMAIN wire'[x] : wire'[x][l] = wire[x][n]) => Asked(x, k)'
    BY <2>1 DEF Asked
  <2> QED
    BY <2>1, <2>2, PacketsStay
<1> QED
  BY <1>1, <1>2, <1>3, <1>4, <1>5 DEF CloseTo

(* The connection of an end stays lost until the end handles that.           *)
LEMMA CutStays ==
  ASSUME IInv, NEW p \in Peers, NEW d, NEW sent, Passes(p, d, sent), NEW r \in Peers, Cut(r)
  PROVE  Cut(r)'
<1>1. broken' = broken /\ Other(r) \in Peers
  BY Types, TwoPeers DEF Passes
<1> QED
  BY <1>1, WitnessesStay DEF Cut

(* What may happen to what end r's socket i of stream k waits for.           *)
LEMMA ServedStays ==
  ASSUME IInv, NEW p \in Peers, NEW d, NEW sent, Passes(p, d, sent),
         NEW r \in Peers, NEW i \in Ids, NEW k \in Streams, Served(r, i, k),
         socket[r][i].reading => Token(r, i, k)' \/ Gone(r, i, k)',
         OpenFor(Other(r), k) => OpenFor(Other(r), k)' \/ Gone(r, i, k)',
         HasPending(Other(r), k) => Token(r, i, k)' \/ Gone(r, i, k)',
         LET m == wire[Other(p)][1] IN
         d = 1 =>
           /\ p = r /\ m.arg1 = i => m.cmd # "CLSE" /\ (m.cmd = "OKAY" => Token(r, i, k)')
           /\ p # r /\ m.data[2] = k =>
                /\ m.cmd = "WRTE" /\ OpenFor(p, k) => Token(r, i, k)' \/ Gone(r, i, k)'
                /\ m.cmd = "OPEN" => Served(r, i, k)'
  PROVE  Served(r, i, k)'
<1> DEFINE q == Other(r)
           m == wire[Other(p)][1]
<1>1. /\ q \in Peers /\ q # r
      /\ q = Other(p) => p = r
      /\ r = Other(p) => p # r /\ q = p
  BY Types, TwoPeers
<1>2. Cut(r) => Cut(r)'
  BY CutStays
<1>3. /\ Closing(q, i) => Closing(q, i)' \/ (q = Other(p) /\ d = 1 /\ m.cmd = "CLSE" /\ m.arg1 = i)
      /\ Okays(q, i) # {} =>
           Okays(q, i)' # {} \/ (q = Other(p) /\ d = 1 /\ m.cmd = "OKAY" /\ m.arg1 = i)
  BY <1>1, WitnessesStay
<1>4. /\ Writes(r, k) # {} =>
           Writes(r, k)' # {} \/ (r = Other(p) /\ d = 1 /\ m.cmd = "WRTE" /\ m.data[2] = k)
      /\ Asked(r, k) => Asked(r, k)' \/ (r = Other(p) /\ d = 1 /\ m.cmd = "OPEN" /\ m.data[2] = k)
  BY <1>1, WitnessesStay
<1>5. /\ Cut(r)' \/ Closing(q, i)' \/ Asked(r, k)' => Gone(r, i, k)'
      /\ Okays(q, i)' # {} \/ Writes(r, k)' # {} => Token(r, i, k)'
      /\ Gone(r, i, k)' \/ (OpenFor(q, k)' /\ Token(r, i, k)') => Served(r, i, k)'
  BY DEF Gone, Token, Served
<1> HIDE DEF q, m
<1>6. Gone(r, i, k) => Served(r, i, k)'
  BY <1>1, <1>2, <1>3, <1>4, <1>5 DEF Gone, q, m
<1>7. OpenFor(q, k) /\ Token(r, i, k) => Token(r, i, k)' \/ Gone(r, i, k)'
  BY <1>1, <1>3, <1>4, <1>5 DEF Token, q, m
<1> QED
  BY <1>5, <1>6, <1>7 DEF Served, q

-------------------------------------------------------------------------------
(* Who belongs together.                                                     *)

LEMMA LostTogether ==
  ASSUME IInv, Sessions, NEW p \in Peers, NEW i \in Ids, socket[p][i].state = "open",
         broken[Other(p)]
  PROVE  broken[p]
<1>1. online[p]
  BY OpenSocketFacts
<1>2. Syncs(p)
  BY DEF Sessions
<1> QED
  BY <1>1, <1>2 DEF Syncs

(* The peer of an open socket is the one open socket of its stream.          *)
LEMMA PeerIsIt ==
  ASSUME IInv, Sessions, Receivers, NEW p \in Peers, NEW j \in Ids, NEW i \in Ids,
         socket[p][j].state = "open", socket[p][j].peer # 0,
         socket[Other(p)][i].state = "open", socket[Other(p)][i].stream = socket[p][j].stream
  PROVE  socket[p][j].peer = i
<1>1. CASE p = Host
  BY <1>1, Types DEF Receivers, Receives
<1>2. CASE p = Device
  <2>1. online[Host]
    BY <1>2, OpenSocketFacts, Types
  <2>2. socket[Device][j].stream = StreamOf(socket[Device][j].peer)
    BY <1>2, <2>1 DEF Sessions, DeviceIds
  <2>3. socket[Host][i].stream = StreamOf(i)
    BY <1>2, Types DEF Sessions, HostIds
  <2>4. /\ socket[Device][j].peer \in Nat /\ i \in Nat /\ opened \in Nat
        /\ local_socket_next_id[Host] \in Nat
    BY <1>2, Types, PeerTypes
  <2> QED
    BY <1>2, <2>2, <2>3, <2>4, Types DEF StreamOf
<1> QED
  BY <1>1, <1>2, TwoPeers

(* Whoever may have sent the WRITE that is handled is the one it names.      *)
LEMMA SenderIsIt ==
  ASSUME IInv, Sessions, Senders, NEW p \in Peers, Handles(p, "WRTE"), Finds(p), NEW i \in Ids,
         socket[Other(p)][i].state = "open",
         socket[Other(p)][i].stream = socket[p][Received(p).arg1].stream
  PROVE  Received(p).arg0 = i
<1> DEFINE m == Received(p)
<1>1. Partner(p, m.arg1, m.arg0) /\ m.data[2] = socket[p][m.arg1].stream
  BY WritePartner
<1>2. /\ wire[Other(p)] # <<>> /\ m.cmd = "WRTE"
      /\ 1 \in DOMAIN wire[Other(p)] /\ wire[Other(p)][1] = m /\ m.arg0 \in 0 .. MaxOpens
  BY ReceivedFacts DEF Handles
<1> HIDE DEF m
<1>3. CASE p = Host
  <2>1. Receives(m.arg0, m.data[2])
    BY <1>2, <1>3, Types DEF Senders
  <2> QED
    BY <1>1, <1>3, <2>1, Types DEF Receives, m
<1>4. CASE p = Device
  <2>1. online[Host]
    BY <1>4, OpenSocketFacts, Types
  <2>2. StreamOf(m.arg0) = socket[Device][m.arg1].stream
    BY <1>1, <1>4, <2>1 DEF Partner
  <2>3. socket[Host][i].stream = StreamOf(i)
    BY <1>4, Types DEF Sessions, HostIds
  <2>4. m.arg0 \in Nat /\ i \in Nat /\ opened \in Nat /\ local_socket_next_id[Host] \in Nat
    BY <1>2, Types, PeerTypes
  <2> QED
    BY <1>4, <2>2, <2>3, <2>4, Types DEF StreamOf, m
<1> QED
  BY <1>3, <1>4, TwoPeers

-------------------------------------------------------------------------------
(* Streams whose client was gone early.                                      *)

(* Only a stream that has a socket ends, and no socket changes its stream.   *)
EndsWithSocket ==
  /\ opened' = opened
  /\ \A p \in Peers, k \in Streams :
       \/ ended'[p][k] = ended[p][k]
       \/ ended'[p][k] # "early" /\ \E i \in Ids : socket[p][i].stream = k
  /\ \A i \in Ids : socket'[Host][i].stream \in {0, socket[Host][i].stream}

LEMMA EarlyStays ==
  ASSUME IInv, EarlyStreams, EndsWithSocket
  PROVE  EarlyStreams' /\ \A p \in Peers, k \in Streams : Early(p, k) <=> Early(p, k)'
<1>1. \A k \in Streams : k # 0
  BY DEF Streams
<1>2. Host \in Peers /\ Device \in Peers /\ \A p \in Peers : p = Host \/ p = Device
  BY TwoPeers, Types
<1>3. \A p \in Peers, k \in Streams : Early(p, k) <=> Early(p, k)'
  BY <1>2 DEF EarlyStreams, EndsWithSocket, Early
<1>4. \A i \in Ids, k \in Streams : socket'[Host][i].stream = k => socket[Host][i].stream = k
  BY <1>1 DEF EndsWithSocket
<1> QED
  BY <1>2, <1>3, <1>4 DEF EarlyStreams, EndsWithSocket

LEMMA ClosingEnds ==
  ASSUME IInv, NEW p \in Peers, NEW closing \in SUBSET OpenSockets(p), CloseAll(p, closing),
         opened' = opened
  PROVE  EndsWithSocket
<1>1. \A r \in Peers, i \in Ids : Quieter(r, i)
  BY CloseAllQuiets
<1>2. \A i \in Ids : socket'[Host][i].stream \in {0, socket[Host][i].stream}
  BY <1>1, Types DEF Quieter, Free
<1>3. ASSUME NEW r \in Peers, NEW k \in Streams
      PROVE  \/ ended'[r][k] = ended[r][k]
             \/ ended'[r][k] # "early" /\ \E i \in Ids : socket[r][i].stream = k
  <2>1. \A i \in closing : i \in Ids
    BY DEF OpenSockets
  <2>2. ended'[r][k] = IF r = p /\ (\E i \in closing : socket[p][i].stream = k)
                       THEN "offline" ELSE ended[r][k]
    BY DEF CloseAll, IInv, TypeOK
  <2> QED
    BY <2>1, <2>2
<1> QED
  BY <1>2, <1>3 DEF EndsWithSocket

LEMMA OrdinaryEnds ==
  ASSUME IInv, IInv', NEW p \in Peers, NEW d, NEW sent, Ordinary(p, d, sent), NEW j \in Ids,
         NEW why, why # "early",
         UNCHANGED ended \/ (socket[p][j].stream \in Streams /\ Ends(p, socket[p][j].stream, why))
  PROVE  EndsWithSocket
<1>1. opened' = opened
  BY DEF Ordinary
<1>2. \A i \in Ids : socket'[Host][i].stream \in {0, socket[Host][i].stream}
  <2>1. \A i \in Ids : socket'[Host][i].state # "free" <=> socket'[Host][i].stream # 0
    BY Types DEF IInv, TypeOK
  <2>2. \A i \in Ids : socket'[Host][i].state # "free" => socket'[Host][i].stream = socket[Host][i].stream
    BY OrdinarySockets, Types
  <2> QED
    BY <2>1, <2>2
<1>3. ASSUME NEW r \in Peers, NEW k \in Streams
      PROVE  \/ ended'[r][k] = ended[r][k]
             \/ ended'[r][k] # "early" /\ \E i \in Ids : socket[r][i].stream = k
  BY EndsFacts
<1> QED
  BY <1>1, <1>2, <1>3 DEF EndsWithSocket

LEMMA PacketEnds ==
  ASSUME IInv, IInv', Sessions, NEW p \in Peers, HandlePacket(p)
  PROVE  EndsWithSocket
<1>1. PICK j : j \in Ids
  <2>1. 1 \in Ids
    BY AdbStreamAssumption DEF Ids
  <2> QED
    BY <2>1
<1>2. CASE p = Device /\ HandleOpen
  <2>1. opened' = opened /\ ended' = ended
    BY <1>2 DEF HandleOpen, countVars, historyVars
  <2>2. \A i \in Ids : socket'[Host][i] = socket[Host][i]
    BY <1>2, Types DEF HandleOpen, IInv, TypeOK
  <2> QED
    BY <2>1, <2>2 DEF EndsWithSocket
<1>3. CASE HandleOkay(p)
  <2>1. Ordinary(p, 1, <<>>)
    BY <1>3, OkayIsOrdinary
  <2>2. UNCHANGED ended
    BY <1>3 DEF HandleOkay, historyVars
  <2> QED
    BY <1>1, <2>1, <2>2, OrdinaryEnds
<1>4. CASE HandleWrite(p)
  <2>1. PICK sent : Ordinary(p, 1, sent)
    BY <1>4, WriteIsOrdinary
  <2>2. LET i == Received(p).arg1 IN
        i \in Ids /\ socket[p][i].stream \in Streams
          /\ (UNCHANGED ended \/ Ends(p, socket[p][i].stream, "error"))
    BY <1>4, WriteIsOrdinary
  <2> QED
    BY <2>1, <2>2, OrdinaryEnds
<1>5. CASE HandleClose(p)
  <2>1. LET i == Received(p).arg1 IN
        /\ i \in Ids /\ socket[p][i].stream \in Streams /\ Ends(p, socket[p][i].stream, "clse")
        /\ Ordinary(p, 1, Sent(p, CloseMessage(socket[p][i])))
    BY <1>5, CloseIsOrdinary
  <2> QED
    BY <2>1, OrdinaryEnds
<1>6. CASE HandleConnect(p)
  <2>1. (IF online[p] THEN Disconnected(p) ELSE {}) \in SUBSET OpenSockets(p)
    BY DEF Disconnected
  <2>2. CloseAll(p, IF online[p] THEN Disconnected(p) ELSE {}) /\ opened' = opened
    BY <1>6 DEF HandleConnect, countVars
  <2> QED
    BY <2>1, <2>2, ClosingEnds
<1>7. CASE HandleSync(p)
  <2>1. CloseAll(p, OpenSockets(p)) /\ opened' = opened
    BY <1>7 DEF HandleSync, countVars
  <2> QED
    BY <2>1, ClosingEnds
<1>8. CASE Ignore(p)
  <2>1. Ordinary(p, 1, <<>>) /\ UNCHANGED ended
    BY <1>8, IgnoreIsOrdinary
  <2> QED
    BY <1>1, <2>1, OrdinaryEnds
<1> QED
  BY <1>2, <1>3, <1>4, <1>5, <1>6, <1>7, <1>8 DEF HandlePacket

LEMMA EventEnds ==
  ASSUME IInv, IInv', Sessions, NEW p \in Peers, NEW i \in Ids, WriteEvent(p, i) \/ ReadEvent(p, i)
  PROVE  EndsWithSocket
<1>1. CASE WriteEvent(p, i)
  <2>1. PICK sent : Ordinary(p, 0, sent)
    BY <1>1, WriteEventIsOrdinary
  <2>2. socket[p][i].stream \in Streams /\ (UNCHANGED ended \/ Ends(p, socket[p][i].stream, "error"))
    BY <1>1, WriteEventIsOrdinary
  <2> QED
    BY <2>1, <2>2, OrdinaryEnds
<1>2. CASE ReadEvent(p, i)
  <2>1. PICK sent : Ordinary(p, 0, sent)
    BY <1>2, ReadEventIsOrdinary
  <2>2. socket[p][i].stream \in Streams /\ (UNCHANGED ended \/ Ends(p, socket[p][i].stream, "eof"))
    BY <1>2, ReadEventIsOrdinary
  <2> QED
    BY <2>1, <2>2, OrdinaryEnds
<1> QED
  BY <1>1, <1>2

LEMMA FaultEnds ==
  ASSUME IInv, Unplug \/ HostRestart
  PROVE  EndsWithSocket
<1>1. CASE Unplug
  BY <1>1 DEF Unplug, historyVars, EndsWithSocket
<1>2. CASE HostRestart
  <2>1. opened' = opened /\ \A i \in Ids : socket'[Host][i] = Free
    BY <1>2, Types DEF HostRestart, IInv, TypeOK
  <2>2. \A x \in Peers, k \in Streams :
          ended'[x][k] = IF x = Host /\ (\E i \in Ids : socket[Host][i].stream = k)
                         THEN "offline" ELSE ended[x][k]
    BY <1>2, Types DEF HostRestart, IInv, TypeOK
  <2> QED
    BY <2>1, <2>2 DEF EndsWithSocket, Free
<1> QED
  BY <1>1, <1>2

-------------------------------------------------------------------------------
(* What the steps that leave the connection alone have in common.            *)

LEMMA TiedStays ==
  ASSUME IInv, Tied, NEW p \in Peers, NEW d, NEW sent, Passes(p, d, sent)
  PROVE  Tied'
<1>1. broken' = broken /\ online' = online
  BY DEF Passes
<1>2. Renewed(Device)' => Renewed(Device)
  <2> SUFFICES ASSUME NEW n \in DOMAIN wire'[Device], wire'[Device][n].cmd = "CNXN"
               PROVE  Renewed(Device)
    BY DEF Renewed
  <2>1. CASE Device = Other(p)
    <3>1. n + d \in DOMAIN wire[Device] /\ wire'[Device][n] = wire[Device][n + d]
      BY <2>1, PassesWires
    <3> QED
      BY <3>1 DEF Renewed
  <2>2. CASE Device = p
    <3>1. n \in DOMAIN wire[Device]
      BY <2>2, PassesWires DEF Addressed
    <3>2. wire'[Device][n] = wire[Device][n]
      BY <2>2, <3>1, PassesWires
    <3> QED
      BY <3>1, <3>2 DEF Renewed
  <2> QED
    BY <2>1, <2>2, TwoPeers, Types
<1> QED
  BY <1>1, <1>2 DEF Tied

LEMMA AskedBefore ==
  ASSUME IInv, NEW p \in Peers, NEW d, NEW sent, Passes(p, d, sent),
         \A n \in DOMAIN sent : sent[n].cmd # "OPEN", NEW k
  PROVE  Asked(Host, k)' => Asked(Host, k)
<1>1. \E e : Come(Host, e, {"OPEN"})
  BY PassesTokens, TwoPeers, Types
<1> QED
  BY <1>1 DEF Come, Asked

LEMMA AskingStays ==
  ASSUME IInv, Asking, NEW p \in Peers, NEW d, NEW sent, Passes(p, d, sent),
         \A n \in DOMAIN sent : sent[n].cmd # "OPEN",
         \A k \in Streams : Early(Host, k) => Early(Host, k)',
         \A k \in Streams : Asked(Host, k) /\ OpenFor(Host, k) => OpenFor(Host, k)'
  PROVE  Asking'
<1> SUFFICES ASSUME NEW k \in Streams, Asked(Host, k)'
             PROVE  Early(Host, k)' \/ OpenFor(Host, k)' \/ Cut(Device)'
  BY DEF Asking
<1>1. Asked(Host, k)
  BY AskedBefore
<1>2. Cut(Device) => Cut(Device)'
  BY CutStays, Types
<1> QED
  BY <1>1, <1>2 DEF Asking

LEMMA SendersStay ==
  ASSUME IInv, Senders, NEW p \in Peers, NEW d, NEW sent, Passes(p, d, sent),
         p = Device => \A n \in DOMAIN sent :
           sent[n].cmd = "WRTE" => Receives(sent[n].arg0, sent[n].data[2]),
         \A l \in Ids : socket'[Device][l].state = "open" =>
           socket[Device][l].state = "open" /\ socket'[Device][l].stream = socket[Device][l].stream
  PROVE  Senders'
<1> SUFFICES ASSUME NEW n \in DOMAIN wire'[Device], wire'[Device][n].cmd = "WRTE",
                    NEW a, NEW k, a = wire'[Device][n].arg0, k = wire'[Device][n].data[2]
             PROVE  Receives(a, k)'
  BY DEF Senders, Receives
<1>1. Receives(a, k)
  <2>1. CASE Device = Other(p)
    <3>1. n + d \in DOMAIN wire[Device] /\ wire'[Device][n] = wire[Device][n + d]
      BY <2>1, PassesWires
    <3> QED
      BY <3>1 DEF Senders
  <2>2. CASE Device = p
    <3>1. CASE n \in DOMAIN wire[Device]
      <4>1. wire'[Device][n] = wire[Device][n]
        BY <2>2, <3>1, PassesWires
      <4> QED
        BY <3>1, <4>1 DEF Senders
    <3>2. CASE n \notin DOMAIN wire[Device]
      <4>1. PICK l \in DOMAIN sent : wire'[Device][n] = sent[l]
        BY <2>2, <3>2, PassesWires
      <4> QED
        BY <2>2, <4>1
    <3> QED
      BY <3>1, <3>2
  <2> QED
    BY <2>1, <2>2, TwoPeers, Types
<1> QED
  BY <1>1, ReceivesStay

(* A step of end p changes its socket j at most, and keeps what it is of.    *)
OneSocket(p, j) ==
  /\ \A r \in Peers, l \in Ids : r # p \/ l # j => socket'[r][l] = socket[r][l]
  /\ socket'[p][j].state = "open" =>
       socket[p][j].state = "open" /\ socket'[p][j].stream = socket[p][j].stream

(* What is asked of such a step apart from the company of the sockets.       *)
Polite(p, j, sent) ==
  /\ OneSocket(p, j) /\ EndsWithSocket
  /\ \A n \in DOMAIN sent : sent[n].cmd # "OPEN"
  /\ p = Device => \A n \in DOMAIN sent :
       sent[n].cmd = "WRTE" => Receives(sent[n].arg0, sent[n].data[2])
  /\ p = Host /\ socket[p][j].state = "open" /\ socket'[p][j].state # "open" =>
       ~Asked(Host, socket[p][j].stream)

LEMMA PoliteKeeps ==
  ASSUME IInv, Owing, NEW p \in Peers, NEW d, NEW sent, Passes(p, d, sent), NEW j \in Ids,
         Polite(p, j, sent)
  PROVE  EarlyStreams' /\ Tied' /\ Senders' /\ Asking'
<1>1. EarlyStreams' /\ \A r \in Peers, k \in Streams : Early(r, k) <=> Early(r, k)'
  BY EarlyStays DEF Owing, Polite
<1>2. Tied'
  BY TiedStays DEF Owing
<1>3. \A r \in Peers, l \in Ids : socket'[r][l].state = "open" =>
        socket[r][l].state = "open" /\ socket'[r][l].stream = socket[r][l].stream
  BY DEF Polite, OneSocket
<1>4. Senders'
  BY <1>3, SendersStay, Types DEF Owing, Polite
<1>5. ASSUME NEW k \in Streams, Asked(Host, k), OpenFor(Host, k)
      PROVE  OpenFor(Host, k)'
  <2>1. PICK l \in Ids : socket[Host][l].state = "open" /\ socket[Host][l].stream = k
    BY <1>5 DEF OpenFor
  <2>2. socket'[Host][l].state = "open"
    BY <1>5, <2>1, Types DEF Polite, OneSocket
  <2>3. socket'[Host][l].stream = k
    BY <1>3, <2>1, <2>2, Types
  <2> QED
    BY <2>2, <2>3 DEF OpenFor
<1>6. Asking'
  BY <1>1, <1>5, AskingStays, Types DEF Owing, Polite
<1> QED
  BY <1>1, <1>2, <1>4, <1>6

LEMMA CompanyKeeps ==
  ASSUME IInv, Owing, NEW p \in Peers, NEW d, NEW sent, Passes(p, d, sent), NEW j \in Ids,
         Polite(p, j, sent),
         \A r \in Peers, i \in Ids, k \in Streams :
           /\ socket'[r][i].state = "open" /\ socket'[r][i].stream = k
           /\ socket[r][i].state = "open" /\ socket[r][i].stream = k
           /\ Served(r, i, k)
           => Served(r, i, k)'
  PROVE  Owing'
<1>1. EarlyStreams' /\ Tied' /\ Senders' /\ Asking'
  BY PoliteKeeps
<1>2. \A r \in Peers, k \in Streams : Early(r, k) <=> Early(r, k)'
  BY EarlyStays DEF Owing, Polite
<1>3. ASSUME NEW r \in Peers, NEW i \in Ids, NEW k \in Streams
      PROVE  Company(r, i, k)'
  <2> SUFFICES ASSUME socket'[r][i].state = "open", socket'[r][i].stream = k, ~Early(Other(r), k)'
               PROVE  Served(r, i, k)'
    BY DEF Company
  <2>1. socket[r][i].state = "open" /\ socket[r][i].stream = k
    BY DEF Polite, OneSocket
  <2>2. ~Early(Other(r), k)
    BY <1>2, TwoPeers, Types
  <2>3. Served(r, i, k)
    BY <2>1, <2>2 DEF Owing, Company
  <2> QED
    BY <2>1, <2>3
<1> QED
  BY <1>1, <1>3 DEF Owing

-------------------------------------------------------------------------------
(* One socket changes.                                                       *)

(* What end p takes is for its socket j of stream k.                         *)
MeantFor(p, j, k, d) ==
  LET m == wire[Other(p)][1] IN
  d = 1 => /\ m.cmd # "OPEN"
           /\ m.cmd = "WRTE" => m.data[2] = k
           /\ m.cmd \in {"OKAY", "CLSE"} => m.arg1 = j

LEMMA SocketsServed ==
  ASSUME NEW p \in Peers, NEW j \in Ids, OneSocket(p, j), NEW x \in Peers, NEW k,
         k # socket[p][j].stream \/ x # p
  PROVE  /\ OpenFor(x, k) => OpenFor(x, k)'
         /\ HasPending(x, k) => HasPending(x, k)'
<1>1. \A l \in Ids : socket[x][l].stream = k => socket'[x][l] = socket[x][l]
  BY DEF OneSocket
<1> QED
  BY <1>1 DEF OpenFor, HasPending

LEMMA OthersServed ==
  ASSUME IInv, NEW p \in Peers, NEW d, NEW sent, Passes(p, d, sent), NEW j \in Ids,
         OneSocket(p, j), MeantFor(p, j, socket[p][j].stream, d),
         NEW r \in Peers, NEW i \in Ids, NEW k \in Streams, k # socket[p][j].stream,
         socket[r][i].stream = k, Served(r, i, k)
  PROVE  Served(r, i, k)'
<1>1. Other(r) \in Peers
  BY TwoPeers, Types
<1>2. socket'[r][i] = socket[r][i] /\ (p = r => i # j)
  BY DEF OneSocket
<1>3. /\ OpenFor(Other(r), k) => OpenFor(Other(r), k)'
      /\ HasPending(Other(r), k) => HasPending(Other(r), k)'
  BY <1>1, SocketsServed
<1>4. socket'[r][i].reading \/ HasPending(Other(r), k)' => Token(r, i, k)'
  BY DEF Token
<1>5. /\ socket[r][i].reading => Token(r, i, k)' \/ Gone(r, i, k)'
      /\ OpenFor(Other(r), k) => OpenFor(Other(r), k)' \/ Gone(r, i, k)'
      /\ HasPending(Other(r), k) => Token(r, i, k)' \/ Gone(r, i, k)'
  BY <1>2, <1>3, <1>4
<1>6. LET m == wire[Other(p)][1] IN
      d = 1 =>
        /\ p = r /\ m.arg1 = i => m.cmd # "CLSE" /\ m.cmd # "OKAY"
        /\ p # r /\ m.data[2] = k => m.cmd # "WRTE" /\ m.cmd # "OPEN"
  BY <1>2 DEF MeantFor
<1> QED
  BY <1>5, <1>6, ServedStays

(* A client that waits for the answer to its OPEN has no peer.               *)
LEMMA HeardOfPeers ==
  ASSUME Sessions, NEW j \in Ids, socket[Host][j].state = "open", socket[Host][j].peer # 0
  PROVE  ~Asked(Host, socket[Host][j].stream)
BY DEF Sessions, Unheard, Asked

LEMMA BrokenIsGone ==
  ASSUME IInv, Sessions, NEW p \in Peers, NEW d, NEW sent, Passes(p, d, sent), broken[p],
         NEW r \in Peers, NEW i \in Ids, socket[r][i].state = "open", NEW k
  PROVE  Gone(r, i, k)'
<1>1. broken[r]
  BY LostTogether, TwoPeers, Types
<1> QED
  BY <1>1 DEF Passes, Gone, Cut

(* A socket is closed: the other end is told, or does not need to be.        *)
LEMMA ClosingOwes ==
  ASSUME IInv, Sessions, Closes, Owing, NEW p \in Peers, NEW d, NEW sent, Passes(p, d, sent),
         NEW j \in Ids, Polite(p, j, sent), MeantFor(p, j, socket[p][j].stream, d),
         socket[p][j].state = "open", socket'[p][j].state # "open",
         \/ ~OpenFor(Other(p), socket[p][j].stream)
         \/ broken[p]
         \/ /\ socket[p][j].peer # 0
            /\ \E n \in DOMAIN sent : sent[n].cmd = "CLSE" /\ sent[n].arg1 = socket[p][j].peer
  PROVE  Owing'
<1> SUFFICES ASSUME NEW r \in Peers, NEW i \in Ids, NEW k \in Streams,
                    socket'[r][i].state = "open", socket'[r][i].stream = k,
                    socket[r][i].state = "open", socket[r][i].stream = k, Served(r, i, k)
             PROVE  Served(r, i, k)'
  BY CompanyKeeps
<1>1. CASE k # socket[p][j].stream
  BY <1>1, OthersServed DEF Polite
<1>2. CASE k = socket[p][j].stream /\ r = p
  <2>1. i = j
    BY <1>2, Distinct
  <2> QED
    BY <1>2, <2>1
<1>3. CASE k = socket[p][j].stream /\ r # p
  <2>1. Other(p) = r /\ Other(r) = p
    BY <1>3, TwoPeers, Types
  <2>2. OpenFor(Other(p), k)
    BY <2>1 DEF OpenFor
  <2>3. CASE broken[p]
    <3>1. Gone(r, i, k)'
      BY <2>3, BrokenIsGone
    <3> QED
      BY <3>1 DEF Served
  <2>4. CASE /\ socket[p][j].peer # 0
             /\ \E n \in DOMAIN sent : sent[n].cmd = "CLSE" /\ sent[n].arg1 = socket[p][j].peer
    <3>1. socket[p][j].peer = i
      BY <1>3, <2>1, <2>4, PeerIsIt DEF Closes
    <3>2. PICK n \in DOMAIN sent : sent[n].cmd = "CLSE" /\ sent[n].arg1 = i
      BY <2>4, <3>1
    <3>3. \E l \in DOMAIN wire'[p] : wire'[p][l] = sent[n]
      BY MovedFacts DEF Passes
    <3>4. Closing(p, i)'
      BY <3>2, <3>3 DEF Closing, CloseTo
    <3> QED
      BY <2>1, <3>4 DEF Served, Gone
  <2> QED
    BY <1>3, <2>2, <2>3, <2>4
<1> QED
  BY <1>1, <1>2, <1>3

(* A socket goes on.                                                         *)
LEMMA GoingOnOwes ==
  ASSUME IInv, Sessions, Owing, NEW p \in Peers, NEW d, NEW sent, Passes(p, d, sent),
         NEW j \in Ids, Polite(p, j, sent), MeantFor(p, j, socket[p][j].stream, d),
         socket'[p][j].state = socket[p][j].state,
         \A k \in Streams : socket[p][j].state = "open" /\ k = socket[p][j].stream /\ Served(p, j, k)
           => Token(p, j, k)' \/ Gone(p, j, k)',
         d = 1 => wire[Other(p)][1].cmd # "CLSE",
         \A r \in Peers, i \in Ids, k \in Streams :
           /\ r # p /\ k = socket[p][j].stream
           /\ socket[r][i].state = "open" /\ socket[r][i].stream = k
           /\ HasPending(p, k) \/ (OpenFor(p, k) /\ d = 1 /\ wire[r][1].cmd = "WRTE")
           => Token(r, i, k)' \/ Gone(r, i, k)'
  PROVE  Owing'
<1> SUFFICES ASSUME NEW r \in Peers, NEW i \in Ids, NEW k \in Streams,
                    socket'[r][i].state = "open", socket'[r][i].stream = k,
                    socket[r][i].state = "open", socket[r][i].stream = k, Served(r, i, k)
             PROVE  Served(r, i, k)'
  BY CompanyKeeps
<1>0. OneSocket(p, j) /\ Other(p) \in Peers /\ Other(r) \in Peers
  BY TwoPeers, Types DEF Polite
<1>1. CASE k # socket[p][j].stream
  BY <1>0, <1>1, OthersServed
<1>2. CASE k = socket[p][j].stream /\ r = p
  <2>1. i = j /\ r # Other(p) /\ Other(r) # p
    <3>1. socket[p][i].stream # 0
      BY <1>2, PeerTypes
    <3>2. socket[p][j].state # "free"
      BY <1>2, <3>1, PeerTypes
    <3>3. i = j
      BY <1>2, <3>2, Distinct
    <3> QED
      BY <1>2, <3>3, TwoPeers, Types
  <2>2. Token(r, i, k)' \/ Gone(r, i, k)'
    BY <1>2, <2>1
  <2>3. OpenFor(Other(r), k) => OpenFor(Other(r), k)'
    BY <1>0, <2>1, SocketsServed
  <2>5. d = 1 => wire[Other(p)][1].cmd # "CLSE" /\ wire[Other(p)][1].cmd # "OPEN"
    BY DEF MeantFor
  <2>6. CASE Token(r, i, k)'
    BY <1>2, <2>3, <2>5, <2>6, ServedStays
  <2>7. CASE Gone(r, i, k)'
    BY <2>7 DEF Served
  <2> QED
    BY <2>2, <2>6, <2>7
<1>3. CASE k = socket[p][j].stream /\ r # p
  <2>1. Other(p) = r /\ Other(r) = p
    BY <1>3, TwoPeers, Types
  <2>2. socket'[r][i] = socket[r][i]
    BY <1>0, <1>3 DEF OneSocket
  <2>3. socket[r][i].reading => Token(r, i, k)'
    BY <2>2 DEF Token
  <2>4. OpenFor(p, k) => OpenFor(p, k)'
    <3>1. \A l \in Ids : socket[p][l].state = "open" /\ socket[p][l].stream = k =>
            socket'[p][l].state = "open" /\ socket'[p][l].stream = k
      BY <1>0 DEF OneSocket
    <3> QED
      BY <3>1 DEF OpenFor
  <2>5. /\ HasPending(p, k) => Token(r, i, k)' \/ Gone(r, i, k)'
        /\ OpenFor(p, k) /\ d = 1 /\ wire[r][1].cmd = "WRTE" => Token(r, i, k)' \/ Gone(r, i, k)'
    BY <1>3
  <2>6. d = 1 => wire[r][1].cmd # "OPEN"
    BY <2>1 DEF MeantFor
  <2> QED
    BY <1>3, <2>1, <2>3, <2>4, <2>5, <2>6, ServedStays
<1> QED
  BY <1>1, <1>2, <1>3

-------------------------------------------------------------------------------
(* The actions on sockets.                                                   *)

LEMMA OwnReceives ==
  ASSUME IInv, Sessions, NEW j \in Ids, socket[Device][j].state = "open"
  PROVE  Receives(j, socket[Device][j].stream)
BY Distinct, Types DEF Receives

LEMMA PendingIsToken ==
  ASSUME NEW p \in Peers, NEW j \in Ids, NEW k,
         socket'[p][j].state = "open", socket'[p][j].stream = k, socket'[p][j].pending # <<>>,
         NEW r, Other(r) = p, NEW i
  PROVE  Token(r, i, k)'
BY DEF Token, HasPending

LEMMA OkayOwes ==
  ASSUME IInv, IInv', Sessions, Owing, NEW p \in Peers, HandleOkay(p)
  PROVE  Owing'
<1>1. PICK j \in Ids :
        /\ wire[Other(p)] # <<>> /\ wire[Other(p)][1].cmd = "OKAY" /\ wire[Other(p)][1].arg1 = j
        /\ socket[p][j].state = "open"
        /\ socket' = [socket EXCEPT ![p][j].peer = IF @ = 0 THEN Received(p).arg0 ELSE @,
                                    ![p][j].reading = TRUE]
  BY ReceivedFacts DEF HandleOkay, Handles, Finds
<1>2. Passes(p, 1, <<>>)
  BY OkayIsOrdinary DEF Ordinary
<1>3. /\ \A r \in Peers, l \in Ids : r # p \/ l # j => socket'[r][l] = socket[r][l]
      /\ socket'[p][j].state = socket[p][j].state /\ socket'[p][j].stream = socket[p][j].stream
      /\ socket'[p][j].reading = TRUE /\ socket'[p][j].pending = socket[p][j].pending
  <2>1. socket \in [Peers -> [Ids -> Sockets]]
    BY InvParts DEF TypeOK
  <2>2. socket[p][j] \in Sockets
    BY <2>1
  <2> QED
    BY <1>1, <2>1, <2>2 DEF Sockets
<1>4. EndsWithSocket
  BY PacketEnds DEF HandlePacket
<1>5. \A n \in DOMAIN <<>> : FALSE
  OBVIOUS
<1>6. MeantFor(p, j, socket[p][j].stream, 1)
  BY <1>1 DEF MeantFor
<1>7. Polite(p, j, <<>>)
  BY <1>1, <1>3, <1>4, <1>5 DEF Polite, OneSocket
<1>8. ASSUME NEW k \in Streams
      PROVE  Token(p, j, k)'
  BY <1>3 DEF Token
<1>9. ASSUME NEW r \in Peers, NEW i \in Ids, NEW k \in Streams, r # p,
             HasPending(p, k) \/ wire[r][1].cmd = "WRTE"
      PROVE  Token(r, i, k)'
  <2>1. Other(r) = p /\ Other(p) = r
    BY <1>9, TwoPeers, Types
  <2>2. PICK l \in Ids : /\ socket[p][l].state = "open" /\ socket[p][l].stream = k
                         /\ socket[p][l].pending # <<>>
    BY <1>1, <1>9, <2>1 DEF HasPending
  <2>3. socket'[p][l].state = "open" /\ socket'[p][l].stream = k /\ socket'[p][l].pending # <<>>
    BY <1>3, <2>2
  <2> QED
    BY <2>1, <2>3, PendingIsToken
<1>10. wire[Other(p)][1].cmd # "CLSE"
  BY <1>1
<1> QED
  BY <1>1, <1>2, <1>3, <1>6, <1>7, <1>8, <1>9, <1>10, GoingOnOwes

(* A WRITE for a client whose OPEN was not answered does not come.           *)
LEMMA WrittenHasPeer ==
  ASSUME IInv, Sessions, NEW p \in Peers, Handles(p, "WRTE"), Finds(p)
  PROVE  socket[p][Received(p).arg1].peer # 0
<1> DEFINE i == Received(p).arg1
<1>1. /\ 1 \in DOMAIN wire[Other(p)] /\ wire[Other(p)][1] = Received(p) /\ Received(p).cmd = "WRTE"
      /\ i \in Ids /\ socket[p][i].state = "open"
  BY ReceivedFacts DEF Handles, Finds
<1>2. CASE p = Device
  BY <1>1, <1>2 DEF IInv, DeviceConnected
<1>3. CASE p = Host
  <2>1. To(1, "WRTE", i)
    BY <1>1, <1>3, Types DEF To
  <2>2. ~\E m \in DOMAIN wire[Device] : m < 1 /\ To(m, "OKAY", i)
    BY Types
  <2> QED
    BY <1>1, <1>3, <2>1, <2>2, Types DEF Sessions, Unanswered
<1> QED
  BY <1>2, <1>3, TwoPeers

LEMMA OkayIsToken ==
  ASSUME NEW p \in Peers, NEW d, NEW a, NEW i, Passes(p, d, Sent(p, <<Okay(a, i)>>)), ~broken[p],
         NEW r, Other(r) = p, NEW k
  PROVE  Token(r, i, k)'
<1>1. Sent(p, <<Okay(a, i)>>) = <<Okay(a, i)>> /\ 1 \in DOMAIN <<Okay(a, i)>>
      /\ <<Okay(a, i)>>[1] = Okay(a, i)
  BY DEF Sent
<1>2. \E l \in DOMAIN wire'[p] : wire'[p][l] = Okay(a, i)
  BY <1>1, MovedFacts DEF Passes
<1>3. Okay(a, i).cmd = "OKAY" /\ Okay(a, i).arg1 = i
  BY DEF Okay, Packet
<1>4. Okays(p, i)' # {}
  BY <1>2, <1>3 DEF Okays
<1> QED
  BY <1>4 DEF Token

LEMMA CloseIsSent ==
  ASSUME NEW p \in Peers, ~broken[p], NEW s, s.peer # 0
  PROVE  \E n \in DOMAIN Sent(p, CloseMessage(s)) :
           LET m == Sent(p, CloseMessage(s))[n] IN m.cmd = "CLSE" /\ m.arg1 = s.peer
<1> DEFINE c == Packet("CLSE", 0, s.peer)
<1>1. c.cmd = "CLSE" /\ c.arg1 = s.peer
  BY DEF Packet
<1> HIDE DEF c
<1>2. Sent(p, CloseMessage(s)) = <<c>>
  BY DEF Sent, CloseMessage, c
<1>3. 1 \in DOMAIN <<c>> /\ <<c>>[1] = c
  OBVIOUS
<1> QED
  BY <1>1, <1>2, <1>3

(* What a socket waits for is not lost by a step that is not about that.     *)
LEMMA OwnStays ==
  ASSUME IInv, NEW p \in Peers, NEW d, NEW sent, Passes(p, d, sent), NEW j \in Ids,
         NEW k \in Streams, Served(p, j, k),
         socket'[p][j].reading = socket[p][j].reading,
         \A l \in Ids : socket'[Other(p)][l] = socket[Other(p)][l],
         d = 1 => wire[Other(p)][1].cmd \notin {"OKAY", "CLSE"}
  PROVE  Token(p, j, k)' \/ Gone(p, j, k)'
<1> DEFINE q == Other(p)
<1>1. q \in Peers /\ q # p
  BY Types, TwoPeers
<1>2. /\ Cut(p) => Cut(p)'
      /\ Closing(q, j) => Closing(q, j)'
      /\ Okays(q, j) # {} => Okays(q, j)' # {}
      /\ Writes(p, k) # {} => Writes(p, k)' # {}
      /\ Asked(p, k) => Asked(p, k)'
  BY <1>1, CutStays, WitnessesStay
<1>3. HasPending(q, k) => HasPending(q, k)'
  BY DEF HasPending
<1> HIDE DEF q
<1>4. Gone(p, j, k) => Gone(p, j, k)'
  BY <1>2 DEF Gone, q
<1>5. Token(p, j, k) => Token(p, j, k)'
  BY <1>2, <1>3 DEF Token, q
<1> QED
  BY <1>4, <1>5 DEF Served

LEMMA WriteOwes ==
  ASSUME IInv, IInv', Sessions, Closes, Owing, NEW p \in Peers, HandleWrite(p)
  PROVE  Owing'
<1> DEFINE m == Received(p)
<1>0. PICK j \in Ids : j = m.arg1
  BY WriteIsOrdinary
<1> DEFINE s == socket[p][j]
           t == socket'[p][j]
<1>1. /\ s.state = "open" /\ s.stream \in Streams /\ m.data[2] = s.stream
      /\ \A r \in Peers, l \in Ids : r # p \/ l # j => socket'[r][l] = socket[r][l]
  BY <1>0, WriteIsOrdinary
<1>2. \/ UNCHANGED socket /\ Ordinary(p, 1, Sent(p, <<Okay(j, m.arg0)>>))
      \/ /\ t.state = "open" /\ t.stream = s.stream /\ t.reading = s.reading
         /\ t.pending = Append(s.pending, m.data) /\ Ordinary(p, 1, <<>>)
      \/ t = Free /\ Ordinary(p, 1, Sent(p, CloseMessage(s)))
  BY <1>0, WriteIsOrdinary
<1>3. /\ wire[Other(p)] # <<>> /\ wire[Other(p)][1] = m /\ m.cmd = "WRTE" /\ m.arg1 = j
      /\ Handles(p, "WRTE") /\ Finds(p)
  BY <1>0, ReceivedFacts DEF HandleWrite, Handles
<1>4. EndsWithSocket
  BY PacketEnds DEF HandlePacket
<1>5. s.peer # 0
  BY <1>3, WrittenHasPeer
<1>6. ASSUME NEW r \in Peers, NEW i \in Ids, r # p, socket[r][i].state = "open",
             socket[r][i].stream = s.stream
      PROVE  m.arg0 = i
  <2>1. Other(p) = r
    BY <1>6, TwoPeers, Types
  <2> QED
    BY <1>3, <1>6, <2>1, SenderIsIt DEF Owing
<1> HIDE DEF m
<1>7. MeantFor(p, j, s.stream, 1)
  BY <1>1, <1>3 DEF MeantFor
<1>8. ASSUME NEW sent, Ordinary(p, 1, sent), t.reading = s.reading, NEW k \in Streams, Served(p, j, k)
      PROVE  Token(p, j, k)' \/ Gone(p, j, k)'
  <2>1. Passes(p, 1, sent)
    BY <1>8 DEF Ordinary
  <2>2. \A l \in Ids : socket'[Other(p)][l] = socket[Other(p)][l]
    BY <1>1, TwoPeers, Types
  <2> QED
    BY <1>1, <1>3, <1>8, <2>1, <2>2, OwnStays
<1>9. CASE UNCHANGED socket /\ Ordinary(p, 1, Sent(p, <<Okay(j, m.arg0)>>))
  <2> DEFINE sent == Sent(p, <<Okay(j, m.arg0)>>)
  <2>1. \A n \in DOMAIN sent : sent[n].cmd = "OKAY"
    BY OneOkay
  <2>2. Passes(p, 1, sent)
    BY <1>9 DEF Ordinary
  <2> HIDE DEF sent
  <2>3. Polite(p, j, sent)
    BY <1>1, <1>4, <1>9, <2>1 DEF Polite, OneSocket
  <2>4. ASSUME NEW r \in Peers, NEW i \in Ids, NEW k \in Streams, r # p, k = s.stream,
               socket[r][i].state = "open", socket[r][i].stream = k
        PROVE  Token(r, i, k)' \/ Gone(r, i, k)'
    <3>1. m.arg0 = i /\ Other(r) = p
      BY <1>6, <2>4, TwoPeers, Types
    <3>2. CASE broken[p]
      BY <2>2, <2>4, <3>2, BrokenIsGone
    <3>3. CASE ~broken[p]
      BY <2>2, <3>1, <3>3, OkayIsToken DEF sent
    <3> QED
      BY <3>2, <3>3
  <2>5. \A k \in Streams : Served(p, j, k) => Token(p, j, k)' \/ Gone(p, j, k)'
    BY <1>8, <1>9 DEF sent
  <2> QED
    BY <1>1, <1>3, <1>7, <1>9, <2>2, <2>3, <2>4, <2>5, GoingOnOwes
<1>10. CASE /\ t.state = "open" /\ t.stream = s.stream /\ t.reading = s.reading
            /\ t.pending = Append(s.pending, m.data) /\ Ordinary(p, 1, <<>>)
  <2>1. \A n \in DOMAIN <<>> : FALSE
    OBVIOUS
  <2>2. Passes(p, 1, <<>>)
    BY <1>10 DEF Ordinary
  <2>3. Polite(p, j, <<>>)
    BY <1>1, <1>4, <1>10, <2>1 DEF Polite, OneSocket
  <2>4. t.pending # <<>>
    <3>1. s.pending \in Seq(Data)
      BY <1>1, FlowTypes
    <3> QED
      BY <1>10, <3>1
  <2>5. ASSUME NEW r \in Peers, NEW i \in Ids, NEW k \in Streams, r # p, k = s.stream
        PROVE  Token(r, i, k)'
    <3>1. Other(r) = p
      BY <2>5, TwoPeers, Types
    <3> QED
      BY <1>1, <1>10, <2>4, <2>5, <3>1, PendingIsToken
  <2>6. \A k \in Streams : Served(p, j, k) => Token(p, j, k)' \/ Gone(p, j, k)'
    BY <1>8, <1>10
  <2> QED
    BY <1>1, <1>3, <1>7, <1>10, <2>2, <2>3, <2>5, <2>6, GoingOnOwes
<1>11. CASE t = Free /\ Ordinary(p, 1, Sent(p, CloseMessage(s)))
  <2> DEFINE sent == Sent(p, CloseMessage(s))
  <2>1. \A n \in DOMAIN sent : sent[n].cmd = "CLSE"
    BY CloseCommands
  <2>2. Passes(p, 1, sent)
    BY <1>11 DEF Ordinary
  <2>3. broken[p] \/ \E n \in DOMAIN sent : sent[n].cmd = "CLSE" /\ sent[n].arg1 = s.peer
    BY <1>5, CloseIsSent
  <2>4. p = Host => ~Asked(Host, s.stream)
    BY <1>1, <1>5, HeardOfPeers
  <2> HIDE DEF sent
  <2>5. t.state # "open"
    BY <1>11, FreeWhole
  <2>6. Polite(p, j, sent)
    BY <1>1, <1>4, <2>1, <2>4, <2>5 DEF Polite, OneSocket
  <2> QED
    BY <1>1, <1>5, <1>7, <2>2, <2>3, <2>5, <2>6, ClosingOwes
<1> QED
  BY <1>2, <1>9, <1>10, <1>11

LEMMA CloseOwes ==
  ASSUME IInv, IInv', Sessions, Closes, Owing, NEW p \in Peers, HandleClose(p)
  PROVE  Owing'
<1>0. PICK j \in Ids : j = Received(p).arg1
  BY CloseIsOrdinary
<1> DEFINE s == socket[p][j]
           t == socket'[p][j]
           sent == Sent(p, CloseMessage(s))
<1>1. /\ s.state = "open" /\ s.stream \in Streams
      /\ t = Free \/ t.state = "closing"
      /\ \A r \in Peers, l \in Ids : r # p \/ l # j => socket'[r][l] = socket[r][l]
      /\ Ordinary(p, 1, sent)
  BY <1>0, CloseIsOrdinary
<1>2. 1 \in DOMAIN wire[Other(p)] /\ CloseTo(Other(p), 1, j)
  BY <1>0, ReceivedFacts DEF HandleClose, Handles, CloseTo
<1>3. EndsWithSocket
  BY PacketEnds DEF HandlePacket
<1>4. Passes(p, 1, sent)
  BY <1>1 DEF Ordinary
<1>5. \A n \in DOMAIN sent : sent[n].cmd = "CLSE"
  BY CloseCommands
<1> HIDE DEF sent
<1>6. t.state # "open"
  BY <1>1, FreeWhole
<1>7. ~Asked(Host, s.stream)
  BY <1>1, <1>2, ClosedIsHeard DEF Asked
<1>8. Polite(p, j, sent)
  BY <1>1, <1>3, <1>5, <1>6, <1>7 DEF Polite, OneSocket
<1>9. MeantFor(p, j, s.stream, 1)
  BY <1>2 DEF MeantFor, CloseTo
<1>10. ~OpenFor(Other(p), s.stream)
  BY <1>1, <1>2 DEF Closes, NothingLost
<1> QED
  BY <1>1, <1>4, <1>6, <1>8, <1>9, <1>10, ClosingOwes

(* A socket that was closed before does not matter to the other end.         *)
LEMMA LateOwes ==
  ASSUME IInv, Sessions, Owing, NEW p \in Peers, NEW sent, Passes(p, 0, sent),
         NEW j \in Ids, Polite(p, j, sent), socket[p][j].state = "closing"
  PROVE  Owing'
<1> SUFFICES ASSUME NEW r \in Peers, NEW i \in Ids, NEW k \in Streams,
                    socket'[r][i].state = "open", socket'[r][i].stream = k,
                    socket[r][i].state = "open", socket[r][i].stream = k, Served(r, i, k)
             PROVE  Served(r, i, k)'
  BY CompanyKeeps
<1>1. CASE k # socket[p][j].stream
  <2>1. OneSocket(p, j) /\ MeantFor(p, j, socket[p][j].stream, 0)
    BY DEF Polite, MeantFor
  <2> QED
    BY <1>1, <2>1, OthersServed
<1>2. CASE k = socket[p][j].stream
  <2>1. ASSUME NEW l \in Ids, socket[p][l].stream = k
        PROVE  socket[p][l].state # "open"
    <3>1. socket[p][l].state # "free"
      BY <1>2, <2>1, PeerTypes
    <3>2. l = j
      BY <1>2, <2>1, <3>1, Distinct
    <3> QED
      BY <3>2
  <2>2. r # p /\ Other(r) = p
    BY <2>1, TwoPeers, Types
  <2>3. ~OpenFor(Other(r), k) /\ ~HasPending(Other(r), k)
    BY <2>1, <2>2 DEF OpenFor, HasPending
  <2>4. socket[r][i].reading => Token(r, i, k)'
    <3>1. socket'[r][i] = socket[r][i]
      BY <2>2 DEF Polite, OneSocket
    <3> QED
      BY <3>1 DEF Token
  <2> QED
    BY <2>3, <2>4, ServedStays
<1> QED
  BY <1>1, <1>2

LEMMA WriteEventOwes ==
  ASSUME IInv, IInv', Sessions, Closes, Owing, NEW p \in Peers, NEW j \in Ids, WriteEvent(p, j)
  PROVE  Owing'
<1> DEFINE s == socket[p][j]
           t == socket'[p][j]
           Given(rest) == Sent(p, IF rest = <<>> /\ s.state = "open" THEN <<Okay(j, s.peer)>> ELSE <<>>)
           Drained(rest) ==
             /\ \/ t = Free /\ s.state = "closing"
                \/ t.state = s.state /\ t.stream = s.stream /\ t.reading = s.reading /\ t.pending = rest
             /\ Ordinary(p, 0, Given(rest))
<1>1. /\ s.state # "free" /\ s.stream \in Streams /\ s.pending # <<>>
      /\ \A r \in Peers, l \in Ids : r # p \/ l # j => socket'[r][l] = socket[r][l]
  BY WriteEventIsOrdinary
<1>2. \/ \E n \in 1 .. Len(s.pending) : Drained(SubSeq(s.pending, n + 1, Len(s.pending)))
      \/ /\ t = Free \/ t.state = "closing"
         /\ Ordinary(p, 0, Sent(p, CloseMessage(s)))
  BY WriteEventIsOrdinary
<1>3. EndsWithSocket
  BY EventEnds
<1>4. s.state = "open" => s.peer # 0
  BY <1>1, OpenSocketFacts
<1>5. MeantFor(p, j, s.stream, 0)
  BY DEF MeantFor
<1>6. s.state \in {"open", "closing"} /\ Free.state # "open"
  BY <1>1, FreeWhole DEF IInv, TypeOK, Sockets
<1>7. ASSUME NEW rest, Drained(rest)
      PROVE  Owing'
  <2> DEFINE sent == Given(rest)
  <2>1. \A n \in DOMAIN sent : sent[n].cmd = "OKAY"
    <3>1. \A n \in DOMAIN <<>> : FALSE
      OBVIOUS
    <3>2. sent = <<>> \/ sent = Sent(p, <<Okay(j, s.peer)>>)
      BY DEF Sent
    <3> QED
      BY <3>1, <3>2, OneOkay
  <2>2. Passes(p, 0, sent)
    BY <1>7 DEF Ordinary
  <2>0. rest = <<>> /\ s.state = "open" => sent = Sent(p, <<Okay(j, s.peer)>>)
    OBVIOUS
  <2> HIDE DEF Given, sent
  <2>3. Polite(p, j, sent)
    BY <1>1, <1>3, <1>6, <1>7, <2>1 DEF Polite, OneSocket
  <2>4. CASE s.state = "closing"
    BY <2>2, <2>3, <2>4, LateOwes
  <2>5. CASE s.state = "open"
    <3>1. t.state = "open" /\ t.stream = s.stream /\ t.reading = s.reading /\ t.pending = rest
      BY <1>7, <2>5
    <3>2. ASSUME NEW r \in Peers, NEW i \in Ids, NEW k \in Streams, r # p, k = s.stream,
                 socket[r][i].state = "open", socket[r][i].stream = k
          PROVE  Token(r, i, k)' \/ Gone(r, i, k)'
      <4>1. Other(r) = p /\ Other(p) = r
        BY <3>2, TwoPeers, Types
      <4>2. CASE rest # <<>>
        BY <3>1, <3>2, <4>1, <4>2, PendingIsToken
      <4>3. CASE broken[p]
        BY <2>2, <3>2, <4>3, BrokenIsGone
      <4>4. CASE rest = <<>> /\ ~broken[p]
        <5>1. s.peer = i
          BY <1>4, <2>5, <3>2, <4>1, PeerIsIt DEF Closes
        <5>2. Passes(p, 0, Sent(p, <<Okay(j, i)>>))
          BY <2>0, <2>2, <2>5, <4>4, <5>1
        <5> QED
          BY <4>1, <4>4, <5>2, OkayIsToken
      <4> QED
        BY <4>2, <4>3, <4>4
    <3>3. ASSUME NEW k \in Streams, Served(p, j, k)
          PROVE  Token(p, j, k)' \/ Gone(p, j, k)'
      <4>1. \A l \in Ids : socket'[Other(p)][l] = socket[Other(p)][l]
        BY <1>1, TwoPeers, Types
      <4> QED
        BY <2>2, <3>1, <3>3, <4>1, OwnStays
    <3> QED
      BY <1>1, <1>5, <2>2, <2>3, <2>5, <3>1, <3>2, <3>3, GoingOnOwes
  <2> QED
    BY <1>6, <2>4, <2>5
<1>8. CASE /\ t = Free \/ t.state = "closing"
           /\ Ordinary(p, 0, Sent(p, CloseMessage(s)))
  <2> DEFINE sent == Sent(p, CloseMessage(s))
  <2>1. \A n \in DOMAIN sent : sent[n].cmd = "CLSE"
    BY CloseCommands
  <2>2. Passes(p, 0, sent)
    BY <1>8 DEF Ordinary
  <2>3. s.state = "open" =>
          broken[p] \/ \E n \in DOMAIN sent : sent[n].cmd = "CLSE" /\ sent[n].arg1 = s.peer
    BY <1>4, CloseIsSent
  <2>4. p = Host /\ s.state = "open" => ~Asked(Host, s.stream)
    BY <1>1, <1>4, HeardOfPeers
  <2> HIDE DEF sent
  <2>5. t.state # "open"
    BY <1>6, <1>8
  <2>6. Polite(p, j, sent)
    BY <1>1, <1>3, <2>1, <2>4, <2>5 DEF Polite, OneSocket
  <2>7. CASE s.state = "closing"
    BY <2>2, <2>6, <2>7, LateOwes
  <2>8. CASE s.state = "open"
    BY <1>1, <1>4, <1>5, <2>2, <2>3, <2>5, <2>6, <2>8, ClosingOwes
  <2> QED
    BY <1>6, <2>7, <2>8
<1> QED
  BY <1>2, <1>7, <1>8

LEMMA ReadCloseIsSent ==
  ASSUME NEW p \in Peers, ~broken[p], NEW s, s.peer # 0, NEW write
  PROVE  \E n \in DOMAIN Sent(p, <<write>> \o CloseMessage(s)) :
           LET m == Sent(p, <<write>> \o CloseMessage(s))[n] IN m.cmd = "CLSE" /\ m.arg1 = s.peer
<1> DEFINE c == Packet("CLSE", 0, s.peer)
<1>1. c.cmd = "CLSE" /\ c.arg1 = s.peer
  BY DEF Packet
<1> HIDE DEF c
<1>2. Sent(p, <<write>> \o CloseMessage(s)) = <<write>> \o <<c>>
  BY DEF Sent, CloseMessage, c
<1>3. 2 \in DOMAIN (<<write>> \o <<c>>) /\ (<<write>> \o <<c>>)[2] = c
  <2>1. /\ <<write>> \in Seq({write, c}) /\ <<c>> \in Seq({write, c})
        /\ Len(<<write>>) = 1 /\ Len(<<c>>) = 1 /\ <<c>>[1] = c
    OBVIOUS
  <2>2. 2 \in 1 .. Len(<<write>>) + Len(<<c>>) /\ ~(2 <= Len(<<write>>)) /\ 2 - Len(<<write>>) = 1
    BY <2>1
  <2> QED
    BY <2>1, <2>2, ConcatProperties
<1> QED
  BY <1>1, <1>2, <1>3

LEMMA ReadEventOwes ==
  ASSUME IInv, IInv', Sessions, Closes, Owing, NEW p \in Peers, NEW j \in Ids, ReadEvent(p, j)
  PROVE  Owing'
<1> DEFINE s == socket[p][j]
           t == socket'[p][j]
           one == Sent(p, <<WritePacket(p, j)>>)
           two == Sent(p, <<WritePacket(p, j)>> \o CloseMessage(s))
           bye == Sent(p, CloseMessage(s))
<1>0. /\ s.state = "open" /\ s.stream \in Streams
      /\ \A r \in Peers, l \in Ids : r # p \/ l # j => socket'[r][l] = socket[r][l]
      /\ \/ t.state = "open" /\ t.stream = s.stream /\ t.pending = s.pending /\ Ordinary(p, 0, one)
         \/ (t = Free \/ t.state = "closing") /\ Ordinary(p, 0, two)
         \/ (t = Free \/ t.state = "closing") /\ Ordinary(p, 0, bye)
  BY ReadEventIsOrdinary
<1>1. /\ s.state = "open" /\ s.stream \in Streams /\ s.peer # 0
      /\ \A r \in Peers, l \in Ids : r # p \/ l # j => socket'[r][l] = socket[r][l]
  BY <1>0, OpenSocketFacts DEF ReadEvent
<1>2. \/ t.state = "open" /\ t.stream = s.stream /\ t.pending = s.pending /\ Ordinary(p, 0, one)
      \/ (t = Free \/ t.state = "closing") /\ Ordinary(p, 0, two)
      \/ (t = Free \/ t.state = "closing") /\ Ordinary(p, 0, bye)
  BY <1>0
<1>3. EndsWithSocket
  BY EventEnds
<1>4. MeantFor(p, j, s.stream, 0)
  BY DEF MeantFor
<1>5. p = Host => ~Asked(Host, s.stream)
  BY <1>1, HeardOfPeers
<1>6. /\ WritePacket(p, j).cmd = "WRTE" /\ WritePacket(p, j).data[2] = s.stream
      /\ WritePacket(p, j).arg0 = j
      /\ p = Device => Receives(j, s.stream)
  BY <1>1, ReadIsSent, OwnReceives DEF WritePacket, Packet
<1>7. ASSUME NEW m, m = WritePacket(p, j) \/ m.cmd = "CLSE"
      PROVE  /\ m.cmd # "OPEN"
             /\ p = Device /\ m.cmd = "WRTE" => Receives(m.arg0, m.data[2])
  BY <1>6, <1>7
<1>8. CASE t.state = "open" /\ t.stream = s.stream /\ t.pending = s.pending /\ Ordinary(p, 0, one)
  <2>1. /\ \A n \in DOMAIN one : one[n] = WritePacket(p, j)
        /\ ~broken[p] => 1 \in DOMAIN one /\ one[1] = WritePacket(p, j)
    BY <1>1, ReadIsSent
  <2>2. Passes(p, 0, one)
    BY <1>8 DEF Ordinary
  <2> HIDE DEF one
  <2>3. Polite(p, j, one)
    BY <1>1, <1>3, <1>7, <1>8, <2>1 DEF Polite, OneSocket
  <2>4. ASSUME NEW k \in Streams, k = s.stream
        PROVE  Token(p, j, k)' \/ Gone(p, j, k)'
    <3>1. CASE broken[p]
      BY <1>1, <2>2, <2>4, <3>1, BrokenIsGone
    <3>2. CASE ~broken[p]
      <4>1. Writes(p, k)' # {}
        BY <1>6, <2>1, <2>4, <2>2, <3>2, WriteIsSent
      <4> QED
        BY <4>1 DEF Token
    <3> QED
      BY <3>1, <3>2
  <2>5. ASSUME NEW r \in Peers, NEW i \in Ids, NEW k \in Streams, r # p, HasPending(p, k)
        PROVE  Token(r, i, k)'
    <3>1. Other(r) = p
      BY <2>5, TwoPeers, Types
    <3>2. PICK l \in Ids : /\ socket[p][l].state = "open" /\ socket[p][l].stream = k
                           /\ socket[p][l].pending # <<>>
      BY <2>5 DEF HasPending
    <3>3. socket'[p][l].state = "open" /\ socket'[p][l].stream = k /\ socket'[p][l].pending # <<>>
      BY <1>1, <1>8, <3>2
    <3> QED
      BY <3>1, <3>3, PendingIsToken
  <2> QED
    BY <1>1, <1>4, <1>8, <2>2, <2>3, <2>4, <2>5, GoingOnOwes
<1>9. ASSUME t = Free \/ t.state = "closing", NEW sent, Ordinary(p, 0, sent),
             \A n \in DOMAIN sent : sent[n] = WritePacket(p, j) \/ sent[n].cmd = "CLSE",
             broken[p] \/ \E n \in DOMAIN sent : sent[n].cmd = "CLSE" /\ sent[n].arg1 = s.peer
      PROVE  Owing'
  <2>1. Passes(p, 0, sent)
    BY <1>9 DEF Ordinary
  <2>2. t.state # "open"
    BY <1>9, FreeWhole
  <2>3. Polite(p, j, sent)
    BY <1>1, <1>3, <1>5, <1>7, <1>9, <2>2 DEF Polite, OneSocket
  <2> QED
    BY <1>1, <1>4, <1>9, <2>1, <2>2, <2>3, ClosingOwes
<1>10. CASE (t = Free \/ t.state = "closing") /\ Ordinary(p, 0, two)
  <2>1. \A n \in DOMAIN two : two[n] = WritePacket(p, j) \/ two[n].cmd = "CLSE"
    BY <1>1, ReadIsSent
  <2>2. broken[p] \/ \E n \in DOMAIN two : two[n].cmd = "CLSE" /\ two[n].arg1 = s.peer
    BY <1>1, ReadCloseIsSent
  <2> QED
    BY <1>9, <1>10, <2>1, <2>2
<1>11. CASE (t = Free \/ t.state = "closing") /\ Ordinary(p, 0, bye)
  <2>1. \A n \in DOMAIN bye : bye[n].cmd = "CLSE"
    BY CloseCommands
  <2>2. broken[p] \/ \E n \in DOMAIN bye : bye[n].cmd = "CLSE" /\ bye[n].arg1 = s.peer
    BY <1>1, CloseIsSent
  <2> QED
    BY <1>9, <1>11, <2>1, <2>2
<1> QED
  BY <1>2, <1>8, <1>10, <1>11

LEMMA IgnoreOwes ==
  ASSUME IInv, IInv', Sessions, Closes, Owing, NEW p \in Peers, Ignore(p)
  PROVE  Owing'
<1> DEFINE m == wire[Other(p)][1]
<1>1. PICK j : j \in Ids
  <2>1. 1 \in Ids
    BY AdbStreamAssumption DEF Ids
  <2> QED
    BY <2>1
<1>2. Passes(p, 1, <<>>) /\ UNCHANGED socket
  BY IgnoreIsOrdinary DEF Ordinary
<1>3. \A n \in DOMAIN <<>> : FALSE
  OBVIOUS
<1>4. EndsWithSocket
  BY PacketEnds DEF HandlePacket
<1>5. Polite(p, j, <<>>)
  BY <1>2, <1>3, <1>4 DEF Polite, OneSocket
<1>6. /\ \/ m.cmd = "OPEN" /\ ~online[p]
         \/ m.cmd \in {"OKAY", "WRTE", "CLSE"} /\ ~Finds(p)
      /\ m = Received(p) /\ 1 \in DOMAIN wire[Other(p)]
  BY ReceivedFacts DEF Ignore, Handles
<1>7. SUFFICES ASSUME NEW r \in Peers, NEW i \in Ids, NEW k \in Streams,
                      socket[r][i].state = "open", socket[r][i].stream = k, Served(r, i, k)
               PROVE  Served(r, i, k)'
  BY <1>1, <1>2, <1>5, CompanyKeeps
<1>8. online[r]
  BY <1>7, OpenSocketFacts
<1>9. p = r /\ m.arg1 = i => m.cmd # "CLSE" /\ m.cmd # "OKAY"
  BY <1>6, <1>7, <1>8 DEF Finds
<1>10. p # r /\ m.data[2] = k /\ m.cmd = "WRTE" => ~OpenFor(p, k)
  BY <1>6, IgnoredWrites DEF Closes, Writes
<1>11. ASSUME p # r, m.cmd = "OPEN"
       PROVE  Served(r, i, k)'
  <2>1. p = Device /\ r = Host
    <3>1. p # Host
      BY <1>6, <1>11, Types DEF Sessions, PacketsBelong, DevicePacket
    <3> QED
      BY <1>11, <3>1, TwoPeers
  <2>2. broken[Host]
    BY <1>6, <1>8, <1>11, <2>1 DEF Owing, Tied
  <2>3. Cut(Host)'
    BY <1>2, <2>2 DEF Passes, Cut
  <2> QED
    BY <2>1, <2>3 DEF Served, Gone
<1>12. socket[r][i].reading => Token(r, i, k)'
  BY <1>2 DEF Token
<1>13. /\ OpenFor(Other(r), k) => OpenFor(Other(r), k)'
       /\ HasPending(Other(r), k) => Token(r, i, k)'
  BY <1>2 DEF OpenFor, HasPending, Token
<1> QED
  BY <1>2, <1>7, <1>9, <1>10, <1>11, <1>12, <1>13, ServedStays

(* An OPEN names the socket of its stream.                                   *)
LEMMA OpenNames ==
  ASSUME IInv, Sessions, NEW n \in DOMAIN wire[Host], wire[Host][n].cmd = "OPEN", NEW i \in Ids,
         socket[Host][i].state = "open", socket[Host][i].stream = wire[Host][n].data[2]
  PROVE  wire[Host][n].arg0 = i
<1> DEFINE m == wire[Host][n]
<1>1. online[Host]
  BY OpenSocketFacts, Types
<1>2. StreamOf(m.arg0) = StreamOf(i)
  BY <1>1 DEF Sessions, HostIds, PacketsBelong, HostPacket, OpenPacket
<1>3. m.arg0 \in Nat /\ i \in Nat /\ opened \in Nat /\ local_socket_next_id[Host] \in Nat
  <2>1. m \in Packets
    BY Types
  <2>2. m.arg0 \in 0 .. MaxOpens
    BY <2>1 DEF Packets
  <2> QED
    BY <2>2, Types, PeerTypes
<1> HIDE DEF m
<1>4. m.arg0 = i
  BY <1>2, <1>3 DEF StreamOf
<1> QED
  BY <1>4 DEF m

LEMMA RejectOwes ==
  ASSUME IInv, IInv', Sessions, Closes, Owing, Handles(Device, "OPEN"), online[Device],
         Replies(Device, <<Packet("CLSE", 0, Received(Device).arg0)>>),
         UNCHANGED <<socket, endVars, countVars, historyVars>>
  PROVE  Owing'
<1> DEFINE m == wire[Host][1]
           c == Packet("CLSE", 0, m.arg0)
           sent == Sent(Device, <<c>>)
<1>1. PICK j : j \in Ids
  <2>1. 1 \in Ids
    BY AdbStreamAssumption DEF Ids
  <2> QED
    BY <2>1
<1>2. m = Received(Device) /\ 1 \in DOMAIN wire[Host] /\ m.cmd = "OPEN"
  BY ReceivedFacts, Types DEF Handles
<1>3. Passes(Device, 1, sent) /\ UNCHANGED <<socket, ended, opened>>
  <2>1. UNCHANGED <<socket, ended, opened, endVars>>
    BY DEF countVars, historyVars
  <2> QED
    BY <1>2, <2>1, RejectIsOrdinary DEF Ordinary
<1>4. /\ ~broken[Device] => 1 \in DOMAIN sent /\ sent[1] = c
      /\ \A n \in DOMAIN sent : sent[n] = c
      /\ c.cmd = "CLSE" /\ c.arg1 = m.arg0
  <2>1. c.cmd = "CLSE" /\ c.arg1 = m.arg0
    BY DEF Packet
  <2> HIDE DEF c
  <2>2. 1 \in DOMAIN <<c>> /\ <<c>>[1] = c /\ \A n \in DOMAIN <<c>> : <<c>>[n] = c
    OBVIOUS
  <2>3. \A n \in DOMAIN <<>> : FALSE
    OBVIOUS
  <2> QED
    BY <2>1, <2>2, <2>3 DEF Sent
<1>5. EndsWithSocket
  BY <1>3 DEF EndsWithSocket
<1> HIDE DEF sent, c
<1>6. Polite(Device, j, sent)
  BY <1>3, <1>4, <1>5, Types DEF Polite, OneSocket
<1>7. Device \in Peers /\ Host \in Peers /\ Other(Device) = Host /\ Other(Host) = Device
  BY Types
<1>8. SUFFICES ASSUME NEW r \in Peers, NEW i \in Ids, NEW k \in Streams,
                      socket[r][i].state = "open", socket[r][i].stream = k, Served(r, i, k)
               PROVE  Served(r, i, k)'
  BY <1>1, <1>3, <1>6, <1>7, CompanyKeeps
<1>9. ASSUME r = Host, m.data[2] = k
      PROVE  Served(r, i, k)'
  <2>1. CASE broken[Device]
    <3>1. Gone(r, i, k)'
      BY <1>3, <1>7, <1>8, <2>1, BrokenIsGone
    <3> QED
      BY <3>1 DEF Served
  <2>2. CASE ~broken[Device]
    <3>1. m.arg0 = i
      BY <1>2, <1>8, <1>9, OpenNames
    <3>2. \E l \in DOMAIN wire'[Device] : wire'[Device][l] = c
      BY <1>3, <1>4, <2>2, MovedFacts DEF Passes
    <3>3. Closing(Device, i)'
      BY <1>4, <3>1, <3>2 DEF Closing, CloseTo
    <3> QED
      BY <1>7, <1>9, <3>3 DEF Served, Gone
  <2> QED
    BY <2>1, <2>2
<1>10. socket[r][i].reading => Token(r, i, k)'
  BY <1>3 DEF Token
<1>11. /\ OpenFor(Other(r), k) => OpenFor(Other(r), k)'
       /\ HasPending(Other(r), k) => Token(r, i, k)'
  BY <1>3 DEF OpenFor, HasPending, Token
<1>12. Device # r => r = Host
  BY TwoPeers
<1> QED
  BY <1>2, <1>3, <1>7, <1>8, <1>9, <1>10, <1>11, <1>12, ServedStays

LEMMA AcceptOwes ==
  ASSUME IInv, IInv', Sessions, Flow, Owing, Accepts
  PROVE  Owing'
<1> DEFINE m == wire[Host][1]
           sent == Sent(Device, <<Okay(local_socket_next_id[Device], m.arg0)>>)
<1>0. PICK j \in Ids : j = local_socket_next_id[Device]
  BY AcceptFacts
<1>1. Device \in Peers /\ Host \in Peers /\ Other(Device) = Host /\ Other(Host) = Device /\ Device # Host
  BY Types
<1>2. /\ m = Received(Device) /\ 1 \in DOMAIN wire[Host] /\ m.cmd = "OPEN" /\ OpenPacket(m)
      /\ socket'[Device][j].state = "open" /\ socket'[Device][j].stream = m.data[2]
      /\ \A r \in Peers, l \in Ids : r # Device \/ l # j => socket'[r][l] = socket[r][l]
      /\ UNCHANGED <<ended, opened>>
      /\ Passes(Device, 1, sent)
  BY <1>0, AcceptFacts
<1>3. socket'[Device][j].reading
  BY <1>0, AcceptFacts
<1>4. socket[Device][j].state = "free"
  <2>1. j \in Nat
    BY <1>0, Types
  <2> QED
    BY <1>0, <2>1 DEF Sessions, DeviceIds
<1>5. /\ ~broken[Device] => sent = Sent(Device, <<Okay(j, m.arg0)>>)
      /\ \A n \in DOMAIN sent : sent[n].cmd = "OKAY"
  BY <1>0, OneOkay
<1> HIDE DEF sent
<1>6. EarlyStreams' /\ \A r \in Peers, k \in Streams : Early(r, k) <=> Early(r, k)'
  <2>1. EndsWithSocket
    BY <1>1, <1>2 DEF EndsWithSocket
  <2> QED
    BY <2>1, EarlyStays DEF Owing
<1>7. Tied'
  BY <1>1, <1>2, TiedStays DEF Owing
<1>8. \A x \in Peers, k \in Streams :
        (OpenFor(x, k) => OpenFor(x, k)') /\ (HasPending(x, k) => HasPending(x, k)')
  <2>1. \A x \in Peers, l \in Ids : socket[x][l].state = "open" => socket'[x][l] = socket[x][l]
    BY <1>2, <1>4
  <2> QED
    BY <2>1 DEF OpenFor, HasPending
<1>9. Asking'
  BY <1>1, <1>2, <1>5, <1>6, <1>8, AskingStays DEF Owing
<1>10. Senders'
  <2> SUFFICES ASSUME NEW n \in DOMAIN wire'[Device], wire'[Device][n].cmd = "WRTE",
                      NEW a, NEW k, a = wire'[Device][n].arg0, k = wire'[Device][n].data[2]
               PROVE  Receives(a, k)'
    BY DEF Senders, Receives
  <2>1. n \in DOMAIN wire[Device] /\ wire'[Device][n] = wire[Device][n]
    <3>1. n \in DOMAIN wire[Device] \/ \E l \in DOMAIN sent : wire'[Device][n] = sent[l]
      BY <1>1, <1>2, PassesWires
    <3>2. n \in DOMAIN wire[Device]
      BY <1>5, <3>1
    <3> QED
      BY <1>1, <1>2, <3>2, PassesWires
  <2>2. Receives(a, k)
    BY <2>1 DEF Owing, Senders
  <2>3. k # m.data[2]
    <3>1. Writes(Device, m.data[2]) = {}
      BY <1>1, <1>2, EmptyStream
    <3> QED
      BY <2>1, <3>1 DEF Writes
  <2> QED
    BY <1>1, <1>2, <2>1, <2>2, <2>3 DEF Receives
<1>11. ASSUME NEW r \in Peers, NEW i \in Ids, NEW k \in Streams,
              socket'[r][i].state = "open", socket'[r][i].stream = k, ~Early(Other(r), k)
       PROVE  Served(r, i, k)'
  <2>1. CASE r = Device /\ i = j
    <3>1. k = m.data[2]
      BY <1>2, <1>11, <2>1
    <3>2. Asked(Host, k)
      BY <1>2, <3>1 DEF Asked
    <3>3. OpenFor(Host, k) \/ Cut(Device)
      BY <1>1, <1>11, <2>1, <3>2 DEF Owing, Asking
    <3>4. Cut(Device) => Cut(Device)'
      BY <1>1, <1>2, CutStays
    <3>5. OpenFor(Host, k)' \/ Cut(Device)'
      BY <1>1, <1>8, <3>3, <3>4
    <3>6. Token(r, i, k)'
      BY <1>3, <2>1 DEF Token
    <3> QED
      BY <1>1, <2>1, <3>5, <3>6 DEF Served, Gone
  <2>2. CASE ~(r = Device /\ i = j)
    <3>1. socket'[r][i] = socket[r][i]
      BY <1>2, <2>2
    <3>2. Served(r, i, k)
      BY <1>11, <3>1 DEF Owing, Company
    <3>3. ASSUME r # Device, m.data[2] = k
          PROVE  Served(r, i, k)'
      <4>1. r = Host
        BY <3>3, TwoPeers
      <4>2. m.arg0 = i
        BY <1>2, <1>11, <3>1, <3>3, <4>1, OpenNames
      <4>3. CASE broken[Device]
        BY <1>1, <1>2, <1>11, <3>1, <4>3, BrokenIsGone DEF Served
      <4>4. CASE ~broken[Device]
        <5>1. Passes(Device, 1, Sent(Device, <<Okay(j, i)>>))
          BY <1>2, <1>5, <4>2, <4>4
        <5>2. Token(r, i, k)'
          BY <1>1, <4>1, <4>4, <5>1, OkayIsToken
        <5>3. OpenFor(Device, k)'
          BY <1>2, <3>3 DEF OpenFor
        <5> QED
          BY <1>1, <4>1, <5>2, <5>3 DEF Served
      <4> QED
        BY <4>3, <4>4
    <3>4. /\ OpenFor(Other(r), k) => OpenFor(Other(r), k)'
          /\ HasPending(Other(r), k) => Token(r, i, k)'
          /\ socket[r][i].reading => Token(r, i, k)'
      <4>1. Other(r) \in Peers
        BY TwoPeers, Types
      <4> QED
        BY <1>8, <3>1, <4>1 DEF Token
    <3> QED
      BY <1>1, <1>2, <3>2, <3>3, <3>4, ServedStays
  <2> QED
    BY <2>1, <2>2
<1>12. \A r \in Peers, i \in Ids, k \in Streams : Company(r, i, k)'
  <2>1. \A r \in Peers : Other(r) \in Peers
    BY TwoPeers, Types
  <2> QED
    BY <1>6, <1>11, <2>1 DEF Company
<1> QED
  BY <1>6, <1>7, <1>9, <1>10, <1>12 DEF Owing

LEMMA OpenOwes ==
  ASSUME IInv, IInv', Sessions, Owing, Open
  PROVE  Owing'
<1> DEFINE sent == Sent(Host, <<OpenOf(local_socket_next_id[Host], opened + 1)>>)
<1>0. PICK j \in Ids, new \in Streams : j = local_socket_next_id[Host] /\ new = opened + 1
  BY OpenFacts
<1>1. Device \in Peers /\ Host \in Peers /\ Other(Device) = Host /\ Other(Host) = Device /\ Device # Host
  BY Types
<1>2. /\ opened' = new /\ opened < new /\ opened \in Nat
      /\ \A l \in Ids : socket'[Device][l] = socket[Device][l]
      /\ \A l \in Ids : l # j => socket'[Host][l] = socket[Host][l]
      /\ socket[Host][j].state = "free"
      /\ Passes(Host, 0, sent)
  BY <1>0, OpenFacts, Types
<1>3. \/ socket'[Host][j] = NewSocket(0, new) /\ UNCHANGED ended
      \/ socket'[Host][j] = socket[Host][j] /\ Ends(Host, new, "early")
  <2>1. IInv /\ socket \in [Peers -> [Ids -> Sockets]]
    BY InvParts DEF TypeOK
  <2> QED
    BY <1>0, <1>1, <2>1 DEF Open
<1>4. /\ ~broken[Host] => 1 \in DOMAIN sent /\ sent[1] = OpenOf(j, new)
      /\ \A n \in DOMAIN sent : sent[n] = OpenOf(j, new)
      /\ OpenOf(j, new).cmd = "OPEN" /\ OpenOf(j, new).data[2] = new
  <2>1. OpenOf(j, new).cmd = "OPEN" /\ OpenOf(j, new).data[2] = new
    BY <1>0, OpenFacts
  <2>2. /\ 1 \in DOMAIN <<OpenOf(j, new)>> /\ <<OpenOf(j, new)>>[1] = OpenOf(j, new)
        /\ \A n \in DOMAIN <<OpenOf(j, new)>> : <<OpenOf(j, new)>>[n] = OpenOf(j, new)
    OBVIOUS
  <2>3. \A n \in DOMAIN <<>> : FALSE
    OBVIOUS
  <2> QED
    BY <1>0, <2>1, <2>2, <2>3 DEF Sent
<1> HIDE DEF sent
<1>5. \A x \in Peers, k \in Streams :
        Early(x, k)' <=> Early(x, k) \/ (x = Host /\ k = new /\ socket'[Host][j] = socket[Host][j])
  <2>1. socket'[Host][j] = NewSocket(0, new) => socket'[Host][j] # socket[Host][j]
    <3>1. NewSocket(0, new).state = "open"
      BY DEF NewSocket, Free
    <3> QED
      BY <1>2, <3>1
  <2>2. CASE UNCHANGED ended /\ socket'[Host][j] = NewSocket(0, new)
    BY <2>1, <2>2 DEF Early
  <2>3. CASE socket'[Host][j] = socket[Host][j] /\ Ends(Host, new, "early")
    <3>1. \A x \in Peers, k \in Streams :
            ended'[x][k] = IF x = Host /\ k = new THEN "early" ELSE ended[x][k]
      BY <1>1, <2>3, EndsFacts
    <3> QED
      BY <2>3, <3>1 DEF Early
  <2> QED
    BY <1>3, <2>2, <2>3
<1>6. \A x \in Peers, l \in Ids : socket[x][l].state # "free" => socket[x][l].stream < new
  <2>1. ASSUME NEW l \in Ids, socket[Device][l].state # "free"
        PROVE  socket[Device][l].stream < new
    <3>1. socket[Device][l].stream <= opened /\ socket[Device][l].stream \in Nat
      BY <1>1, <2>1, PeerTypes, Types DEF Sessions, DeviceIds
    <3> QED
      BY <1>0, <1>2, <3>1
  <2>2. ASSUME NEW l \in Ids, socket[Host][l].state # "free"
        PROVE  socket[Host][l].stream < new
    <3>1. l < j /\ socket[Host][l].stream = l + opened + 1 - j
      BY <1>0, <2>2 DEF Sessions, HostIds, StreamOf
    <3>2. l \in Nat /\ j \in Nat
      BY PeerTypes
    <3> QED
      BY <1>0, <1>2, <3>1, <3>2
  <2> QED
    BY <2>1, <2>2, TwoPeers
<1>7. \A x \in Peers, l \in Ids : socket[x][l].state # "free" => socket'[x][l] = socket[x][l]
  BY <1>2, TwoPeers
<1>8. /\ socket'[Host][j] # socket[Host][j] =>
           /\ socket'[Host][j].state = "open" /\ socket'[Host][j].stream = new
      /\ \A x \in Peers, l \in Ids : x # Host \/ l # j => socket'[x][l] = socket[x][l]
  BY <1>2, <1>3, TwoPeers DEF NewSocket, Free
<1>9. EarlyStreams'
  <2> SUFFICES ASSUME NEW k \in Streams
               PROVE  /\ ~Early(Device, k)'
                      /\ Early(Host, k)' => k <= opened' /\ \A i \in Ids : socket'[Host][i].stream # k
    BY DEF EarlyStreams
  <2>1. ~Early(Device, k)'
    BY <1>1, <1>5 DEF Owing, EarlyStreams
  <2>2. k \in Nat /\ k # 0
    BY DEF Streams
  <2>3. CASE Early(Host, k)
    <3>1. k <= opened /\ \A i \in Ids : socket[Host][i].stream # k
      BY <2>3 DEF Owing, EarlyStreams
    <3>2. k < new /\ k <= opened'
      BY <1>0, <1>2, <2>2, <3>1
    <3>3. \A i \in Ids : socket'[Host][i].stream # k
      BY <1>1, <1>8, <2>2, <3>1, <3>2
    <3> QED
      BY <2>1, <3>2, <3>3
  <2>4. CASE k = new /\ socket'[Host][j] = socket[Host][j]
    <3>1. \A i \in Ids : socket'[Host][i] = socket[Host][i]
      BY <1>1, <1>8, <2>4
    <3>2. \A i \in Ids : socket[Host][i].stream # k
      BY <1>1, <1>6, <2>2, <2>4, PeerTypes
    <3> QED
      BY <1>2, <2>1, <2>2, <2>4, <3>1, <3>2
  <2> QED
    BY <1>1, <1>5, <2>1, <2>3, <2>4
<1>10. Tied'
  BY <1>1, <1>2, TiedStays DEF Owing
<1>11. Senders'
  BY <1>1, <1>2, SendersStay DEF Owing
<1>12. \A x \in Peers, k \in Streams :
         (OpenFor(x, k) => OpenFor(x, k)') /\ (HasPending(x, k) => HasPending(x, k)')
  <2>1. \A x \in Peers, l \in Ids : socket[x][l].state = "open" => socket'[x][l] = socket[x][l]
    BY <1>7
  <2> QED
    BY <2>1 DEF OpenFor, HasPending
<1>13. \A r \in Peers : Cut(r) => Cut(r)'
  BY <1>1, <1>2, CutStays
<1>14. Asking'
  <2> SUFFICES ASSUME NEW k \in Streams, NEW n \in DOMAIN wire'[Host],
                      wire'[Host][n].cmd = "OPEN", wire'[Host][n].data[2] = k
               PROVE  Early(Host, k)' \/ OpenFor(Host, k)' \/ Cut(Device)'
    BY DEF Asking, Asked
  <2>1. CASE n \in DOMAIN wire[Host]
    <3>1. wire'[Host][n] = wire[Host][n]
      BY <1>1, <1>2, <2>1, PassesWires
    <3>2. Early(Host, k) \/ OpenFor(Host, k) \/ Cut(Device)
      BY <2>1, <3>1 DEF Owing, Asking, Asked
    <3> QED
      BY <1>1, <1>5, <1>12, <1>13, <3>2
  <2>2. CASE n \notin DOMAIN wire[Host]
    <3>1. k = new
      BY <1>1, <1>2, <1>4, <2>2, PassesWires
    <3> QED
      BY <1>1, <1>5, <1>8, <3>1 DEF OpenFor
  <2> QED
    BY <2>1, <2>2
<1>15. ASSUME NEW r \in Peers, NEW i \in Ids, NEW k \in Streams,
              socket'[r][i].state = "open", socket'[r][i].stream = k, ~Early(Other(r), k)'
       PROVE  Served(r, i, k)'
  <2>1. CASE socket'[r][i] # socket[r][i]
    <3>1. r = Host /\ k = new
      BY <1>8, <1>15, <2>1
    <3>2. CASE broken[Host]
      BY <1>2, <3>1, <3>2 DEF Passes, Served, Gone, Cut
    <3>3. CASE ~broken[Host]
      <4>1. \E l \in DOMAIN wire'[Host] : wire'[Host][l] = OpenOf(j, new)
        BY <1>2, <1>4, <3>3, MovedFacts DEF Passes
      <4> QED
        BY <1>4, <3>1, <4>1 DEF Served, Gone, Asked
    <3> QED
      BY <3>2, <3>3
  <2>2. CASE socket'[r][i] = socket[r][i]
    <3>1. Served(r, i, k)
      <4>1. ~Early(Other(r), k)
        BY <1>5, <1>15, TwoPeers, Types
      <4> QED
        BY <1>15, <2>2, <4>1 DEF Owing, Company
    <3>2. /\ OpenFor(Other(r), k) => OpenFor(Other(r), k)'
          /\ HasPending(Other(r), k) => Token(r, i, k)'
          /\ socket[r][i].reading => Token(r, i, k)'
      <4>1. Other(r) \in Peers
        BY TwoPeers, Types
      <4> QED
        BY <1>12, <2>2, <4>1 DEF Token
    <3> QED
      BY <1>1, <1>2, <3>1, <3>2, ServedStays
  <2> QED
    BY <2>1, <2>2
<1>16. \A r \in Peers, i \in Ids, k \in Streams : Company(r, i, k)'
  BY <1>15 DEF Company
<1> QED
  BY <1>9, <1>10, <1>11, <1>14, <1>16 DEF Owing

-------------------------------------------------------------------------------
(* The connection is lost or made anew: whoever still has a stream will hear *)
(* of that.                                                                  *)

Cutting ==
  /\ \A r \in Peers : NoneOpen(r)' \/ Cut(r)'
  /\ (\A n \in DOMAIN wire'[Host] : wire'[Host][n].cmd # "OPEN") \/ Cut(Device)'
  /\ Tied'

LEMMA NoneOpenStays ==
  ASSUME NEW r \in Peers, \A i \in Ids : Quieter(r, i), NoneOpen(r)
  PROVE  NoneOpen(r)'
BY QuieterFacts DEF NoneOpen

(* What a wire still has, if nothing new is sent.                            *)
LEMMA OnlyOld ==
  ASSUME NEW w, NEW v, NEW d, NEW c, Moved(w, v, d, c, <<>>)
  PROVE  \A n \in DOMAIN v : n \in Nat /\ n >= 1 /\ n + d \in DOMAIN w /\ v[n] = w[n + d]
<1>1. \A n \in DOMAIN <<>> : FALSE
  OBVIOUS
<1>2. \A n \in DOMAIN v : n \in Nat /\ n >= 1
  BY DEF Moved
<1>3. \A n \in DOMAIN v : \/ n <= c /\ n + d \in DOMAIN w /\ v[n] = w[n + d]
                          \/ n > c /\ n - c \in DOMAIN <<>> /\ v[n] = <<>>[n - c]
  BY MovedFacts
<1> QED
  BY <1>1, <1>2, <1>3

LEMMA NewIsThere ==
  ASSUME NEW w, NEW v, NEW d, NEW c, NEW m, Moved(w, v, d, c, <<m>>)
  PROVE  \E n \in DOMAIN v : v[n] = m
<1>1. 1 \in DOMAIN <<m>> /\ <<m>>[1] = m
  OBVIOUS
<1>2. \A n \in DOMAIN <<m>> : n + c \in DOMAIN v /\ v[n + c] = <<m>>[n]
  BY MovedFacts
<1> QED
  BY <1>1, <1>2

LEMMA DeviceConnectCuts ==
  ASSUME IInv, Sessions, HandleConnect(Device)
  PROVE  Cutting
<1> USE SyncFacts
<1>1. PICK more : Reconnects(1, Len(wire[Host]) - 1, <<>>, 0, Len(wire[Device]), more)
  BY DeviceConnects
<1>2. NoneOpen(Device)'
  BY DeviceConnects DEF Cuts
<1>3. /\ online' = [online EXCEPT ![Device] = TRUE] /\ broken' = broken
      /\ Replies(Device, <<Connection>>) /\ wire[Host] # <<>>
      /\ 1 \in DOMAIN wire[Host] /\ wire[Host][1].cmd = "CNXN"
  BY ReceivedFacts DEF HandleConnect, Handles
<1>4. Tied'
  <2>1. online \in [Peers -> BOOLEAN]
    BY InvParts DEF CountersOK
  <2> QED
    BY <1>3, <2>1 DEF Tied
<1>5. \A n \in DOMAIN wire'[Host] : wire'[Host][n].cmd # "OPEN"
  <2> SUFFICES ASSUME NEW n \in DOMAIN wire'[Host]
               PROVE  wire'[Host][n].cmd # "OPEN"
    OBVIOUS
  <2>1. n \in Nat /\ n >= 1 /\ n + 1 \in DOMAIN wire[Host] /\ wire'[Host][n] = wire[Host][n + 1]
    BY <1>1, OnlyOld DEF Reconnects
  <2>2. wire[Host][n + 1].cmd \in {"SYNC", "CNXN"}
    BY <1>3, <2>1 DEF Connecting
  <2> QED
    BY <2>1, <2>2
<1>6. NoneOpen(Host)' \/ Cut(Host)'
  <2>1. CASE broken[Host]
    BY <1>3, <2>1 DEF Cut
  <2>2. CASE ~broken[Host] /\ broken[Device]
    <3>1. NoneOpen(Host)
      BY <2>2 DEF Syncs, OfflineCloses
    <3> QED
      BY <1>1, <3>1, NoneOpenStays DEF Reconnects
  <2>3. CASE ~broken[Device]
    <3>1. Moved(wire[Device], wire'[Device], 0, Len(wire[Device]), <<Connection>>)
      BY <1>3, <2>3, RepliesMove, SmallPackets DEF Sent
    <3>2. \E n \in DOMAIN wire'[Device] : wire'[Device][n] = Connection
      BY <3>1, NewIsThere
    <3>3. Connection.cmd = "CNXN"
      BY PacketTypes
    <3> QED
      BY <3>2, <3>3 DEF Cut, Renewed
  <2> QED
    BY <2>1, <2>2, <2>3
<1> QED
  BY <1>2, <1>4, <1>5, <1>6 DEF Cutting

LEMMA HostConnectCuts ==
  ASSUME IInv, Sessions, Tied, HandleConnect(Host)
  PROVE  Cutting
<1> USE SyncFacts
<1>1. Reconnects(0, Len(wire[Host]), <<>>, 1, Len(wire[Device]) - 1, <<>>)
  BY HostConnects
<1>2. /\ online' = [online EXCEPT ![Host] = TRUE] /\ broken' = broken
      /\ 1 \in DOMAIN wire[Device] /\ wire[Device][1].cmd = "CNXN"
  BY ReceivedFacts DEF HandleConnect, Handles
<1>3. /\ NoneOpen(Device) /\ ~online[Host]
      /\ \A n \in DOMAIN wire[Host] : wire[Host][n].cmd = "SYNC"
  BY <1>2 DEF Connecting
<1>4. NoneOpen(Host)
  BY <1>3 DEF OfflineCloses
<1>5. NoneOpen(Host)' /\ NoneOpen(Device)'
  BY <1>1, <1>3, <1>4, NoneOpenStays DEF Reconnects
<1>6. \A n \in DOMAIN wire'[Host] : wire'[Host][n].cmd # "OPEN"
  <2>1. \A n \in DOMAIN wire'[Host] : n + 0 \in DOMAIN wire[Host] /\ wire'[Host][n] = wire[Host][n + 0]
    BY <1>1, OnlyOld DEF Reconnects
  <2> QED
    BY <1>3, <2>1
<1>7. Tied'
  <2>1. ~broken[Host] => online[Device]
    BY <1>2 DEF Tied, Renewed
  <2>2. online'[Device] = online[Device]
    BY <1>2, InvParts DEF CountersOK
  <2> QED
    BY <1>2, <2>1, <2>2 DEF Tied
<1> QED
  BY <1>5, <1>6, <1>7 DEF Cutting

LEMMA HostSyncCuts ==
  ASSUME IInv, Sessions, HandleSync(Host)
  PROVE  Cutting
<1> USE SyncFacts
<1>1. /\ Reconnects(0, Len(wire[Host]), <<Connection>>, 1, Len(wire[Device]) - 1, <<>>)
      /\ NoneOpen(Host)'
  BY HostSyncs DEF Cuts
<1>2. /\ online' = [online EXCEPT ![Host] = FALSE]
      /\ 1 \in DOMAIN wire[Device] /\ wire[Device][1].cmd = "SYNC"
  BY ReceivedFacts DEF HandleSync, Handles
<1>3. Cut(Device)'
  <2>1. \E n \in DOMAIN wire'[Host] : wire'[Host][n] = Connection
    BY <1>1, NewIsThere DEF Reconnects
  <2> QED
    BY <2>1, PacketTypes DEF Cut, Renewed
<1>4. Tied'
  <2>1. ~online'[Host]
    BY <1>2, InvParts DEF CountersOK
  <2>2. \A n \in DOMAIN wire'[Device] : FALSE
    <3> SUFFICES ASSUME NEW n \in DOMAIN wire'[Device]
                 PROVE  FALSE
      OBVIOUS
    <3>1. n \in Nat /\ n >= 1 /\ n + 1 \in DOMAIN wire[Device]
      BY <1>1, OnlyOld DEF Reconnects
    <3>2. 1 < n + 1
      BY <3>1
    <3> QED
      BY <1>2, <3>1, <3>2 DEF Syncs
  <2> QED
    BY <2>1, <2>2 DEF Tied, Renewed
<1> QED
  BY <1>1, <1>3, <1>4 DEF Cutting

LEMMA DeviceSyncCuts ==
  ASSUME IInv, Sessions, HandleSync(Device)
  PROVE  Cutting
<1> USE SyncFacts
<1>1. /\ Reconnects(1, Len(wire[Host]) - 1, <<>>, 0, Len(wire[Device]), <<>>)
      /\ NoneOpen(Device)'
  BY DeviceSyncs DEF Cuts
<1>2. /\ online' = [online EXCEPT ![Device] = FALSE] /\ broken' = [broken EXCEPT ![Device] = FALSE]
      /\ 1 \in DOMAIN wire[Host] /\ wire[Host][1].cmd = "SYNC"
  BY ReceivedFacts DEF HandleSync, Handles
<1>3. online'[Host] = online[Host] /\ broken'[Host] = broken[Host]
  BY <1>2, InvParts DEF CountersOK
<1>4. \A n \in DOMAIN wire'[Host] : wire'[Host][n].cmd # "OPEN"
  <2> SUFFICES ASSUME NEW n \in DOMAIN wire'[Host]
               PROVE  wire'[Host][n].cmd # "OPEN"
    OBVIOUS
  <2>1. n \in Nat /\ n >= 1 /\ n + 1 \in DOMAIN wire[Host] /\ wire'[Host][n] = wire[Host][n + 1]
    BY <1>1, OnlyOld DEF Reconnects
  <2>2. 1 < n + 1
    BY <2>1
  <2>3. wire[Host][n + 1].cmd = "CNXN"
    BY <1>2, <2>1, <2>2 DEF Syncs
  <2> QED
    BY <2>1, <2>3
<1>5. broken[Device]
  BY <1>2 DEF Syncs
<1>6. CASE broken[Host]
  BY <1>1, <1>3, <1>4, <1>6 DEF Cutting, Cut, Tied
<1>7. CASE ~broken[Host]
  <2>1. wire[Device] = <<>> /\ ~online[Host]
    BY <1>5, <1>7 DEF Syncs
  <2>2. NoneOpen(Host)'
    BY <1>1, <2>1, NoneOpenStays DEF Reconnects, OfflineCloses
  <2>3. \A n \in DOMAIN wire'[Device] : n + 0 \in DOMAIN wire[Device]
    BY <1>1, OnlyOld DEF Reconnects
  <2>4. \A n \in DOMAIN <<>> : FALSE
    OBVIOUS
  <2>5. ~Renewed(Device)'
    BY <2>1, <2>3, <2>4 DEF Renewed
  <2> QED
    BY <1>1, <1>3, <1>4, <2>1, <2>2, <2>5 DEF Cutting, Tied
<1> QED
  BY <1>6, <1>7

LEMMA FaultCuts ==
  ASSUME IInv, Sessions, Unplug \/ (HostRestart /\ online[Host])
  PROVE  Cutting
<1> USE SyncFacts
<1>1. CASE Unplug
  <2>1. broken'[Host] /\ broken'[Device]
    BY <1>1 DEF Unplug
  <2> QED
    BY <2>1 DEF Cutting, Cut, Tied
<1>2. CASE HostRestart /\ online[Host]
  <2>1. PICK n, m, l : Reconnects(0, n, <<Connection>>, m, l, <<>>)
    BY <1>2, Restarts
  <2>2. NoneOpen(Host)' /\ ~online'[Host]
    <3>1. /\ socket' = [socket EXCEPT ![Host] = [i \in Ids |-> Free]]
          /\ online' = [online EXCEPT ![Host] = FALSE]
      BY <1>2 DEF HostRestart
    <3>2. socket \in [Peers -> [Ids -> Sockets]] /\ online \in [Peers -> BOOLEAN]
      BY InvParts DEF TypeOK, CountersOK
    <3> QED
      BY <3>1, <3>2, FreeWhole DEF NoneOpen
  <2>3. Cut(Device)'
    <3>1. \E x \in DOMAIN wire'[Host] : wire'[Host][x] = Connection
      BY <2>1, NewIsThere DEF Reconnects
    <3> QED
      BY <3>1, PacketTypes DEF Cut, Renewed
  <2>4. ~Renewed(Device)'
    <3>1. \A x \in DOMAIN wire'[Device] :
            x + m \in DOMAIN wire[Device] /\ wire'[Device][x] = wire[Device][x + m]
      BY <2>1, OnlyOld DEF Reconnects
    <3>2. \A x \in DOMAIN wire[Device] : wire[Device][x].cmd # "CNXN"
      BY <1>2 DEF Connecting
    <3> QED
      BY <3>1, <3>2 DEF Renewed
  <2> QED
    BY <2>2, <2>3, <2>4 DEF Cutting, Tied
<1> QED
  BY <1>1, <1>2

LEMMA ConnectionsOwe ==
  ASSUME IInv, IInv', Sessions, Owing,
         \/ \E p \in Peers : HandleConnect(p) \/ HandleSync(p)
         \/ Unplug
         \/ HostRestart /\ online[Host]
  PROVE  Owing'
<1>1. PICK d, c, new, e, b, more : Reconnects(d, c, new, e, b, more)
  <2>1. CASE \E p \in Peers : HandleConnect(p)
    BY <2>1, TwoPeers, HostConnects, DeviceConnects
  <2>2. CASE \E p \in Peers : HandleSync(p)
    BY <2>2, TwoPeers, HostSyncs, DeviceSyncs
  <2>3. CASE Unplug
    BY <2>3, Unplugs
  <2>4. CASE HostRestart /\ online[Host]
    BY <2>4, Restarts
  <2> QED
    BY <2>1, <2>2, <2>3, <2>4
<1>2. Cutting
  <2>1. CASE \E p \in Peers : HandleConnect(p)
    BY <2>1, TwoPeers, HostConnectCuts, DeviceConnectCuts DEF Owing
  <2>2. CASE \E p \in Peers : HandleSync(p)
    BY <2>2, TwoPeers, HostSyncCuts, DeviceSyncCuts
  <2>3. CASE Unplug \/ (HostRestart /\ online[Host])
    BY <2>3, FaultCuts
  <2> QED
    BY <2>1, <2>2, <2>3
<1>3. EndsWithSocket
  BY PacketEnds, FaultEnds DEF HandlePacket
<1>4. EarlyStreams' /\ \A r \in Peers, k \in Streams : Early(r, k) <=> Early(r, k)'
  BY <1>3, EarlyStays DEF Owing
<1>5. Loses(Host, d, c) /\ Loses(Device, e, b)
  BY <1>1, ReconnectsLose
<1>6. \A r \in Peers, i \in Ids : socket'[r][i].state = "open" => socket'[r][i] = socket[r][i]
  BY <1>1, QuieterFacts DEF Reconnects
<1>7. Senders'
  <2> SUFFICES ASSUME NEW n \in DOMAIN wire'[Device], wire'[Device][n].cmd = "WRTE",
                      NEW a, NEW k, a = wire'[Device][n].arg0, k = wire'[Device][n].data[2]
               PROVE  Receives(a, k)'
    BY DEF Senders, Receives
  <2>1. n + e \in DOMAIN wire[Device] /\ wire'[Device][n] = wire[Device][n + e]
    BY <1>5 DEF Loses
  <2>2. Receives(a, k)
    BY <2>1 DEF Owing, Senders
  <2> QED
    BY <1>6, <2>2, Types DEF Receives
<1>8. Asking'
  BY <1>2 DEF Asking, Asked, Cutting
<1>9. ASSUME NEW r \in Peers, NEW i \in Ids, NEW k \in Streams
      PROVE  Company(r, i, k)'
  <2>1. NoneOpen(r)' \/ Cut(r)'
    BY <1>2 DEF Cutting
  <2> QED
    BY <2>1 DEF NoneOpen, Company, Served, Gone
<1> QED
  BY <1>2, <1>4, <1>7, <1>8, <1>9 DEF Owing, Cutting

-------------------------------------------------------------------------------
(* All steps.                                                                *)

LEMMA OwingStart == Init => Owing
<1> SUFFICES ASSUME Init
             PROVE  Owing
  OBVIOUS
<1>1. /\ \A p \in Peers : p = Host \/ p = Device
      /\ Host \in Peers /\ Device \in Peers /\ Host # Device
  BY TwoPeers, AdbStreamAssumption
<1>2. /\ \A p \in Peers, i \in Ids : socket[p][i].state = "free"
      /\ \A p \in Peers, k \in Streams : ended[p][k] = "no"
  <2>1. \A p \in Peers, i \in Ids : socket[p][i] = Free
    BY DEF Init
  <2>2. \A p \in Peers, k \in Streams : ended[p][k] = "no"
    BY DEF Init
  <2> QED
    BY <2>1, <2>2 DEF Free
<1>3. /\ wire[Host] = <<Connection>> /\ wire[Device] = <<>>
      /\ ~online[Host]
  BY <1>1 DEF Init
<1>4. \A n \in DOMAIN wire[Host] : wire[Host][n].cmd = "CNXN"
  <2>1. \A n \in DOMAIN <<Connection>> : <<Connection>>[n] = Connection
    OBVIOUS
  <2> QED
    BY <1>3, <2>1 DEF Connection, Packet
<1>5. DOMAIN wire[Device] = {}
  <2>1. DOMAIN <<>> = {}
    OBVIOUS
  <2> QED
    BY <1>3, <2>1
<1>6. EarlyStreams
  BY <1>1, <1>2 DEF EarlyStreams, Early
<1>7. Tied
  BY <1>3, <1>5 DEF Tied, Renewed
<1>8. Senders
  BY <1>5 DEF Senders
<1>9. Asking
  BY <1>4 DEF Asking, Asked
<1>10. \A p \in Peers, i \in Ids, k \in Streams : Company(p, i, k)
  BY <1>2 DEF Company
<1> QED
  BY <1>6, <1>7, <1>8, <1>9, <1>10 DEF Owing

LEMMA PacketOwes ==
  ASSUME IInv, IInv', Sessions, Flow, Closes, Owing, NEW p \in Peers, HandlePacket(p)
  PROVE  Owing'
<1>1. CASE p = Device /\ HandleOpen
  <2>1. CASE Accepts
    BY <2>1, AcceptOwes
  <2>2. CASE /\ Handles(Device, "OPEN") /\ online[Device]
             /\ Replies(Device, <<Packet("CLSE", 0, Received(Device).arg0)>>)
             /\ UNCHANGED <<socket, endVars, countVars, historyVars>>
    BY <2>2, RejectOwes
  <2> QED
    BY <1>1, <2>1, <2>2 DEF HandleOpen, Accepts, endVars
<1>2. CASE HandleOkay(p)
  BY <1>2, OkayOwes
<1>3. CASE HandleWrite(p)
  BY <1>3, WriteOwes
<1>4. CASE HandleClose(p)
  BY <1>4, CloseOwes
<1>5. CASE HandleConnect(p) \/ HandleSync(p)
  BY <1>5, ConnectionsOwe
<1>6. CASE Ignore(p)
  BY <1>6, IgnoreOwes
<1> QED
  BY <1>1, <1>2, <1>3, <1>4, <1>5, <1>6 DEF HandlePacket

LEMMA OwingStep ==
  IInv /\ IInv' /\ Sessions /\ Flow /\ Closes /\ Owing /\ [Next]_vars /\ [SettledRestart]_vars
    => Owing'
<1> SUFFICES ASSUME IInv, IInv', Sessions, Flow, Closes, Owing,
                    [Next]_vars, [SettledRestart]_vars
             PROVE  Owing'
  OBVIOUS
<1>1. CASE Open
  BY <1>1, OpenOwes
<1>2. CASE \E p \in Peers : HandlePacket(p)
  BY <1>2, PacketOwes
<1>3. CASE \E p \in Peers, i \in Ids : WriteEvent(p, i)
  BY <1>3, WriteEventOwes
<1>4. CASE \E p \in Peers, i \in Ids : ReadEvent(p, i)
  BY <1>4, ReadEventOwes
<1>5. CASE Unplug
  BY <1>5, ConnectionsOwe
<1>6. CASE HostRestart
  BY <1>6, SettledSteps, ConnectionsOwe
<1>7. CASE UNCHANGED vars
  <2>1. UNCHANGED <<socket, online, broken, wire, opened, ended>>
    BY <1>7 DEF vars, endVars, countVars, historyVars
  <2>2. EarlyStreams' /\ Tied'
    BY <2>1 DEF Owing, EarlyStreams, Early, Tied, Renewed
  <2>3. Senders'
    BY <2>1 DEF Owing, Senders, Receives, StreamOf
  <2>4. Asking'
    BY <2>1 DEF Owing, Asking, Asked, Early, OpenFor, Cut, Renewed
  <2>5. \A p \in Peers, i \in Ids, k \in Streams : Company(p, i, k)'
    BY <2>1 DEF Owing, Company, Early, Served, Gone, Cut, Renewed, Closing, CloseTo, Asked,
                OpenFor, Token, Okays, Writes, HasPending
  <2> QED
    BY <2>2, <2>3, <2>4, <2>5 DEF Owing
<1> QED
  BY <1>1, <1>2, <1>3, <1>4, <1>5, <1>6, <1>7 DEF Next

LEMMA OwingHold == Spec /\ [][SettledRestart]_vars => []Owing
  BY OwingStart, OwingStep, Always, SessionsHold, FlowHolds, ClosesHold, PTL DEF Spec

(* An end that waits is always owed something: the READY or CLOSE it waits  *)
(* for, the OPEN or WRITE still to be answered, the backlog whose writing   *)
(* will be answered, or the loss of the connection.  No order of handlers,  *)
(* closes and reconnections loses the last token of a stream while a socket *)
(* of it waits (local_socket_enqueue, local_socket_event_func, handle_packet). *)
THEOREM NoVainWaits == Spec /\ [][SettledRestart]_vars => []NobodyWaitsInVain
<1>1. IInv /\ Sessions /\ Owing => NobodyWaitsInVain
  <2> SUFFICES ASSUME IInv, Sessions, Owing, NEW p \in Peers, NEW i \in Ids, Waits(p, i)
               PROVE  Owed(p, i)
    BY DEF NobodyWaitsInVain
  <2>1. PICK k \in Streams : k = socket[p][i].stream
    BY OpenSocketFacts DEF Waits
  <2>2. Served(p, i, k)
    <3>1. Company(p, i, k)
      BY DEF Owing
    <3> QED
      BY <2>1, <3>1 DEF Company, Waits, Early
  <2>3. CASE Cut(p)
    BY <2>3 DEF Cut, Renewed, Owed
  <2>4. CASE Closing(Other(p), i)
    BY <2>4 DEF Closing, CloseTo, Owed
  <2>5. CASE Asked(p, k)
    BY <2>1, <2>5 DEF Asked, Owed
  <2>6. CASE Token(p, i, k)
    <3>1. CASE Okays(Other(p), i) # {}
      BY <3>1 DEF Okays, Owed
    <3>2. CASE Writes(p, k) # {}
      BY <2>1, <3>2 DEF Writes, Owed
    <3>3. CASE HasPending(Other(p), k)
      BY <2>1, <3>3 DEF HasPending, Owed
    <3>4. ~socket[p][i].reading
      BY DEF Waits
    <3> QED
      BY <2>6, <3>1, <3>2, <3>3, <3>4 DEF Token
  <2> QED
    BY <2>2, <2>3, <2>4, <2>5, <2>6 DEF Served, Gone
<1> QED
  BY <1>1, Always, SessionsHold, OwingHold, PTL
===============================================================================
