---------------------------- MODULE AdbStreamProofs ----------------------------
(***************************************************************************)
(* Theorems about AdbStream for any number of streams, chunks and faults:   *)
(* first that states are well formed, and then which packets and sockets    *)
(* belong together, although the server's ids start anew with each server.  *)
(***************************************************************************)
EXTENDS AdbStream, SequenceTheorems, TLAPS

-------------------------------------------------------------------------------
(* The inductive invariant.                                                  *)

Whole(s) ==
  /\ s \in Sockets
  /\ s.state = "free" <=> s.stream = 0
  /\ s.state = "closing" => s.pending # <<>> /\ s.peer = 0 /\ ~s.reading

(* The OPENs of w carry ever later streams, from low up to high.             *)
OpensFrom(w, low, high) ==
  \A n \in DOMAIN w : w[n].cmd = "OPEN" =>
    /\ w[n].arg0 # 0
    /\ low <= w[n].data[2] /\ w[n].data[2] <= high
    /\ \A m \in DOMAIN w : w[m].cmd = "OPEN" /\ m < n => w[m].data[2] < w[n].data[2]

NoOpens(w) == \A n \in DOMAIN w : w[n].cmd # "OPEN"

(* The device has fewer sockets than the streams it has yet to hear of, and *)
(* the server's ids do not overtake the streams.                             *)
Numbered ==
  /\ \A p \in Peers : local_socket_next_id[p] <= opened + 1
  /\ OpensFrom(wire[Host], local_socket_next_id[Device], opened)

(* The sockets of the device have a peer from the beginning.                 *)
DeviceConnected ==
  \A i \in Ids : socket[Device][i].state = "open" => socket[Device][i].peer # 0

IInv == TypeOK /\ Numbered /\ DeviceConnected

-------------------------------------------------------------------------------
(* Packets.                                                                  *)

LEMMA TwoPeers ==
  /\ Host \in Peers /\ Device \in Peers
  /\ Other(Host) = Device /\ Other(Device) = Host
  /\ \A p \in Peers : p = Host \/ p = Device
  /\ \A p \in Peers : Other(p) \in Peers
  BY AdbStreamAssumption DEF Peers, Other

LEMMA PacketTypes ==
  /\ \A command \in {"SYNC", "CNXN", "OPEN", "OKAY", "CLSE", "WRTE"},
        a \in 0 .. MaxOpens, b \in 0 .. MaxOpens :
       /\ Packet(command, a, b) \in Packets
       /\ Packet(command, a, b).cmd = command
       /\ \A d \in Data : [Packet(command, a, b) EXCEPT !.data = d] \in Packets
       /\ \A d \in Data : [Packet(command, a, b) EXCEPT !.data = d].cmd = command
  /\ Connection \in Packets /\ Connection.cmd = "CNXN"
<1>1. <<Host, 0, 0>> \in Data /\ 0 \in 0 .. MaxOpens
  BY AdbStreamAssumption DEF Data, Peers
<1> QED
  BY <1>1 DEF Packet, Packets, Connection

LEMMA OpensJoined ==
  ASSUME NEW v \in Seq(Packets), NEW w \in Seq(Packets), NEW low, NEW high,
         OpensFrom(v, low, high), NoOpens(w)
  PROVE  OpensFrom(v \o w, low, high)
<1> SUFFICES ASSUME NEW n \in DOMAIN (v \o w), (v \o w)[n].cmd = "OPEN"
             PROVE  /\ (v \o w)[n].arg0 # 0
                    /\ low <= (v \o w)[n].data[2] /\ (v \o w)[n].data[2] <= high
                    /\ \A m \in DOMAIN (v \o w) : (v \o w)[m].cmd = "OPEN" /\ m < n =>
                         (v \o w)[m].data[2] < (v \o w)[n].data[2]
  BY DEF OpensFrom
<1>1. n \in DOMAIN v
  BY DEF NoOpens
<1>2. \A m \in DOMAIN (v \o w) : m < n => m \in DOMAIN v /\ (v \o w)[m] = v[m]
  BY <1>1
<1>3. (v \o w)[n] = v[n]
  BY <1>1
<1> QED
  BY <1>1, <1>2, <1>3 DEF OpensFrom

LEMMA OpensPrefix ==
  ASSUME NEW w \in Seq(Packets), NEW n \in 0 .. Len(w), NEW low, NEW high,
         OpensFrom(w, low, high)
  PROVE  /\ SubSeq(w, 1, n) \in Seq(Packets)
         /\ OpensFrom(SubSeq(w, 1, n), low, high)
<1> DEFINE v == SubSeq(w, 1, n)
<1>1. v \in Seq(Packets) /\ Len(v) = n /\ \A m \in DOMAIN v : m \in DOMAIN w /\ v[m] = w[m]
  OBVIOUS
<1> HIDE DEF v
<1>2. OpensFrom(v, low, high)
  BY <1>1 DEF OpensFrom
<1> QED
  BY <1>1, <1>2 DEF v

LEMMA OpensTail ==
  ASSUME NEW w \in Seq(Packets), w # <<>>, NEW low \in Nat, NEW high \in Nat,
         OpensFrom(w, low, high)
  PROVE  /\ Tail(w) \in Seq(Packets) /\ Head(w) \in Packets
         /\ OpensFrom(Tail(w), low, high)
         /\ Head(w).cmd = "OPEN" =>
              /\ Head(w).arg0 # 0
              /\ low <= Head(w).data[2] /\ Head(w).data[2] <= high
              /\ OpensFrom(Tail(w), low + 1, high)
<1> DEFINE v == Tail(w)
<1>1. /\ v \in Seq(Packets) /\ Head(w) \in Packets /\ Head(w) = w[1] /\ 1 \in DOMAIN w
      /\ \A m \in DOMAIN v : m + 1 \in DOMAIN w /\ v[m] = w[m + 1] /\ m \in Nat /\ m >= 1
  OBVIOUS
<1>2. \A n \in DOMAIN w : w[n].data[2] \in Nat
  <2> SUFFICES ASSUME NEW n \in DOMAIN w
               PROVE  w[n].data[2] \in Nat
    OBVIOUS
  <2>1. w[n] \in Packets
    OBVIOUS
  <2>2. w[n].data \in Peers \X (0 .. MaxOpens) \X Nat
    BY <2>1 DEF Packets, Data
  <2> QED
    BY <2>2, AdbStreamAssumption
<1> HIDE DEF v
<1>3. OpensFrom(v, low, high)
  <2> SUFFICES ASSUME NEW n \in DOMAIN v, v[n].cmd = "OPEN"
               PROVE  /\ v[n].arg0 # 0
                      /\ low <= v[n].data[2] /\ v[n].data[2] <= high
                      /\ \A m \in DOMAIN v : v[m].cmd = "OPEN" /\ m < n =>
                           v[m].data[2] < v[n].data[2]
    BY DEF OpensFrom
  <2>1. n + 1 \in DOMAIN w /\ v[n] = w[n + 1]
    BY <1>1
  <2>2. ASSUME NEW m \in DOMAIN v, v[m].cmd = "OPEN", m < n
        PROVE  v[m].data[2] < v[n].data[2]
    <3>1. /\ m + 1 \in DOMAIN w /\ v[m] = w[m + 1] /\ m + 1 < n + 1
      BY <1>1, <2>2
    <3> QED
      BY <2>1, <2>2, <3>1 DEF OpensFrom
  <2> QED
    BY <2>1, <2>2 DEF OpensFrom
<1>4. ASSUME Head(w).cmd = "OPEN"
      PROVE  OpensFrom(v, low + 1, high)
  <2> SUFFICES ASSUME NEW n \in DOMAIN v, v[n].cmd = "OPEN"
               PROVE  low + 1 <= v[n].data[2]
    BY <1>3 DEF OpensFrom
  <2>1. /\ n + 1 \in DOMAIN w /\ v[n] = w[n + 1] /\ 1 < n + 1
    BY <1>1
  <2>2. w[1].data[2] < w[n + 1].data[2] /\ low <= w[1].data[2]
    BY <1>1, <1>4, <2>1 DEF OpensFrom
  <2> QED
    BY <1>1, <1>2, <2>1, <2>2
<1> QED
  BY <1>1, <1>3, <1>4 DEF OpensFrom, v

(* send_packet keeps the wire well typed and adds no OPEN.                   *)
LEMMA SendsKeep ==
  ASSUME TypeOK, Numbered, NEW p \in Peers, NEW packets \in Seq(Packets),
         NoOpens(packets), Sends(p, packets)
  PROVE  /\ wire' \in [Peers -> Seq(Packets)]
         /\ OpensFrom(wire'[Host], local_socket_next_id[Device], opened)
<1>1. wire[p] \in Seq(Packets) /\ wire \in [Peers -> Seq(Packets)]
  BY DEF TypeOK
<1>2. Put(p, packets) \in Seq(Packets)
  BY <1>1 DEF Put
<1>3. /\ wire' \in [Peers -> Seq(Packets)] /\ wire'[p] = Put(p, packets)
      /\ \A q \in Peers : q # p => wire'[q] = wire[q]
  BY <1>1, <1>2 DEF Sends
<1>4. p = Host => OpensFrom(Put(p, packets), local_socket_next_id[Device], opened)
  BY <1>1, OpensJoined DEF Put, Numbered
<1> QED
  BY <1>3, <1>4, TwoPeers DEF Numbered

(* So does a handler; the OPEN it takes was for a later stream than those   *)
(* before, and the rest are for later ones still.                            *)
LEMMA RepliesKeep ==
  ASSUME TypeOK, Numbered, NEW p \in Peers, NEW packets \in Seq(Packets),
         NoOpens(packets), Replies(p, packets), wire[Other(p)] # <<>>
  PROVE  /\ wire' \in [Peers -> Seq(Packets)] /\ Received(p) \in Packets
         /\ OpensFrom(wire'[Host], local_socket_next_id[Device], opened)
         /\ p = Device /\ Received(p).cmd = "OPEN" =>
              /\ Received(p).arg0 # 0
              /\ local_socket_next_id[Device] <= Received(p).data[2]
              /\ Received(p).data[2] <= opened
              /\ OpensFrom(wire'[Host], local_socket_next_id[Device] + 1, opened)
<1>1. /\ wire \in [Peers -> Seq(Packets)] /\ wire[p] \in Seq(Packets)
      /\ Other(p) \in Peers /\ wire[Other(p)] \in Seq(Packets) /\ Other(p) # p
      /\ local_socket_next_id[Device] \in Nat /\ opened \in Nat
  <2>1. Other(p) \in Peers /\ Other(p) # p /\ Device \in Peers
    BY TwoPeers, AdbStreamAssumption
  <2>2. /\ wire \in [Peers -> Seq(Packets)]
        /\ local_socket_next_id \in [Peers -> 1 .. MaxOpens + 1]
        /\ opened \in 0 .. MaxOpens
    BY DEF TypeOK
  <2> QED
    BY <2>1, <2>2, AdbStreamAssumption
<1>2. Put(p, packets) \in Seq(Packets)
  BY <1>1 DEF Put
<1>3. Tail(wire[Other(p)]) \in Seq(Packets) /\ Received(p) \in Packets
  BY <1>1 DEF Received
<1>4. /\ wire' \in [Peers -> Seq(Packets)] /\ wire'[p] = Put(p, packets)
      /\ wire'[Other(p)] = Tail(wire[Other(p)])
  BY <1>1, <1>2, <1>3 DEF Replies
<1>5. CASE p = Host
  <2>1. OpensFrom(Put(p, packets), local_socket_next_id[Device], opened)
    BY <1>1, <1>5, OpensJoined DEF Put, Numbered
  <2> QED
    BY <1>3, <1>4, <1>5, <2>1, AdbStreamAssumption
<1>6. CASE p = Device
  <2>1. Other(p) = Host
    BY <1>6, TwoPeers
  <2>2. OpensFrom(wire[Host], local_socket_next_id[Device], opened)
    BY DEF Numbered
  <2> QED
    BY <1>1, <1>3, <1>4, <2>1, <2>2, OpensTail DEF Received
<1> QED
  BY <1>5, <1>6, TwoPeers

-------------------------------------------------------------------------------
(* The parts of the type invariant.                                          *)

SocketsWhole ==
  /\ socket \in [Peers -> [Ids -> Sockets]]
  /\ \A p \in Peers, i \in Ids : Whole(socket[p][i])

WireOK == wire \in [Peers -> Seq(Packets)]

CountersOK ==
  /\ local_socket_next_id \in [Peers -> 1 .. MaxOpens + 1]
  /\ online \in [Peers -> BOOLEAN] /\ broken \in [Peers -> BOOLEAN]
  /\ opened \in 0 .. MaxOpens /\ faults \in 0 .. MaxFaults

HistoryOK ==
  /\ chunks \in [Peers -> [Streams -> Nat]]
  /\ written \in [Peers -> [Streams -> Seq(Data)]]
  /\ ended \in [Peers -> [Streams -> {"no", "eof", "error", "clse", "offline", "early"}]]

LEMMA TypeParts ==
  /\ TypeOK <=> SocketsWhole /\ WireOK /\ CountersOK /\ HistoryOK
  /\ TypeOK' <=> SocketsWhole' /\ WireOK' /\ CountersOK' /\ HistoryOK'
<1>1. SocketsWhole <=>
        /\ socket \in [Peers -> [Ids -> Sockets]]
        /\ \A p \in Peers, i \in Ids :
             LET s == socket[p][i]
             IN /\ s.state = "free" <=> s.stream = 0
                /\ s.state = "closing" => s.pending # <<>> /\ s.peer = 0 /\ ~s.reading
  BY DEF SocketsWhole, Whole
<1>2. SocketsWhole' <=>
        /\ socket' \in [Peers -> [Ids -> Sockets]]
        /\ \A p \in Peers, i \in Ids :
             LET s == socket'[p][i]
             IN /\ s.state = "free" <=> s.stream = 0
                /\ s.state = "closing" => s.pending # <<>> /\ s.peer = 0 /\ ~s.reading
  BY DEF SocketsWhole, Whole
<1> QED
  BY <1>1, <1>2 DEF TypeOK, WireOK, CountersOK, HistoryOK

-------------------------------------------------------------------------------
(* Sockets.                                                                  *)

LEMMA FreeWhole == Whole(Free) /\ Free.state # "open"
  BY AdbStreamAssumption DEF Whole, Free, Sockets

(* local_socket_close_locked frees the socket or leaves one that has packets *)
(* to write and nothing else to do.                                          *)
LEMMA ClosedWhole ==
  ASSUME NEW s, Whole(s), s.state # "free"
  PROVE  Whole(Closed(s)) /\ Closed(s).state # "open"
<1>1. CASE s.state = "closing" \/ s.pending = <<>>
  BY <1>1, FreeWhole DEF Closed
<1>2. CASE ~(s.state = "closing" \/ s.pending = <<>>)
  <2>1. Closed(s) = [s EXCEPT !.state = "closing", !.peer = 0, !.reading = FALSE]
    BY <1>2 DEF Closed
  <2>2. s \in Sockets /\ 0 \in 0 .. MaxOpens
    BY AdbStreamAssumption DEF Whole
  <2>3. /\ Closed(s) \in Sockets
        /\ Closed(s).state = "closing" /\ Closed(s).peer = 0 /\ Closed(s).reading = FALSE
        /\ Closed(s).pending = s.pending /\ Closed(s).stream = s.stream
    BY <2>1, <2>2 DEF Sockets
  <2>4. s.state # "free" => s.stream # 0
    BY DEF Whole
  <2> QED
    BY <1>2, <2>3, <2>4 DEF Whole
<1> QED
  BY <1>1, <1>2

LEMMA CloseMessages ==
  ASSUME NEW s, Whole(s)
  PROVE  CloseMessage(s) \in Seq(Packets) /\ NoOpens(CloseMessage(s))
<1>1. s.peer \in 0 .. MaxOpens /\ 0 \in 0 .. MaxOpens
  BY AdbStreamAssumption DEF Whole, Sockets
<1>2. Packet("CLSE", 0, s.peer) \in Packets /\ Packet("CLSE", 0, s.peer).cmd = "CLSE"
  BY <1>1, PacketTypes
<1> QED
  BY <1>2 DEF CloseMessage, NoOpens

LEMMA NewSocketWhole ==
  ASSUME NEW r \in 0 .. MaxOpens, NEW k \in 1 .. MaxOpens
  PROVE  /\ Whole(NewSocket(r, k)) /\ NewSocket(r, k).state = "open"
         /\ NewSocket(r, k).peer = r
<1>1. Free \in Sockets /\ r \in 0 .. MaxOpens /\ k \in 0 .. MaxOpens /\ k # 0
  BY FreeWhole, AdbStreamAssumption DEF Whole
<1> DEFINE t == [Free EXCEPT !.state = "open", !.peer = r, !.stream = k]
<1>2. /\ t \in Sockets
      /\ t.state = "open" /\ t.peer = r /\ t.stream = k
  BY <1>1 DEF Sockets
<1>3. NewSocket(r, k) = t
  BY DEF NewSocket
<1> HIDE DEF t
<1> QED
  BY <1>1, <1>2, <1>3 DEF Whole

LEMMA OneSocketChanges ==
  ASSUME SocketsWhole, DeviceConnected, NEW p \in Peers, NEW i \in Ids, NEW t,
         Whole(t), p = Device /\ t.state = "open" => t.peer # 0,
         socket' = [socket EXCEPT ![p][i] = t]
  PROVE  SocketsWhole' /\ DeviceConnected'
<1>1. socket \in [Peers -> [Ids -> Sockets]] /\ t \in Sockets
  BY DEF SocketsWhole, Whole
<1>2. socket' \in [Peers -> [Ids -> Sockets]]
  BY <1>1
<1>3. \A q \in Peers, j \in Ids :
        socket'[q][j] = IF q = p /\ j = i THEN t ELSE socket[q][j]
  BY <1>1
<1>4. \A q \in Peers, j \in Ids : Whole(socket'[q][j])
  BY <1>3 DEF SocketsWhole
<1>5. DeviceConnected'
  BY <1>3, TwoPeers DEF DeviceConnected
<1> QED
  BY <1>2, <1>4, <1>5 DEF SocketsWhole

LEMMA CloseAllKeeps ==
  ASSUME SocketsWhole, HistoryOK, DeviceConnected, NEW p \in Peers,
         NEW closing \in SUBSET OpenSockets(p), CloseAll(p, closing)
  PROVE  /\ SocketsWhole' /\ DeviceConnected'
         /\ ended' \in [Peers -> [Streams -> {"no", "eof", "error", "clse", "offline", "early"}]]
<1>1. socket \in [Peers -> [Ids -> Sockets]]
  BY DEF SocketsWhole
<1>2. \A i \in closing : Whole(Closed(socket[p][i])) /\ Closed(socket[p][i]).state # "open"
  BY ClosedWhole DEF SocketsWhole, OpenSockets
<1>3. \A q \in Peers, j \in Ids :
        socket'[q][j] = IF q = p /\ j \in closing THEN Closed(socket[q][j]) ELSE socket[q][j]
  BY <1>1 DEF CloseAll
<1>4. \A q \in Peers, j \in Ids : Whole(socket'[q][j])
  BY <1>2, <1>3 DEF SocketsWhole
<1>5. \A q \in Peers, j \in Ids : socket'[q][j] \in Sockets
  BY <1>4 DEF Whole
<1>6. socket' \in [Peers -> [Ids -> Sockets]]
  <2> DEFINE f == [i \in Ids |-> IF i \in closing THEN Closed(socket[p][i]) ELSE socket[p][i]]
  <2>1. socket' = [socket EXCEPT ![p] = f]
    BY <1>1 DEF CloseAll
  <2>2. f \in [Ids -> Sockets]
    BY <1>1, <1>2 DEF Whole, OpenSockets
  <2> QED
    BY <1>1, <2>1, <2>2
<1>7. DeviceConnected'
  BY <1>2, <1>3, TwoPeers DEF DeviceConnected
<1>8. ended' \in [Peers -> [Streams -> {"no", "eof", "error", "clse", "offline", "early"}]]
  BY DEF CloseAll, HistoryOK
<1> QED
  BY <1>4, <1>6, <1>7, <1>8 DEF SocketsWhole

-------------------------------------------------------------------------------
(* The actions.                                                              *)

LEMMA OnePacket ==
  /\ \A m \in Packets : m.cmd # "OPEN" => <<m>> \in Seq(Packets) /\ NoOpens(<<m>>)
  /\ <<>> \in Seq(Packets) /\ NoOpens(<<>>)
  BY DEF NoOpens

LEMMA OkayPackets ==
  ASSUME NEW a \in 0 .. MaxOpens, NEW b \in 0 .. MaxOpens
  PROVE  <<Okay(a, b)>> \in Seq(Packets) /\ NoOpens(<<Okay(a, b)>>)
<1>1. Okay(a, b) \in Packets /\ Okay(a, b).cmd = "OKAY"
  BY PacketTypes DEF Okay
<1> QED
  BY <1>1, OnePacket

(* What the parts of the invariant say, one by one.                          *)
LEMMA InvParts ==
  ASSUME IInv
  PROVE  /\ TypeOK /\ SocketsWhole /\ WireOK /\ CountersOK /\ HistoryOK
         /\ Numbered /\ DeviceConnected
         /\ MaxOpens \in Nat \ {0} /\ opened \in Nat
         /\ \A p \in Peers : local_socket_next_id[p] \in Nat /\ wire[p] \in Seq(Packets)
  BY TypeParts, AdbStreamAssumption DEF IInv, CountersOK, WireOK

LEMMA OpenKeeps ==
  ASSUME IInv, Open
  PROVE  IInv'
<1> DEFINE i == local_socket_next_id[Host]
           k == opened + 1
           packet == [Packet("OPEN", i, 0) EXCEPT !.data = <<Host, k, 0>>]
<1>1. /\ SocketsWhole /\ WireOK /\ CountersOK /\ HistoryOK /\ Numbered /\ DeviceConnected
      /\ MaxOpens \in Nat \ {0} /\ opened \in Nat /\ Host \in Peers /\ Device \in Peers
      /\ i \in Nat /\ wire[Host] \in Seq(Packets) /\ local_socket_next_id[Device] \in Nat
  BY InvParts, TwoPeers
<1>2. /\ opened < MaxOpens /\ opened' = k
      /\ local_socket_next_id' = [local_socket_next_id EXCEPT ![Host] = i + 1]
      /\ Sends(Host, <<packet>>)
      /\ UNCHANGED <<online, broken, faults, chunks, written>>
  BY DEF Open
<1>3. k \in Ids /\ k \in Streams /\ i \in Ids /\ i <= k /\ i # 0
  <2>1. i \in 1 .. MaxOpens + 1
    BY <1>1 DEF CountersOK
  <2> QED
    BY <1>1, <1>2, <2>1 DEF Ids, Streams, Numbered
<1>4. /\ packet \in Packets /\ packet.cmd = "OPEN" /\ packet.arg0 = i /\ packet.data[2] = k
  <2>1. <<Host, k, 0>> \in Data /\ i \in 0 .. MaxOpens /\ 0 \in 0 .. MaxOpens
    BY <1>1, <1>3 DEF Data, Ids
  <2>2. packet \in Packets /\ packet.cmd = "OPEN"
    BY <2>1, PacketTypes
  <2> QED
    BY <2>2 DEF Packet
<1>5. WireOK' /\ wire'[Host] = Put(Host, <<packet>>)
  BY <1>1, <1>2, <1>4 DEF Sends, WireOK, Put
<1>6. OpensFrom(wire'[Host], local_socket_next_id[Device], k)
  <2>1. OpensFrom(wire[Host], local_socket_next_id[Device], opened)
    BY <1>1 DEF Numbered
  <2>2. \A n \in DOMAIN wire[Host] : wire[Host][n].cmd = "OPEN" =>
          wire[Host][n].data[2] \in Nat /\ wire[Host][n].data[2] <= opened
    <3> SUFFICES ASSUME NEW n \in DOMAIN wire[Host], wire[Host][n].cmd = "OPEN"
                 PROVE  wire[Host][n].data[2] \in Nat /\ wire[Host][n].data[2] <= opened
      OBVIOUS
    <3>1. wire[Host][n] \in Packets
      BY <1>1
    <3>2. wire[Host][n].data \in Peers \X (0 .. MaxOpens) \X Nat
      BY <3>1 DEF Packets, Data
    <3> QED
      BY <1>1, <2>1, <3>2 DEF OpensFrom
  <2>3. CASE broken[Host]
    <3>1. wire'[Host] = wire[Host]
      BY <1>5, <2>3 DEF Put
    <3> QED
      BY <1>1, <2>1, <2>2, <3>1 DEF OpensFrom
  <2>4. CASE ~broken[Host]
    <3> DEFINE w == wire[Host] \o <<packet>>
    <3>0. wire'[Host] = w
      BY <1>5, <2>4 DEF Put
    <3> HIDE DEF packet, k, i
    <3>1. /\ wire'[Host] = w
          /\ Len(w) = Len(wire[Host]) + 1
          /\ DOMAIN w = 1 .. Len(w)
          /\ DOMAIN wire[Host] = 1 .. Len(wire[Host])
          /\ Len(wire[Host]) \in Nat
          /\ \A n \in DOMAIN w : \/ n \in DOMAIN wire[Host] /\ w[n] = wire[Host][n]
                                 \/ n = Len(w) /\ w[n] = packet
      BY <1>1, <1>4, <3>0
    <3> HIDE DEF w
    <3>2. local_socket_next_id[Device] <= k /\ k \in Nat /\ opened < k
      BY <1>1 DEF Numbered, k
    <3> SUFFICES ASSUME NEW n \in DOMAIN w, w[n].cmd = "OPEN"
                 PROVE  /\ w[n].arg0 # 0
                        /\ local_socket_next_id[Device] <= w[n].data[2] /\ w[n].data[2] <= k
                        /\ \A m \in DOMAIN w : w[m].cmd = "OPEN" /\ m < n =>
                             w[m].data[2] < w[n].data[2]
      BY <3>1 DEF OpensFrom
    <3>3. CASE n \in DOMAIN wire[Host] /\ w[n] = wire[Host][n]
      <4>1. \A m \in DOMAIN w : m < n => m \in DOMAIN wire[Host] /\ w[m] = wire[Host][m]
        BY <1>1, <3>1, <3>3
      <4>2. w[n].data[2] \in Nat /\ w[n].data[2] <= opened
        BY <2>2, <3>3
      <4> QED
        BY <1>1, <2>1, <3>2, <3>3, <4>1, <4>2 DEF OpensFrom
    <3>4. CASE n = Len(w) /\ w[n] = packet
      <4>1. \A m \in DOMAIN w : m < n => m \in DOMAIN wire[Host] /\ w[m] = wire[Host][m]
        BY <1>1, <3>1, <3>4
      <4>2. \A m \in DOMAIN w : w[m].cmd = "OPEN" /\ m < n => w[m].data[2] < k
        BY <1>1, <2>2, <3>2, <4>1
      <4> QED
        BY <1>3, <1>4, <3>2, <3>4, <4>2
    <3> QED
      BY <3>1, <3>3, <3>4
  <2> QED
    BY <2>3, <2>4
<1>7. CountersOK' /\ Numbered'
  <2>1. /\ \A p \in Peers : local_socket_next_id'[p] =
             IF p = Host THEN i + 1 ELSE local_socket_next_id[p]
        /\ local_socket_next_id' \in [Peers -> 1 .. MaxOpens + 1]
    BY <1>1, <1>2, <1>3 DEF CountersOK, Ids
  <2>2. local_socket_next_id'[Device] = local_socket_next_id[Device]
    BY <1>1, <2>1, AdbStreamAssumption
  <2>3. \A p \in Peers : local_socket_next_id'[p] <= opened' + 1
    BY <1>1, <1>2, <1>3, <2>1 DEF Numbered, CountersOK
  <2> QED
    BY <1>1, <1>2, <1>3, <1>6, <2>1, <2>2, <2>3 DEF CountersOK, Numbered, Streams
<1>8. SocketsWhole' /\ DeviceConnected' /\ HistoryOK'
  <2>1. CASE socket' = [socket EXCEPT ![Host][i] = NewSocket(0, k)] /\ UNCHANGED ended
    <3>1. Whole(NewSocket(0, k))
      BY <1>1, <1>3, NewSocketWhole DEF Streams
    <3> QED
      BY <1>1, <1>2, <1>3, <2>1, <3>1, OneSocketChanges, AdbStreamAssumption DEF HistoryOK
  <2>2. CASE Ends(Host, k, "early") /\ UNCHANGED socket
    BY <1>1, <1>2, <1>3, <2>2 DEF Ends, HistoryOK, SocketsWhole, DeviceConnected
  <2> QED
    BY <2>1, <2>2 DEF Open
<1> QED
  BY <1>5, <1>7, <1>8, TypeParts DEF IInv

(* A handler that answers with no OPEN, and an event that sends none.        *)
LEMMA ReplyStep ==
  ASSUME IInv, NEW p \in Peers, NEW packets \in Seq(Packets), NoOpens(packets),
         Replies(p, packets), wire[Other(p)] # <<>>,
         UNCHANGED <<local_socket_next_id, opened>>
  PROVE  WireOK' /\ Numbered' /\ Received(p) \in Packets
  BY InvParts, RepliesKeep DEF WireOK, Numbered

LEMMA SendStep ==
  ASSUME IInv, NEW p \in Peers, NEW packets \in Seq(Packets), NoOpens(packets),
         Sends(p, packets), UNCHANGED <<local_socket_next_id, opened>>
  PROVE  WireOK' /\ Numbered'
  BY InvParts, SendsKeep DEF WireOK, Numbered

LEMMA ReceivedIds ==
  ASSUME NEW m \in Packets
  PROVE  /\ m.arg0 \in 0 .. MaxOpens /\ m.arg1 \in 0 .. MaxOpens
         /\ m.data \in Data /\ m.data[2] \in 0 .. MaxOpens
<1>1. m.arg0 \in 0 .. MaxOpens /\ m.arg1 \in 0 .. MaxOpens /\ m.data \in Data
  BY DEF Packets
<1> QED
  BY <1>1 DEF Data

LEMMA HandleOpenKeeps ==
  ASSUME IInv, HandleOpen
  PROVE  IInv'
<1> DEFINE m == Received(Device)
           i == local_socket_next_id[Device]
<1>1. /\ SocketsWhole /\ WireOK /\ CountersOK /\ HistoryOK /\ Numbered /\ DeviceConnected
      /\ TypeOK /\ MaxOpens \in Nat \ {0} /\ opened \in Nat /\ i \in Nat
      /\ Device \in Peers /\ Other(Device) = Host /\ wire[Host] \in Seq(Packets)
      /\ Host \in Peers /\ Host # Device
  BY InvParts, TwoPeers, AdbStreamAssumption
<1>2. /\ wire[Host] # <<>> /\ m.cmd = "OPEN"
      /\ UNCHANGED <<online, broken, opened, faults, chunks, written, ended>>
  BY <1>1 DEF HandleOpen, Handles, countVars, historyVars
<1>3. m \in Packets
  BY <1>1, <1>2 DEF Received
<1>4. m.arg0 \in 0 .. MaxOpens /\ m.data[2] \in 0 .. MaxOpens
  BY <1>3, ReceivedIds
<1>5. HistoryOK'
  BY <1>1, <1>2 DEF HistoryOK
<1>6. CASE /\ local_socket_next_id' = [local_socket_next_id EXCEPT ![Device] = i + 1]
           /\ socket' = [socket EXCEPT ![Device][i] =
                           [NewSocket(m.arg0, m.data[2]) EXCEPT !.reading = TRUE]]
           /\ Replies(Device, <<Okay(i, m.arg0)>>)
  <2>1. i \in 1 .. MaxOpens + 1 /\ opened \in 0 .. MaxOpens
    BY <1>1 DEF CountersOK
  <2>2. i \in 0 .. MaxOpens + 1 /\ 0 \in 0 .. MaxOpens
    BY <1>1, <2>1
  <2>3. /\ m.arg0 # 0 /\ i <= m.data[2] /\ m.data[2] <= opened
    <3>1. OpensFrom(wire[Host], i, opened)
      BY <1>1 DEF Numbered
    <3> QED
      BY <1>1, <1>2, <3>1, OpensTail DEF Received
  <2>4. i \in Ids /\ i \in 0 .. MaxOpens /\ m.data[2] \in 1 .. MaxOpens
    BY <1>1, <1>4, <2>1, <2>3 DEF Ids
  <2>5. <<Okay(i, m.arg0)>> \in Seq(Packets) /\ NoOpens(<<Okay(i, m.arg0)>>)
    BY <1>4, <2>4, OkayPackets
  <2>6. WireOK' /\ OpensFrom(wire'[Host], i + 1, opened)
    BY <1>1, <1>2, <1>6, <2>5, RepliesKeep DEF WireOK
  <2>7. /\ local_socket_next_id' \in [Peers -> 1 .. MaxOpens + 1]
        /\ local_socket_next_id'[Device] = i + 1
        /\ \A p \in Peers : local_socket_next_id'[p] <= opened + 1
    BY <1>1, <1>4, <1>6, <2>1, <2>3, SMTT(30) DEF CountersOK, Numbered
  <2>8. CountersOK' /\ Numbered'
    BY <1>1, <1>2, <2>6, <2>7 DEF CountersOK, Numbered
  <2>9. SocketsWhole' /\ DeviceConnected'
    <3> DEFINE s == NewSocket(m.arg0, m.data[2])
               t == [s EXCEPT !.reading = TRUE]
    <3>1. Whole(s) /\ s.state = "open" /\ s.peer = m.arg0
      BY <1>4, <2>4, NewSocketWhole
    <3>2. Whole(t) /\ t.state = "open" /\ t.peer = m.arg0
      <4> HIDE DEF s
      <4>1. s \in Sockets
        BY <3>1 DEF Whole
      <4>2. t \in Sockets /\ t.state = "open" /\ t.peer = m.arg0 /\ t.stream = s.stream
        BY <3>1, <4>1 DEF Sockets
      <4> QED
        BY <3>1, <4>2 DEF Whole
    <3>3. socket' = [socket EXCEPT ![Device][i] = t]
      BY <1>6
    <3> HIDE DEF t, s, i, m
    <3> QED
      BY <1>1, <2>3, <2>4, <3>2, <3>3, OneSocketChanges
  <2> QED
    BY <1>5, <2>6, <2>8, <2>9, TypeParts DEF IInv
<1>7. CASE /\ Replies(Device, <<Packet("CLSE", 0, m.arg0)>>)
           /\ UNCHANGED <<socket, local_socket_next_id>>
  <2>1. Packet("CLSE", 0, m.arg0) \in Packets /\ Packet("CLSE", 0, m.arg0).cmd = "CLSE"
    BY <1>1, <1>4, PacketTypes
  <2>2. WireOK' /\ Numbered'
    BY <1>1, <1>2, <1>7, <2>1, OnePacket, ReplyStep
  <2>3. SocketsWhole' /\ DeviceConnected' /\ CountersOK'
    BY <1>1, <1>2, <1>7 DEF SocketsWhole, DeviceConnected, CountersOK
  <2> QED
    BY <1>5, <2>2, <2>3, TypeParts DEF IInv
<1> QED
  BY <1>6, <1>7 DEF HandleOpen

LEMMA HandleOkayKeeps ==
  ASSUME IInv, NEW p \in Peers, HandleOkay(p)
  PROVE  IInv'
<1> DEFINE m == Received(p)
           i == m.arg1
           s == socket[p][i]
           t == [s EXCEPT !.peer = IF @ = 0 THEN m.arg0 ELSE @, !.reading = TRUE]
<1>1. /\ SocketsWhole /\ CountersOK /\ HistoryOK /\ DeviceConnected
  BY InvParts
<1>2. /\ wire[Other(p)] # <<>> /\ i \in Ids /\ s.state = "open"
      /\ socket' = [socket EXCEPT ![p][i].peer = IF @ = 0 THEN m.arg0 ELSE @,
                                  ![p][i].reading = TRUE]
      /\ Replies(p, <<>>)
      /\ UNCHANGED <<endVars, countVars, historyVars>>
  BY DEF HandleOkay, Handles, Finds
<1>3. WireOK' /\ Numbered' /\ m \in Packets
  BY <1>2, OnePacket, ReplyStep DEF endVars, countVars
<1>4. socket \in [Peers -> [Ids -> Sockets]] /\ Whole(s) /\ s \in Sockets
  BY <1>1, <1>2 DEF SocketsWhole
<1>5. socket' = [socket EXCEPT ![p][i] = t]
  BY <1>2, <1>4
<1>6. /\ Whole(t) /\ t.state = "open" /\ (s.peer # 0 => t.peer = s.peer)
  <2>1. m.arg0 \in 0 .. MaxOpens
    BY <1>3, ReceivedIds
  <2> HIDE DEF s, m
  <2>2. /\ t \in Sockets /\ t.state = s.state /\ t.stream = s.stream
        /\ (s.peer # 0 => t.peer = s.peer)
    BY <1>4, <2>1 DEF Sockets
  <2> QED
    BY <1>2, <1>4, <2>2 DEF Whole
<1>7. p = Device => s.peer # 0
  BY <1>1, <1>2 DEF DeviceConnected
<1>8. SocketsWhole' /\ DeviceConnected'
  <2>1. p = Device => t.peer # 0
    BY <1>6, <1>7
  <2> HIDE DEF t, s, i, m
  <2> QED
    BY <1>1, <1>2, <1>5, <1>6, <2>1, OneSocketChanges
<1>9. CountersOK' /\ HistoryOK'
  BY <1>1, <1>2 DEF CountersOK, HistoryOK, endVars, countVars, historyVars
<1> QED
  BY <1>3, <1>8, <1>9, TypeParts DEF IInv

(* A socket in use belongs to a stream.                                      *)
LEMMA InUse ==
  ASSUME SocketsWhole, NEW p \in Peers, NEW i \in Ids, socket[p][i].state # "free"
  PROVE  /\ Whole(socket[p][i]) /\ socket[p][i] \in Sockets
         /\ socket[p][i].stream \in Streams /\ socket[p][i].pending \in Seq(Data)
         /\ socket[p][i].peer \in 0 .. MaxOpens
<1>1. Whole(socket[p][i]) /\ socket[p][i] \in Sockets
  BY DEF SocketsWhole, Whole
<1>2. /\ socket[p][i].stream \in 0 .. MaxOpens /\ socket[p][i].pending \in Seq(Data)
      /\ socket[p][i].peer \in 0 .. MaxOpens
  BY <1>1 DEF Sockets
<1> QED
  BY <1>1, <1>2, AdbStreamAssumption DEF Whole, Streams

(* A socket is closed, and its end notes why.                                *)
LEMMA CloseOne ==
  ASSUME SocketsWhole, DeviceConnected, HistoryOK, NEW p \in Peers, NEW i \in Ids,
         socket[p][i].state # "free",
         socket' = [socket EXCEPT ![p][i] = Closed(@)],
         NEW why \in {"eof", "error", "clse"}, Ends(p, socket[p][i].stream, why)
  PROVE  /\ SocketsWhole' /\ DeviceConnected'
         /\ ended' \in [Peers -> [Streams -> {"no", "eof", "error", "clse", "offline", "early"}]]
         /\ CloseMessage(socket[p][i]) \in Seq(Packets) /\ NoOpens(CloseMessage(socket[p][i]))
<1>1. Whole(socket[p][i])
  BY InUse
<1>2. Whole(Closed(socket[p][i])) /\ Closed(socket[p][i]).state # "open"
  BY <1>1, ClosedWhole
<1>3. socket' = [socket EXCEPT ![p][i] = Closed(socket[p][i])]
  BY DEF SocketsWhole
<1>4. SocketsWhole' /\ DeviceConnected'
  BY <1>2, <1>3, OneSocketChanges
<1>5. ended' \in [Peers -> [Streams -> {"no", "eof", "error", "clse", "offline", "early"}]]
  BY DEF Ends, HistoryOK
<1> QED
  BY <1>1, <1>4, <1>5, CloseMessages

LEMMA HandleCloseKeeps ==
  ASSUME IInv, NEW p \in Peers, HandleClose(p)
  PROVE  IInv'
<1> DEFINE i == Received(p).arg1
           s == socket[p][i]
<1>1. SocketsWhole /\ CountersOK /\ HistoryOK /\ DeviceConnected
  BY InvParts
<1>2. /\ wire[Other(p)] # <<>> /\ i \in Ids /\ s.state = "open"
      /\ socket' = [socket EXCEPT ![p][i] = Closed(@)]
      /\ Ends(p, s.stream, "clse")
      /\ Replies(p, CloseMessage(s))
      /\ UNCHANGED <<endVars, countVars, chunks, written>>
  BY DEF HandleClose, Handles, Finds
<1>3. /\ SocketsWhole' /\ DeviceConnected'
      /\ ended' \in [Peers -> [Streams -> {"no", "eof", "error", "clse", "offline", "early"}]]
      /\ CloseMessage(s) \in Seq(Packets) /\ NoOpens(CloseMessage(s))
  BY <1>1, <1>2, CloseOne
<1>4. WireOK' /\ Numbered'
  BY <1>2, <1>3, ReplyStep DEF endVars, countVars
<1>5. CountersOK' /\ HistoryOK'
  BY <1>1, <1>2, <1>3 DEF CountersOK, HistoryOK, endVars, countVars
<1> QED
  BY <1>3, <1>4, <1>5, TypeParts DEF IInv

LEMMA IgnoreKeeps ==
  ASSUME IInv, NEW p \in Peers, Ignore(p)
  PROVE  IInv'
<1>1. SocketsWhole /\ CountersOK /\ HistoryOK /\ DeviceConnected
  BY InvParts
<1>2. /\ wire[Other(p)] # <<>> /\ Replies(p, <<>>)
      /\ UNCHANGED <<socket, endVars, countVars, historyVars>>
  BY DEF Ignore, Handles
<1>3. WireOK' /\ Numbered'
  BY <1>2, OnePacket, ReplyStep DEF endVars, countVars
<1>4. SocketsWhole' /\ DeviceConnected' /\ CountersOK' /\ HistoryOK'
  BY <1>1, <1>2 DEF SocketsWhole, DeviceConnected, CountersOK, HistoryOK, endVars,
                    countVars, historyVars
<1> QED
  BY <1>3, <1>4, TypeParts DEF IInv

LEMMA HandleWriteKeeps ==
  ASSUME IInv, NEW p \in Peers, HandleWrite(p)
  PROVE  IInv'
<1> DEFINE m == Received(p)
           i == m.arg1
           s == socket[p][i]
<1>1. SocketsWhole /\ CountersOK /\ HistoryOK /\ DeviceConnected
      /\ wire[Other(p)] \in Seq(Packets)
  BY InvParts, TwoPeers
<1>2. /\ wire[Other(p)] # <<>> /\ i \in Ids /\ s.state = "open"
      /\ UNCHANGED <<endVars, countVars, chunks>>
  BY DEF HandleWrite, Handles, Finds
<1>3. m \in Packets
  BY <1>1, <1>2 DEF Received
<1>4. i \in 0 .. MaxOpens /\ m.arg0 \in 0 .. MaxOpens /\ m.data \in Data
  BY <1>3, ReceivedIds
<1>5. /\ Whole(s) /\ s \in Sockets /\ s.stream \in Streams /\ s.pending \in Seq(Data)
  BY <1>1, <1>2, InUse
<1>6. CountersOK'
  BY <1>1, <1>2 DEF CountersOK, endVars, countVars
<1>7. CASE /\ written' = [written EXCEPT ![p][s.stream] = Append(@, m.data)]
           /\ Replies(p, <<Okay(m.arg1, m.arg0)>>)
           /\ UNCHANGED <<socket, ended>>
  <2>1. WireOK' /\ Numbered'
    BY <1>2, <1>4, <1>7, OkayPackets, ReplyStep DEF endVars, countVars
  <2>2. SocketsWhole' /\ DeviceConnected'
    BY <1>1, <1>7 DEF SocketsWhole, DeviceConnected
  <2>3. HistoryOK'
    <3> HIDE DEF m, i, s
    <3>1. written[p][s.stream] \in Seq(Data)
      BY <1>1, <1>5 DEF HistoryOK
    <3>2. Append(written[p][s.stream], m.data) \in Seq(Data)
      BY <1>4, <3>1
    <3> QED
      BY <1>1, <1>2, <1>5, <1>7, <3>2 DEF HistoryOK
  <2> QED
    BY <1>6, <2>1, <2>2, <2>3, TypeParts DEF IInv
<1>8. CASE /\ socket' = [socket EXCEPT ![p][m.arg1].pending = Append(@, m.data)]
           /\ Replies(p, <<>>)
           /\ UNCHANGED <<written, ended>>
  <2> DEFINE t == [s EXCEPT !.pending = Append(s.pending, m.data)]
  <2>1. WireOK' /\ Numbered'
    BY <1>2, <1>8, OnePacket, ReplyStep DEF endVars, countVars
  <2>2. socket' = [socket EXCEPT ![p][i] = t]
    BY <1>1, <1>2, <1>8 DEF SocketsWhole
  <2>3. Whole(t) /\ t.state = "open" /\ t.peer = s.peer
    <3> HIDE DEF m, i, s
    <3>1. Append(s.pending, m.data) \in Seq(Data)
      BY <1>4, <1>5
    <3>2. /\ t \in Sockets /\ t.state = s.state /\ t.stream = s.stream /\ t.peer = s.peer
      BY <1>5, <3>1 DEF Sockets
    <3> QED
      BY <1>2, <1>5, <3>2 DEF Whole
  <2>4. p = Device => s.peer # 0
    BY <1>1, <1>2 DEF DeviceConnected
  <2>5. SocketsWhole' /\ DeviceConnected'
    <3>1. p = Device => t.peer # 0
      BY <2>3, <2>4
    <3> HIDE DEF t, s, i, m
    <3> QED
      BY <1>1, <1>2, <2>2, <2>3, <3>1, OneSocketChanges
  <2>6. HistoryOK'
    BY <1>1, <1>2, <1>8 DEF HistoryOK
  <2> QED
    BY <1>6, <2>1, <2>5, <2>6, TypeParts DEF IInv
<1>9. CASE /\ socket' = [socket EXCEPT ![p][m.arg1] = Closed(@)]
           /\ Ends(p, s.stream, "error")
           /\ Replies(p, CloseMessage(s))
           /\ UNCHANGED written
  <2>1. /\ SocketsWhole' /\ DeviceConnected'
        /\ ended' \in [Peers -> [Streams -> {"no", "eof", "error", "clse", "offline", "early"}]]
        /\ CloseMessage(s) \in Seq(Packets) /\ NoOpens(CloseMessage(s))
    BY <1>1, <1>2, <1>9, CloseOne
  <2>2. WireOK' /\ Numbered'
    BY <1>2, <1>9, <2>1, ReplyStep DEF endVars, countVars
  <2>3. HistoryOK'
    BY <1>1, <1>2, <1>9, <2>1 DEF HistoryOK
  <2> QED
    BY <1>6, <2>1, <2>2, <2>3, TypeParts DEF IInv
<1> QED
  BY <1>7, <1>8, <1>9 DEF HandleWrite

LEMMA WriteEventKeeps ==
  ASSUME IInv, NEW p \in Peers, NEW i \in Ids, WriteEvent(p, i)
  PROVE  IInv'
<1> DEFINE s == socket[p][i]
<1>1. SocketsWhole /\ CountersOK /\ HistoryOK /\ DeviceConnected
  BY InvParts
<1>2. /\ s.state # "free" /\ s.pending # <<>>
      /\ UNCHANGED <<endVars, countVars, chunks>>
  BY DEF WriteEvent
<1>3. /\ Whole(s) /\ s \in Sockets /\ s.stream \in Streams /\ s.pending \in Seq(Data)
      /\ s.peer \in 0 .. MaxOpens
  BY <1>1, <1>2, InUse
<1>4. CountersOK'
  BY <1>1, <1>2 DEF CountersOK, endVars, countVars
<1>5. ASSUME NEW n \in 1 .. Len(s.pending), Drain(p, i, n), UNCHANGED ended
      PROVE  IInv'
  <2> DEFINE rest == SubSeq(s.pending, n + 1, Len(s.pending))
             t == IF rest = <<>> /\ s.state = "closing" THEN Closed(s)
                  ELSE [s EXCEPT !.pending = rest]
             answer == IF rest = <<>> /\ s.state = "open" THEN <<Okay(i, s.peer)>> ELSE <<>>
  <2>1. /\ written' = [written EXCEPT ![p][s.stream] = @ \o SubSeq(s.pending, 1, n)]
        /\ Sends(p, answer)
        /\ socket' = [socket EXCEPT ![p][i] =
                        IF rest = <<>> /\ s.state = "closing" THEN Closed(@)
                        ELSE [@ EXCEPT !.pending = rest]]
    BY <1>5 DEF Drain
  <2>2. socket' = [socket EXCEPT ![p][i] = t]
    BY <1>1, <2>1 DEF SocketsWhole
  <2>3. rest \in Seq(Data) /\ SubSeq(s.pending, 1, n) \in Seq(Data)
    <3> HIDE DEF s
    <3> QED
      BY <1>3, <1>5
  <2>4. Whole(t) /\ (t.state = "open" => s.state = "open" /\ t.peer = s.peer)
    <3>1. CASE rest = <<>> /\ s.state = "closing"
      BY <1>2, <1>3, <3>1, ClosedWhole
    <3>2. CASE ~(rest = <<>> /\ s.state = "closing")
      <4> HIDE DEF s, rest
      <4>1. /\ [s EXCEPT !.pending = rest] \in Sockets
            /\ [s EXCEPT !.pending = rest].state = s.state
            /\ [s EXCEPT !.pending = rest].peer = s.peer
            /\ [s EXCEPT !.pending = rest].reading = s.reading
            /\ [s EXCEPT !.pending = rest].pending = rest
            /\ [s EXCEPT !.pending = rest].stream = s.stream
        BY <1>3, <2>3 DEF Sockets
      <4> QED
        BY <1>3, <3>2, <4>1 DEF Whole
    <3> QED
      BY <3>1, <3>2
  <2>5. p = Device /\ t.state = "open" => t.peer # 0
    BY <1>1, <2>4 DEF DeviceConnected
  <2>6. SocketsWhole' /\ DeviceConnected'
    <3> HIDE DEF t, s
    <3> QED
      BY <1>1, <2>2, <2>4, <2>5, OneSocketChanges
  <2>7. answer \in Seq(Packets) /\ NoOpens(answer)
    <3>1. i \in 0 .. MaxOpens
      BY DEF Ids
    <3> QED
      BY <1>3, <3>1, OkayPackets, OnePacket
  <2>8. WireOK' /\ Numbered'
    <3> HIDE DEF answer
    <3> QED
      BY <1>2, <2>1, <2>7, SendStep DEF endVars, countVars
  <2>9. HistoryOK'
    <3> HIDE DEF s
    <3>1. written[p][s.stream] \in Seq(Data)
      BY <1>1, <1>3 DEF HistoryOK
    <3>2. written[p][s.stream] \o SubSeq(s.pending, 1, n) \in Seq(Data)
      BY <2>3, <3>1
    <3> QED
      BY <1>1, <1>2, <1>3, <1>5, <2>1, <3>2 DEF HistoryOK
  <2> QED
    BY <1>4, <2>6, <2>8, <2>9, TypeParts DEF IInv
<1>6. CASE /\ socket' = [socket EXCEPT ![p][i] = Closed(@)]
           /\ Ends(p, s.stream, "error")
           /\ Sends(p, CloseMessage(s))
           /\ UNCHANGED written
  <2>1. /\ SocketsWhole' /\ DeviceConnected'
        /\ ended' \in [Peers -> [Streams -> {"no", "eof", "error", "clse", "offline", "early"}]]
        /\ CloseMessage(s) \in Seq(Packets) /\ NoOpens(CloseMessage(s))
    BY <1>1, <1>2, <1>6, CloseOne
  <2>2. WireOK' /\ Numbered'
    BY <1>2, <1>6, <2>1, SendStep DEF endVars, countVars
  <2>3. HistoryOK'
    BY <1>1, <1>2, <1>6, <2>1 DEF HistoryOK
  <2> QED
    BY <1>4, <2>1, <2>2, <2>3, TypeParts DEF IInv
<1> QED
  BY <1>5, <1>6 DEF WriteEvent

LEMMA ReadEventKeeps ==
  ASSUME IInv, NEW p \in Peers, NEW i \in Ids, ReadEvent(p, i)
  PROVE  IInv'
<1> DEFINE s == socket[p][i]
           n == chunks[p][s.stream] + 1
           write == [Packet("WRTE", i, s.peer) EXCEPT !.data = <<p, s.stream, n>>]
           Chunk == n <= MaxReads[p][s.stream]
                    /\ chunks' = [chunks EXCEPT ![p][s.stream] = n]
<1>1. SocketsWhole /\ CountersOK /\ HistoryOK /\ DeviceConnected /\ MaxOpens \in Nat \ {0}
  BY InvParts
<1>2. /\ s.state = "open" /\ s.reading
      /\ UNCHANGED <<endVars, countVars, written>>
  BY DEF ReadEvent
<1>3. /\ Whole(s) /\ s \in Sockets /\ s.stream \in Streams /\ s.pending \in Seq(Data)
      /\ s.peer \in 0 .. MaxOpens
  BY <1>1, <1>2, InUse
<1>4. CountersOK'
  BY <1>1, <1>2 DEF CountersOK, endVars, countVars
<1>5. n \in Nat
  <2>1. chunks[p][s.stream] \in Nat
    BY <1>1, <1>3 DEF HistoryOK
  <2> QED
    BY <2>1
<1>6. write \in Packets /\ write.cmd = "WRTE"
  <2>1. <<p, s.stream, n>> \in Data /\ i \in 0 .. MaxOpens
    BY <1>1, <1>3, <1>5 DEF Data, Streams, Ids
  <2> QED
    BY <1>3, <2>1, PacketTypes
<1>7. <<write>> \in Seq(Packets) /\ NoOpens(<<write>>)
  BY <1>6, OnePacket
<1>8. Chunk => chunks' \in [Peers -> [Streams -> Nat]]
  BY <1>1, <1>3, <1>5 DEF HistoryOK
<1>9. CASE /\ Chunk
           /\ socket' = [socket EXCEPT ![p][i].reading = FALSE]
           /\ Sends(p, <<write>>)
           /\ UNCHANGED ended
  <2> DEFINE t == [s EXCEPT !.reading = FALSE]
  <2>1. WireOK' /\ Numbered'
    BY <1>2, <1>7, <1>9, SendStep DEF endVars, countVars
  <2>2. socket' = [socket EXCEPT ![p][i] = t]
    BY <1>1, <1>9 DEF SocketsWhole
  <2>3. Whole(t) /\ t.state = "open" /\ t.peer = s.peer
    <3> HIDE DEF s
    <3>1. t \in Sockets /\ t.state = s.state /\ t.stream = s.stream /\ t.peer = s.peer
      BY <1>3 DEF Sockets
    <3> QED
      BY <1>2, <1>3, <3>1 DEF Whole
  <2>4. p = Device => t.peer # 0
    BY <1>1, <1>2, <2>3 DEF DeviceConnected
  <2>5. SocketsWhole' /\ DeviceConnected'
    <3> HIDE DEF t, s
    <3> QED
      BY <1>1, <2>2, <2>3, <2>4, OneSocketChanges
  <2>6. HistoryOK'
    BY <1>1, <1>2, <1>8, <1>9 DEF HistoryOK
  <2> QED
    BY <1>4, <2>1, <2>5, <2>6, TypeParts DEF IInv
<1>10. ASSUME socket' = [socket EXCEPT ![p][i] = Closed(@)], Ends(p, s.stream, "eof")
       PROVE  /\ SocketsWhole' /\ DeviceConnected'
              /\ ended' \in [Peers -> [Streams -> {"no", "eof", "error", "clse", "offline", "early"}]]
              /\ CloseMessage(s) \in Seq(Packets) /\ NoOpens(CloseMessage(s))
  BY <1>1, <1>2, <1>10, CloseOne
<1>11. CASE /\ Chunk
            /\ socket' = [socket EXCEPT ![p][i] = Closed(@)]
            /\ Sends(p, <<write>> \o CloseMessage(s))
            /\ Ends(p, s.stream, "eof")
  <2>1. /\ <<write>> \o CloseMessage(s) \in Seq(Packets)
        /\ NoOpens(<<write>> \o CloseMessage(s))
    <3> HIDE DEF write, s
    <3> QED
      BY <1>6, <1>7, <1>10, <1>11 DEF NoOpens, s
  <2>2. WireOK' /\ Numbered'
    BY <1>2, <1>11, <2>1, SendStep DEF endVars, countVars
  <2>3. HistoryOK'
    BY <1>1, <1>2, <1>8, <1>10, <1>11 DEF HistoryOK
  <2> QED
    BY <1>4, <1>10, <1>11, <2>2, <2>3, TypeParts DEF IInv
<1>12. CASE /\ socket' = [socket EXCEPT ![p][i] = Closed(@)]
            /\ Sends(p, CloseMessage(s))
            /\ Ends(p, s.stream, "eof")
            /\ UNCHANGED chunks
  <2>1. WireOK' /\ Numbered'
    BY <1>2, <1>10, <1>12, SendStep DEF endVars, countVars
  <2>2. HistoryOK'
    BY <1>1, <1>2, <1>10, <1>12 DEF HistoryOK
  <2> QED
    BY <1>4, <1>10, <1>12, <2>1, <2>2, TypeParts DEF IInv
<1> QED
  BY <1>9, <1>11, <1>12 DEF ReadEvent

LEMMA SmallPackets ==
  /\ <<Connection>> \in Seq(Packets) /\ NoOpens(<<Connection>>)
  /\ Packet("SYNC", 0, 0) \in Packets
  /\ <<Packet("SYNC", 0, 0)>> \in Seq(Packets) /\ NoOpens(<<Packet("SYNC", 0, 0)>>)
<1>1. 0 \in 0 .. MaxOpens
  BY AdbStreamAssumption
<1>2. /\ Packet("SYNC", 0, 0) \in Packets /\ Packet("SYNC", 0, 0).cmd = "SYNC"
      /\ Connection \in Packets /\ Connection.cmd = "CNXN"
  BY <1>1, PacketTypes
<1> QED
  BY <1>2, OnePacket

LEMMA HandleConnectKeeps ==
  ASSUME IInv, NEW p \in Peers, HandleConnect(p)
  PROVE  IInv'
<1> DEFINE closing == IF online[p] THEN Disconnected(p) ELSE {}
           packets == IF p = Device THEN <<Connection>> ELSE <<>>
<1>1. SocketsWhole /\ CountersOK /\ HistoryOK /\ DeviceConnected
  BY InvParts
<1>2. /\ wire[Other(p)] # <<>> /\ CloseAll(p, closing) /\ Replies(p, packets)
      /\ online' = [online EXCEPT ![p] = TRUE]
      /\ UNCHANGED <<local_socket_next_id, broken, countVars, chunks, written>>
  BY DEF HandleConnect, Handles
<1>3. closing \in SUBSET OpenSockets(p)
  BY DEF Disconnected
<1>4. packets \in Seq(Packets) /\ NoOpens(packets)
  BY SmallPackets, OnePacket
<1> HIDE DEF closing, packets
<1>5. WireOK' /\ Numbered'
  BY <1>2, <1>4, ReplyStep DEF countVars
<1>6. /\ SocketsWhole' /\ DeviceConnected'
      /\ ended' \in [Peers -> [Streams -> {"no", "eof", "error", "clse", "offline", "early"}]]
  BY <1>1, <1>2, <1>3, CloseAllKeeps
<1>7. CountersOK' /\ HistoryOK'
  BY <1>1, <1>2, <1>6 DEF CountersOK, HistoryOK, countVars
<1> QED
  BY <1>5, <1>6, <1>7, TypeParts DEF IInv

LEMMA HandleSyncKeeps ==
  ASSUME IInv, NEW p \in Peers, HandleSync(p)
  PROVE  IInv'
<1> DEFINE low == local_socket_next_id[Device]
           w == IF p = Host THEN Append(wire[p], Connection) ELSE wire[p]
<1>1. /\ SocketsWhole /\ WireOK /\ CountersOK /\ HistoryOK /\ DeviceConnected /\ Numbered
      /\ opened \in Nat /\ low \in Nat /\ wire[p] \in Seq(Packets)
      /\ Host \in Peers /\ Device \in Peers /\ Host # Device
      /\ Other(p) \in Peers /\ wire[Other(p)] \in Seq(Packets) /\ Other(p) # p
  BY InvParts, TwoPeers, AdbStreamAssumption
<1>2. /\ wire[Other(p)] # <<>> /\ CloseAll(p, OpenSockets(p))
      /\ online' = [online EXCEPT ![p] = FALSE] /\ broken' = [broken EXCEPT ![p] = FALSE]
      /\ wire' = [wire EXCEPT ![Other(p)] = Tail(@),
                              ![p] = IF p = Host THEN Append(@, Connection) ELSE @]
      /\ UNCHANGED <<local_socket_next_id, countVars, chunks, written>>
  BY DEF HandleSync, Handles
<1>3. OpensFrom(wire[Host], low, opened)
  BY <1>1 DEF Numbered
<1>4. /\ Tail(wire[Other(p)]) \in Seq(Packets) /\ w \in Seq(Packets)
      /\ p = Device => OpensFrom(Tail(wire[Other(p)]), low, opened)
      /\ p = Host => OpensFrom(w, low, opened)
  <2>1. Tail(wire[Other(p)]) \in Seq(Packets)
    BY <1>1, <1>2
  <2>2. CASE p = Device
    <3>1. Other(p) = Host
      BY <2>2, TwoPeers
    <3>2. OpensFrom(Tail(wire[Other(p)]), low, opened)
      BY <1>1, <1>2, <1>3, <3>1, OpensTail
    <3> QED
      BY <1>1, <2>1, <2>2, <3>2
  <2>3. CASE p = Host
    <3>1. w = wire[Host] \o <<Connection>>
      BY <1>1, <2>3, SmallPackets
    <3>2. OpensFrom(wire[Host] \o <<Connection>>, low, opened)
      BY <1>1, <1>3, <2>3, SmallPackets, OpensJoined
    <3>3. w \in Seq(Packets)
      BY <1>1, <2>3, <3>1, SmallPackets
    <3> QED
      BY <1>1, <2>1, <2>3, <3>1, <3>2, <3>3
  <2> QED
    BY <2>2, <2>3, TwoPeers
<1>5. WireOK' /\ Numbered'
  <2>1. /\ wire'[p] = w /\ wire'[Other(p)] = Tail(wire[Other(p)])
        /\ wire' \in [Peers -> Seq(Packets)]
    BY <1>1, <1>2, <1>4 DEF WireOK
  <2>2. OpensFrom(wire'[Host], low, opened)
    BY <1>4, <2>1, TwoPeers
  <2> QED
    BY <1>1, <1>2, <2>1, <2>2 DEF WireOK, Numbered, countVars
<1>6. /\ SocketsWhole' /\ DeviceConnected'
      /\ ended' \in [Peers -> [Streams -> {"no", "eof", "error", "clse", "offline", "early"}]]
  BY <1>1, <1>2, CloseAllKeeps
<1>7. CountersOK' /\ HistoryOK'
  BY <1>1, <1>2, <1>6 DEF CountersOK, HistoryOK, countVars
<1> QED
  BY <1>5, <1>6, <1>7, TypeParts DEF IInv

LEMMA UnplugKeeps ==
  ASSUME IInv, Unplug
  PROVE  IInv'
<1> DEFINE low == local_socket_next_id[Device]
           sync == Packet("SYNC", 0, 0)
<1>1. /\ SocketsWhole /\ WireOK /\ CountersOK /\ HistoryOK /\ DeviceConnected /\ Numbered
      /\ opened \in Nat /\ low \in Nat
      /\ wire[Host] \in Seq(Packets) /\ wire[Device] \in Seq(Packets)
      /\ Host \in Peers /\ Device \in Peers
  BY InvParts, TwoPeers
<1>2. /\ faults < MaxFaults /\ faults' = faults + 1
      /\ broken' = [p \in Peers |-> TRUE]
      /\ UNCHANGED <<socket, local_socket_next_id, online, opened, historyVars>>
  BY DEF Unplug
<1>3. PICK n \in 0 .. Len(wire[Host]), m \in 0 .. Len(wire[Device]) :
        wire' = [p \in Peers |-> Append(SubSeq(wire[p], 1, IF p = Host THEN n ELSE m), sync)]
  BY DEF Unplug
<1>4. OpensFrom(wire[Host], low, opened)
  BY <1>1 DEF Numbered
<1>5. /\ SubSeq(wire[Host], 1, n) \in Seq(Packets)
      /\ OpensFrom(SubSeq(wire[Host], 1, n), low, opened)
  BY <1>1, <1>4, OpensPrefix
<1>6. SubSeq(wire[Device], 1, m) \in Seq(Packets)
  BY <1>1
<1>7. WireOK' /\ OpensFrom(wire'[Host], low, opened)
  <2>1. wire'[Host] = SubSeq(wire[Host], 1, n) \o <<sync>>
    BY <1>1, <1>3, <1>5, SmallPackets
  <2>2. OpensFrom(SubSeq(wire[Host], 1, n) \o <<sync>>, low, opened)
    BY <1>1, <1>5, SmallPackets, OpensJoined
  <2>3. \A p \in Peers : Append(SubSeq(wire[p], 1, IF p = Host THEN n ELSE m), sync) \in Seq(Packets)
    <3>1. /\ Append(SubSeq(wire[Host], 1, n), sync) \in Seq(Packets)
          /\ Append(SubSeq(wire[Device], 1, m), sync) \in Seq(Packets)
      BY <1>5, <1>6, SmallPackets
    <3> QED
      BY <3>1, TwoPeers
  <2> QED
    BY <1>3, <2>1, <2>2, <2>3 DEF WireOK
<1>8. CountersOK' /\ Numbered'
  <2>1. faults' \in 0 .. MaxFaults
    BY <1>1, <1>2, AdbStreamAssumption DEF CountersOK
  <2> QED
    BY <1>1, <1>2, <1>7, <2>1 DEF CountersOK, Numbered
<1>9. SocketsWhole' /\ DeviceConnected' /\ HistoryOK'
  BY <1>1, <1>2 DEF SocketsWhole, DeviceConnected, HistoryOK, historyVars
<1> QED
  BY <1>7, <1>8, <1>9, TypeParts DEF IInv

LEMMA HostRestartKeeps ==
  ASSUME IInv, HostRestart
  PROVE  IInv'
<1> DEFINE low == local_socket_next_id[Device]
<1>1. /\ SocketsWhole /\ WireOK /\ CountersOK /\ HistoryOK /\ DeviceConnected /\ Numbered
      /\ opened \in Nat /\ low \in Nat
      /\ wire[Host] \in Seq(Packets) /\ wire[Device] \in Seq(Packets)
      /\ Host \in Peers /\ Device \in Peers /\ Host # Device
  BY InvParts, TwoPeers, AdbStreamAssumption
<1>2. /\ faults < MaxFaults /\ faults' = faults + 1
      /\ socket' = [socket EXCEPT ![Host] = [i \in Ids |-> Free]]
      /\ local_socket_next_id' = [local_socket_next_id EXCEPT ![Host] = 1]
      /\ online' = [online EXCEPT ![Host] = FALSE]
      /\ UNCHANGED <<broken, opened, chunks, written>>
  BY DEF HostRestart
<1>3. PICK n \in 0 .. Len(wire[Host]), m \in 1 .. Len(wire[Device]) + 1 :
        wire' = [p \in Peers |-> IF p = Host THEN Append(SubSeq(wire[Host], 1, n), Connection)
                                 ELSE SubSeq(wire[Device], m, Len(wire[Device]))]
  BY DEF HostRestart
<1>4. OpensFrom(wire[Host], low, opened)
  BY <1>1 DEF Numbered
<1>5. /\ SubSeq(wire[Host], 1, n) \in Seq(Packets)
      /\ OpensFrom(SubSeq(wire[Host], 1, n), low, opened)
  BY <1>1, <1>4, OpensPrefix
<1>6. SubSeq(wire[Device], m, Len(wire[Device])) \in Seq(Packets)
  BY <1>1
<1>7. WireOK' /\ OpensFrom(wire'[Host], low, opened)
  <2>1. wire'[Host] = SubSeq(wire[Host], 1, n) \o <<Connection>>
    BY <1>1, <1>3, <1>5, SmallPackets
  <2>2. OpensFrom(SubSeq(wire[Host], 1, n) \o <<Connection>>, low, opened)
    BY <1>1, <1>5, SmallPackets, OpensJoined
  <2>3. Append(SubSeq(wire[Host], 1, n), Connection) \in Seq(Packets)
    BY <1>5, PacketTypes
  <2> QED
    BY <1>3, <1>6, <2>1, <2>2, <2>3 DEF WireOK
<1>8. CountersOK' /\ Numbered'
  <2>1. faults' \in 0 .. MaxFaults /\ 1 \in 1 .. MaxOpens + 1
    BY <1>1, <1>2, AdbStreamAssumption DEF CountersOK
  <2>2. /\ local_socket_next_id' \in [Peers -> 1 .. MaxOpens + 1]
        /\ local_socket_next_id'[Device] = low
        /\ \A p \in Peers : local_socket_next_id'[p] <= opened + 1
    BY <1>1, <1>2, <2>1 DEF CountersOK, Numbered
  <2> QED
    BY <1>1, <1>2, <1>7, <2>1, <2>2 DEF CountersOK, Numbered
<1>9. SocketsWhole' /\ DeviceConnected'
  <2>1. socket \in [Peers -> [Ids -> Sockets]] /\ Free \in Sockets
    BY <1>1, FreeWhole DEF SocketsWhole, Whole
  <2>2. /\ socket' \in [Peers -> [Ids -> Sockets]]
        /\ \A p \in Peers, i \in Ids :
             socket'[p][i] = IF p = Host THEN Free ELSE socket[p][i]
    BY <1>2, <2>1
  <2> QED
    BY <1>1, <2>2, FreeWhole DEF SocketsWhole, DeviceConnected
<1>10. HistoryOK'
  <2>1. ended' = [ended EXCEPT ![Host] =
                    [k \in Streams |-> IF \E i \in Ids : socket[Host][i].stream = k
                                       THEN "offline" ELSE @[k]]]
    BY DEF HostRestart
  <2> QED
    BY <1>1, <1>2, <2>1 DEF HistoryOK
<1> QED
  BY <1>7, <1>8, <1>9, <1>10, TypeParts DEF IInv

-------------------------------------------------------------------------------
(* The theorems.                                                             *)

LEMMA InitHolds == Init => IInv
<1> SUFFICES ASSUME Init
             PROVE  IInv
  OBVIOUS
<1>1. SocketsWhole /\ DeviceConnected
  BY FreeWhole, TwoPeers DEF Init, SocketsWhole, DeviceConnected, Whole
<1>2. WireOK
  BY SmallPackets DEF Init, WireOK
<1>3. CountersOK /\ HistoryOK
  BY AdbStreamAssumption DEF Init, CountersOK, HistoryOK, Ids, Streams
<1>4. Numbered
  <2>1. wire[Host] = <<Connection>>
    BY TwoPeers DEF Init
  <2>2. NoOpens(wire[Host])
    BY <2>1, SmallPackets
  <2>3. OpensFrom(wire[Host], local_socket_next_id[Device], opened)
    BY <2>2 DEF OpensFrom, NoOpens
  <2>4. \A p \in Peers : local_socket_next_id[p] <= opened + 1
    BY DEF Init
  <2> QED
    BY <2>3, <2>4 DEF Numbered
<1> QED
  BY <1>1, <1>2, <1>3, <1>4, TypeParts DEF IInv

LEMMA StepHolds == IInv /\ [Next]_vars => IInv'
<1> SUFFICES ASSUME IInv, [Next]_vars
             PROVE  IInv'
  OBVIOUS
<1>1. CASE Open
  BY <1>1, OpenKeeps
<1>2. ASSUME NEW p \in Peers, HandlePacket(p)
      PROVE  IInv'
  <2>1. CASE p = Device /\ HandleOpen
    BY <2>1, HandleOpenKeeps
  <2>2. CASE HandleOkay(p)
    BY <2>2, HandleOkayKeeps
  <2>3. CASE HandleWrite(p)
    BY <2>3, HandleWriteKeeps
  <2>4. CASE HandleClose(p)
    BY <2>4, HandleCloseKeeps
  <2>5. CASE HandleConnect(p)
    BY <2>5, HandleConnectKeeps
  <2>6. CASE HandleSync(p)
    BY <2>6, HandleSyncKeeps
  <2>7. CASE Ignore(p)
    BY <2>7, IgnoreKeeps
  <2> QED
    BY <1>2, <2>1, <2>2, <2>3, <2>4, <2>5, <2>6, <2>7 DEF HandlePacket
<1>3. ASSUME NEW p \in Peers, NEW i \in Ids, WriteEvent(p, i) \/ ReadEvent(p, i)
      PROVE  IInv'
  BY <1>3, WriteEventKeeps, ReadEventKeeps
<1>4. CASE Unplug
  BY <1>4, UnplugKeeps
<1>5. CASE HostRestart
  BY <1>5, HostRestartKeeps
<1>6. CASE UNCHANGED vars
  <2>1. SocketsWhole /\ WireOK /\ CountersOK /\ HistoryOK /\ DeviceConnected /\ Numbered
    BY InvParts
  <2>2. UNCHANGED <<socket, local_socket_next_id, online, broken, wire, opened, faults,
                    chunks, written, ended>>
    BY <1>6 DEF vars, endVars, countVars, historyVars
  <2>3. SocketsWhole' /\ WireOK' /\ CountersOK' /\ HistoryOK'
    BY <2>1, <2>2 DEF SocketsWhole, WireOK, CountersOK, HistoryOK
  <2>4. DeviceConnected' /\ Numbered'
    BY <2>1, <2>2 DEF DeviceConnected, Numbered
  <2> QED
    BY <2>3, <2>4, TypeParts DEF IInv
<1> QED
  BY <1>1, <1>2, <1>3, <1>4, <1>5, <1>6 DEF Next

LEMMA Always == Spec => []IInv
  BY InitHolds, StepHolds, PTL DEF Spec

(* Every reachable state of the two ends is well formed, for any number of   *)
(* streams, chunks and faults; a socket that is closed with a backlog has    *)
(* nothing but the backlog left (local_socket_close_locked).                 *)
THEOREM TypeCorrect == Spec => []TypeOK
<1>1. IInv => TypeOK
  BY DEF IInv
<1> QED
  BY <1>1, Always, PTL

(* adbd always has a peer to answer through, however often the connection is *)
(* lost or the server restarts (sockets.c:316, adb.c:537).                   *)
THEOREM DevicePeers == Spec => []PeersKnown(Device)
<1>1. IInv => PeersKnown(Device)
  BY DEF IInv, DeviceConnected, PeersKnown
<1> QED
  BY <1>1, Always, PTL

-------------------------------------------------------------------------------
(* Sessions: what holds if a server restarts only when it was heard.         *)

(* A server is not restarted again before its CNXN is answered.             *)
SettledRestart == HostRestart => online[Host]

NoneOpen(p) == \A i \in Ids : socket[p][i].state # "open"

Addressed == {"OKAY", "WRTE", "CLSE"}

(* The SYNC of a broken cable is the last an end gets before a new CNXN.    *)
Syncs(p) ==
  LET q == Other(p) IN
  /\ \A n \in DOMAIN wire[q] : wire[q][n].cmd = "SYNC" =>
       /\ broken[p]
       /\ \A m \in DOMAIN wire[q] : n < m =>
            wire[q][m].cmd = "CNXN" /\ q = Host /\ ~broken[q]
  /\ ~broken[p] /\ broken[q] => wire[q] = <<>> /\ ~online[p]
  /\ broken[p] /\ broken[q] => wire[q] # <<>> /\ wire[q][Len(wire[q])].cmd = "SYNC"

(* An end that is offline has no stream.                                    *)
OfflineCloses == \A p \in Peers : ~online[p] => NoneOpen(p)

(* One CNXN is under way while the server is offline; behind it there is     *)
(* nothing of the sessions before.                                           *)
Connecting ==
  /\ online[Host] => \A p \in Peers : \A n \in DOMAIN wire[p] : wire[p][n].cmd # "CNXN"
  /\ \A n, m \in DOMAIN wire[Host] : wire[Host][n].cmd = "CNXN" /\ n < m =>
       /\ wire[Host][m].cmd \in {"SYNC", "CNXN"}
       /\ wire[Host][m].cmd = "CNXN" =>
            \E l \in DOMAIN wire[Host] : n < l /\ l < m /\ wire[Host][l].cmd = "SYNC"
  /\ \A n \in DOMAIN wire[Device] : wire[Device][n].cmd = "CNXN" =>
       /\ NoneOpen(Device)
       /\ \A m \in DOMAIN wire[Host] : wire[Host][m].cmd = "SYNC"
       /\ \A m \in DOMAIN wire[Device] : n < m => wire[Device][m].cmd = "SYNC"

(* The stream an id stands for as long as the server lives.                  *)
StreamOf(i) == i + opened + 1 - local_socket_next_id[Host]

HostIds ==
  \A i \in Ids : socket[Host][i].state # "free" =>
    i < local_socket_next_id[Host] /\ socket[Host][i].stream = StreamOf(i)

DeviceIds ==
  \A j \in Ids : LET s == socket[Device][j] IN s.state # "free" =>
    /\ j < local_socket_next_id[Device] /\ s.stream <= opened
    /\ \A l \in Ids : socket[Device][l].state # "free" /\ socket[Device][l].stream = s.stream => l = j
    /\ s.state = "open" /\ online[Host] => s.stream = StreamOf(s.peer) /\ s.peer < local_socket_next_id[Host]

(* Socket j of the device, if it is still there, belongs to stream k.         *)
IsStream(j, k) == socket[Device][j].state # "free" => socket[Device][j].stream = k

HostPeers ==
  \A i \in Ids : LET s == socket[Host][i] IN s.state = "open" /\ s.peer # 0 =>
    s.peer < local_socket_next_id[Device] /\ IsStream(s.peer, s.stream)

OpenPacket(m) ==
  /\ \A j \in Ids : socket[Device][j].state # "free" => socket[Device][j].stream # m.data[2]
  /\ online[Host] =>
       /\ m.arg0 < local_socket_next_id[Host] /\ m.data[2] = StreamOf(m.arg0)
       /\ \A n \in DOMAIN wire[Device] : wire[Device][n].cmd \in Addressed =>
            wire[Device][n].arg1 # m.arg0

HostPacket(m) ==
  /\ m.cmd = "OPEN" => OpenPacket(m)
  /\ m.cmd \in Addressed => m.arg1 < local_socket_next_id[Device]
  /\ m.cmd = "WRTE" =>
       /\ m.arg1 # 0 /\ IsStream(m.arg1, m.data[2])
       /\ m.data[1] = Host /\ m.data[2] \in Streams
       /\ online[Host] => m.arg0 # 0 /\ m.data[2] = StreamOf(m.arg0)

DevicePacket(m) ==
  /\ m.cmd # "OPEN"
  /\ m.cmd \in Addressed /\ online[Host] => m.arg1 # 0 /\ m.arg1 < local_socket_next_id[Host]
  /\ m.cmd \in {"OKAY", "WRTE"} => m.arg0 # 0 /\ m.arg0 < local_socket_next_id[Device]
  /\ m.cmd = "OKAY" /\ online[Host] => IsStream(m.arg0, StreamOf(m.arg1))
  /\ m.cmd = "WRTE" =>
       /\ IsStream(m.arg0, m.data[2])
       /\ m.data[1] = Device /\ m.data[2] \in Streams
       /\ online[Host] => m.data[2] = StreamOf(m.arg1)

PacketsBelong ==
  /\ \A n \in DOMAIN wire[Host] : HostPacket(wire[Host][n])
  /\ \A n \in DOMAIN wire[Device] : DevicePacket(wire[Device][n])

To(n, command, i) == wire[Device][n].cmd = command /\ wire[Device][n].arg1 = i

(* A stream whose OPEN was not answered.                                     *)
Unanswered ==
  \A i \in Ids : LET s == socket[Host][i] IN s.state = "open" /\ s.peer = 0 =>
    /\ ~s.reading /\ s.pending = <<>>
    /\ \A n \in DOMAIN wire[Device] : To(n, "WRTE", i) =>
         \E m \in DOMAIN wire[Device] : m < n /\ To(m, "OKAY", i)
    /\ ~broken[Device] =>
         \A j \in Ids : socket[Device][j].state = "open" /\ socket[Device][j].peer = i =>
           \E m \in DOMAIN wire[Device] : To(m, "OKAY", i)

(* One whose OPEN is under way. *)
Unheard ==
  \A i \in Ids, n \in DOMAIN wire[Host] :
    socket[Host][i].state = "open" /\ wire[Host][n].cmd = "OPEN"
      /\ socket[Host][i].stream = wire[Host][n].data[2] => socket[Host][i].peer = 0

Sessions ==
  /\ \A p \in Peers : Syncs(p)
  /\ OfflineCloses /\ Connecting
  /\ HostIds /\ DeviceIds /\ HostPeers /\ PacketsBelong /\ Unanswered /\ Unheard

-------------------------------------------------------------------------------
(* How a step changes a wire: the first d packets leave, the c behind them   *)
(* stay, new ones follow.                                                    *)

Moved(w, v, d, c, new) ==
  /\ w \in Seq(Packets) /\ v \in Seq(Packets) /\ new \in Seq(Packets)
  /\ d \in Nat /\ c \in Nat /\ d + c <= Len(w) /\ Len(v) = c + Len(new)
  /\ \A n \in 1 .. c : v[n] = w[n + d]
  /\ \A n \in 1 .. Len(new) : v[n + c] = new[n]

LEMMA MovedFacts ==
  ASSUME NEW w, NEW v, NEW d, NEW c, NEW new, Moved(w, v, d, c, new)
  PROVE  /\ \A n \in DOMAIN v : \/ n <= c /\ n + d \in DOMAIN w /\ v[n] = w[n + d]
                                \/ n > c /\ n - c \in DOMAIN new /\ v[n] = new[n - c]
         /\ \A n \in DOMAIN w : d < n /\ n <= d + c => n - d \in DOMAIN v /\ v[n - d] = w[n]
         /\ \A n \in DOMAIN new : n + c \in DOMAIN v /\ v[n + c] = new[n]
<1>1. /\ Len(w) \in Nat /\ Len(v) \in Nat /\ Len(new) \in Nat
      /\ DOMAIN w = 1 .. Len(w) /\ DOMAIN v = 1 .. Len(v) /\ DOMAIN new = 1 .. Len(new)
      /\ d \in Nat /\ c \in Nat /\ d + c <= Len(w) /\ Len(v) = c + Len(new)
      /\ \A n \in 1 .. c : v[n] = w[n + d]
      /\ \A n \in 1 .. Len(new) : v[n + c] = new[n]
  BY DEF Moved
<1>2. ASSUME NEW n \in DOMAIN v
      PROVE  \/ n <= c /\ n + d \in DOMAIN w /\ v[n] = w[n + d]
             \/ n > c /\ n - c \in DOMAIN new /\ v[n] = new[n - c]
  <2>1. CASE n <= c
    BY <1>1, <2>1
  <2>2. CASE n > c
    <3>1. n - c \in 1 .. Len(new) /\ (n - c) + c = n
      BY <1>1, <2>2
    <3> QED
      BY <1>1, <2>2, <3>1
  <2> QED
    BY <1>1, <2>1, <2>2
<1>3. ASSUME NEW n \in DOMAIN w, d < n, n <= d + c
      PROVE  n - d \in DOMAIN v /\ v[n - d] = w[n]
  <2>1. n \in Nat /\ d \in Nat /\ c \in Nat /\ Len(v) = c + Len(new) /\ Len(new) \in Nat
    BY <1>1
  <2>2. n - d \in 1 .. c /\ (n - d) + d = n /\ n - d \in 1 .. Len(v)
    BY <1>3, <2>1
  <2> QED
    BY <1>1, <2>2
<1>4. \A n \in DOMAIN new : n + c \in DOMAIN v /\ v[n + c] = new[n]
  BY <1>1
<1> QED
  BY <1>2, <1>3, <1>4

LEMMA WireMoves ==
  ASSUME NEW w \in Seq(Packets)
  PROVE  /\ Moved(w, w, 0, Len(w), <<>>)
         /\ w # <<>> => Moved(w, Tail(w), 1, Len(w) - 1, <<>>)
         /\ \A new \in Seq(Packets) : Moved(w, w \o new, 0, Len(w), new)
         /\ \A m \in Packets, n \in 0 .. Len(w) :
              Moved(w, Append(SubSeq(w, 1, n), m), 0, n, <<m>>)
         /\ \A m \in 1 .. Len(w) + 1 : Moved(w, SubSeq(w, m, Len(w)), m - 1, Len(w) - (m - 1), <<>>)
<1>1. Moved(w, w, 0, Len(w), <<>>)
  BY DEF Moved
<1>2. w # <<>> => Moved(w, Tail(w), 1, Len(w) - 1, <<>>)
  BY DEF Moved
<1>3. ASSUME NEW new \in Seq(Packets)
      PROVE  Moved(w, w \o new, 0, Len(w), new)
  BY DEF Moved
<1>4. ASSUME NEW m \in Packets, NEW n \in 0 .. Len(w)
      PROVE  Moved(w, Append(SubSeq(w, 1, n), m), 0, n, <<m>>)
  <2> DEFINE v == SubSeq(w, 1, n)
  <2>1. v \in Seq(Packets) /\ Len(v) = n /\ \A l \in 1 .. n : v[l] = w[l]
    OBVIOUS
  <2> HIDE DEF v
  <2>2. /\ Append(v, m) \in Seq(Packets) /\ Len(Append(v, m)) = n + 1
        /\ \A l \in 1 .. n : Append(v, m)[l] = w[l]
        /\ Append(v, m)[n + 1] = m
    BY <2>1
  <2>3. <<m>> \in Seq(Packets) /\ Len(<<m>>) = 1 /\ <<m>>[1] = m
    OBVIOUS
  <2>4. \A l \in 1 .. Len(<<m>>) : Append(v, m)[l + n] = <<m>>[l]
    BY <2>2, <2>3
  <2>5. /\ 0 + n <= Len(w) /\ n \in Nat /\ 0 \in Nat
        /\ Len(Append(v, m)) = n + Len(<<m>>)
        /\ \A l \in 1 .. n : Append(v, m)[l] = w[l + 0]
    BY <2>2, <2>3
  <2>6. Moved(w, Append(v, m), 0, n, <<m>>)
    BY <2>2, <2>3, <2>4, <2>5 DEF Moved
  <2> QED
    BY <2>6 DEF v
<1>5. ASSUME NEW m \in 1 .. Len(w) + 1
      PROVE  Moved(w, SubSeq(w, m, Len(w)), m - 1, Len(w) - (m - 1), <<>>)
  <2> DEFINE v == SubSeq(w, m, Len(w))
  <2>1. /\ v \in Seq(Packets) /\ Len(v) = Len(w) - (m - 1)
        /\ \A l \in 1 .. Len(w) - (m - 1) : v[l] = w[l + (m - 1)]
    OBVIOUS
  <2> HIDE DEF v
  <2>2. /\ m - 1 \in Nat /\ Len(w) - (m - 1) \in Nat /\ (m - 1) + (Len(w) - (m - 1)) <= Len(w)
        /\ <<>> \in Seq(Packets) /\ Len(<<>>) = 0 /\ Len(v) = Len(w) - (m - 1) + Len(<<>>)
    BY <2>1
  <2>3. \A l \in 1 .. Len(<<>>) : v[l + (Len(w) - (m - 1))] = <<>>[l]
    OBVIOUS
  <2>4. Moved(w, v, m - 1, Len(w) - (m - 1), <<>>)
    BY <2>1, <2>2, <2>3 DEF Moved
  <2> QED
    BY <2>4 DEF v
<1> QED
  BY <1>1, <1>2, <1>3, <1>4, <1>5

-------------------------------------------------------------------------------
(* Most events and handlers leave the connection alone: end p takes d        *)
(* packets, sends some, and changes sockets of its own.                      *)

(* A packet p may send: it belongs to a stream, and at the server to one     *)
(* that knows of it.                                                         *)
Fits(p, d, m) ==
  /\ m.cmd \in Addressed
  /\ p = Host => HostPacket(m)
  /\ p = Device =>
       /\ DevicePacket(m)
       /\ online[Host] => \A n \in DOMAIN wire[Host] :
            d < n /\ wire[Host][n].cmd = "OPEN" => wire[Host][n].arg0 # m.arg1
       /\ \A i \in Ids : /\ m.cmd = "WRTE" /\ m.arg1 = i
                         /\ socket[Host][i].state = "open" /\ socket[Host][i].peer = 0
            => \E n \in DOMAIN wire[Device] : To(n, "OKAY", i)

(* A socket goes on, waits for its last packets to be written or is freed.   *)
Later(p, i) ==
  LET s == socket[p][i]
      t == socket'[p][i] IN
  /\ s.state # "free"
  /\ t.state # "free" => t.stream = s.stream
  /\ t.state = "open" =>
       /\ s.state = "open"
       /\ t.peer = 0 => ~t.reading /\ t.pending = <<>>
       /\ t.peer # s.peer =>
            /\ p = Host /\ s.peer = 0
            /\ t.peer < local_socket_next_id[Device] /\ IsStream(t.peer, t.stream)
            /\ \A n \in DOMAIN wire[Host] :
                 wire[Host][n].cmd = "OPEN" => wire[Host][n].data[2] # t.stream

(* End p takes d packets and sends some, of a stream.                        *)
Passes(p, d, sent) ==
  LET q == Other(p) IN
  /\ UNCHANGED <<online, broken>>
  /\ d \in {0, 1}
  /\ d = 1 => wire[q] # <<>> /\ wire[q][1].cmd \in Addressed \cup {"OPEN"}
  /\ Moved(wire[q], wire'[q], d, Len(wire[q]) - d, <<>>)
  /\ Moved(wire[p], wire'[p], 0, Len(wire[p]), sent)
  /\ sent # <<>> => online[p] /\ ~broken[p] /\ (p = Host \/ d = 1 \/ ~NoneOpen(p))
  /\ \A n \in DOMAIN sent : sent[n].cmd \in Addressed \cup {"OPEN"}

Ordinary(p, d, sent) ==
  LET q == Other(p) IN
  /\ Passes(p, d, sent)
  /\ UNCHANGED <<local_socket_next_id, opened>>
  /\ \A n \in DOMAIN sent : Fits(p, d, sent[n])
  /\ \A i \in Ids : socket'[q][i] = socket[q][i]
  /\ \A i \in Ids : socket'[p][i] = socket[p][i] \/ Later(p, i)
  /\ p = Host /\ d = 1 => \A i \in Ids :
       To(1, "OKAY", i) /\ socket'[Host][i].state = "open" => socket'[Host][i].peer # 0

LEMMA Types ==
  ASSUME IInv
  PROVE  /\ \A p \in Peers : /\ wire[p] \in Seq(Packets) /\ Len(wire[p]) \in Nat
                             /\ DOMAIN wire[p] = 1 .. Len(wire[p])
                             /\ \A n \in DOMAIN wire[p] : n \in Nat /\ wire[p][n] \in Packets
         /\ \A p \in Peers : local_socket_next_id[p] \in 1 .. MaxOpens + 1
         /\ opened \in 0 .. MaxOpens /\ MaxOpens \in Nat
         /\ \A p \in Peers : online[p] \in BOOLEAN /\ broken[p] \in BOOLEAN
         /\ Host # Device /\ Host \in Peers /\ Device \in Peers
         /\ Other(Host) = Device /\ Other(Device) = Host
<1>1. \A p \in Peers : wire[p] \in Seq(Packets)
  BY InvParts
<1>2. \A p \in Peers : /\ Len(wire[p]) \in Nat /\ DOMAIN wire[p] = 1 .. Len(wire[p])
                       /\ \A n \in DOMAIN wire[p] : n \in Nat /\ wire[p][n] \in Packets
  BY <1>1
<1>3. CountersOK
  BY InvParts
<1> QED
  BY <1>1, <1>2, <1>3, TwoPeers, AdbStreamAssumption DEF CountersOK

LEMMA PassesWires ==
  ASSUME IInv, NEW p \in Peers, NEW d, NEW sent, Passes(p, d, sent)
  PROVE  LET q == Other(p) IN
         /\ d \in {0, 1} /\ d <= Len(wire[q])
         /\ \A n \in DOMAIN wire'[q] : /\ n \in Nat /\ n + d \in DOMAIN wire[q]
                                       /\ wire'[q][n] = wire[q][n + d]
         /\ \A n \in DOMAIN wire[q] : d < n => n - d \in DOMAIN wire'[q] /\ wire'[q][n - d] = wire[q][n]
         /\ Len(wire'[q]) = Len(wire[q]) - d
         /\ Len(wire'[q]) \in Nat /\ DOMAIN wire'[q] = 1 .. Len(wire'[q])
         /\ \A n \in DOMAIN wire[p] : n \in DOMAIN wire'[p] /\ wire'[p][n] = wire[p][n]
         /\ \A n \in DOMAIN wire'[p] : /\ n \in Nat
                                       /\ \/ n \in DOMAIN wire[p]
                                          \/ /\ n > Len(wire[p]) /\ n - Len(wire[p]) \in DOMAIN sent
                                             /\ wire'[p][n] = sent[n - Len(wire[p])]
                                             /\ wire'[p][n].cmd \in Addressed \cup {"OPEN"}
                                             /\ online[p] /\ ~broken[p]
                                             /\ p = Host \/ d = 1 \/ ~NoneOpen(p)
         /\ sent = <<>> => wire'[p] = wire[p]
<1> DEFINE q == Other(p)
           u == wire[p]
           v == wire'[p]
           w == wire[q]
           x == wire'[q]
<1>1. /\ d \in {0, 1} /\ Moved(w, x, d, Len(w) - d, <<>>) /\ Moved(u, v, 0, Len(u), sent)
      /\ sent # <<>> => online[p] /\ ~broken[p] /\ (p = Host \/ d = 1 \/ ~NoneOpen(p))
      /\ \A n \in DOMAIN sent : sent[n].cmd \in Addressed \cup {"OPEN"}
      /\ d = 1 => w # <<>>
  BY DEF Passes
<1>2. /\ u \in Seq(Packets) /\ v \in Seq(Packets) /\ w \in Seq(Packets) /\ x \in Seq(Packets)
      /\ sent \in Seq(Packets) /\ Len(x) = Len(w) - d + Len(<<>>) /\ Len(v) = Len(u) + Len(sent)
  BY <1>1 DEF Moved
<1>3. /\ \A n \in DOMAIN x : \/ n <= Len(w) - d /\ n + d \in DOMAIN w /\ x[n] = w[n + d]
                             \/ n - (Len(w) - d) \in DOMAIN <<>>
      /\ \A n \in DOMAIN w : d < n /\ n <= d + (Len(w) - d) => n - d \in DOMAIN x /\ x[n - d] = w[n]
  BY <1>1, MovedFacts
<1>4. /\ \A n \in DOMAIN v : \/ n <= Len(u) /\ n + 0 \in DOMAIN u /\ v[n] = u[n + 0]
                             \/ n > Len(u) /\ n - Len(u) \in DOMAIN sent /\ v[n] = sent[n - Len(u)]
      /\ \A n \in DOMAIN u : 0 < n /\ n <= 0 + Len(u) => n - 0 \in DOMAIN v /\ v[n - 0] = u[n]
  BY <1>1, MovedFacts
<1> HIDE DEF u, v, w, x, q
<1>5. /\ d \in Nat /\ d <= Len(w) /\ Len(x) = Len(w) - d /\ Len(x) \in Nat
      /\ DOMAIN x = 1 .. Len(x) /\ DOMAIN w = 1 .. Len(w) /\ Len(w) \in Nat
      /\ DOMAIN u = 1 .. Len(u) /\ Len(u) \in Nat /\ DOMAIN v = 1 .. Len(v)
      /\ DOMAIN sent = 1 .. Len(sent) /\ Len(v) \in Nat
  BY <1>1, <1>2
<1>6. /\ \A n \in DOMAIN x : n \in Nat /\ n + d \in DOMAIN w /\ x[n] = w[n + d]
      /\ \A n \in DOMAIN w : d < n => n - d \in DOMAIN x /\ x[n - d] = w[n]
  BY <1>3, <1>5
<1>7. /\ \A n \in DOMAIN u : n \in DOMAIN v /\ v[n] = u[n]
      /\ \A n \in DOMAIN v : /\ n \in Nat
                             /\ \/ n \in DOMAIN u
                                \/ /\ n > Len(u) /\ n - Len(u) \in DOMAIN sent /\ v[n] = sent[n - Len(u)]
  BY <1>4, <1>5
<1>8. \A n \in DOMAIN sent :
        /\ sent[n].cmd \in Addressed \cup {"OPEN"}
        /\ online[p] /\ ~broken[p] /\ (p = Host \/ d = 1 \/ ~NoneOpen(p))
  BY <1>1, <1>5
<1>9. sent = <<>> => v = u
  <2> SUFFICES ASSUME sent = <<>> PROVE v = u
    OBVIOUS
  <2>1. Len(v) = Len(u) /\ \A n \in 1 .. Len(u) : v[n] = u[n]
    BY <1>2, <1>5, <1>7
  <2> QED
    BY <1>2, <2>1
<1> QED
  BY <1>1, <1>5, <1>6, <1>7, <1>8, <1>9 DEF q, u, v, w, x

LEMMA OrdinaryWires ==
  ASSUME IInv, NEW p \in Peers, NEW d, NEW sent, Ordinary(p, d, sent)
  PROVE  LET q == Other(p) IN
         /\ d \in {0, 1} /\ d <= Len(wire[q])
         /\ \A n \in DOMAIN wire'[q] : /\ n \in Nat /\ n + d \in DOMAIN wire[q]
                                       /\ wire'[q][n] = wire[q][n + d]
         /\ \A n \in DOMAIN wire[q] : d < n => n - d \in DOMAIN wire'[q] /\ wire'[q][n - d] = wire[q][n]
         /\ DOMAIN wire'[q] = 1 .. Len(wire'[q])
         /\ \A n \in DOMAIN wire[p] : n \in DOMAIN wire'[p] /\ wire'[p][n] = wire[p][n]
         /\ \A n \in DOMAIN wire'[p] : /\ n \in Nat
                                       /\ \/ n \in DOMAIN wire[p]
                                          \/ /\ n > Len(wire[p]) /\ n - Len(wire[p]) \in DOMAIN sent
                                             /\ wire'[p][n] = sent[n - Len(wire[p])]
                                             /\ Fits(p, d, wire'[p][n])
         /\ sent = <<>> => wire'[p] = wire[p]
<1>1. Passes(p, d, sent) /\ \A n \in DOMAIN sent : Fits(p, d, sent[n])
  BY DEF Ordinary
<1> QED
  BY <1>1, PassesWires

LEMMA PassesSyncs ==
  ASSUME IInv, Sessions, NEW p \in Peers, NEW d, NEW sent, Passes(p, d, sent)
  PROVE  \A r \in Peers : Syncs(r)'
<1> DEFINE q == Other(p)
<1>1. /\ q \in Peers /\ Other(q) = p /\ p # q /\ \A r \in Peers : r = p \/ r = q
      /\ p \in Peers
  BY TwoPeers, AdbStreamAssumption
<1>2. Syncs(p) /\ Syncs(q)
  BY <1>1 DEF Sessions
<1>3. UNCHANGED <<online, broken>>
  BY DEF Passes
<1>4. Syncs(p)'
  <2>1. /\ d \in {0, 1} /\ d <= Len(wire[q])
        /\ \A n \in DOMAIN wire'[q] : n \in Nat /\ n + d \in DOMAIN wire[q] /\ wire'[q][n] = wire[q][n + d]
        /\ Len(wire'[q]) = Len(wire[q]) - d
        /\ Len(wire'[q]) \in Nat /\ DOMAIN wire'[q] = 1 .. Len(wire'[q])
    BY PassesWires
  <2>2. /\ d = 1 => wire[q][1].cmd # "SYNC"
        /\ Len(wire[q]) \in Nat /\ DOMAIN wire[q] = 1 .. Len(wire[q])
    BY <1>1, Types DEF Passes, Addressed
  <2>3. ASSUME NEW n \in DOMAIN wire'[q], wire'[q][n].cmd = "SYNC"
        PROVE  /\ broken[p]
               /\ \A m \in DOMAIN wire'[q] : n < m =>
                    wire'[q][m].cmd = "CNXN" /\ q = Host /\ ~broken[q]
    <3>1. n + d \in DOMAIN wire[q] /\ wire[q][n + d].cmd = "SYNC" /\ n \in Nat /\ d \in Nat
      BY <2>1, <2>3
    <3>2. /\ broken[p]
          /\ \A m \in DOMAIN wire[q] : n + d < m =>
               wire[q][m].cmd = "CNXN" /\ q = Host /\ ~broken[q]
      BY <1>2, <3>1 DEF Syncs
    <3>3. \A m \in DOMAIN wire'[q] : n < m => n + d < m + d
      BY <2>1, <3>1
    <3> QED
      BY <2>1, <3>2, <3>3
  <2>4. wire[q] = <<>> => wire'[q] = <<>>
    <3>1. wire'[q] \in Seq(Packets) /\ wire[q] \in Seq(Packets)
      BY DEF Passes, Moved
    <3> QED
      BY <2>1, <3>1
  <2>5. wire[q] # <<>> /\ wire[q][Len(wire[q])].cmd = "SYNC"
          => wire'[q] # <<>> /\ wire'[q][Len(wire'[q])].cmd = "SYNC"
    <3> SUFFICES ASSUME wire[q] # <<>>, wire[q][Len(wire[q])].cmd = "SYNC"
                 PROVE  wire'[q] # <<>> /\ wire'[q][Len(wire'[q])].cmd = "SYNC"
      OBVIOUS
    <3>1. Len(wire[q]) > 0
      BY <1>1, Types
    <3>2. Len(wire[q]) > d
      BY <2>1, <2>2, <3>1
    <3>3. Len(wire'[q]) \in DOMAIN wire'[q] /\ Len(wire'[q]) + d = Len(wire[q])
      BY <2>1, <2>2, <3>2
    <3>4. wire'[q] # <<>>
      BY <3>3
    <3> QED
      BY <2>1, <3>3, <3>4
  <2> QED
    BY <1>2, <1>3, <2>3, <2>4, <2>5 DEF Syncs
<1>5. Syncs(q)'
  <2>1. /\ \A n \in DOMAIN wire[p] : n \in DOMAIN wire'[p] /\ wire'[p][n] = wire[p][n]
        /\ \A n \in DOMAIN wire'[p] :
             \/ n \in DOMAIN wire[p]
             \/ /\ n > Len(wire[p]) /\ wire'[p][n].cmd \in Addressed \cup {"OPEN"} /\ online[p] /\ ~broken[p]
        /\ sent = <<>> => wire'[p] = wire[p]
    BY PassesWires
  <2>0. sent # <<>> => online[p] /\ ~broken[p]
    BY DEF Passes
  <2>2. ASSUME NEW n \in DOMAIN wire'[p], wire'[p][n].cmd = "SYNC"
        PROVE  /\ broken[q]
               /\ \A m \in DOMAIN wire'[p] : n < m =>
                    wire'[p][m].cmd = "CNXN" /\ p = Host /\ ~broken[p]
    <3>1. n \in DOMAIN wire[p] /\ wire'[p][n] = wire[p][n]
      BY <2>1, <2>2 DEF Addressed
    <3>2. broken[q]
      BY <1>1, <1>2, <2>2, <3>1 DEF Syncs
    <3>3. ~(online[p] /\ ~broken[p])
      BY <1>2, <3>2 DEF Syncs
    <3> QED
      BY <1>1, <1>2, <2>1, <2>2, <3>1, <3>2, <3>3 DEF Syncs
  <2>3. ~broken[q] /\ broken[p] => wire'[p] = <<>> /\ ~online[q]
    BY <1>1, <1>2, <2>0, <2>1 DEF Syncs
  <2>4. broken[q] /\ broken[p] => wire'[p] # <<>> /\ wire'[p][Len(wire'[p])].cmd = "SYNC"
    BY <1>1, <1>2, <2>0, <2>1 DEF Syncs
  <2> QED
    BY <1>1, <1>3, <2>2, <2>3, <2>4 DEF Syncs
<1> QED
  BY <1>1, <1>4, <1>5

LEMMA PassesConnecting ==
  ASSUME IInv, Sessions, NEW p \in Peers, NEW d, NEW sent, Passes(p, d, sent),
         p = Host \/ d = 0 => (NoneOpen(Device) => NoneOpen(Device)')
  PROVE  Connecting'
<1>1. /\ Host \in Peers /\ Device \in Peers /\ Host # Device
      /\ Other(Host) = Device /\ Other(Device) = Host /\ (p = Host \/ p = Device)
  BY TwoPeers, AdbStreamAssumption
<1>2. Connecting /\ UNCHANGED <<online, broken>>
  BY DEF Sessions, Passes
<1>3. CASE p = Host
  <2>1. /\ d \in {0, 1}
        /\ \A n \in DOMAIN wire'[Device] : /\ n \in Nat /\ n + d \in DOMAIN wire[Device]
                                           /\ wire'[Device][n] = wire[Device][n + d]
        /\ \A n \in DOMAIN wire[Host] : n \in DOMAIN wire'[Host] /\ wire'[Host][n] = wire[Host][n]
        /\ \A n \in DOMAIN wire'[Host] :
             \/ n \in DOMAIN wire[Host]
             \/ wire'[Host][n].cmd \in Addressed \cup {"OPEN"} /\ online[Host]
    BY <1>1, <1>3, PassesWires
  <2>2. online[Host] => \A n \in DOMAIN wire'[Host] : wire'[Host][n].cmd # "CNXN"
    BY <1>1, <1>2, <2>1 DEF Connecting, Addressed
  <2>3. ~online[Host] => \A n \in DOMAIN wire'[Host] :
                           n \in DOMAIN wire[Host] /\ wire'[Host][n] = wire[Host][n]
    BY <2>1
  <2>4. online[Host] => \A n \in DOMAIN wire'[Device] : wire'[Device][n].cmd # "CNXN"
    BY <1>1, <1>2, <2>1 DEF Connecting
  <2>5. \A n, m \in DOMAIN wire'[Host] : wire'[Host][n].cmd = "CNXN" /\ n < m =>
          /\ wire'[Host][m].cmd \in {"SYNC", "CNXN"}
          /\ wire'[Host][m].cmd = "CNXN" =>
               \E l \in DOMAIN wire'[Host] : n < l /\ l < m /\ wire'[Host][l].cmd = "SYNC"
    BY <1>1, <1>2, <2>1, <2>2, <2>3 DEF Connecting
  <2>6. ASSUME NEW n \in DOMAIN wire'[Device], wire'[Device][n].cmd = "CNXN"
        PROVE  /\ NoneOpen(Device)'
               /\ \A m \in DOMAIN wire'[Host] : wire'[Host][m].cmd = "SYNC"
               /\ \A m \in DOMAIN wire'[Device] : n < m => wire'[Device][m].cmd = "SYNC"
    <3>1. ~online[Host]
      BY <1>2, <2>4, <2>6
    <3>2. n + d \in DOMAIN wire[Device] /\ wire[Device][n + d].cmd = "CNXN" /\ n \in Nat
      BY <2>1, <2>6
    <3>3. \A m \in DOMAIN wire'[Device] : n < m => wire'[Device][m].cmd = "SYNC"
      BY <1>2, <2>1, <3>2 DEF Connecting
    <3> QED
      BY <1>1, <1>2, <1>3, <2>3, <3>1, <3>2, <3>3 DEF Connecting
  <2>7. online'[Host] => \A r \in Peers : \A n \in DOMAIN wire'[r] : wire'[r][n].cmd # "CNXN"
    BY <1>1, <1>2, <2>2, <2>4, TwoPeers
  <2> QED
    BY <2>5, <2>6, <2>7 DEF Connecting
<1>4. CASE p = Device
  <2>1. /\ d \in {0, 1}
        /\ \A n \in DOMAIN wire'[Host] : /\ n \in Nat /\ n + d \in DOMAIN wire[Host]
                                         /\ wire'[Host][n] = wire[Host][n + d]
        /\ \A n \in DOMAIN wire[Host] : d < n => n - d \in DOMAIN wire'[Host] /\ wire'[Host][n - d] = wire[Host][n]
        /\ \A n \in DOMAIN wire[Device] : n \in DOMAIN wire'[Device] /\ wire'[Device][n] = wire[Device][n]
        /\ \A n \in DOMAIN wire'[Device] :
             \/ n \in DOMAIN wire[Device]
             \/ /\ n > Len(wire[Device]) /\ wire'[Device][n].cmd \in Addressed \cup {"OPEN"}
                /\ d = 1 \/ ~NoneOpen(Device)
    BY <1>1, <1>4, PassesWires
  <2>2. d = 1 => 1 \in DOMAIN wire[Host] /\ wire[Host][1].cmd # "SYNC"
    BY <1>1, <1>4, Types DEF Passes, Addressed
  <2>3. \A n \in DOMAIN wire'[Device] : wire'[Device][n].cmd = "CNXN" => n \in DOMAIN wire[Device]
    BY <2>1 DEF Addressed
  <2>4. online[Host] => /\ \A n \in DOMAIN wire'[Device] : wire'[Device][n].cmd # "CNXN"
                        /\ \A n \in DOMAIN wire'[Host] : wire'[Host][n].cmd # "CNXN"
    BY <1>1, <1>2, <2>1, <2>3 DEF Connecting
  <2>5. ASSUME NEW n \in DOMAIN wire'[Host], NEW m \in DOMAIN wire'[Host],
               wire'[Host][n].cmd = "CNXN", n < m
        PROVE  /\ wire'[Host][m].cmd \in {"SYNC", "CNXN"}
               /\ wire'[Host][m].cmd = "CNXN" =>
                    \E l \in DOMAIN wire'[Host] : n < l /\ l < m /\ wire'[Host][l].cmd = "SYNC"
    <3>1. /\ n + d \in DOMAIN wire[Host] /\ m + d \in DOMAIN wire[Host] /\ n + d < m + d
          /\ wire'[Host][n] = wire[Host][n + d] /\ wire'[Host][m] = wire[Host][m + d]
          /\ n \in Nat /\ m \in Nat /\ d \in Nat
      BY <2>1, <2>5
    <3>2. /\ wire[Host][m + d].cmd \in {"SYNC", "CNXN"}
          /\ wire[Host][m + d].cmd = "CNXN" =>
               \E l \in DOMAIN wire[Host] : n + d < l /\ l < m + d /\ wire[Host][l].cmd = "SYNC"
      BY <1>2, <2>5, <3>1 DEF Connecting
    <3>3. ASSUME NEW l \in DOMAIN wire[Host], n + d < l, l < m + d, wire[Host][l].cmd = "SYNC"
          PROVE  \E k \in DOMAIN wire'[Host] : n < k /\ k < m /\ wire'[Host][k].cmd = "SYNC"
      <4>1. l \in Nat
        BY <1>1, Types
      <4>2. n < l - d /\ l - d < m /\ d < l
        BY <3>1, <3>3, <4>1
      <4> QED
        BY <2>1, <3>3, <4>2
    <3> QED
      BY <3>1, <3>2, <3>3
  <2>6. ASSUME NEW n \in DOMAIN wire'[Device], wire'[Device][n].cmd = "CNXN"
        PROVE  /\ NoneOpen(Device)'
               /\ \A m \in DOMAIN wire'[Host] : wire'[Host][m].cmd = "SYNC"
               /\ \A m \in DOMAIN wire'[Device] : n < m => wire'[Device][m].cmd = "SYNC"
    <3>1. n \in DOMAIN wire[Device] /\ wire[Device][n].cmd = "CNXN"
      BY <2>1, <2>3, <2>6
    <3>2. /\ NoneOpen(Device) /\ \A m \in DOMAIN wire[Host] : wire[Host][m].cmd = "SYNC"
          /\ \A m \in DOMAIN wire[Device] : n < m => wire[Device][m].cmd = "SYNC"
      BY <1>2, <3>1 DEF Connecting
    <3>3. d # 1
      BY <2>2, <3>2
    <3>4. \A m \in DOMAIN wire'[Device] : m \in DOMAIN wire[Device] /\ wire'[Device][m] = wire[Device][m]
      BY <2>1, <3>2, <3>3
    <3> QED
      BY <1>1, <2>1, <3>2, <3>3, <3>4
  <2>7. online'[Host] => \A r \in Peers : \A n \in DOMAIN wire'[r] : wire'[r][n].cmd # "CNXN"
    BY <1>1, <1>2, <2>4, TwoPeers
  <2> QED
    BY <2>5, <2>6, <2>7 DEF Connecting
<1> QED
  BY <1>1, <1>3, <1>4

LEMMA OrdinaryConnecting ==
  ASSUME IInv, Sessions, NEW p \in Peers, NEW d, NEW sent, Ordinary(p, d, sent)
  PROVE  (\A r \in Peers : Syncs(r)') /\ OfflineCloses' /\ Connecting'
<1>1. /\ \A i \in Ids : socket'[Other(p)][i] = socket[Other(p)][i]
      /\ \A i \in Ids : socket'[p][i].state = "open" => socket[p][i].state = "open"
      /\ Passes(p, d, sent)
  BY DEF Ordinary, Later
<1>2. \A r \in Peers, i \in Ids : socket'[r][i].state = "open" => socket[r][i].state = "open"
  BY <1>1, TwoPeers
<1>3. \A r \in Peers : NoneOpen(r) => NoneOpen(r)'
  BY <1>2 DEF NoneOpen
<1>4. OfflineCloses'
  BY <1>1, <1>3 DEF OfflineCloses, Passes, Sessions
<1> QED
  BY <1>1, <1>3, <1>4, TwoPeers, PassesSyncs, PassesConnecting

LEMMA OrdinarySockets ==
  ASSUME IInv, NEW p \in Peers, NEW d, NEW sent, Ordinary(p, d, sent)
  PROVE  /\ \A r \in Peers, i \in Ids : socket'[r][i].state # "free" =>
              socket[r][i].state # "free" /\ socket'[r][i].stream = socket[r][i].stream
         /\ \A r \in Peers, i \in Ids : socket'[r][i].state = "open" =>
              /\ socket[r][i].state = "open"
              /\ \/ socket'[r][i].peer = socket[r][i].peer
                 \/ /\ r = Host /\ p = Host /\ socket[r][i].peer = 0
                    /\ socket'[r][i].peer < local_socket_next_id[Device]
                    /\ IsStream(socket'[r][i].peer, socket'[r][i].stream)
                    /\ \A n \in DOMAIN wire[Host] :
                         wire[Host][n].cmd = "OPEN" => wire[Host][n].data[2] # socket'[r][i].stream
              /\ \/ socket'[r][i] = socket[r][i]
                 \/ socket'[r][i].peer = 0 => ~socket'[r][i].reading /\ socket'[r][i].pending = <<>>
<1>1. /\ \A i \in Ids : socket'[Other(p)][i] = socket[Other(p)][i]
      /\ \A i \in Ids : socket'[p][i] = socket[p][i] \/ Later(p, i)
  BY DEF Ordinary
<1>2. \A r \in Peers : r = p \/ r = Other(p)
  BY TwoPeers
<1>3. \A r \in Peers, i \in Ids : socket'[r][i] = socket[r][i] \/ (r = p /\ Later(r, i))
  BY <1>1, <1>2
<1>4. \A r \in Peers, i \in Ids : socket'[r][i].state # "free" =>
        socket[r][i].state # "free" /\ socket'[r][i].stream = socket[r][i].stream
  BY <1>3 DEF Later
<1>5. \A r \in Peers, i \in Ids : socket'[r][i].state = "open" =>
        /\ socket[r][i].state = "open"
        /\ \/ socket'[r][i].peer = socket[r][i].peer
           \/ /\ r = Host /\ p = Host /\ socket[r][i].peer = 0
              /\ socket'[r][i].peer < local_socket_next_id[Device]
              /\ IsStream(socket'[r][i].peer, socket'[r][i].stream)
              /\ \A n \in DOMAIN wire[Host] :
                   wire[Host][n].cmd = "OPEN" => wire[Host][n].data[2] # socket'[r][i].stream
        /\ \/ socket'[r][i] = socket[r][i]
           \/ socket'[r][i].peer = 0 => ~socket'[r][i].reading /\ socket'[r][i].pending = <<>>
  BY <1>3 DEF Later
<1> QED
  BY <1>4, <1>5

(* Ids are those of sockets when they are not 0.                             *)
LEMMA PeerTypes ==
  ASSUME IInv
  PROVE  /\ \A r \in Peers, i \in Ids : socket[r][i].peer \in 0 .. MaxOpens
         /\ \A r \in Peers, i \in Ids : socket[r][i].stream \in 0 .. MaxOpens
         /\ \A i \in 0 .. MaxOpens : i # 0 => i \in Ids
         /\ \A i \in Ids : i \in 1 .. MaxOpens /\ i \in Nat
         /\ \A r \in Peers, i \in Ids : socket[r][i].state # "free" <=> socket[r][i].stream # 0
<1>1. SocketsWhole /\ MaxOpens \in Nat
  BY InvParts, AdbStreamAssumption
<1>2. \A r \in Peers, i \in Ids : Whole(socket[r][i])
  BY <1>1 DEF SocketsWhole
<1>3. \A r \in Peers, i \in Ids :
        socket[r][i].peer \in 0 .. MaxOpens /\ socket[r][i].stream \in 0 .. MaxOpens
  BY <1>2 DEF Whole, Sockets
<1>4. \A r \in Peers, i \in Ids : socket[r][i].state # "free" <=> socket[r][i].stream # 0
  BY <1>2 DEF Whole
<1> QED
  BY <1>1, <1>3, <1>4 DEF Ids

LEMMA OrdinaryIds ==
  ASSUME IInv, IInv', Sessions, NEW p \in Peers, NEW d, NEW sent, Ordinary(p, d, sent)
  PROVE  HostIds' /\ DeviceIds' /\ HostPeers' /\ Unheard'
<1>1. /\ Host \in Peers /\ Device \in Peers /\ Host # Device
      /\ HostIds /\ DeviceIds /\ HostPeers /\ Unheard
      /\ UNCHANGED <<local_socket_next_id, online, broken, opened>>
  BY TwoPeers, AdbStreamAssumption DEF Sessions, Ordinary, Passes
<1>2. \A r \in Peers, i \in Ids : socket'[r][i].state # "free" =>
        socket[r][i].state # "free" /\ socket'[r][i].stream = socket[r][i].stream
  BY OrdinarySockets
<1>3. HostIds'
  BY <1>1, <1>2 DEF HostIds, StreamOf
<1>4. DeviceIds'
  <2> SUFFICES ASSUME NEW j \in Ids, socket'[Device][j].state # "free"
               PROVE  LET s == socket'[Device][j] IN
                      /\ j < local_socket_next_id[Device] /\ s.stream <= opened
                      /\ \A l \in Ids : socket'[Device][l].state # "free"
                           /\ socket'[Device][l].stream = s.stream => l = j
                      /\ s.state = "open" /\ online[Host] =>
                           s.stream = StreamOf(s.peer) /\ s.peer < local_socket_next_id[Host]
    BY <1>1 DEF DeviceIds, StreamOf
  <2>1. socket'[Device][j].state = "open" =>
          socket[Device][j].state = "open" /\ socket'[Device][j].peer = socket[Device][j].peer
    BY <1>1, OrdinarySockets
  <2> QED
    BY <1>1, <1>2, <2>1 DEF DeviceIds
<1>5. HostPeers'
  <2> SUFFICES ASSUME NEW i \in Ids, socket'[Host][i].state = "open", socket'[Host][i].peer # 0
               PROVE  /\ socket'[Host][i].peer < local_socket_next_id[Device]
                      /\ socket'[Device][socket'[Host][i].peer].state # "free" =>
                           socket'[Device][socket'[Host][i].peer].stream = socket'[Host][i].stream
    BY <1>1 DEF HostPeers, IsStream
  <2>1. /\ socket'[Host][i].peer < local_socket_next_id[Device]
        /\ IsStream(socket'[Host][i].peer, socket'[Host][i].stream)
    BY <1>1, <1>2, OrdinarySockets DEF HostPeers
  <2>2. socket'[Host][i].peer \in Ids
    <3>1. socket'[Host][i].peer \in 0 .. MaxOpens
      <4>1. SocketsWhole'
        BY TypeParts DEF IInv
      <4> QED
        BY <1>1, <4>1 DEF SocketsWhole, Whole, Sockets
    <3> QED
      BY <3>1, PeerTypes
  <2> QED
    BY <1>1, <1>2, <2>1, <2>2 DEF IsStream
<1>6. Unheard'
  <2> SUFFICES ASSUME NEW i \in Ids, NEW n \in DOMAIN wire'[Host],
                      socket'[Host][i].state = "open", wire'[Host][n].cmd = "OPEN",
                      socket'[Host][i].stream = wire'[Host][n].data[2]
               PROVE  socket'[Host][i].peer = 0
    BY DEF Unheard
  <2>1. /\ socket[Host][i].state = "open" /\ socket[Host][i].stream = socket'[Host][i].stream
        /\ \/ socket'[Host][i].peer = socket[Host][i].peer
           \/ \A l \in DOMAIN wire[Host] :
                wire[Host][l].cmd = "OPEN" => wire[Host][l].data[2] # socket'[Host][i].stream
    BY <1>1, <1>2, OrdinarySockets
  <2>2. \E l \in DOMAIN wire[Host] : wire[Host][l] = wire'[Host][n]
    <3>1. CASE p = Host
      <4>1. ~Fits(p, d, wire'[Host][n])
        BY DEF Fits, Addressed
      <4> QED
        BY <3>1, <4>1, OrdinaryWires
    <3>2. CASE p = Device
      BY <3>2, OrdinaryWires, TwoPeers
    <3> QED
      BY <3>1, <3>2, TwoPeers
  <2> QED
    BY <1>1, <2>1, <2>2 DEF Unheard
<1> QED
  BY <1>3, <1>4, <1>5, <1>6

LEMMA OrdinaryUnanswered ==
  ASSUME IInv, Sessions, NEW p \in Peers, NEW d, NEW sent, Ordinary(p, d, sent)
  PROVE  Unanswered'
<1> SUFFICES ASSUME NEW i \in Ids, socket'[Host][i].state = "open", socket'[Host][i].peer = 0
             PROVE  /\ ~socket'[Host][i].reading /\ socket'[Host][i].pending = <<>>
                    /\ \A n \in DOMAIN wire'[Device] : To(n, "WRTE", i)' =>
                         \E m \in DOMAIN wire'[Device] : m < n /\ To(m, "OKAY", i)'
                    /\ ~broken'[Device] =>
                         \A j \in Ids : socket'[Device][j].state = "open" /\ socket'[Device][j].peer = i =>
                           \E m \in DOMAIN wire'[Device] : To(m, "OKAY", i)'
  BY DEF Unanswered
<1>1. /\ Host \in Peers /\ Device \in Peers /\ Host # Device /\ Unanswered
      /\ Other(Host) = Device /\ Other(Device) = Host /\ (p = Host \/ p = Device)
      /\ UNCHANGED <<local_socket_next_id, online, broken, opened>>
  BY TwoPeers, AdbStreamAssumption DEF Sessions, Ordinary, Passes
<1>2. socket[Host][i].state = "open" /\ socket[Host][i].peer = 0
  BY <1>1, OrdinarySockets
<1>3. /\ ~socket[Host][i].reading /\ socket[Host][i].pending = <<>>
      /\ \A n \in DOMAIN wire[Device] : To(n, "WRTE", i) =>
           \E m \in DOMAIN wire[Device] : m < n /\ To(m, "OKAY", i)
      /\ ~broken[Device] =>
           \A j \in Ids : socket[Device][j].state = "open" /\ socket[Device][j].peer = i =>
             \E m \in DOMAIN wire[Device] : To(m, "OKAY", i)
  BY <1>2, <1>1 DEF Unanswered
<1>4. ~socket'[Host][i].reading /\ socket'[Host][i].pending = <<>>
  BY <1>1, <1>3, OrdinarySockets
<1>5. \A j \in Ids : socket'[Device][j].state = "open" /\ socket'[Device][j].peer = i =>
        socket[Device][j].state = "open" /\ socket[Device][j].peer = i
  BY <1>1, OrdinarySockets
<1>6. \A n \in DOMAIN wire[Device] : n \in Nat /\ n >= 1 /\ n <= Len(wire[Device]) /\ Len(wire[Device]) \in Nat
  BY <1>1, Types
<1>7. CASE p = Host
  <2>1. /\ d \in {0, 1}
        /\ \A n \in DOMAIN wire'[Device] : /\ n \in Nat /\ n + d \in DOMAIN wire[Device]
                                           /\ wire'[Device][n] = wire[Device][n + d]
        /\ \A n \in DOMAIN wire[Device] : d < n =>
             n - d \in DOMAIN wire'[Device] /\ wire'[Device][n - d] = wire[Device][n]
    BY <1>1, <1>7, OrdinaryWires
  <2>2. ~(d = 1 /\ To(1, "OKAY", i))
    BY <1>7 DEF Ordinary
  <2>3. \A m \in DOMAIN wire[Device] : To(m, "OKAY", i) =>
          m - d \in DOMAIN wire'[Device] /\ To(m - d, "OKAY", i)'
    <3> SUFFICES ASSUME NEW m \in DOMAIN wire[Device], To(m, "OKAY", i)
                 PROVE  m - d \in DOMAIN wire'[Device] /\ To(m - d, "OKAY", i)'
      OBVIOUS
    <3>1. d < m
      BY <1>6, <2>1, <2>2
    <3>2. m - d \in DOMAIN wire'[Device] /\ wire'[Device][m - d] = wire[Device][m]
      BY <2>1, <3>1
    <3> QED
      BY <3>2 DEF To
  <2>4. ASSUME NEW n \in DOMAIN wire'[Device], To(n, "WRTE", i)'
        PROVE  \E m \in DOMAIN wire'[Device] : m < n /\ To(m, "OKAY", i)'
    <3>1. n + d \in DOMAIN wire[Device] /\ To(n + d, "WRTE", i) /\ n \in Nat
      BY <2>1, <2>4 DEF To
    <3>2. PICK m \in DOMAIN wire[Device] : m < n + d /\ To(m, "OKAY", i)
      BY <1>3, <3>1
    <3>3. m - d < n
      BY <1>6, <2>1, <3>1, <3>2
    <3> QED
      BY <2>3, <3>2, <3>3
  <2> QED
    BY <1>1, <1>3, <1>4, <1>5, <2>3, <2>4
<1>8. CASE p = Device
  <2>1. /\ \A n \in DOMAIN wire[Device] : n \in DOMAIN wire'[Device] /\ wire'[Device][n] = wire[Device][n]
        /\ \A n \in DOMAIN wire'[Device] :
             \/ n \in DOMAIN wire[Device]
             \/ n \in Nat /\ n > Len(wire[Device]) /\ Fits(p, d, wire'[Device][n])
    BY <1>1, <1>8, OrdinaryWires
  <2>2. \A m \in DOMAIN wire[Device] : To(m, "OKAY", i) =>
          m \in DOMAIN wire'[Device] /\ To(m, "OKAY", i)'
    BY <2>1 DEF To
  <2>3. ASSUME NEW n \in DOMAIN wire'[Device], To(n, "WRTE", i)'
        PROVE  \E m \in DOMAIN wire'[Device] : m < n /\ To(m, "OKAY", i)'
    <3>1. CASE n \in DOMAIN wire[Device]
      <4>1. To(n, "WRTE", i)
        BY <2>1, <2>3, <3>1 DEF To
      <4> QED
        BY <1>3, <2>2, <3>1, <4>1
    <3>2. CASE n \in Nat /\ n > Len(wire[Device]) /\ Fits(p, d, wire'[Device][n])
      <4>1. \E m \in DOMAIN wire[Device] : To(m, "OKAY", i)
        BY <1>2, <1>8, <2>3, <3>2 DEF Fits, To
      <4>2. \A m \in DOMAIN wire[Device] : m < n
        BY <1>6, <3>2
      <4> QED
        BY <2>2, <4>1, <4>2
    <3> QED
      BY <2>1, <3>1, <3>2
  <2> QED
    BY <1>1, <1>3, <1>4, <1>5, <2>2, <2>3
<1> QED
  BY <1>1, <1>7, <1>8

(* What belongs together still does.                                         *)
LEMMA OrdinaryPackets ==
  ASSUME IInv, Sessions, NEW p \in Peers, NEW d, NEW sent, Ordinary(p, d, sent)
  PROVE  PacketsBelong'
<1>1. /\ Host \in Peers /\ Device \in Peers /\ Host # Device
      /\ Other(Host) = Device /\ Other(Device) = Host /\ (p = Host \/ p = Device)
      /\ UNCHANGED <<local_socket_next_id, online, broken, opened>>
      /\ PacketsBelong /\ d \in {0, 1}
  BY TwoPeers, AdbStreamAssumption DEF Sessions, Ordinary, Passes
<1>2. /\ \A n \in DOMAIN wire'[Host] :
           \/ \E m \in DOMAIN wire[Host] :
                /\ wire'[Host][n] = wire[Host][m]
                /\ p = Device => d < m
           \/ p = Host /\ Fits(Host, d, wire'[Host][n])
      /\ \A n \in DOMAIN wire'[Device] :
           \/ \E m \in DOMAIN wire[Device] : wire'[Device][n] = wire[Device][m]
           \/ p = Device /\ Fits(Device, d, wire'[Device][n])
  <2>1. CASE p = Host
    BY <1>1, <2>1, OrdinaryWires
  <2>2. CASE p = Device
    <3>1. \A n \in DOMAIN wire'[Host] : /\ n \in Nat /\ n + d \in DOMAIN wire[Host]
                                        /\ wire'[Host][n] = wire[Host][n + d]
      BY <1>1, <2>2, OrdinaryWires
    <3>2. \A n \in DOMAIN wire'[Host] : n >= 1
      <4>1. DOMAIN wire'[Host] = 1 .. Len(wire'[Host])
        BY <1>1, <2>2, OrdinaryWires
      <4> QED
        BY <4>1
    <3>3. \A n \in DOMAIN wire'[Host] : d < n + d
      BY <1>1, <3>1, <3>2
    <3>4. \A n \in DOMAIN wire'[Device] :
           \/ \E m \in DOMAIN wire[Device] : wire'[Device][n] = wire[Device][m]
           \/ Fits(Device, d, wire'[Device][n])
      BY <1>1, <2>2, OrdinaryWires
    <3> QED
      BY <1>1, <2>2, <3>1, <3>3, <3>4
  <2> QED
    BY <1>1, <2>1, <2>2
<1>3. \A j \in Ids : socket'[Device][j].state # "free" =>
        socket[Device][j].state # "free" /\ socket'[Device][j].stream = socket[Device][j].stream
  BY <1>1, OrdinarySockets
<1>4. \A r \in Peers : \A n \in DOMAIN wire'[r] : wire'[r][n] \in Packets
  <2>1. wire'[p] \in Seq(Packets) /\ wire'[Other(p)] \in Seq(Packets)
    BY DEF Ordinary, Passes, Moved
  <2> QED
    BY <1>1, <2>1, TwoPeers
<1>5. ASSUME NEW n \in DOMAIN wire'[Host], HostPacket(wire'[Host][n]), wire'[Host][n].cmd # "OPEN"
      PROVE  HostPacket(wire[Host][n])'
  <2> DEFINE m == wire'[Host][n]
  <2>1. m.arg1 \in 0 .. MaxOpens
    BY <1>1, <1>4, ReceivedIds
  <2>2. m.arg1 # 0 => m.arg1 \in Ids
    BY <2>1, PeerTypes
  <2> QED
    BY <1>1, <1>3, <1>5, <2>2 DEF HostPacket, IsStream, StreamOf
<1>6. ASSUME NEW n \in DOMAIN wire'[Device], DevicePacket(wire'[Device][n])
      PROVE  DevicePacket(wire[Device][n])'
  <2> DEFINE m == wire'[Device][n]
  <2>1. m.arg0 \in 0 .. MaxOpens
    BY <1>1, <1>4, ReceivedIds
  <2>2. m.arg0 # 0 => m.arg0 \in Ids
    BY <2>1, PeerTypes
  <2> QED
    BY <1>1, <1>3, <1>6, <2>2 DEF DevicePacket, IsStream, StreamOf
<1>7. ASSUME NEW n \in DOMAIN wire'[Host], wire'[Host][n].cmd = "OPEN"
      PROVE  OpenPacket(wire[Host][n])'
  <2> DEFINE m == wire'[Host][n]
  <2>1. PICK l \in DOMAIN wire[Host] : m = wire[Host][l] /\ (p = Device => d < l)
    BY <1>2, <1>7 DEF Fits, Addressed
  <2>2. OpenPacket(wire[Host][l])
    BY <1>1, <1>7, <2>1 DEF PacketsBelong, HostPacket
  <2>3. \A j \in Ids : socket'[Device][j].state # "free" => socket'[Device][j].stream # m.data[2]
    BY <1>3, <2>1, <2>2 DEF OpenPacket
  <2>4. ASSUME online[Host], NEW e \in DOMAIN wire'[Device], wire'[Device][e].cmd \in Addressed
        PROVE  wire'[Device][e].arg1 # m.arg0
    <3>1. CASE \E b \in DOMAIN wire[Device] : wire'[Device][e] = wire[Device][b]
      BY <2>1, <2>2, <2>4, <3>1 DEF OpenPacket
    <3>2. CASE p = Device /\ Fits(Device, d, wire'[Device][e])
      BY <1>1, <1>7, <2>1, <2>4, <3>2 DEF Fits
    <3> QED
      BY <1>2, <3>1, <3>2
  <2>5. online[Host] => m.arg0 < local_socket_next_id[Host] /\ m.data[2] = StreamOf(m.arg0)
    BY <2>1, <2>2 DEF OpenPacket
  <2> QED
    BY <1>1, <2>3, <2>4, <2>5 DEF OpenPacket, StreamOf
<1>8. \A n \in DOMAIN wire'[Host] : HostPacket(wire[Host][n])'
  <2> SUFFICES ASSUME NEW n \in DOMAIN wire'[Host]
               PROVE  HostPacket(wire[Host][n])'
    OBVIOUS
  <2>1. CASE wire'[Host][n].cmd = "OPEN"
    BY <1>7, <2>1 DEF HostPacket, Addressed
  <2>2. CASE wire'[Host][n].cmd # "OPEN"
    <3>1. HostPacket(wire'[Host][n])
      BY <1>1, <1>2 DEF PacketsBelong, Fits
    <3> QED
      BY <1>5, <2>2, <3>1
  <2> QED
    BY <2>1, <2>2
<1>9. \A n \in DOMAIN wire'[Device] : DevicePacket(wire[Device][n])'
  <2>1. \A n \in DOMAIN wire'[Device] : DevicePacket(wire'[Device][n])
    BY <1>1, <1>2 DEF PacketsBelong, Fits
  <2> QED
    BY <1>6, <2>1
<1> QED
  BY <1>8, <1>9 DEF PacketsBelong

LEMMA OrdinaryKeeps ==
  ASSUME IInv, IInv', Sessions, NEW p \in Peers, NEW d, NEW sent, Ordinary(p, d, sent)
  PROVE  Sessions'
<1>1. (\A r \in Peers : Syncs(r)') /\ OfflineCloses' /\ Connecting'
  BY OrdinaryConnecting
<1>3. HostIds' /\ DeviceIds' /\ HostPeers' /\ Unheard'
  BY OrdinaryIds
<1>4. Unanswered' /\ PacketsBelong'
  BY OrdinaryUnanswered, OrdinaryPackets
<1> QED
  BY <1>1, <1>3, <1>4 DEF Sessions

-------------------------------------------------------------------------------
(* Which packets fit.                                                        *)

(* The socket of the other end that belongs to open socket i of end p is r.  *)
Partner(p, i, r) ==
  /\ p = Host => r < local_socket_next_id[Device] /\ IsStream(r, socket[Host][i].stream)
  /\ p = Device /\ online[Host] =>
       r # 0 /\ r < local_socket_next_id[Host] /\ StreamOf(r) = socket[Device][i].stream

LEMMA PeerIsPartner ==
  ASSUME IInv, Sessions, NEW p \in Peers, NEW i \in Ids,
         socket[p][i].state = "open", socket[p][i].peer # 0
  PROVE  Partner(p, i, socket[p][i].peer)
<1>1. HostPeers /\ DeviceIds /\ Host # Device
  BY AdbStreamAssumption DEF Sessions
<1>2. CASE p = Host
  BY <1>1, <1>2 DEF Partner, HostPeers
<1>3. CASE p = Device
  BY <1>1, <1>3 DEF Partner, DeviceIds
<1> QED
  BY <1>2, <1>3, TwoPeers

LEMMA WritePartner ==
  ASSUME IInv, Sessions, NEW p \in Peers, Handles(p, "WRTE"), Finds(p)
  PROVE  LET m == Received(p) IN
         /\ Partner(p, m.arg1, m.arg0)
         /\ m.data[2] = socket[p][m.arg1].stream
         /\ m.data[1] = Other(p)
<1> DEFINE q == Other(p)
           m == Received(p)
           s == socket[p][m.arg1]
<1>1. /\ Host \in Peers /\ Device \in Peers /\ Host # Device
      /\ Other(Host) = Device /\ Other(Device) = Host /\ (p = Host \/ p = Device)
      /\ PacketsBelong /\ HostIds /\ DeviceIds /\ OfflineCloses
  BY TwoPeers, AdbStreamAssumption DEF Sessions
<1>2. /\ wire[q] # <<>> /\ m.cmd = "WRTE" /\ online[p] /\ m.arg1 \in Ids /\ s.state = "open"
  BY DEF Handles, Finds
<1>3. 1 \in DOMAIN wire[q] /\ wire[q][1] = m /\ m \in Packets
  <2>1. wire[q] \in Seq(Packets)
    BY <1>1, Types
  <2> QED
    BY <1>2, <2>1 DEF Received
<1>4. CASE p = Host
  <2>1. DevicePacket(m)
    BY <1>1, <1>3, <1>4 DEF PacketsBelong
  <2>2. s.stream = StreamOf(m.arg1)
    BY <1>2, <1>1, <1>4 DEF HostIds
  <2> QED
    BY <1>1, <1>2, <1>4, <2>1, <2>2 DEF DevicePacket, Partner
<1>5. CASE p = Device
  <2>1. HostPacket(m)
    BY <1>1, <1>3, <1>5 DEF PacketsBelong
  <2>2. m.data[2] = s.stream /\ m.data[1] = Host /\ (online[Host] => m.arg0 # 0 /\ m.data[2] = StreamOf(m.arg0))
    BY <1>2, <1>5, <2>1 DEF HostPacket, IsStream
  <2>3. s.stream <= opened
    BY <1>1, <1>2, <1>5 DEF DeviceIds
  <2>4. online[Host] => m.arg0 < local_socket_next_id[Host]
    <3>1. /\ m.arg0 \in 0 .. MaxOpens /\ opened \in 0 .. MaxOpens
          /\ local_socket_next_id[Host] \in 1 .. MaxOpens + 1 /\ MaxOpens \in Nat
      BY <1>1, <1>3, Types, ReceivedIds
    <3>2. m.arg0 \in Nat /\ opened \in Nat /\ local_socket_next_id[Host] \in Nat
      BY <3>1
    <3> QED
      BY <2>2, <2>3, <3>2 DEF StreamOf
  <2> QED
    BY <1>1, <1>5, <2>2, <2>4 DEF Partner
<1> QED
  BY <1>1, <1>4, <1>5

LEMMA FitsPartner ==
  ASSUME IInv, Sessions, NEW p \in Peers, NEW i \in Ids, NEW r,
         socket[p][i].state = "open", Partner(p, i, r), NEW d
  PROVE  /\ Fits(p, d, Okay(i, r)) /\ Fits(p, d, Packet("CLSE", 0, r))
         /\ \A n : socket[p][i].peer = r /\ r # 0 /\ ~broken[p] =>
              Fits(p, d, [Packet("WRTE", i, r) EXCEPT !.data = <<p, socket[p][i].stream, n>>])
<1> DEFINE k == socket[p][i].stream
<1>1. /\ Host \in Peers /\ Device \in Peers /\ Host # Device /\ (p = Host \/ p = Device)
      /\ PacketsBelong /\ HostIds /\ DeviceIds /\ Unanswered
  BY TwoPeers, AdbStreamAssumption DEF Sessions
<1>2. k \in Streams /\ i # 0
  <2>1. SocketsWhole
    BY InvParts
  <2> QED
    BY <2>1, InUse DEF Ids
<1>3. /\ Okay(i, r).cmd = "OKAY" /\ Okay(i, r).arg0 = i /\ Okay(i, r).arg1 = r
      /\ Packet("CLSE", 0, r).cmd = "CLSE" /\ Packet("CLSE", 0, r).arg1 = r
  BY DEF Okay, Packet
<1>4. \A n : LET m == [Packet("WRTE", i, r) EXCEPT !.data = <<p, k, n>>] IN
        m.cmd = "WRTE" /\ m.arg0 = i /\ m.arg1 = r /\ m.data[1] = p /\ m.data[2] = k
  BY DEF Packet
<1>5. CASE p = Host
  <2>1. r < local_socket_next_id[Device] /\ IsStream(r, k) /\ k = StreamOf(i)
    BY <1>1, <1>5 DEF Partner, HostIds
  <2>2. /\ Fits(p, d, Okay(i, r)) /\ Fits(p, d, Packet("CLSE", 0, r))
    BY <1>1, <1>3, <1>5, <2>1 DEF Fits, HostPacket, Addressed
  <2>3. ASSUME NEW n, r # 0
        PROVE  Fits(p, d, [Packet("WRTE", i, r) EXCEPT !.data = <<p, k, n>>])
    <3> DEFINE m == [Packet("WRTE", i, r) EXCEPT !.data = <<p, k, n>>]
    <3>1. m.cmd = "WRTE" /\ m.arg0 = i /\ m.arg1 = r /\ m.data[1] = p /\ m.data[2] = k
      BY <1>4
    <3> HIDE DEF m
    <3>2. HostPacket(m)
      BY <1>2, <1>5, <2>1, <2>3, <3>1 DEF HostPacket, Addressed
    <3>3. Fits(p, d, m)
      BY <1>1, <1>5, <3>1, <3>2 DEF Fits, Addressed
    <3> QED
      BY <3>3 DEF m
  <2> QED
    BY <2>2, <2>3
<1>6. CASE p = Device
  <2>1. /\ online[Host] => r # 0 /\ r < local_socket_next_id[Host] /\ StreamOf(r) = k
        /\ i < local_socket_next_id[Device] /\ IsStream(i, k)
    BY <1>1, <1>6 DEF Partner, DeviceIds, IsStream
  <2>2. online[Host] => \A n \in DOMAIN wire[Host] :
          wire[Host][n].cmd = "OPEN" => wire[Host][n].arg0 # r
    BY <1>1, <1>6, <2>1 DEF PacketsBelong, HostPacket, OpenPacket
  <2>3. online[Host] => IsStream(i, StreamOf(r))
    BY <2>1
  <2>4. Fits(p, d, Okay(i, r))
    <3> DEFINE m == Okay(i, r)
    <3> HIDE DEF m
    <3>1. m.cmd = "OKAY" /\ m.arg0 = i /\ m.arg1 = r
      BY <1>3 DEF m
    <3>2. DevicePacket(m)
      BY <1>2, <2>1, <2>3, <3>1 DEF DevicePacket, Addressed
    <3>3. Fits(p, d, m)
      BY <1>1, <1>6, <2>2, <3>1, <3>2 DEF Fits, Addressed
    <3> QED
      BY <3>3 DEF m
  <2>5. Fits(p, d, Packet("CLSE", 0, r))
    <3> DEFINE m == Packet("CLSE", 0, r)
    <3> HIDE DEF m
    <3>1. m.cmd = "CLSE" /\ m.arg1 = r
      BY <1>3 DEF m
    <3>2. DevicePacket(m)
      BY <2>1, <3>1 DEF DevicePacket, Addressed
    <3>3. Fits(p, d, m)
      BY <1>1, <1>6, <2>2, <3>1, <3>2 DEF Fits, Addressed
    <3> QED
      BY <3>3 DEF m
  <2>6. ASSUME NEW n, socket[p][i].peer = r, r # 0, ~broken[p]
        PROVE  Fits(p, d, [Packet("WRTE", i, r) EXCEPT !.data = <<p, k, n>>])
    <3> DEFINE m == [Packet("WRTE", i, r) EXCEPT !.data = <<p, k, n>>]
    <3>1. m.cmd = "WRTE" /\ m.arg0 = i /\ m.arg1 = r /\ m.data[1] = p /\ m.data[2] = k
      BY <1>4
    <3> HIDE DEF m
    <3>2. DevicePacket(m)
      BY <1>2, <1>6, <2>1, <2>6, <3>1 DEF DevicePacket, Addressed
    <3>3. \A l \in Ids : l = r /\ socket[Host][l].state = "open" /\ socket[Host][l].peer = 0
            => \E b \in DOMAIN wire[Device] : To(b, "OKAY", l)
      BY <1>1, <1>6, <2>6 DEF Unanswered
    <3>4. Fits(p, d, m)
      BY <1>1, <1>6, <2>2, <3>1, <3>2, <3>3 DEF Fits, Addressed
    <3> QED
      BY <3>4 DEF m
  <2> QED
    BY <2>4, <2>5, <2>6
<1> QED
  BY <1>1, <1>5, <1>6

-------------------------------------------------------------------------------
(* The ordinary actions.                                                     *)

Sent(p, packets) == IF broken[p] THEN <<>> ELSE packets

LEMMA RepliesMove ==
  ASSUME IInv, NEW p \in Peers, NEW packets \in Seq(Packets), Replies(p, packets),
         wire[Other(p)] # <<>>
  PROVE  /\ Moved(wire[Other(p)], wire'[Other(p)], 1, Len(wire[Other(p)]) - 1, <<>>)
         /\ Moved(wire[p], wire'[p], 0, Len(wire[p]), Sent(p, packets))
<1>1. /\ wire[p] \in Seq(Packets) /\ wire[Other(p)] \in Seq(Packets) /\ Other(p) # p
      /\ Other(p) \in Peers
  BY Types, TwoPeers
<1>2. wire \in [Peers -> Seq(Packets)]
  BY InvParts DEF WireOK
<1>3. wire'[Other(p)] = Tail(wire[Other(p)]) /\ wire'[p] = Put(p, packets)
  BY <1>1, <1>2 DEF Replies
<1>4. Moved(wire[Other(p)], Tail(wire[Other(p)]), 1, Len(wire[Other(p)]) - 1, <<>>)
  BY <1>1, WireMoves
<1>5. CASE broken[p]
  BY <1>1, <1>3, <1>4, <1>5, WireMoves DEF Put, Sent
<1>6. CASE ~broken[p]
  <2>1. Moved(wire[p], wire[p] \o packets, 0, Len(wire[p]), packets)
    BY <1>1, WireMoves
  <2> QED
    BY <1>3, <1>4, <1>6, <2>1 DEF Put, Sent
<1> QED
  BY <1>5, <1>6

LEMMA SendsMove ==
  ASSUME IInv, NEW p \in Peers, NEW packets \in Seq(Packets), Sends(p, packets)
  PROVE  /\ wire'[Other(p)] = wire[Other(p)]
         /\ Moved(wire[Other(p)], wire'[Other(p)], 0, Len(wire[Other(p)]) - 0, <<>>)
         /\ Moved(wire[p], wire'[p], 0, Len(wire[p]), Sent(p, packets))
<1>1. /\ wire[p] \in Seq(Packets) /\ wire[Other(p)] \in Seq(Packets) /\ Other(p) # p
      /\ Other(p) \in Peers
  BY Types, TwoPeers
<1>2. wire \in [Peers -> Seq(Packets)]
  BY InvParts DEF WireOK
<1>3. wire'[Other(p)] = wire[Other(p)] /\ wire'[p] = Put(p, packets)
  BY <1>1, <1>2 DEF Sends
<1>4. /\ Moved(wire[Other(p)], wire[Other(p)], 0, Len(wire[Other(p)]), <<>>)
      /\ Len(wire[Other(p)]) - 0 = Len(wire[Other(p)])
  BY <1>1, WireMoves
<1>5. CASE broken[p]
  BY <1>1, <1>3, <1>4, <1>5, WireMoves DEF Put, Sent
<1>6. CASE ~broken[p]
  <2>1. Moved(wire[p], wire[p] \o packets, 0, Len(wire[p]), packets)
    BY <1>1, WireMoves
  <2> QED
    BY <1>3, <1>4, <1>6, <2>1 DEF Put, Sent
<1> QED
  BY <1>5, <1>6

(* What the sockets of the two ends do in such a step. *)
SocketsLater(p) ==
  /\ \A i \in Ids : socket'[Other(p)][i] = socket[Other(p)][i]
  /\ \A i \in Ids : socket'[p][i] = socket[p][i] \/ Later(p, i)

LEMMA ReplyIsOrdinary ==
  ASSUME IInv, NEW p \in Peers, NEW packets \in Seq(Packets), Replies(p, packets),
         wire[Other(p)] # <<>>, Received(p).cmd \in Addressed \cup {"OPEN"},
         UNCHANGED <<endVars, opened>>, SocketsLater(p),
         packets # <<>> => online[p],
         \A n \in DOMAIN packets : Fits(p, 1, packets[n]),
         p = Host => \A i \in Ids :
           Received(p).cmd = "OKAY" /\ Received(p).arg1 = i /\ socket'[Host][i].state = "open"
             => socket'[Host][i].peer # 0
  PROVE  Ordinary(p, 1, Sent(p, packets))
<1>1. /\ Moved(wire[Other(p)], wire'[Other(p)], 1, Len(wire[Other(p)]) - 1, <<>>)
      /\ Moved(wire[p], wire'[p], 0, Len(wire[p]), Sent(p, packets))
  BY RepliesMove
<1>2. Received(p) = wire[Other(p)][1]
  BY TwoPeers, Types DEF Received
<1>3. /\ Sent(p, packets) # <<>> => online[p] /\ ~broken[p]
      /\ \A n \in DOMAIN Sent(p, packets) : Fits(p, 1, Sent(p, packets)[n])
  BY DEF Sent
<1>4. p = Host => \A i \in Ids :
        To(1, "OKAY", i) /\ socket'[Host][i].state = "open" => socket'[Host][i].peer # 0
  BY <1>2, TwoPeers DEF To
<1> QED
  BY <1>1, <1>2, <1>3, <1>4 DEF Ordinary, Passes, endVars, SocketsLater, Fits

LEMMA SendIsOrdinary ==
  ASSUME IInv, NEW p \in Peers, NEW packets \in Seq(Packets), Sends(p, packets),
         UNCHANGED <<endVars, opened>>, SocketsLater(p),
         packets # <<>> => online[p] /\ ~NoneOpen(p),
         ~broken[p] => \A n \in DOMAIN packets : Fits(p, 0, packets[n])
  PROVE  Ordinary(p, 0, Sent(p, packets))
<1>1. /\ Moved(wire[Other(p)], wire'[Other(p)], 0, Len(wire[Other(p)]) - 0, <<>>)
      /\ Moved(wire[p], wire'[p], 0, Len(wire[p]), Sent(p, packets))
  BY SendsMove
<1>2. /\ Sent(p, packets) # <<>> => online[p] /\ ~broken[p] /\ ~NoneOpen(p)
      /\ \A n \in DOMAIN Sent(p, packets) : Fits(p, 0, Sent(p, packets)[n])
  BY DEF Sent
<1> QED
  BY <1>1, <1>2 DEF Ordinary, Passes, endVars, SocketsLater, Fits

(* A socket that is closed waits for its last packets, or is free.           *)
LEMMA ClosedLater ==
  ASSUME IInv, NEW p \in Peers, NEW i \in Ids, socket[p][i].state # "free",
         socket' = [socket EXCEPT ![p][i] = Closed(@)]
  PROVE  LET s == socket[p][i]
             t == socket'[p][i] IN
         /\ Later(p, i) /\ SocketsLater(p) /\ t.state # "open"
         /\ \/ t = Free
            \/ s.state = "open" /\ t.state = "closing" /\ t.stream = s.stream /\ t.pending = s.pending
         /\ t = Free \/ s.pending # <<>>
         /\ \A r \in Peers, l \in Ids : r # p \/ l # i => socket'[r][l] = socket[r][l]
<1> DEFINE s == socket[p][i]
<1>1. SocketsWhole /\ socket \in [Peers -> [Ids -> Sockets]]
  BY InvParts DEF SocketsWhole
<1>2. \A r \in Peers, l \in Ids :
        socket'[r][l] = IF r = p /\ l = i THEN Closed(s) ELSE socket[r][l]
  BY <1>1
<1>3. s \in Sockets /\ s.state \in {"free", "open", "closing"}
  BY <1>1 DEF Sockets
<1>4. \/ Closed(s) = Free
      \/ /\ s.state = "open" /\ s.pending # <<>> /\ Closed(s).state = "closing"
         /\ Closed(s).stream = s.stream /\ Closed(s).pending = s.pending
  BY <1>3 DEF Closed, Sockets
<1>5. Free.state = "free"
  BY DEF Free
<1>6. Later(p, i)
  BY <1>2, <1>4, <1>5 DEF Later
<1>7. SocketsLater(p)
  BY <1>2, <1>6, TwoPeers, AdbStreamAssumption DEF SocketsLater
<1> QED
  BY <1>2, <1>4, <1>5, <1>6, <1>7

(* One socket of an end changes.                                             *)
LEMMA OneLater ==
  ASSUME NEW p \in Peers, NEW i \in Ids, Later(p, i),
         \A r \in Peers, l \in Ids : r # p \/ l # i => socket'[r][l] = socket[r][l]
  PROVE  SocketsLater(p)
<1>1. Other(p) \in Peers /\ Other(p) # p
  BY TwoPeers, AdbStreamAssumption
<1> QED
  BY <1>1 DEF SocketsLater

(* The packet a handler takes.                                               *)
LEMMA ReceivedFacts ==
  ASSUME IInv, NEW p \in Peers, wire[Other(p)] # <<>>
  PROVE  LET m == Received(p) IN
         /\ 1 \in DOMAIN wire[Other(p)] /\ wire[Other(p)][1] = m /\ m \in Packets
         /\ m.arg0 \in 0 .. MaxOpens /\ m.arg1 \in 0 .. MaxOpens /\ m.data \in Data
         /\ Other(p) \in Peers
<1>1. wire[Other(p)] \in Seq(Packets) /\ Other(p) \in Peers
  BY Types, TwoPeers
<1>2. 1 \in DOMAIN wire[Other(p)] /\ wire[Other(p)][1] = Received(p) /\ Received(p) \in Packets
  BY <1>1 DEF Received
<1> QED
  BY <1>1, <1>2, ReceivedIds

LEMMA NothingLater ==
  ASSUME NEW p, UNCHANGED socket
  PROVE  SocketsLater(p)
  BY DEF SocketsLater

LEMMA OpenSocketFacts ==
  ASSUME IInv, Sessions, NEW p \in Peers, NEW i \in Ids, socket[p][i].state = "open"
  PROVE  /\ online[p] /\ ~NoneOpen(p)
         /\ socket[p][i].stream \in Streams
         /\ socket[p][i].reading \/ socket[p][i].pending # <<>> => socket[p][i].peer # 0
         /\ socket[p][i].peer \in 0 .. MaxOpens
<1>1. OfflineCloses /\ Unanswered /\ DeviceConnected
  BY DEF Sessions, IInv
<1>2. SocketsWhole
  BY InvParts
<1>3. online[p] /\ ~NoneOpen(p)
  BY <1>1 DEF OfflineCloses, NoneOpen
<1>4. socket[p][i].reading \/ socket[p][i].pending # <<>> => socket[p][i].peer # 0
  BY <1>1, TwoPeers DEF Unanswered, DeviceConnected
<1> QED
  BY <1>2, <1>3, <1>4, InUse

(* remote_socket_close tells the socket's peer.                              *)
LEMMA CloseMessageFits ==
  ASSUME IInv, Sessions, NEW p \in Peers, NEW i \in Ids, NEW d,
         socket[p][i].state = "open"
  PROVE  /\ CloseMessage(socket[p][i]) \in Seq(Packets)
         /\ \A n \in DOMAIN CloseMessage(socket[p][i]) : Fits(p, d, CloseMessage(socket[p][i])[n])
<1>1. Whole(socket[p][i])
  BY InvParts DEF SocketsWhole
<1>2. CloseMessage(socket[p][i]) \in Seq(Packets)
  BY <1>1, CloseMessages
<1>3. CASE socket[p][i].peer = 0
  BY <1>2, <1>3 DEF CloseMessage
<1>4. CASE socket[p][i].peer # 0
  <2>1. Fits(p, d, Packet("CLSE", 0, socket[p][i].peer))
    BY <1>4, PeerIsPartner, FitsPartner
  <2> QED
    BY <1>2, <1>4, <2>1 DEF CloseMessage
<1> QED
  BY <1>3, <1>4

LEMMA RejectIsOrdinary ==
  ASSUME IInv, Sessions, Handles(Device, "OPEN"), online[Device],
         Replies(Device, <<Packet("CLSE", 0, Received(Device).arg0)>>),
         UNCHANGED <<socket, endVars, opened>>
  PROVE  Ordinary(Device, 1, Sent(Device, <<Packet("CLSE", 0, Received(Device).arg0)>>))
<1> DEFINE m == Received(Device)
           c == Packet("CLSE", 0, m.arg0)
<1>1. /\ Device \in Peers /\ Host # Device /\ Other(Device) = Host /\ wire[Host] # <<>>
      /\ Host \in Peers /\ m.cmd = "OPEN"
  BY TwoPeers, AdbStreamAssumption DEF Handles
<1>2. 1 \in DOMAIN wire[Host] /\ wire[Host][1] = m /\ m.arg0 \in 0 .. MaxOpens
  BY <1>1, ReceivedFacts
<1>3. c \in Packets /\ c.cmd = "CLSE" /\ c.arg1 = m.arg0
  BY <1>2, PacketTypes, AdbStreamAssumption DEF Packet
<1>4. OpenPacket(m) /\ m.arg0 # 0
  <2>1. PacketsBelong /\ OpensFrom(wire[Host], local_socket_next_id[Device], opened)
    BY DEF Sessions, IInv, Numbered
  <2> QED
    BY <1>1, <1>2, <2>1 DEF PacketsBelong, HostPacket, OpensFrom
<1>5. ASSUME online[Host], NEW n \in DOMAIN wire[Host], 1 < n, wire[Host][n].cmd = "OPEN"
      PROVE  wire[Host][n].arg0 # m.arg0
  <2>1. OpensFrom(wire[Host], local_socket_next_id[Device], opened)
    BY DEF IInv, Numbered
  <2>2. m.data[2] < wire[Host][n].data[2]
    BY <1>1, <1>2, <1>5, <2>1 DEF OpensFrom
  <2>3. OpenPacket(wire[Host][n])
    BY <1>5 DEF Sessions, PacketsBelong, HostPacket
  <2>4. m.data[2] = StreamOf(m.arg0) /\ wire[Host][n].data[2] = StreamOf(wire[Host][n].arg0)
    BY <1>4, <1>5, <2>3 DEF OpenPacket
  <2>5. m.data[2] \in Nat
    <3>1. m \in Packets
      BY <1>1, ReceivedFacts
    <3> QED
      BY <3>1, ReceivedIds, AdbStreamAssumption
  <2> QED
    BY <2>2, <2>4, <2>5
<1>6. Fits(Device, 1, c)
  <2> HIDE DEF c
  <2>1. DevicePacket(c)
    BY <1>3, <1>4 DEF DevicePacket, Addressed, OpenPacket
  <2> QED
    BY <1>1, <1>3, <1>5, <2>1 DEF Fits, Addressed
<1>7. <<c>> \in Seq(Packets) /\ \A n \in DOMAIN <<c>> : Fits(Device, 1, <<c>>[n])
  BY <1>3, <1>6
<1>8. SocketsLater(Device)
  BY NothingLater
<1>9. Replies(Device, <<c>>) /\ online[Device] /\ UNCHANGED <<endVars, opened>>
  OBVIOUS
<1> HIDE DEF c
<1>10. Ordinary(Device, 1, Sent(Device, <<c>>))
  BY <1>1, <1>7, <1>8, <1>9, ReplyIsOrdinary
<1> QED
  BY <1>10 DEF c

LEMMA OkayIsOrdinary ==
  ASSUME IInv, Sessions, NEW p \in Peers, HandleOkay(p)
  PROVE  Ordinary(p, 1, <<>>)
<1> DEFINE m == Received(p)
           i == m.arg1
           s == socket[p][i]
           t == [s EXCEPT !.peer = IF @ = 0 THEN m.arg0 ELSE @, !.reading = TRUE]
<1>1. /\ wire[Other(p)] # <<>> /\ m.cmd = "OKAY" /\ i \in Ids /\ s.state = "open" /\ online[p]
      /\ socket' = [socket EXCEPT ![p][i].peer = IF @ = 0 THEN m.arg0 ELSE @,
                                  ![p][i].reading = TRUE]
      /\ Replies(p, <<>>)
      /\ UNCHANGED <<endVars, countVars, historyVars>>
  BY DEF HandleOkay, Handles, Finds
<1>2. /\ 1 \in DOMAIN wire[Other(p)] /\ wire[Other(p)][1] = m
      /\ socket \in [Peers -> [Ids -> Sockets]] /\ s \in Sockets
      /\ Host # Device /\ Other(Host) = Device
  BY <1>1, ReceivedFacts, InvParts, TwoPeers, AdbStreamAssumption DEF SocketsWhole
<1>3. socket' = [socket EXCEPT ![p][i] = t]
  BY <1>1, <1>2
<1>4. /\ t.state = "open" /\ t.stream = s.stream /\ t.pending = s.pending
      /\ t.peer = IF s.peer = 0 THEN m.arg0 ELSE s.peer
  BY <1>1, <1>2 DEF Sockets
<1>5. p = Host => /\ m.arg0 # 0 /\ m.arg0 < local_socket_next_id[Device]
                  /\ IsStream(m.arg0, s.stream)
                  /\ \A n \in DOMAIN wire[Host] :
                       wire[Host][n].cmd = "OPEN" => wire[Host][n].data[2] # s.stream
  <2> SUFFICES ASSUME p = Host
               PROVE  /\ m.arg0 # 0 /\ m.arg0 < local_socket_next_id[Device]
                      /\ IsStream(m.arg0, s.stream)
                      /\ \A n \in DOMAIN wire[Host] :
                           wire[Host][n].cmd = "OPEN" => wire[Host][n].data[2] # s.stream
    OBVIOUS
  <2>1. DevicePacket(m) /\ s.stream = StreamOf(i) /\ i < local_socket_next_id[Host]
    BY <1>1, <1>2 DEF Sessions, PacketsBelong, HostIds
  <2>2. ASSUME NEW n \in DOMAIN wire[Host], wire[Host][n].cmd = "OPEN"
        PROVE  wire[Host][n].data[2] # s.stream
    <3>1. OpenPacket(wire[Host][n])
      BY <2>2 DEF Sessions, PacketsBelong, HostPacket
    <3>2. /\ wire[Host][n].data[2] = StreamOf(wire[Host][n].arg0)
          /\ wire[Host][n].arg0 # i
      BY <1>1, <1>2, <3>1 DEF OpenPacket, Addressed
    <3>3. /\ wire[Host][n].arg0 \in Nat /\ i \in Nat /\ opened \in Nat
          /\ local_socket_next_id[Host] \in Nat
      <4>1. wire[Host][n] \in Packets
        BY Types
      <4> QED
        BY <1>1, <4>1, Types, ReceivedIds DEF Ids
    <3>4. StreamOf(wire[Host][n].arg0) # StreamOf(i)
      BY <3>2, <3>3 DEF StreamOf
    <3> QED
      BY <2>1, <3>2, <3>4
  <2> QED
    BY <1>1, <2>1, <2>2 DEF DevicePacket
<1>6. p = Device => s.peer # 0
  BY <1>1 DEF IInv, DeviceConnected
<1> HIDE DEF t
<1>7. t.peer # 0
  BY <1>4, <1>5, <1>6, TwoPeers
<1>8. /\ socket'[p][i] = t
      /\ \A r \in Peers, l \in Ids : r # p \/ l # i => socket'[r][l] = socket[r][l]
  <2>1. i \in Ids
    BY <1>1
  <2> HIDE DEF s, i, m
  <2> QED
    BY <1>2, <1>3, <2>1
<1>9. SocketsLater(p)
  <2>1. /\ s.state = "open" /\ t.state = "open" /\ t.stream = s.stream /\ t.peer # 0
        /\ socket'[p][i] = t
    BY <1>1, <1>4, <1>7, <1>8
  <2>2. t.peer # s.peer => p = Host /\ s.peer = 0 /\ t.peer = m.arg0
    BY <1>4, <1>6, TwoPeers
  <2>3. t.peer # s.peer =>
          /\ t.peer < local_socket_next_id[Device] /\ IsStream(t.peer, t.stream)
          /\ \A n \in DOMAIN wire[Host] :
               wire[Host][n].cmd = "OPEN" => wire[Host][n].data[2] # t.stream
    BY <1>5, <2>1, <2>2
  <2>4. Later(p, i)
    BY <2>1, <2>2, <2>3 DEF Later
  <2> QED
    BY <1>1, <1>8, <2>4, OneLater
<1>10. Ordinary(p, 1, Sent(p, <<>>))
  <2>1. /\ Replies(p, <<>>) /\ wire[Other(p)] # <<>> /\ Received(p).cmd \in Addressed \cup {"OPEN"}
        /\ UNCHANGED <<endVars, opened>> /\ <<>> \in Seq(Packets) /\ DOMAIN <<>> = {}
    BY <1>1 DEF Addressed, countVars
  <2>2. p = Host => \A l \in Ids :
          Received(p).cmd = "OKAY" /\ Received(p).arg1 = l /\ socket'[Host][l].state = "open"
            => socket'[Host][l].peer # 0
    BY <1>7, <1>8
  <2> QED
    BY <1>9, <2>1, <2>2, ReplyIsOrdinary
<1> QED
  BY <1>10 DEF Sent

(* A WRITE is written at once, kept or refused.                              *)
LEMMA WriteIsOrdinary ==
  ASSUME IInv, Sessions, NEW p \in Peers, HandleWrite(p)
  PROVE  LET m == Received(p)
             i == m.arg1
             s == socket[p][i]
             t == socket'[p][i] IN
         /\ i \in Ids /\ s.state = "open" /\ s.stream \in Streams
         /\ m.data[2] = s.stream /\ m.data[1] = Other(p)
         /\ Partner(p, i, m.arg0)
         /\ UNCHANGED <<chunks, opened>>
         /\ \A r \in Peers, l \in Ids : r # p \/ l # i => socket'[r][l] = socket[r][l]
         /\ \/ /\ s.pending = <<>> /\ UNCHANGED <<socket, ended>>
               /\ written' = [written EXCEPT ![p][s.stream] = Append(@, m.data)]
               /\ Ordinary(p, 1, Sent(p, <<Okay(i, m.arg0)>>))
            \/ /\ t.state = "open" /\ t.stream = s.stream /\ t.peer = s.peer
               /\ t.reading = s.reading /\ t.pending = Append(s.pending, m.data)
               /\ UNCHANGED <<written, ended>>
               /\ Ordinary(p, 1, <<>>)
            \/ /\ s.pending = <<>> /\ t = Free
               /\ Ends(p, s.stream, "error")
               /\ UNCHANGED written
               /\ Ordinary(p, 1, Sent(p, CloseMessage(s)))
<1> DEFINE m == Received(p)
           i == m.arg1
           s == socket[p][i]
<1>1. /\ wire[Other(p)] # <<>> /\ m.cmd = "WRTE" /\ i \in Ids /\ s.state = "open" /\ online[p]
      /\ Handles(p, "WRTE") /\ Finds(p)
      /\ UNCHANGED <<endVars, opened, chunks>>
  BY DEF HandleWrite, Handles, Finds, countVars
<1>2. /\ Partner(p, i, m.arg0) /\ m.data[2] = s.stream /\ m.data[1] = Other(p)
  BY <1>1, WritePartner
<1>3. /\ s.stream \in Streams /\ (s.pending # <<>> => s.peer # 0)
      /\ m.cmd \in Addressed \cup {"OPEN"} /\ ~(m.cmd = "OKAY")
  BY <1>1, OpenSocketFacts DEF Addressed
<1>4. socket \in [Peers -> [Ids -> Sockets]] /\ s \in Sockets /\ s.peer \in 0 .. MaxOpens
  <2>1. socket \in [Peers -> [Ids -> Sockets]]
    BY InvParts DEF SocketsWhole
  <2> QED
    BY <1>1, <2>1, OpenSocketFacts
<1>5. m.arg0 \in 0 .. MaxOpens /\ m.data \in Data /\ i \in 0 .. MaxOpens
  BY <1>1, ReceivedFacts
<1>6. CASE /\ s.pending = <<>>
           /\ written' = [written EXCEPT ![p][s.stream] = Append(@, m.data)]
           /\ Replies(p, <<Okay(m.arg1, m.arg0)>>)
           /\ UNCHANGED <<socket, ended>>
  <2>1. <<Okay(i, m.arg0)>> \in Seq(Packets)
    BY <1>5, OkayPackets
  <2>2. Fits(p, 1, Okay(i, m.arg0))
    BY <1>1, <1>2, FitsPartner
  <2>3. \A n \in DOMAIN <<Okay(i, m.arg0)>> : Fits(p, 1, <<Okay(i, m.arg0)>>[n])
    BY <2>2
  <2>4. SocketsLater(p)
    BY <1>6, NothingLater
  <2>5. Ordinary(p, 1, Sent(p, <<Okay(i, m.arg0)>>))
    BY <1>1, <1>3, <1>6, <2>1, <2>3, <2>4, ReplyIsOrdinary
  <2> QED
    BY <1>1, <1>2, <1>3, <1>6, <2>5
<1>7. CASE /\ socket' = [socket EXCEPT ![p][m.arg1].pending = Append(@, m.data)]
           /\ Replies(p, <<>>)
           /\ UNCHANGED <<written, ended>>
  <2> DEFINE t == [s EXCEPT !.pending = Append(s.pending, m.data)]
  <2>1. socket' = [socket EXCEPT ![p][i] = t]
    BY <1>1, <1>4, <1>7
  <2>2. /\ t.state = s.state /\ t.stream = s.stream /\ t.peer = s.peer /\ t.reading = s.reading
        /\ t.pending = Append(s.pending, m.data)
    BY <1>4 DEF Sockets
  <2> HIDE DEF t
  <2>3. /\ socket'[p][i] = t
        /\ \A r \in Peers, l \in Ids : r # p \/ l # i => socket'[r][l] = socket[r][l]
    <3>1. i \in Ids
      BY <1>1
    <3> HIDE DEF s, i, m
    <3> QED
      BY <1>4, <2>1, <3>1
  <2>4. s.peer # 0
    <3>1. p = Device => s.peer # 0
      BY <1>1 DEF IInv, DeviceConnected
    <3>2. ASSUME p = Host, s.peer = 0
          PROVE  FALSE
      <4>1. 1 \in DOMAIN wire[Device] /\ To(1, "WRTE", i)
        BY <1>1, <3>2, ReceivedFacts, TwoPeers DEF To
      <4>2. PICK n \in DOMAIN wire[Device] : n < 1
        BY <1>1, <3>2, <4>1 DEF Sessions, Unanswered
      <4> QED
        BY <4>2, Types
    <3> QED
      BY <3>1, <3>2, TwoPeers
  <2>5. Later(p, i)
    BY <1>1, <2>2, <2>3, <2>4 DEF Later
  <2>6. SocketsLater(p)
    BY <1>1, <2>3, <2>5, OneLater
  <2>7. Ordinary(p, 1, Sent(p, <<>>))
    <3>1. <<>> \in Seq(Packets) /\ DOMAIN <<>> = {} /\ Replies(p, <<>>)
      BY <1>7
    <3> QED
      BY <1>1, <1>3, <2>6, <3>1, ReplyIsOrdinary
  <2>8. Sent(p, <<>>) = <<>>
    BY DEF Sent
  <2> QED
    BY <1>1, <1>2, <1>3, <1>7, <2>2, <2>3, <2>7, <2>8
<1>8. CASE /\ s.pending = <<>>
           /\ socket' = [socket EXCEPT ![p][m.arg1] = Closed(@)]
           /\ Ends(p, s.stream, "error")
           /\ Replies(p, CloseMessage(s))
           /\ UNCHANGED written
  <2>1. /\ CloseMessage(s) \in Seq(Packets)
        /\ \A n \in DOMAIN CloseMessage(s) : Fits(p, 1, CloseMessage(s)[n])
    BY <1>1, CloseMessageFits
  <2>2. /\ SocketsLater(p) /\ socket'[p][i] = Free
        /\ \A r \in Peers, l \in Ids : r # p \/ l # i => socket'[r][l] = socket[r][l]
    <3>1. i \in Ids /\ s.state # "free" /\ socket' = [socket EXCEPT ![p][i] = Closed(@)]
      BY <1>1, <1>8
    <3> HIDE DEF m, i
    <3> QED
      BY <1>8, <3>1, ClosedLater
  <2>3. Ordinary(p, 1, Sent(p, CloseMessage(s)))
    <3> HIDE DEF s
    <3>1. Replies(p, CloseMessage(s))
      BY <1>8
    <3> QED
      BY <1>1, <1>3, <2>1, <2>2, <3>1, ReplyIsOrdinary
  <2> QED
    BY <1>1, <1>2, <1>3, <1>8, <2>2, <2>3
<1> QED
  BY <1>6, <1>7, <1>8 DEF HandleWrite

LEMMA CloseIsOrdinary ==
  ASSUME IInv, Sessions, NEW p \in Peers, HandleClose(p)
  PROVE  LET m == Received(p)
             i == m.arg1
             s == socket[p][i]
             t == socket'[p][i] IN
         /\ i \in Ids /\ s.state = "open" /\ s.stream \in Streams
         /\ m.cmd = "CLSE" /\ Ends(p, s.stream, "clse")
         /\ UNCHANGED <<chunks, written, opened>>
         /\ \/ t = Free
            \/ t.state = "closing" /\ t.stream = s.stream /\ t.pending = s.pending
         /\ t = Free <=> s.pending = <<>>
         /\ \A r \in Peers, l \in Ids : r # p \/ l # i => socket'[r][l] = socket[r][l]
         /\ Ordinary(p, 1, Sent(p, CloseMessage(s)))
<1> DEFINE m == Received(p)
           i == m.arg1
           s == socket[p][i]
<1>1. /\ wire[Other(p)] # <<>> /\ m.cmd = "CLSE" /\ i \in Ids /\ s.state = "open" /\ online[p]
      /\ UNCHANGED <<endVars, opened, chunks, written>>
      /\ socket' = [socket EXCEPT ![p][i] = Closed(@)]
      /\ Ends(p, s.stream, "clse")
      /\ Replies(p, CloseMessage(s))
  BY DEF HandleClose, Handles, Finds, countVars
<1>2. /\ CloseMessage(s) \in Seq(Packets)
      /\ \A n \in DOMAIN CloseMessage(s) : Fits(p, 1, CloseMessage(s)[n])
  BY <1>1, CloseMessageFits
<1>3. /\ SocketsLater(p)
      /\ \/ socket'[p][i] = Free
         \/ /\ socket'[p][i].state = "closing" /\ socket'[p][i].stream = s.stream
            /\ socket'[p][i].pending = s.pending
      /\ socket'[p][i] = Free \/ s.pending # <<>>
      /\ \A r \in Peers, l \in Ids : r # p \/ l # i => socket'[r][l] = socket[r][l]
  <2>1. i \in Ids /\ s.state # "free" /\ socket' = [socket EXCEPT ![p][i] = Closed(@)]
    BY <1>1
  <2> HIDE DEF m, i
  <2> QED
    BY <2>1, ClosedLater
<1>4. /\ s.stream \in Streams
      /\ m.cmd \in Addressed \cup {"OPEN"} /\ ~(m.cmd = "OKAY")
  BY <1>1, OpenSocketFacts DEF Addressed
<1>5. Ordinary(p, 1, Sent(p, CloseMessage(s)))
  <2> HIDE DEF s
  <2> QED
    BY <1>1, <1>2, <1>3, <1>4, ReplyIsOrdinary
<1>6. s.pending # <<>> => socket'[p][i] # Free
  <2>1. socket'[p][i] = Closed(s)
    <3>1. socket \in [Peers -> [Ids -> Sockets]]
      BY InvParts DEF SocketsWhole
    <3> QED
      BY <1>1, <3>1
  <2>2. s \in Sockets
    BY <1>1, InvParts DEF SocketsWhole
  <2>3. s.pending # <<>> => Closed(s).state = "closing"
    BY <1>1, <2>2 DEF Closed, Sockets
  <2> QED
    BY <2>1, <2>3 DEF Free
<1> QED
  BY <1>1, <1>3, <1>4, <1>5, <1>6

LEMMA IgnoreIsOrdinary ==
  ASSUME IInv, Sessions, NEW p \in Peers, Ignore(p)
  PROVE  Ordinary(p, 1, <<>>) /\ UNCHANGED <<socket, chunks, written, opened, ended>>
<1>1. /\ wire[Other(p)] # <<>> /\ Received(p).cmd \in Addressed \cup {"OPEN"}
      /\ Replies(p, <<>>)
      /\ UNCHANGED <<socket, endVars, opened, chunks, written, ended>>
      /\ Received(p).cmd = "OKAY" => ~Finds(p)
  BY DEF Ignore, Handles, Addressed, countVars, historyVars
<1>2. SocketsLater(p)
  BY <1>1, NothingLater
<1>3. p = Host => \A i \in Ids :
        Received(p).cmd = "OKAY" /\ Received(p).arg1 = i /\ socket'[Host][i].state = "open"
          => socket'[Host][i].peer # 0
  BY <1>1 DEF Finds, Sessions, OfflineCloses, NoneOpen
<1>4. Ordinary(p, 1, Sent(p, <<>>))
  <2>1. <<>> \in Seq(Packets) /\ DOMAIN <<>> = {}
    OBVIOUS
  <2> QED
    BY <1>1, <1>2, <1>3, <2>1, ReplyIsOrdinary
<1> QED
  BY <1>1, <1>4 DEF Sent

(* A socket that can be written to writes some of its packets, or fails.     *)
LEMMA WriteEventIsOrdinary ==
  ASSUME IInv, Sessions, NEW p \in Peers, NEW i \in Ids, WriteEvent(p, i)
  PROVE  LET s == socket[p][i]
             t == socket'[p][i] IN
         /\ s.state # "free" /\ s.stream \in Streams /\ s.pending # <<>> /\ s.pending \in Seq(Data)
         /\ UNCHANGED <<chunks, opened>>
         /\ wire'[Other(p)] = wire[Other(p)]
         /\ \A r \in Peers, l \in Ids : r # p \/ l # i => socket'[r][l] = socket[r][l]
         /\ \/ \E n \in 1 .. Len(s.pending) :
                 LET rest == SubSeq(s.pending, n + 1, Len(s.pending)) IN
                 /\ written' = [written EXCEPT ![p][s.stream] = @ \o SubSeq(s.pending, 1, n)]
                 /\ \/ rest = <<>> /\ t = Free /\ s.state = "closing"
                    \/ /\ t.state = s.state /\ t.stream = s.stream /\ t.reading = s.reading
                       /\ t.pending = rest
                 /\ Ordinary(p, 0, Sent(p, IF rest = <<>> /\ s.state = "open"
                                           THEN <<Okay(i, s.peer)>> ELSE <<>>))
                 /\ UNCHANGED ended
            \/ /\ \/ t = Free
                  \/ t.state = "closing" /\ t.stream = s.stream /\ t.pending = s.pending
               /\ Ends(p, s.stream, "error")
               /\ UNCHANGED written
               /\ Ordinary(p, 0, Sent(p, CloseMessage(s)))
<1> DEFINE s == socket[p][i]
<1>1. /\ s.state # "free" /\ s.pending # <<>>
      /\ UNCHANGED <<endVars, opened, chunks>>
  BY DEF WriteEvent, countVars
<1>2. /\ SocketsWhole /\ socket \in [Peers -> [Ids -> Sockets]]
      /\ s \in Sockets /\ s.stream \in Streams /\ s.pending \in Seq(Data)
      /\ s.state \in {"open", "closing"} /\ s.peer \in 0 .. MaxOpens
      /\ s.state = "closing" => s.peer = 0
  <2>1. SocketsWhole /\ socket \in [Peers -> [Ids -> Sockets]]
    BY InvParts DEF SocketsWhole
  <2>2. /\ Whole(s) /\ s \in Sockets /\ s.stream \in Streams /\ s.pending \in Seq(Data)
        /\ s.peer \in 0 .. MaxOpens
    BY <1>1, <2>1, InUse
  <2> QED
    BY <1>1, <2>1, <2>2 DEF Whole, Sockets
<1>3. s.state = "open" => /\ online[p] /\ ~NoneOpen(p) /\ s.peer # 0
  BY <1>1, OpenSocketFacts
<1>4. ASSUME NEW n \in 1 .. Len(s.pending), Drain(p, i, n), UNCHANGED ended
      PROVE  LET rest == SubSeq(s.pending, n + 1, Len(s.pending))
                 t == socket'[p][i] IN
             /\ wire'[Other(p)] = wire[Other(p)]
             /\ \A r \in Peers, l \in Ids : r # p \/ l # i => socket'[r][l] = socket[r][l]
             /\ written' = [written EXCEPT ![p][s.stream] = @ \o SubSeq(s.pending, 1, n)]
             /\ \/ rest = <<>> /\ t = Free /\ s.state = "closing"
                \/ /\ t.state = s.state /\ t.stream = s.stream /\ t.reading = s.reading
                   /\ t.pending = rest
             /\ Ordinary(p, 0, Sent(p, IF rest = <<>> /\ s.state = "open"
                                       THEN <<Okay(i, s.peer)>> ELSE <<>>))
  <2> DEFINE rest == SubSeq(s.pending, n + 1, Len(s.pending))
             t == IF rest = <<>> /\ s.state = "closing" THEN Closed(s)
                  ELSE [s EXCEPT !.pending = rest]
             answer == IF rest = <<>> /\ s.state = "open" THEN <<Okay(i, s.peer)>> ELSE <<>>
  <2>1. /\ written' = [written EXCEPT ![p][s.stream] = @ \o SubSeq(s.pending, 1, n)]
        /\ Sends(p, answer)
        /\ socket' = [socket EXCEPT ![p][i] =
                        IF rest = <<>> /\ s.state = "closing" THEN Closed(@)
                        ELSE [@ EXCEPT !.pending = rest]]
    BY <1>4 DEF Drain
  <2>2. socket' = [socket EXCEPT ![p][i] = t]
    BY <1>2, <2>1
  <2>3. \/ rest = <<>> /\ t = Free /\ s.state = "closing"
        \/ /\ t.state = s.state /\ t.stream = s.stream /\ t.reading = s.reading
           /\ t.pending = rest /\ t.peer = s.peer
    <3>1. CASE rest = <<>> /\ s.state = "closing"
      BY <3>1 DEF Closed
    <3>2. CASE ~(rest = <<>> /\ s.state = "closing")
      <4> HIDE DEF s, rest
      <4> QED
        BY <1>2, <3>2 DEF Sockets
    <3> QED
      BY <3>1, <3>2
  <2> HIDE DEF t
  <2>4. /\ socket'[p][i] = t
        /\ \A r \in Peers, l \in Ids : r # p \/ l # i => socket'[r][l] = socket[r][l]
    BY <1>2, <2>2
  <2>5. Later(p, i)
    BY <1>1, <1>2, <1>3, <2>3, <2>4 DEF Later, Free
  <2>6. SocketsLater(p)
    BY <2>4, <2>5, OneLater
  <2>7. /\ answer \in Seq(Packets) /\ (answer # <<>> => online[p] /\ ~NoneOpen(p))
        /\ \A l \in DOMAIN answer : Fits(p, 0, answer[l])
    <3>1. CASE rest = <<>> /\ s.state = "open"
      <4>1. Fits(p, 0, Okay(i, s.peer))
        BY <1>3, <3>1, PeerIsPartner, FitsPartner
      <4>2. i \in 0 .. MaxOpens
        BY DEF Ids
      <4>3. <<Okay(i, s.peer)>> \in Seq(Packets)
        BY <1>2, <4>2, OkayPackets
      <4>4. answer = <<Okay(i, s.peer)>>
        BY <3>1
      <4> HIDE DEF answer
      <4> QED
        BY <1>3, <3>1, <4>1, <4>3, <4>4
    <3>2. CASE ~(rest = <<>> /\ s.state = "open")
      BY <3>2
    <3> QED
      BY <3>1, <3>2
  <2>8. wire'[Other(p)] = wire[Other(p)] /\ Ordinary(p, 0, Sent(p, answer))
    <3> HIDE DEF answer
    <3> QED
      BY <1>1, <2>1, <2>6, <2>7, SendsMove, SendIsOrdinary
  <2> QED
    BY <2>1, <2>3, <2>4, <2>8
<1>5. ASSUME socket' = [socket EXCEPT ![p][i] = Closed(@)], Ends(p, s.stream, "error"),
             Sends(p, CloseMessage(s)), UNCHANGED written
      PROVE  LET t == socket'[p][i] IN
             /\ wire'[Other(p)] = wire[Other(p)]
             /\ \A r \in Peers, l \in Ids : r # p \/ l # i => socket'[r][l] = socket[r][l]
             /\ \/ t = Free
                \/ t.state = "closing" /\ t.stream = s.stream /\ t.pending = s.pending
             /\ Ordinary(p, 0, Sent(p, CloseMessage(s)))
  <2>1. /\ SocketsLater(p)
        /\ \/ socket'[p][i] = Free
           \/ /\ socket'[p][i].state = "closing" /\ socket'[p][i].stream = s.stream
              /\ socket'[p][i].pending = s.pending
        /\ \A r \in Peers, l \in Ids : r # p \/ l # i => socket'[r][l] = socket[r][l]
    BY <1>1, <1>5, ClosedLater
  <2>2. /\ CloseMessage(s) \in Seq(Packets)
        /\ \A n \in DOMAIN CloseMessage(s) : Fits(p, 0, CloseMessage(s)[n])
        /\ CloseMessage(s) # <<>> => online[p] /\ ~NoneOpen(p)
    <3>1. CASE s.state = "open"
      BY <1>3, <3>1, CloseMessageFits
    <3>2. CASE s.state = "closing"
      BY <1>2, <3>2 DEF CloseMessage
    <3> QED
      BY <1>2, <3>1, <3>2
  <2>3. wire'[Other(p)] = wire[Other(p)] /\ Ordinary(p, 0, Sent(p, CloseMessage(s)))
    <3>1. Sends(p, CloseMessage(s))
      BY <1>5
    <3> HIDE DEF s
    <3> QED
      BY <1>1, <2>1, <2>2, <3>1, SendsMove, SendIsOrdinary
  <2> QED
    BY <2>1, <2>3
<1>6. /\ s.state # "free" /\ s.stream \in Streams /\ s.pending # <<>> /\ s.pending \in Seq(Data)
      /\ UNCHANGED <<chunks, opened>>
  BY <1>1, <1>2
<1>7. CASE \E n \in 1 .. Len(s.pending) : Drain(p, i, n) /\ UNCHANGED ended
  <2>1. PICK n \in 1 .. Len(s.pending) : Drain(p, i, n) /\ UNCHANGED ended
    BY <1>7
  <2> QED
    BY <1>4, <1>6, <2>1
<1>8. CASE /\ socket' = [socket EXCEPT ![p][i] = Closed(@)]
           /\ Ends(p, s.stream, "error")
           /\ Sends(p, CloseMessage(s))
           /\ UNCHANGED written
  BY <1>5, <1>6, <1>8
<1> QED
  BY <1>7, <1>8 DEF WriteEvent

(* What the packet of a chunk says.                                          *)
WritePacket(p, i) ==
  LET s == socket[p][i]
  IN [Packet("WRTE", i, s.peer) EXCEPT !.data = <<p, s.stream, chunks[p][s.stream] + 1>>]

(* A socket that reads sends a chunk, and waits or closes, or just closes.   *)
LEMMA ReadEventIsOrdinary ==
  ASSUME IInv, Sessions, NEW p \in Peers, NEW i \in Ids, ReadEvent(p, i)
  PROVE  LET s == socket[p][i]
             t == socket'[p][i] IN
         /\ s.state = "open" /\ s.reading /\ s.stream \in Streams /\ s.peer # 0
         /\ UNCHANGED <<written, opened>>
         /\ wire'[Other(p)] = wire[Other(p)]
         /\ \A r \in Peers, l \in Ids : r # p \/ l # i => socket'[r][l] = socket[r][l]
         /\ \/ /\ t.state = "open" /\ t.stream = s.stream /\ t.pending = s.pending /\ ~t.reading
               /\ UNCHANGED ended
               /\ chunks' = [chunks EXCEPT ![p][s.stream] = @ + 1]
               /\ Ordinary(p, 0, Sent(p, <<WritePacket(p, i)>>))
            \/ /\ \/ t = Free
                  \/ t.state = "closing" /\ t.stream = s.stream /\ t.pending = s.pending
               /\ Ends(p, s.stream, "eof")
               /\ \/ /\ chunks' = [chunks EXCEPT ![p][s.stream] = @ + 1]
                     /\ Ordinary(p, 0, Sent(p, <<WritePacket(p, i)>> \o CloseMessage(s)))
                  \/ /\ UNCHANGED chunks
                     /\ Ordinary(p, 0, Sent(p, CloseMessage(s)))
<1> DEFINE s == socket[p][i]
           n == chunks[p][s.stream] + 1
           write == WritePacket(p, i)
           Chunk == chunks' = [chunks EXCEPT ![p][s.stream] = n]
<1>1. /\ s.state = "open" /\ s.reading
      /\ UNCHANGED <<endVars, opened, written>>
  BY DEF ReadEvent, countVars
<1>2. /\ socket \in [Peers -> [Ids -> Sockets]] /\ s \in Sockets
      /\ s.stream \in Streams /\ s.peer # 0 /\ s.peer \in 0 .. MaxOpens
      /\ online[p] /\ ~NoneOpen(p)
  <2>1. socket \in [Peers -> [Ids -> Sockets]]
    BY InvParts DEF SocketsWhole
  <2> QED
    BY <1>1, <2>1, OpenSocketFacts
<1>3. /\ \/ /\ Chunk
            /\ socket' = [socket EXCEPT ![p][i].reading = FALSE]
            /\ Sends(p, <<write>>)
            /\ UNCHANGED ended
         \/ /\ Chunk
            /\ socket' = [socket EXCEPT ![p][i] = Closed(@)]
            /\ Sends(p, <<write>> \o CloseMessage(s))
            /\ Ends(p, s.stream, "eof")
         \/ /\ socket' = [socket EXCEPT ![p][i] = Closed(@)]
            /\ Sends(p, CloseMessage(s))
            /\ Ends(p, s.stream, "eof")
            /\ UNCHANGED chunks
  BY DEF ReadEvent, WritePacket
<1>4. /\ write \in Packets /\ (~broken[p] => Fits(p, 0, write))
  <2>1. write = [Packet("WRTE", i, s.peer) EXCEPT !.data = <<p, s.stream, n>>]
    BY DEF WritePacket
  <2>2. chunks[p][s.stream] \in Nat
    <3>1. HistoryOK
      BY InvParts
    <3> QED
      BY <1>2, <3>1 DEF HistoryOK
  <2>3. <<p, s.stream, n>> \in Data /\ i \in 0 .. MaxOpens
    BY <1>2, <2>2, AdbStreamAssumption, SMTT(30) DEF Data, Streams, Ids
  <2>4. [Packet("WRTE", i, s.peer) EXCEPT !.data = <<p, s.stream, n>>] \in Packets
    BY <1>2, <2>3, PacketTypes
  <2>5. ~broken[p] => Fits(p, 0, [Packet("WRTE", i, s.peer) EXCEPT !.data = <<p, s.stream, n>>])
    BY <1>1, <1>2, PeerIsPartner, FitsPartner
  <2> QED
    BY <2>1, <2>4, <2>5
<1>5. /\ CloseMessage(s) \in Seq(Packets)
      /\ \A l \in DOMAIN CloseMessage(s) : Fits(p, 0, CloseMessage(s)[l])
  BY <1>1, CloseMessageFits
<1> HIDE DEF write
<1>6. /\ <<write>> \in Seq(Packets) /\ <<write>> \o CloseMessage(s) \in Seq(Packets)
      /\ ~broken[p] => \A l \in DOMAIN <<write>> : Fits(p, 0, <<write>>[l])
      /\ ~broken[p] => \A l \in DOMAIN (<<write>> \o CloseMessage(s)) :
                         Fits(p, 0, (<<write>> \o CloseMessage(s))[l])
  <2> DEFINE v == CloseMessage(s)
  <2> HIDE DEF v
  <2>1. /\ <<write>> \in Seq(Packets) /\ v \in Seq(Packets) /\ <<write>> \o v \in Seq(Packets)
        /\ \A l \in DOMAIN (<<write>> \o v) :
             (<<write>> \o v)[l] = write \/ \E b \in DOMAIN v : (<<write>> \o v)[l] = v[b]
    <3>1. v \in Seq(Packets)
      BY <1>5 DEF v
    <3> QED
      BY <1>4, <3>1
  <2> QED
    BY <1>4, <1>5, <2>1 DEF v
<1>7. ASSUME socket' = [socket EXCEPT ![p][i] = Closed(@)]
      PROVE  /\ SocketsLater(p)
             /\ \/ socket'[p][i] = Free
                \/ /\ socket'[p][i].state = "closing" /\ socket'[p][i].stream = s.stream
                   /\ socket'[p][i].pending = s.pending
             /\ \A r \in Peers, l \in Ids : r # p \/ l # i => socket'[r][l] = socket[r][l]
  BY <1>1, <1>7, ClosedLater
<1>8. Chunk => chunks' = [chunks EXCEPT ![p][s.stream] = @ + 1]
  <2>1. HistoryOK
    BY InvParts
  <2> QED
    BY <1>2, <2>1 DEF HistoryOK
<1>9. CASE /\ Chunk
           /\ socket' = [socket EXCEPT ![p][i].reading = FALSE]
           /\ Sends(p, <<write>>)
           /\ UNCHANGED ended
  <2> DEFINE t == [s EXCEPT !.reading = FALSE]
  <2>1. socket' = [socket EXCEPT ![p][i] = t]
    BY <1>2, <1>9
  <2>2. /\ t.state = "open" /\ t.stream = s.stream /\ t.peer = s.peer /\ t.pending = s.pending
        /\ ~t.reading
    BY <1>1, <1>2 DEF Sockets
  <2> HIDE DEF t
  <2>3. /\ socket'[p][i] = t
        /\ \A r \in Peers, l \in Ids : r # p \/ l # i => socket'[r][l] = socket[r][l]
    BY <1>2, <2>1
  <2>4. Later(p, i)
    BY <1>1, <1>2, <2>2, <2>3 DEF Later
  <2>5. SocketsLater(p)
    BY <2>3, <2>4, OneLater
  <2>6. wire'[Other(p)] = wire[Other(p)] /\ Ordinary(p, 0, Sent(p, <<write>>))
    BY <1>1, <1>2, <1>6, <1>9, <2>5, SendsMove, SendIsOrdinary
  <2> QED
    BY <1>1, <1>2, <1>8, <1>9, <2>2, <2>3, <2>6 DEF write
<1>10. CASE /\ Chunk
            /\ socket' = [socket EXCEPT ![p][i] = Closed(@)]
            /\ Sends(p, <<write>> \o CloseMessage(s))
            /\ Ends(p, s.stream, "eof")
  <2>1. /\ wire'[Other(p)] = wire[Other(p)]
        /\ Ordinary(p, 0, Sent(p, <<write>> \o CloseMessage(s)))
    <3>1. SocketsLater(p) /\ Sends(p, <<write>> \o CloseMessage(s))
      BY <1>7, <1>10
    <3> HIDE DEF s
    <3> QED
      BY <1>1, <1>2, <1>6, <3>1, SendsMove, SendIsOrdinary
  <2> QED
    BY <1>1, <1>2, <1>7, <1>8, <1>10, <2>1 DEF write
<1>11. CASE /\ socket' = [socket EXCEPT ![p][i] = Closed(@)]
            /\ Sends(p, CloseMessage(s))
            /\ Ends(p, s.stream, "eof")
            /\ UNCHANGED chunks
  <2>1. /\ wire'[Other(p)] = wire[Other(p)]
        /\ Ordinary(p, 0, Sent(p, CloseMessage(s)))
    <3>1. SocketsLater(p) /\ Sends(p, CloseMessage(s))
      BY <1>7, <1>11
    <3> HIDE DEF s
    <3> QED
      BY <1>1, <1>2, <1>5, <3>1, SendsMove, SendIsOrdinary
  <2> QED
    BY <1>1, <1>2, <1>7, <1>11, <2>1
<1> QED
  BY <1>3, <1>9, <1>10, <1>11

-------------------------------------------------------------------------------
(* The opening of a stream.                                                  *)

(* The device accepts: its new socket reads, and OKAY is the answer.         *)
Accepts ==
  LET m == Received(Device)
      i == local_socket_next_id[Device]
  IN /\ Handles(Device, "OPEN") /\ online[Device]
     /\ local_socket_next_id' = [local_socket_next_id EXCEPT ![Device] = i + 1]
     /\ socket' = [socket EXCEPT ![Device][i] =
                     [NewSocket(m.arg0, m.data[2]) EXCEPT !.reading = TRUE]]
     /\ Replies(Device, <<Okay(i, m.arg0)>>)
     /\ UNCHANGED <<online, broken, countVars, historyVars>>

LEMMA AcceptFacts ==
  ASSUME IInv, Sessions, Accepts
  PROVE  LET m == Received(Device)
             j == local_socket_next_id[Device]
             t == socket'[Device][j] IN
         /\ j \in Ids /\ m.arg0 # 0 /\ m.arg0 \in Ids /\ m.data[2] \in Streams /\ m.data[2] <= opened
         /\ wire[Host] # <<>> /\ m = wire[Host][1] /\ m.cmd = "OPEN" /\ OpenPacket(m) /\ online[Device]
         /\ 1 \in DOMAIN wire[Host] /\ m \in Packets
         /\ \A n \in DOMAIN wire[Host] : 1 < n /\ wire[Host][n].cmd = "OPEN" =>
              /\ wire[Host][n].data[2] # m.data[2]
              /\ online[Host] => wire[Host][n].arg0 # m.arg0
         /\ t.state = "open" /\ t.peer = m.arg0 /\ t.stream = m.data[2] /\ t.reading
         /\ t.pending = <<>>
         /\ \A r \in Peers, l \in Ids : r # Device \/ l # j => socket'[r][l] = socket[r][l]
         /\ local_socket_next_id'[Host] = local_socket_next_id[Host]
         /\ local_socket_next_id'[Device] = j + 1
         /\ UNCHANGED <<online, broken, opened, chunks, written, ended>>
         /\ Passes(Device, 1, Sent(Device, <<Okay(j, m.arg0)>>))
<1> DEFINE m == Received(Device)
           j == local_socket_next_id[Device]
           t == [NewSocket(m.arg0, m.data[2]) EXCEPT !.reading = TRUE]
<1>1. /\ Device \in Peers /\ Host \in Peers /\ Host # Device /\ Other(Device) = Host
      /\ socket \in [Peers -> [Ids -> Sockets]]
      /\ local_socket_next_id \in [Peers -> 1 .. MaxOpens + 1]
      /\ opened \in 0 .. MaxOpens /\ MaxOpens \in Nat \ {0}
      /\ OpensFrom(wire[Host], j, opened)
  BY InvParts, TwoPeers, AdbStreamAssumption DEF SocketsWhole, CountersOK, Numbered
<1>2. /\ wire[Host] # <<>> /\ m.cmd = "OPEN" /\ online[Device]
      /\ local_socket_next_id' = [local_socket_next_id EXCEPT ![Device] = j + 1]
      /\ socket' = [socket EXCEPT ![Device][j] = t]
      /\ Replies(Device, <<Okay(j, m.arg0)>>)
      /\ UNCHANGED <<online, broken, opened, chunks, written, ended>>
  BY <1>1 DEF Accepts, Handles, countVars, historyVars
<1>3. /\ 1 \in DOMAIN wire[Host] /\ wire[Host][1] = m /\ m \in Packets /\ m.arg0 \in 0 .. MaxOpens
      /\ m.data[2] \in 0 .. MaxOpens
  BY <1>1, <1>2, ReceivedFacts, ReceivedIds
<1>4. /\ m.arg0 # 0 /\ j <= m.data[2] /\ m.data[2] <= opened
      /\ \A n \in DOMAIN wire[Host] : 1 < n /\ wire[Host][n].cmd = "OPEN" =>
           m.data[2] < wire[Host][n].data[2]
  BY <1>1, <1>2, <1>3 DEF OpensFrom
<1>5. /\ j \in Ids /\ j \in 0 .. MaxOpens /\ m.arg0 \in Ids /\ m.data[2] \in Streams
      /\ m.data[2] \in Nat
  BY <1>1, <1>3, <1>4 DEF Ids, Streams
<1>6. OpenPacket(m)
  BY <1>2, <1>3 DEF Sessions, PacketsBelong, HostPacket
<1>7. ASSUME NEW n \in DOMAIN wire[Host], 1 < n, wire[Host][n].cmd = "OPEN"
      PROVE  /\ wire[Host][n].data[2] # m.data[2]
             /\ online[Host] => wire[Host][n].arg0 # m.arg0
  <2>1. wire[Host][n].data[2] # m.data[2]
    BY <1>4, <1>5, <1>7
  <2>2. OpenPacket(wire[Host][n])
    BY <1>7 DEF Sessions, PacketsBelong, HostPacket
  <2> QED
    BY <1>6, <2>1, <2>2 DEF OpenPacket
<1>8. /\ t.state = "open" /\ t.peer = m.arg0 /\ t.stream = m.data[2] /\ t.reading
      /\ t.pending = <<>>
  BY DEF NewSocket, Free
<1>9. /\ socket'[Device][j] = t
      /\ \A r \in Peers, l \in Ids : r # Device \/ l # j => socket'[r][l] = socket[r][l]
  <2>1. j \in Ids
    BY <1>5
  <2> HIDE DEF t, j
  <2> QED
    BY <1>1, <1>2, <2>1
<1>10. /\ local_socket_next_id'[Host] = local_socket_next_id[Host]
       /\ local_socket_next_id'[Device] = j + 1
  BY <1>1, <1>2
<1>11. <<Okay(j, m.arg0)>> \in Seq(Packets) /\ Okay(j, m.arg0).cmd = "OKAY"
  BY <1>3, <1>5, OkayPackets DEF Okay, Packet
<1>12. Passes(Device, 1, Sent(Device, <<Okay(j, m.arg0)>>))
  <2> DEFINE v == <<Okay(j, m.arg0)>>
  <2>1. v \in Seq(Packets) /\ \A n \in DOMAIN v : v[n].cmd \in Addressed
    BY <1>11 DEF Addressed
  <2> HIDE DEF v
  <2>2. Replies(Device, v)
    BY <1>2 DEF v
  <2>3. /\ Moved(wire[Host], wire'[Host], 1, Len(wire[Host]) - 1, <<>>)
        /\ Moved(wire[Device], wire'[Device], 0, Len(wire[Device]), Sent(Device, v))
    BY <1>1, <1>2, <2>1, <2>2, RepliesMove
  <2>4. Passes(Device, 1, Sent(Device, v))
    BY <1>1, <1>2, <1>3, <2>1, <2>3 DEF Passes, Sent
  <2> QED
    BY <2>4 DEF v
<1> QED
  BY <1>2, <1>3, <1>4, <1>5, <1>6, <1>7, <1>8, <1>9, <1>10, <1>12

LEMMA AcceptKeeps ==
  ASSUME IInv, Sessions, Accepts
  PROVE  Sessions'
<1> DEFINE m == Received(Device)
           j == local_socket_next_id[Device]
           sent == Sent(Device, <<Okay(j, m.arg0)>>)
<1>1. /\ Device \in Peers /\ Host \in Peers /\ Host # Device /\ Other(Device) = Host
      /\ Other(Host) = Device
      /\ local_socket_next_id[Device] \in Nat /\ local_socket_next_id[Host] \in Nat /\ opened \in Nat
  BY InvParts, TwoPeers, AdbStreamAssumption
<1>2. /\ j \in Ids /\ m.arg0 # 0 /\ m.arg0 \in Ids /\ m.data[2] \in Streams /\ m.data[2] <= opened
      /\ wire[Host] # <<>> /\ m = wire[Host][1] /\ m.cmd = "OPEN" /\ OpenPacket(m) /\ online[Device]
      /\ 1 \in DOMAIN wire[Host] /\ m \in Packets
      /\ \A n \in DOMAIN wire[Host] : 1 < n /\ wire[Host][n].cmd = "OPEN" =>
           /\ wire[Host][n].data[2] # m.data[2]
           /\ online[Host] => wire[Host][n].arg0 # m.arg0
      /\ socket'[Device][j].state = "open" /\ socket'[Device][j].peer = m.arg0
      /\ socket'[Device][j].stream = m.data[2]
      /\ \A r \in Peers, l \in Ids : r # Device \/ l # j => socket'[r][l] = socket[r][l]
      /\ local_socket_next_id'[Host] = local_socket_next_id[Host]
      /\ local_socket_next_id'[Device] = j + 1
      /\ UNCHANGED <<online, broken, opened>>
      /\ Passes(Device, 1, sent)
  BY AcceptFacts
<1> HIDE DEF sent
<1>3. /\ \A n \in DOMAIN wire'[Host] : /\ n \in Nat /\ n >= 1 /\ n + 1 \in DOMAIN wire[Host]
                                       /\ wire'[Host][n] = wire[Host][n + 1]
      /\ \A n \in DOMAIN wire[Device] : n \in DOMAIN wire'[Device] /\ wire'[Device][n] = wire[Device][n]
  <2>1. /\ \A n \in DOMAIN wire'[Host] : /\ n \in Nat /\ n + 1 \in DOMAIN wire[Host]
                                         /\ wire'[Host][n] = wire[Host][n + 1]
        /\ DOMAIN wire'[Host] = 1 .. Len(wire'[Host])
        /\ \A n \in DOMAIN wire[Device] : n \in DOMAIN wire'[Device] /\ wire'[Device][n] = wire[Device][n]
    BY <1>1, <1>2, PassesWires
  <2> QED
    BY <2>1
<1>4. \A n \in DOMAIN wire'[Device] :
        n \in DOMAIN wire[Device] \/ (~broken[Device] /\ wire'[Device][n] = Okay(j, m.arg0))
  <2>1. \A n \in DOMAIN wire'[Device] :
          \/ n \in DOMAIN wire[Device]
          \/ n - Len(wire[Device]) \in DOMAIN sent /\ wire'[Device][n] = sent[n - Len(wire[Device])]
    BY <1>1, <1>2, PassesWires
  <2>2. \A n \in DOMAIN sent : sent[n] = Okay(j, m.arg0) /\ ~broken[Device]
    <3>1. \A n \in DOMAIN <<Okay(j, m.arg0)>> : <<Okay(j, m.arg0)>>[n] = Okay(j, m.arg0)
      OBVIOUS
    <3> QED
      BY <3>1 DEF sent, Sent
  <2> QED
    BY <2>1, <2>2
<1>5. ~broken[Device] => \E n \in DOMAIN wire'[Device] : wire'[Device][n] = Okay(j, m.arg0)
  <2> SUFFICES ASSUME ~broken[Device]
               PROVE  \E n \in DOMAIN wire'[Device] : wire'[Device][n] = Okay(j, m.arg0)
    OBVIOUS
  <2>1. sent = <<Okay(j, m.arg0)>>
    BY DEF sent, Sent
  <2>2. Moved(wire[Device], wire'[Device], 0, Len(wire[Device]), sent)
    BY <1>2 DEF Passes
  <2>3. 1 \in DOMAIN sent /\ sent[1] = Okay(j, m.arg0)
    BY <2>1
  <2> QED
    BY <2>2, <2>3, MovedFacts
<1>6. Okay(j, m.arg0).cmd = "OKAY" /\ Okay(j, m.arg0).arg0 = j /\ Okay(j, m.arg0).arg1 = m.arg0
  BY DEF Okay, Packet
<1>7. /\ \A r \in Peers : Syncs(r)'
      /\ Connecting'
  BY <1>1, <1>2, PassesSyncs, PassesConnecting
<1>8. OfflineCloses'
  BY <1>1, <1>2, TwoPeers DEF OfflineCloses, NoneOpen, Sessions
<1>9. /\ HostIds /\ DeviceIds /\ HostPeers /\ PacketsBelong /\ Unanswered /\ Unheard
      /\ \A l \in Ids : socket'[Host][l] = socket[Host][l]
      /\ \A l \in Ids : l # j => socket'[Device][l] = socket[Device][l]
  BY <1>1, <1>2 DEF Sessions
<1>10. HostIds'
  BY <1>1, <1>2, <1>9 DEF HostIds, StreamOf
<1>11. DeviceIds'
  <2>1. /\ \A l \in Ids : socket[Device][l].state # "free" =>
             l < j /\ l < j + 1 /\ socket[Device][l].stream # m.data[2]
    BY <1>1, <1>2, <1>9 DEF DeviceIds, OpenPacket, Ids
  <2>2. online[Host] => m.data[2] = StreamOf(m.arg0) /\ m.arg0 < local_socket_next_id[Host]
    BY <1>2 DEF OpenPacket
  <2>3. j < j + 1
    BY <1>1
  <2> SUFFICES ASSUME NEW l \in Ids, socket'[Device][l].state # "free"
               PROVE  LET s == socket'[Device][l] IN
                      /\ l < j + 1 /\ s.stream <= opened
                      /\ \A b \in Ids : socket'[Device][b].state # "free"
                           /\ socket'[Device][b].stream = s.stream => b = l
                      /\ s.state = "open" /\ online[Host] =>
                           s.stream = StreamOf(s.peer) /\ s.peer < local_socket_next_id[Host]
    BY <1>2 DEF DeviceIds, StreamOf
  <2>4. CASE l = j
    BY <1>2, <1>9, <2>1, <2>2, <2>3, <2>4
  <2>5. CASE l # j
    BY <1>2, <1>9, <2>1, <2>5 DEF DeviceIds
  <2> QED
    BY <2>4, <2>5
<1>13. HostPeers' /\ Unheard'
  <2>1. HostPeers'
    <3> SUFFICES ASSUME NEW i \in Ids, socket[Host][i].state = "open", socket[Host][i].peer # 0
                 PROVE  /\ socket[Host][i].peer < j + 1
                        /\ socket'[Device][socket[Host][i].peer].state # "free" =>
                             socket'[Device][socket[Host][i].peer].stream = socket[Host][i].stream
      BY <1>2, <1>9 DEF HostPeers, IsStream
    <3>1. socket[Host][i].peer < j /\ IsStream(socket[Host][i].peer, socket[Host][i].stream)
          /\ socket[Host][i].peer \in Ids /\ socket[Host][i].peer \in Nat
      BY <1>1, <1>9, PeerTypes DEF HostPeers
    <3>2. socket[Host][i].peer < j + 1 /\ socket[Host][i].peer # j
      BY <1>1, <3>1
    <3> QED
      BY <1>9, <3>1, <3>2 DEF IsStream
  <2>2. Unheard'
    BY <1>3, <1>9 DEF Unheard
  <2> QED
    BY <2>1, <2>2
<1>14. PacketsBelong'
  <2>1. ASSUME NEW n \in DOMAIN wire'[Host]
        PROVE  HostPacket(wire[Host][n])'
    <3> DEFINE c == wire'[Host][n]
    <3>1. /\ c = wire[Host][n + 1] /\ HostPacket(c) /\ c.arg1 \in 0 .. MaxOpens /\ n + 1 > 1
          /\ n + 1 \in DOMAIN wire[Host]
      <4>1. n + 1 \in DOMAIN wire[Host] /\ c = wire[Host][n + 1] /\ n \in Nat /\ n >= 1
        BY <1>3, <2>1
      <4>2. c \in Packets /\ HostPacket(c)
        BY <1>1, <1>9, <4>1, Types DEF PacketsBelong
      <4>3. n + 1 > 1
        BY <4>1
      <4> QED
        BY <4>1, <4>2, <4>3, ReceivedIds
    <3>2. CASE c.cmd = "OPEN"
      <4>1. /\ c.data[2] # m.data[2] /\ (online[Host] => c.arg0 # m.arg0) /\ OpenPacket(c)
        BY <1>2, <3>1, <3>2 DEF HostPacket
      <4>2. \A l \in Ids : socket'[Device][l].state # "free" => socket'[Device][l].stream # c.data[2]
        BY <1>2, <1>9, <4>1 DEF OpenPacket
      <4>3. online[Host] => \A e \in DOMAIN wire'[Device] :
              wire'[Device][e].cmd \in Addressed => wire'[Device][e].arg1 # c.arg0
        BY <1>3, <1>4, <1>6, <4>1 DEF OpenPacket
      <4> QED
        BY <1>2, <3>2, <4>1, <4>2, <4>3 DEF HostPacket, OpenPacket, StreamOf, Addressed
    <3>3. CASE c.cmd # "OPEN"
      <4>1. c.cmd \in Addressed => c.arg1 < j /\ c.arg1 < j + 1 /\ c.arg1 # j
        <5>1. c.cmd \in Addressed => c.arg1 < j /\ c.arg1 \in Nat
          BY <3>1 DEF HostPacket
        <5> QED
          BY <1>1, <5>1
      <4>2. c.cmd = "WRTE" => c.arg1 \in Ids
        BY <3>1, PeerTypes DEF HostPacket
      <4> QED
        BY <1>2, <1>9, <3>1, <3>3, <4>1, <4>2 DEF HostPacket, IsStream, StreamOf, Addressed
    <3> QED
      BY <3>2, <3>3
  <2>2. ASSUME NEW n \in DOMAIN wire'[Device]
        PROVE  DevicePacket(wire[Device][n])'
    <3> DEFINE c == wire'[Device][n]
    <3>1. CASE n \in DOMAIN wire[Device]
      <4>1. c = wire[Device][n] /\ DevicePacket(c) /\ c.arg0 \in 0 .. MaxOpens
        <5>1. c = wire[Device][n] /\ c \in Packets /\ DevicePacket(c)
          BY <1>1, <1>3, <1>9, <3>1, Types DEF PacketsBelong
        <5> QED
          BY <5>1, ReceivedIds
      <4>2. c.cmd \in {"OKAY", "WRTE"} => c.arg0 \in Ids /\ c.arg0 < j + 1 /\ c.arg0 # j
        <5>1. c.cmd \in {"OKAY", "WRTE"} => c.arg0 \in Ids /\ c.arg0 < j /\ c.arg0 \in Nat
          BY <4>1, PeerTypes DEF DevicePacket
        <5> QED
          BY <1>1, <5>1
      <4> QED
        BY <1>2, <1>9, <4>1, <4>2 DEF DevicePacket, IsStream, StreamOf
    <3>2. CASE c = Okay(j, m.arg0)
      <4>1. j # 0 /\ j < j + 1
        BY <1>1, <1>2 DEF Ids
      <4>2. c.cmd = "OKAY" /\ c.arg0 = j /\ c.arg1 = m.arg0
        BY <1>6, <3>2
      <4>3. online[Host] => m.data[2] = StreamOf(m.arg0) /\ m.arg0 < local_socket_next_id[Host]
        BY <1>2 DEF OpenPacket
      <4> QED
        BY <1>2, <4>1, <4>2, <4>3 DEF DevicePacket, IsStream, StreamOf
    <3> QED
      BY <1>4, <3>1, <3>2
  <2> QED
    BY <2>1, <2>2 DEF PacketsBelong
<1>15. Unanswered'
  <2> SUFFICES ASSUME NEW i \in Ids, socket'[Host][i].state = "open", socket'[Host][i].peer = 0
               PROVE  /\ ~socket'[Host][i].reading /\ socket'[Host][i].pending = <<>>
                      /\ \A n \in DOMAIN wire'[Device] : To(n, "WRTE", i)' =>
                           \E l \in DOMAIN wire'[Device] : l < n /\ To(l, "OKAY", i)'
                      /\ ~broken'[Device] =>
                           \A b \in Ids : socket'[Device][b].state = "open" /\ socket'[Device][b].peer = i =>
                             \E l \in DOMAIN wire'[Device] : To(l, "OKAY", i)'
    BY DEF Unanswered
  <2>1. socket[Host][i].state = "open" /\ socket[Host][i].peer = 0
    BY <1>9
  <2>2. /\ ~socket'[Host][i].reading /\ socket'[Host][i].pending = <<>>
    BY <1>9, <2>1 DEF Unanswered
  <2>3. \A n \in DOMAIN wire'[Device] : To(n, "WRTE", i)' => n \in DOMAIN wire[Device] /\ To(n, "WRTE", i)
    BY <1>3, <1>4, <1>6 DEF To
  <2>4. \A l \in DOMAIN wire[Device] : To(l, "OKAY", i) => l \in DOMAIN wire'[Device] /\ To(l, "OKAY", i)'
    BY <1>3 DEF To
  <2>5. \A n \in DOMAIN wire'[Device] : To(n, "WRTE", i)' =>
          \E l \in DOMAIN wire'[Device] : l < n /\ To(l, "OKAY", i)'
    BY <1>9, <2>1, <2>3, <2>4 DEF Unanswered
  <2>6. ASSUME ~broken[Device], NEW b \in Ids, socket'[Device][b].state = "open", socket'[Device][b].peer = i
        PROVE  \E l \in DOMAIN wire'[Device] : To(l, "OKAY", i)'
    <3>1. CASE b = j
      BY <1>2, <1>5, <1>6, <2>6, <3>1 DEF To
    <3>2. CASE b # j
      BY <1>9, <2>1, <2>4, <2>6, <3>2 DEF Unanswered
    <3> QED
      BY <3>1, <3>2
  <2> QED
    BY <1>2, <2>2, <2>5, <2>6
<1> QED
  BY <1>7, <1>8, <1>10, <1>11, <1>13, <1>14, <1>15 DEF Sessions

-------------------------------------------------------------------------------
(* The connection: packets are lost, sockets are closed, and what the ends   *)
(* send belongs to no stream.                                                *)

Quieter(r, i) ==
  LET s == socket[r][i]
      t == socket'[r][i] IN
  \/ t = s \/ t = Free
  \/ s.state = "open" /\ t.state = "closing" /\ t.stream = s.stream /\ t.pending = s.pending

Connects(new) == \A n \in DOMAIN new : new[n].cmd \in {"SYNC", "CNXN"}

Reconnects(d, c, new, e, b, more) ==
  /\ Moved(wire[Host], wire'[Host], d, c, new) /\ Connects(new)
  /\ Moved(wire[Device], wire'[Device], e, b, more) /\ Connects(more)
  /\ \A r \in Peers, i \in Ids : Quieter(r, i)
  /\ opened' = opened /\ local_socket_next_id'[Device] = local_socket_next_id[Device]

(* An end of which packets are lost, or of which the other end forgets the   *)
(* streams, has none itself; the ids of the device do not reach a new server. *)
Cuts(d, e) ==
  /\ NoneOpen(Device)' \/ (d = 0 /\ (NoneOpen(Host)' \/ broken'[Host]))
  /\ NoneOpen(Host)' \/ (e = 0 /\ (NoneOpen(Device)' \/ broken'[Device]))
  /\ \/ ~online'[Host]
     \/ online[Host] /\ local_socket_next_id'[Host] = local_socket_next_id[Host]
     \/ \A n \in DOMAIN wire'[Device] : wire'[Device][n].cmd # "OKAY"

LEMMA QuieterFacts ==
  ASSUME NEW r, NEW i, Quieter(r, i)
  PROVE  /\ socket'[r][i].state # "free" =>
              socket[r][i].state # "free" /\ socket'[r][i].stream = socket[r][i].stream
         /\ socket'[r][i].state = "open" => socket'[r][i] = socket[r][i]
  BY DEF Quieter, Free

LEMMA ConnectionKeeps ==
  ASSUME IInv, Sessions, NEW d, NEW c, NEW new, NEW e, NEW b, NEW more,
         Reconnects(d, c, new, e, b, more),
         online'[Host] => online[Host],
         \/ local_socket_next_id'[Host] = local_socket_next_id[Host]
         \/ ~online'[Host] /\ \A i \in Ids : socket'[Host][i].state = "free",
         NoneOpen(Host)' \/ (e = 0 /\ (NoneOpen(Device)' \/ broken'[Device]))
  PROVE  HostIds' /\ DeviceIds' /\ HostPeers' /\ PacketsBelong' /\ Unanswered' /\ Unheard'
<1>1. /\ Host \in Peers /\ Device \in Peers
      /\ opened' = opened /\ local_socket_next_id'[Device] = local_socket_next_id[Device]
      /\ HostIds /\ DeviceIds /\ HostPeers /\ PacketsBelong /\ Unanswered /\ Unheard
      /\ online'[Host] => local_socket_next_id'[Host] = local_socket_next_id[Host]
  BY Types DEF Reconnects, Sessions
<1>2. \A r \in Peers, i \in Ids :
        /\ socket'[r][i].state # "free" =>
             socket[r][i].state # "free" /\ socket'[r][i].stream = socket[r][i].stream
        /\ socket'[r][i].state = "open" => socket'[r][i] = socket[r][i]
  BY QuieterFacts DEF Reconnects
<1>3. /\ \A n \in DOMAIN wire'[Host] :
           \/ wire'[Host][n].cmd \in {"SYNC", "CNXN"}
           \/ \E l \in DOMAIN wire[Host] : wire'[Host][n] = wire[Host][l]
      /\ \A n \in DOMAIN wire'[Device] :
           \/ wire'[Device][n].cmd \in {"SYNC", "CNXN"}
           \/ n + e \in DOMAIN wire[Device] /\ n <= b /\ wire'[Device][n] = wire[Device][n + e]
      /\ \A n \in DOMAIN wire[Device] :
           e < n /\ n <= e + b => n - e \in DOMAIN wire'[Device] /\ wire'[Device][n - e] = wire[Device][n]
  BY MovedFacts DEF Reconnects, Connects
<1>4. /\ \A n \in DOMAIN wire'[Device] : wire'[Device][n].cmd \in Addressed =>
           \E l \in DOMAIN wire[Device] : wire'[Device][n] = wire[Device][l]
      /\ \A n \in DOMAIN wire'[Host] : wire'[Host][n].cmd \in Addressed \cup {"OPEN"} =>
           \E l \in DOMAIN wire[Host] : wire'[Host][n] = wire[Host][l]
  BY <1>3 DEF Addressed
<1>5. HostIds'
  BY <1>1, <1>2 DEF HostIds, StreamOf
<1>6. DeviceIds'
  BY <1>1, <1>2 DEF DeviceIds, StreamOf
<1>7. \A j \in Ids : \A k : IsStream(j, k) => IsStream(j, k)'
  BY <1>1, <1>2 DEF IsStream
<1>8. HostPeers'
  <2> SUFFICES ASSUME NEW i \in Ids, socket'[Host][i].state = "open", socket'[Host][i].peer # 0
               PROVE  /\ socket'[Host][i].peer < local_socket_next_id'[Device]
                      /\ IsStream(socket[Host][i].peer, socket[Host][i].stream)'
    BY DEF HostPeers
  <2>1. socket'[Host][i] = socket[Host][i] /\ socket[Host][i].peer \in Ids
    BY <1>1, <1>2, PeerTypes
  <2> QED
    BY <1>1, <1>7, <2>1, SMTT(30) DEF HostPeers, IsStream
<1>9. PacketsBelong'
  <2>1. ASSUME NEW n \in DOMAIN wire'[Host], NEW l \in DOMAIN wire[Host],
               wire'[Host][n] = wire[Host][l]
        PROVE  HostPacket(wire[Host][n])'
    <3> DEFINE m == wire[Host][l]
    <3>1. HostPacket(m) /\ (m.arg1 # 0 => m.arg1 \in Ids)
      BY <1>1, Types, ReceivedIds, PeerTypes DEF PacketsBelong
    <3>2. m.cmd = "OPEN" => OpenPacket(wire[Host][n])'
      BY <1>1, <1>2, <1>4, <2>1, <3>1 DEF HostPacket, OpenPacket, StreamOf
    <3> QED
      BY <1>1, <1>7, <2>1, <3>1, <3>2 DEF HostPacket, StreamOf, IsStream
  <2>2. ASSUME NEW n \in DOMAIN wire'[Device], NEW l \in DOMAIN wire[Device],
               wire'[Device][n] = wire[Device][l]
        PROVE  DevicePacket(wire[Device][n])'
    <3> DEFINE m == wire[Device][l]
    <3>1. DevicePacket(m) /\ (m.arg0 # 0 => m.arg0 \in Ids)
      BY <1>1, Types, ReceivedIds, PeerTypes DEF PacketsBelong
    <3> QED
      BY <1>1, <1>7, <2>2, <3>1 DEF DevicePacket, StreamOf, IsStream
  <2>3. \A n \in DOMAIN wire'[Host] : wire'[Host][n].cmd \in {"SYNC", "CNXN"} => HostPacket(wire[Host][n])'
    BY DEF HostPacket, Addressed
  <2>4. \A n \in DOMAIN wire'[Device] : wire'[Device][n].cmd \in {"SYNC", "CNXN"} => DevicePacket(wire[Device][n])'
    BY DEF DevicePacket, Addressed
  <2> QED
    BY <1>3, <2>1, <2>2, <2>3, <2>4 DEF PacketsBelong
<1>10. Unheard'
  BY <1>1, <1>2, <1>4 DEF Unheard
<1>11. Unanswered'
  <2> SUFFICES ASSUME NEW i \in Ids, socket'[Host][i].state = "open", socket'[Host][i].peer = 0
               PROVE  /\ ~socket'[Host][i].reading /\ socket'[Host][i].pending = <<>>
                      /\ \A n \in DOMAIN wire'[Device] : To(n, "WRTE", i)' =>
                           \E l \in DOMAIN wire'[Device] : l < n /\ To(l, "OKAY", i)'
                      /\ ~broken'[Device] =>
                           \A j \in Ids : socket'[Device][j].state = "open" /\ socket'[Device][j].peer = i =>
                             \E l \in DOMAIN wire'[Device] : To(l, "OKAY", i)'
    BY DEF Unanswered
  <2>1. socket[Host][i].state = "open" /\ socket[Host][i].peer = 0 /\ socket'[Host][i] = socket[Host][i]
    BY <1>1, <1>2
  <2>2. e = 0 /\ (NoneOpen(Device)' \/ broken'[Device])
    BY DEF NoneOpen
  <2>3. ~socket'[Host][i].reading /\ socket'[Host][i].pending = <<>>
    BY <1>1, <2>1 DEF Unanswered
  <2>4. ASSUME NEW n \in DOMAIN wire'[Device], To(n, "WRTE", i)'
        PROVE  \E l \in DOMAIN wire'[Device] : l < n /\ To(l, "OKAY", i)'
    <3>1. /\ n + e \in DOMAIN wire[Device] /\ n <= b /\ wire'[Device][n] = wire[Device][n + e]
          /\ b \in Nat /\ n \in Nat
      <4>1. wire'[Device][n].cmd = "WRTE"
        BY <2>4 DEF To
      <4>2. b \in Nat /\ wire'[Device] \in Seq(Packets)
        BY DEF Reconnects, Moved
      <4>3. n \in Nat
        BY <4>2
      <4> QED
        BY <1>3, <4>1, <4>2, <4>3
    <3>2. n \in DOMAIN wire[Device] /\ To(n, "WRTE", i) /\ n <= b
      BY <2>2, <2>4, <3>1 DEF To
    <3>3. PICK l \in DOMAIN wire[Device] : l < n /\ To(l, "OKAY", i)
      BY <1>1, <2>1, <3>2 DEF Unanswered
    <3>4. l \in DOMAIN wire'[Device] /\ wire'[Device][l] = wire[Device][l]
      <4>1. l \in Nat /\ 0 < l /\ l <= 0 + b /\ l - 0 = l
        BY <1>1, <3>1, <3>2, <3>3, Types
      <4> QED
        BY <1>3, <2>2, <4>1
    <3> QED
      BY <3>3, <3>4 DEF To
  <2> QED
    BY <2>2, <2>3, <2>4 DEF NoneOpen
<1> QED
  BY <1>5, <1>6, <1>8, <1>9, <1>10, <1>11

LEMMA CloseAllQuiets ==
  ASSUME IInv, NEW p \in Peers, NEW closing \in SUBSET OpenSockets(p), CloseAll(p, closing)
  PROVE  /\ \A r \in Peers, i \in Ids : Quieter(r, i)
         /\ \A i \in closing : socket'[p][i].state # "open"
         /\ \A i \in Ids \ closing : socket'[p][i] = socket[p][i]
         /\ \A i \in Ids : socket'[Other(p)][i] = socket[Other(p)][i]
<1>1. /\ socket \in [Peers -> [Ids -> Sockets]] /\ Other(p) \in Peers /\ Other(p) # p
      /\ \A i \in Ids : Whole(socket[p][i])
  BY InvParts, TwoPeers, AdbStreamAssumption DEF SocketsWhole, Other
<1>2. /\ socket'[p] = [i \in Ids |-> IF i \in closing THEN Closed(socket[p][i]) ELSE socket[p][i]]
      /\ \A r \in Peers : r # p => socket'[r] = socket[r]
  BY <1>1 DEF CloseAll
<1>3. /\ \A i \in Ids : i \in closing => socket'[p][i] = Closed(socket[p][i])
      /\ \A i \in Ids \ closing : socket'[p][i] = socket[p][i]
      /\ \A r \in Peers, i \in Ids : r # p => socket'[r][i] = socket[r][i]
  BY <1>2
<1>4. ASSUME NEW i \in Ids, i \in closing
      PROVE  Quieter(p, i) /\ socket'[p][i].state # "open"
  <2>1. socket[p][i].state = "open" /\ Whole(socket[p][i]) /\ socket[p][i] \in Sockets
    BY <1>1, <1>4 DEF OpenSockets
  <2>2. Closed(socket[p][i]).state # "open"
    BY <2>1, ClosedWhole
  <2>3. \/ Closed(socket[p][i]) = Free
        \/ Closed(socket[p][i]) = [socket[p][i] EXCEPT !.state = "closing", !.peer = 0, !.reading = FALSE]
    BY DEF Closed
  <2>4. LET t == [socket[p][i] EXCEPT !.state = "closing", !.peer = 0, !.reading = FALSE]
        IN t.state = "closing" /\ t.stream = socket[p][i].stream /\ t.pending = socket[p][i].pending
    BY <2>1 DEF Sockets
  <2> QED
    BY <1>3, <1>4, <2>1, <2>2, <2>3, <2>4 DEF Quieter
<1> QED
  BY <1>1, <1>3, <1>4 DEF Quieter, OpenSockets

LEMMA NewConnects ==
  Connects(<<>>) /\ Connects(<<Connection>>) /\ Connects(<<Packet("SYNC", 0, 0)>>)
<1>1. \A m : \A n \in DOMAIN <<m>> : <<m>>[n] = m
  OBVIOUS
<1>2. \A m : m.cmd \in {"SYNC", "CNXN"} => Connects(<<m>>)
  BY <1>1 DEF Connects
<1>3. Connection.cmd = "CNXN" /\ Packet("SYNC", 0, 0).cmd = "SYNC"
  BY DEF Connection, Packet
<1>4. Connects(<<>>)
  BY DEF Connects
<1> QED
  BY <1>2, <1>3, <1>4

LEMMA SyncFacts ==
  ASSUME IInv, Sessions
  PROVE  /\ Syncs(Host) /\ Syncs(Device) /\ OfflineCloses /\ Connecting
         /\ broken[Host] \in BOOLEAN /\ broken[Device] \in BOOLEAN
         /\ Host \in Peers /\ Device \in Peers /\ Host # Device
         /\ Other(Host) = Device /\ Other(Device) = Host
         /\ \A p \in Peers : p = Host \/ p = Device
  BY Types, TwoPeers DEF Sessions

(* The device is told of a server, perhaps a new one. *)
LEMMA DeviceConnects ==
  ASSUME IInv, Sessions, HandleConnect(Device)
  PROVE  /\ Sessions' /\ Cuts(1, 0)
         /\ \E more : Reconnects(1, Len(wire[Host]) - 1, <<>>, 0, Len(wire[Device]), more)
<1> DEFINE w == wire[Host]
           v == wire'[Host]
           u == wire[Device]
           x == wire'[Device]
           more == IF broken[Device] THEN <<>> ELSE <<Connection>>
           closing == IF online[Device] THEN Disconnected(Device) ELSE {}
<1>1. /\ Syncs(Host) /\ Syncs(Device) /\ OfflineCloses /\ Connecting
      /\ broken[Host] \in BOOLEAN /\ broken[Device] \in BOOLEAN
      /\ Host \in Peers /\ Device \in Peers /\ Host # Device
      /\ Other(Host) = Device /\ Other(Device) = Host
      /\ \A p \in Peers : p = Host \/ p = Device
  BY SyncFacts
<1>2. /\ w # <<>> /\ Received(Device).cmd = "CNXN" /\ CloseAll(Device, closing)
      /\ online' = [online EXCEPT ![Device] = TRUE]
      /\ Replies(Device, <<Connection>>)
      /\ UNCHANGED <<local_socket_next_id, broken, opened>>
  BY <1>1 DEF HandleConnect, Handles, countVars
<1>3. closing \in SUBSET OpenSockets(Device)
  BY DEF Disconnected, OpenSockets
<1>4. /\ \A r \in Peers, i \in Ids : Quieter(r, i)
      /\ \A i \in closing : socket'[Device][i].state # "open"
      /\ \A i \in Ids \ closing : socket'[Device][i] = socket[Device][i]
      /\ \A i \in Ids : socket'[Host][i] = socket[Host][i]
  BY <1>1, <1>2, <1>3, CloseAllQuiets
<1>5. NoneOpen(Device)'
  <2>1. ASSUME NEW i \in Ids, socket[Device][i].state = "open"
        PROVE  i \in closing
    <3>1. online[Device] /\ socket[Device][i].peer # 0
      BY <1>1, <2>1, InvParts DEF OfflineCloses, NoneOpen, DeviceConnected
    <3> QED
      BY <2>1, <3>1 DEF Disconnected, OpenSockets
  <2> QED
    BY <1>4, <2>1 DEF NoneOpen
<1>6. /\ w \in Seq(Packets) /\ u \in Seq(Packets) /\ w[1].cmd = "CNXN" /\ 1 \in DOMAIN w
      /\ Len(w) \in Nat /\ Len(u) \in Nat /\ DOMAIN w = 1 .. Len(w) /\ DOMAIN u = 1 .. Len(u)
  BY <1>1, <1>2, ReceivedFacts, Types
<1>7. Moved(w, v, 1, Len(w) - 1, <<>>) /\ Moved(u, x, 0, Len(u), more)
  BY <1>1, <1>2, RepliesMove, SmallPackets DEF Sent
<1>8. /\ \A n \in DOMAIN v : n + 1 \in DOMAIN w /\ v[n] = w[n + 1]
      /\ Len(v) = Len(w) - 1 /\ DOMAIN v = 1 .. Len(v)
      /\ Len(x) = Len(u) + Len(more) /\ DOMAIN x = 1 .. Len(x)
      /\ \A n \in DOMAIN x : \/ n \in DOMAIN u /\ x[n] = u[n]
                             \/ n > Len(u) /\ ~broken[Device] /\ x[n] = Connection /\ n = Len(u) + 1
      /\ broken[Device] => x = u
  <2>1. /\ \A n \in DOMAIN v : \/ n <= Len(w) - 1 /\ n + 1 \in DOMAIN w /\ v[n] = w[n + 1]
                               \/ n - (Len(w) - 1) \in DOMAIN <<>>
        /\ v \in Seq(Packets) /\ Len(v) = Len(w) - 1 + Len(<<>>)
        /\ x \in Seq(Packets) /\ Len(x) = Len(u) + Len(more)
        /\ \A n \in DOMAIN x : \/ n <= Len(u) /\ n + 0 \in DOMAIN u /\ x[n] = u[n + 0]
                               \/ n > Len(u) /\ n - Len(u) \in DOMAIN more /\ x[n] = more[n - Len(u)]
    <3>1. /\ \A n \in DOMAIN v : \/ n <= Len(w) - 1 /\ n + 1 \in DOMAIN w /\ v[n] = w[n + 1]
                                 \/ n > Len(w) - 1 /\ n - (Len(w) - 1) \in DOMAIN <<>>
                                      /\ v[n] = <<>>[n - (Len(w) - 1)]
      BY <1>7, MovedFacts
    <3>2. \A n \in DOMAIN x : \/ n <= Len(u) /\ n + 0 \in DOMAIN u /\ x[n] = u[n + 0]
                              \/ n > Len(u) /\ n - Len(u) \in DOMAIN more /\ x[n] = more[n - Len(u)]
      BY <1>7, MovedFacts
    <3> HIDE DEF more
    <3>3. /\ v \in Seq(Packets) /\ Len(v) = Len(w) - 1 + Len(<<>>)
          /\ x \in Seq(Packets) /\ Len(x) = Len(u) + Len(more)
      BY <1>7 DEF Moved
    <3> HIDE DEF v, x, u, w
    <3> QED
      BY <3>1, <3>2, <3>3
  <2>2. \A n \in DOMAIN more : n = 1 /\ ~broken[Device] /\ more[n] = Connection
    OBVIOUS
  <2> HIDE DEF v, x, u, w, more
  <2>3. Len(<<>>) = 0 /\ DOMAIN <<>> = {} /\ DOMAIN v = 1 .. Len(v) /\ DOMAIN x = 1 .. Len(x)
    BY <2>1
  <2>4. ASSUME NEW n \in DOMAIN x
        PROVE  \/ n \in DOMAIN u /\ x[n] = u[n]
               \/ n > Len(u) /\ ~broken[Device] /\ x[n] = Connection /\ n = Len(u) + 1
    <3>1. n \in Nat
      BY <2>3
    <3>2. CASE n <= Len(u) /\ n + 0 \in DOMAIN u /\ x[n] = u[n + 0]
      BY <3>1, <3>2
    <3>3. CASE n > Len(u) /\ n - Len(u) \in DOMAIN more /\ x[n] = more[n - Len(u)]
      <4>1. n - Len(u) = 1 /\ ~broken[Device] /\ x[n] = Connection
        BY <2>2, <3>3
      <4> QED
        BY <1>6, <3>1, <3>3, <4>1
    <3> QED
      BY <2>1, <3>2, <3>3
  <2>5. broken[Device] => x = u
    <3>1. broken[Device] => more = <<>>
      BY DEF more
    <3>2. broken[Device] => Len(x) = Len(u)
      BY <1>6, <2>1, <3>1
    <3>3. broken[Device] => \A n \in 1 .. Len(u) : x[n] = u[n]
      BY <2>3, <2>4, <3>2
    <3> QED
      BY <1>6, <2>1, <3>2, <3>3
  <2> QED
    BY <1>6, <2>1, <2>3, <2>4, <2>5
<1> HIDE DEF v, x, more, closing
<1>9. /\ ~online[Host] /\ ~online'[Host] /\ online'[Device]
      /\ \A n \in DOMAIN u : u[n].cmd # "CNXN"
  <2>1. online'[Host] = online[Host] /\ online'[Device]
    <3>1. online \in [Peers -> BOOLEAN]
      BY InvParts DEF CountersOK
    <3> QED
      BY <1>1, <1>2, <3>1
  <2> QED
    BY <1>1, <1>6, <2>1 DEF Connecting
<1>10. ~broken[Device] =>
         v = <<>> /\ \A n \in DOMAIN u : u[n].cmd # "SYNC"
  <2> SUFFICES ASSUME ~broken[Device]
               PROVE  v = <<>> /\ \A n \in DOMAIN u : u[n].cmd # "SYNC"
    OBVIOUS
  <2>1. \A n \in DOMAIN w : w[n].cmd # "SYNC"
    BY <1>1 DEF Syncs
  <2>2. ASSUME NEW n \in DOMAIN w, n # 1
        PROVE  FALSE
    <3>1. 1 < n
      BY <1>6, <2>2
    <3>2. w[n].cmd \in {"SYNC", "CNXN"}
      BY <1>1, <1>6, <3>1 DEF Connecting
    <3> QED
      BY <1>1, <1>6, <2>1, <3>1, <3>2 DEF Connecting
  <2>3. Len(w) = 1
    <3>1. Len(w) \in DOMAIN w
      BY <1>6
    <3> QED
      BY <2>2, <3>1
  <2>4. v = <<>>
    BY <1>7, <1>8, <2>3 DEF Moved
  <2>5. \A n \in DOMAIN u : u[n].cmd = "SYNC" => broken[Host]
    BY <1>1 DEF Syncs
  <2>6. ~broken[Host]
    BY <1>1, <1>2 DEF Syncs
  <2> QED
    BY <2>4, <2>5, <2>6
<1>11. Connects(<<>>) /\ Connects(more) /\ Connection.cmd = "CNXN"
  <2>1. more = <<>> \/ more = <<Connection>>
    BY DEF more
  <2> QED
    BY <2>1, NewConnects DEF Connection, Packet
<1>12. Reconnects(1, Len(w) - 1, <<>>, 0, Len(u), more)
  BY <1>1, <1>2, <1>4, <1>7, <1>11 DEF Reconnects, v, x
<1>13. HostIds' /\ DeviceIds' /\ HostPeers' /\ PacketsBelong' /\ Unanswered' /\ Unheard'
  BY <1>2, <1>5, <1>9, <1>12, ConnectionKeeps
<1>14. OfflineCloses'
  BY <1>1, <1>4, <1>5, <1>9 DEF OfflineCloses, NoneOpen
<1>15. Syncs(Device)'
  <2>1. ASSUME NEW n \in DOMAIN v, v[n].cmd = "SYNC"
        PROVE  broken[Device] /\ \A m \in DOMAIN v : n < m => v[m].cmd = "CNXN" /\ ~broken[Host]
    <3>1. n + 1 \in DOMAIN w /\ w[n + 1].cmd = "SYNC"
      BY <1>8, <2>1
    <3>2. /\ broken[Device]
          /\ \A m \in DOMAIN w : n + 1 < m => w[m].cmd = "CNXN" /\ ~broken[Host]
      BY <1>1, <3>1 DEF Syncs
    <3>3. ASSUME NEW m \in DOMAIN v, n < m
          PROVE  m + 1 \in DOMAIN w /\ n + 1 < m + 1 /\ v[m] = w[m + 1]
      BY <1>6, <1>8, <2>1, <3>3
    <3> QED
      BY <3>2, <3>3
  <2>2. ASSUME broken[Device], broken[Host]
        PROVE  v # <<>> /\ v[Len(v)].cmd = "SYNC"
    <3>1. w[Len(w)].cmd = "SYNC"
      BY <1>1, <2>2 DEF Syncs
    <3>2. Len(w) # 1
      BY <1>6, <3>1
    <3>3. Len(v) \in DOMAIN v /\ Len(v) + 1 = Len(w) /\ DOMAIN v # {}
      <4>1. /\ Len(w) \in Nat /\ Len(w) >= 1 /\ Len(v) = Len(w) - 1 /\ DOMAIN v = 1 .. Len(v)
        BY <1>6, <1>8
      <4>2. Len(v) \in DOMAIN v /\ Len(v) + 1 = Len(w)
        <5>1. \A a \in Nat : \A b : a >= 1 /\ a # 1 /\ b = a - 1 => b \in 1 .. b /\ b + 1 = a
          OBVIOUS
        <5> QED
          BY <3>2, <4>1, <5>1
      <4> QED
        BY <4>2
    <3>4. v # <<>>
      BY <3>3
    <3> QED
      BY <1>8, <3>1, <3>3, <3>4
  <2>3. ~broken[Device] => ~broken[Host]
    BY <1>1, <1>2 DEF Syncs
  <2> QED
    BY <1>1, <1>2, <2>1, <2>2, <2>3 DEF Syncs, v
<1>16. Syncs(Host)'
  <2>1. CASE broken[Device]
    BY <1>1, <1>2, <1>8, <1>9, <2>1 DEF Syncs, x
  <2>2. CASE ~broken[Device]
    <3>1. \A n \in DOMAIN x : x[n].cmd # "SYNC"
      BY <1>8, <1>10, <1>11, <2>2
    <3>2. ~broken[Host]
      BY <1>1, <1>2, <2>2 DEF Syncs
    <3> QED
      BY <1>1, <1>2, <2>2, <3>1, <3>2 DEF Syncs, x
  <2> QED
    BY <2>1, <2>2
<1>17. Connecting'
  <2>1. ASSUME NEW n \in DOMAIN v, NEW m \in DOMAIN v, v[n].cmd = "CNXN", n < m
        PROVE  /\ v[m].cmd \in {"SYNC", "CNXN"}
               /\ v[m].cmd = "CNXN" =>
                    \E l \in DOMAIN v : n < l /\ l < m /\ v[l].cmd = "SYNC"
    <3>1. /\ n + 1 \in DOMAIN w /\ m + 1 \in DOMAIN w /\ n + 1 < m + 1
          /\ v[n] = w[n + 1] /\ v[m] = w[m + 1]
      BY <1>6, <1>8, <2>1
    <3>2. /\ w[m + 1].cmd \in {"SYNC", "CNXN"}
          /\ w[m + 1].cmd = "CNXN" =>
               \E l \in DOMAIN w : n + 1 < l /\ l < m + 1 /\ w[l].cmd = "SYNC"
      BY <1>1, <2>1, <3>1 DEF Connecting
    <3>3. ASSUME NEW l \in DOMAIN w, n + 1 < l, l < m + 1, w[l].cmd = "SYNC"
          PROVE  \E g \in DOMAIN v : n < g /\ g < m /\ v[g].cmd = "SYNC"
      <4>1. l - 1 \in DOMAIN v /\ n < l - 1 /\ l - 1 < m /\ (l - 1) + 1 = l
        <5>1. /\ l \in Nat /\ n \in Nat /\ m \in Nat /\ l <= Len(w) /\ n >= 1
              /\ Len(v) = Len(w) - 1 /\ DOMAIN v = 1 .. Len(v) /\ Len(w) \in Nat
          BY <1>6, <1>8, <2>1, <3>3
        <5> QED
          BY <3>3, <5>1
      <4> QED
        BY <1>8, <3>3, <4>1
    <3> QED
      BY <3>1, <3>2, <3>3
  <2>2. ASSUME NEW n \in DOMAIN x, x[n].cmd = "CNXN"
        PROVE  /\ \A m \in DOMAIN v : v[m].cmd = "SYNC"
               /\ \A m \in DOMAIN x : n < m => x[m].cmd = "SYNC"
    <3>1. n = Len(u) + 1 /\ ~broken[Device]
      BY <1>8, <1>9, <2>2
    <3>2. \A m \in DOMAIN x : m \in Nat /\ ~(n < m)
      BY <1>6, <1>8, <3>1
    <3> QED
      BY <1>8, <1>10, <3>1, <3>2
  <2>3. /\ \A n, m \in DOMAIN v : v[n].cmd = "CNXN" /\ n < m =>
             /\ v[m].cmd \in {"SYNC", "CNXN"}
             /\ v[m].cmd = "CNXN" =>
                  \E l \in DOMAIN v : n < l /\ l < m /\ v[l].cmd = "SYNC"
        /\ \A n \in DOMAIN x : x[n].cmd = "CNXN" =>
             /\ \A m \in DOMAIN v : v[m].cmd = "SYNC"
             /\ \A m \in DOMAIN x : n < m => x[m].cmd = "SYNC"
    BY <2>1, <2>2
  <2> QED
    BY <1>5, <1>9, <2>3 DEF Connecting, v, x
<1>18. Cuts(1, 0)
  BY <1>5, <1>9 DEF Cuts
<1> QED
  BY <1>1, <1>12, <1>13, <1>14, <1>15, <1>16, <1>17, <1>18 DEF Sessions

LEMMA NoPackets ==
  ASSUME NEW w \in Seq(Packets), \A n \in DOMAIN w : FALSE
  PROVE  w = <<>>
<1>1. Len(w) \in Nat /\ DOMAIN w = 1 .. Len(w)
  OBVIOUS
<1>2. 1 \notin DOMAIN w
  OBVIOUS
<1>3. Len(w) = 0
  BY <1>1, <1>2
<1> QED
  BY <1>3

LEMMA TailFacts ==
  ASSUME NEW w \in Seq(Packets), w # <<>>
  PROVE  /\ Tail(w) \in Seq(Packets) /\ Len(Tail(w)) = Len(w) - 1 /\ Len(w) \in Nat
         /\ DOMAIN Tail(w) = 1 .. Len(Tail(w)) /\ DOMAIN w = 1 .. Len(w) /\ 1 \in DOMAIN w
         /\ w[1] = Head(w)
         /\ \A n \in DOMAIN Tail(w) : n \in Nat /\ n >= 1 /\ n + 1 \in DOMAIN w /\ Tail(w)[n] = w[n + 1]
         /\ \A n \in DOMAIN Tail(w), m \in DOMAIN Tail(w) : n < m => n + 1 < m + 1
         /\ \A n \in DOMAIN w : 1 < n => n - 1 \in DOMAIN Tail(w) /\ Tail(w)[n - 1] = w[n]
         /\ Tail(w) = <<>> \/ (Len(w) - 1 \in DOMAIN Tail(w) /\ Tail(w)[Len(w) - 1] = w[Len(w)])
<1> DEFINE v == Tail(w)
<1>1. /\ v \in Seq(Packets) /\ Len(v) = Len(w) - 1 /\ Len(w) \in Nat /\ Len(w) >= 1
      /\ DOMAIN v = 1 .. Len(v) /\ DOMAIN w = 1 .. Len(w)
      /\ w[1] = Head(w)
  OBVIOUS
<1>2. \A n \in DOMAIN v : n \in Nat /\ n >= 1 /\ n + 1 \in DOMAIN w /\ v[n] = w[n + 1]
  OBVIOUS
<1> HIDE DEF v
<1>3. ASSUME NEW n \in DOMAIN w, 1 < n
      PROVE  n - 1 \in DOMAIN v /\ v[n - 1] = w[n]
  <2>1. n \in Nat /\ n <= Len(w)
    BY <1>1
  <2>2. n - 1 \in DOMAIN v /\ (n - 1) + 1 = n
    BY <1>1, <1>3, <2>1
  <2> QED
    BY <1>2, <2>2
<1>4. v = <<>> \/ (Len(w) - 1 \in DOMAIN v /\ v[Len(w) - 1] = w[Len(w)])
  <2>1. CASE Len(w) = 1
    <3>1. Len(v) = 0
      BY <1>1, <2>1
    <3>2. \A n \in DOMAIN v : FALSE
      BY <1>1, <3>1
    <3>3. v \in Seq(Packets)
      BY <1>1
    <3>4. v = <<>>
      BY <3>2, <3>3, NoPackets
    <3> QED
      BY <3>4
  <2>2. CASE Len(w) # 1
    <3>1. Len(w) \in DOMAIN w /\ 1 < Len(w)
      BY <1>1, <2>2
    <3> QED
      BY <1>3, <3>1
  <2> QED
    BY <2>1, <2>2
<1>5. \A n \in DOMAIN v, m \in DOMAIN v : n < m => n + 1 < m + 1
  BY <1>2
<1>6. 1 \in DOMAIN w
  BY <1>1
<1> QED
  BY <1>1, <1>2, <1>3, <1>4, <1>5, <1>6 DEF v

(* The server is told that the device heard of it: nothing is left of what   *)
(* the device sent its predecessor.                                          *)
LEMMA HostConnects ==
  ASSUME IInv, Sessions, HandleConnect(Host)
  PROVE  /\ Sessions' /\ Cuts(0, 1)
         /\ Reconnects(0, Len(wire[Host]), <<>>, 1, Len(wire[Device]) - 1, <<>>)
<1> DEFINE w == wire[Device]
<1>1. /\ Syncs(Host) /\ Syncs(Device) /\ OfflineCloses /\ Connecting
      /\ Host \in Peers /\ Device \in Peers /\ Host # Device
      /\ Other(Host) = Device /\ Other(Device) = Host
      /\ \A p \in Peers : p = Host \/ p = Device
  BY SyncFacts
<1>2. /\ w # <<>> /\ Received(Host).cmd = "CNXN"
      /\ CloseAll(Host, IF online[Host] THEN Disconnected(Host) ELSE {})
      /\ online' = [online EXCEPT ![Host] = TRUE]
      /\ Replies(Host, <<>>)
      /\ UNCHANGED <<local_socket_next_id, broken, opened>>
  BY <1>1 DEF HandleConnect, Handles, countVars
<1>3. /\ w \in Seq(Packets) /\ wire[Host] \in Seq(Packets) /\ wire \in [Peers -> Seq(Packets)]
      /\ online \in [Peers -> BOOLEAN]
  BY <1>1, InvParts DEF WireOK, CountersOK
<1>4. wire'[Device] = Tail(w) /\ wire'[Host] = wire[Host]
  BY <1>1, <1>2, <1>3 DEF Replies, Put
<1>5. 1 \in DOMAIN w /\ w[1].cmd = "CNXN"
  BY <1>2, <1>3, TailFacts, ReceivedFacts, <1>1
<1>6. /\ ~online[Host] /\ NoneOpen(Device)
      /\ \A n \in DOMAIN wire[Host] : wire[Host][n].cmd = "SYNC"
      /\ \A n \in DOMAIN Tail(w) : Tail(w)[n].cmd = "SYNC"
  <2>1. ~online[Host] /\ NoneOpen(Device)
    BY <1>1, <1>5 DEF Connecting
  <2>2. \A n \in DOMAIN wire[Host] : wire[Host][n].cmd = "SYNC"
    BY <1>1, <1>5 DEF Connecting
  <2>3. \A n \in DOMAIN w : 1 < n => w[n].cmd = "SYNC"
    BY <1>1, <1>5 DEF Connecting
  <2>4. \A n \in DOMAIN Tail(w) : n + 1 \in DOMAIN w /\ Tail(w)[n] = w[n + 1] /\ 1 < n + 1
    <3>1. \A n \in DOMAIN Tail(w) : n + 1 \in DOMAIN w /\ Tail(w)[n] = w[n + 1] /\ n \in Nat /\ n >= 1
      BY <1>2, <1>3, TailFacts
    <3> QED
      BY <3>1
  <2> QED
    BY <2>1, <2>2, <2>3, <2>4
<1>7. /\ \A r \in Peers, i \in Ids : Quieter(r, i)
      /\ \A r \in Peers, i \in Ids : socket'[r][i] = socket[r][i]
      /\ NoneOpen(Host)
  <2>1. CloseAll(Host, {}) /\ {} \in SUBSET OpenSockets(Host)
    BY <1>2, <1>6
  <2>2. /\ \A r \in Peers, i \in Ids : Quieter(r, i)
        /\ \A i \in Ids : socket'[Host][i] = socket[Host][i]
        /\ \A i \in Ids : socket'[Device][i] = socket[Device][i]
    BY <1>1, <2>1, CloseAllQuiets
  <2>3. NoneOpen(Host)
    BY <1>1, <1>6 DEF OfflineCloses
  <2> QED
    BY <1>1, <2>2, <2>3
<1>8. NoneOpen(Host)' /\ NoneOpen(Device)'
  BY <1>1, <1>6, <1>7 DEF NoneOpen
<1>9. Reconnects(0, Len(wire[Host]), <<>>, 1, Len(w) - 1, <<>>)
  <2>1. Moved(wire[Host], wire'[Host], 0, Len(wire[Host]), <<>>)
    BY <1>3, <1>4, WireMoves
  <2>2. Moved(w, wire'[Device], 1, Len(w) - 1, <<>>)
    BY <1>2, <1>3, <1>4, WireMoves
  <2> QED
    BY <1>2, <1>7, <2>1, <2>2, NewConnects DEF Reconnects
<1>10. /\ online'[Host] /\ online'[Device] = online[Device] /\ broken' = broken
       /\ local_socket_next_id' = local_socket_next_id /\ opened' = opened
  BY <1>1, <1>2, <1>3
<1>11. HostIds' /\ DeviceIds' /\ HostPeers' /\ Unanswered' /\ Unheard' /\ PacketsBelong'
  <2>1. HostIds /\ DeviceIds
    BY DEF Sessions
  <2>2. HostIds'
    BY <1>1, <1>7, <1>10, <2>1 DEF HostIds, StreamOf
  <2>3. DeviceIds'
    BY <1>1, <1>7, <1>8, <1>10, <2>1 DEF DeviceIds, NoneOpen
  <2>4. HostPeers' /\ Unanswered' /\ Unheard'
    BY <1>8 DEF HostPeers, Unanswered, Unheard, NoneOpen
  <2>5. \A n \in DOMAIN wire'[Host] : HostPacket(wire[Host][n])'
    BY <1>4, <1>6 DEF HostPacket, Addressed
  <2>6. \A n \in DOMAIN wire'[Device] : DevicePacket(wire[Device][n])'
    BY <1>4, <1>6 DEF DevicePacket, Addressed
  <2> QED
    BY <2>2, <2>3, <2>4, <2>5, <2>6 DEF PacketsBelong
<1>12. OfflineCloses'
  BY <1>1, <1>8 DEF OfflineCloses
<1>13. Connecting'
  <2>1. /\ \A n \in DOMAIN wire'[Host] : wire'[Host][n].cmd = "SYNC"
        /\ \A n \in DOMAIN wire'[Device] : wire'[Device][n].cmd = "SYNC"
    BY <1>4, <1>6
  <2> QED
    BY <1>1, <1>8, <2>1 DEF Connecting
<1>14. Syncs(Device)'
  <2>1. online'[Device] = online[Device]
    BY <1>10
  <2> QED
    BY <1>1, <1>4, <1>10 DEF Syncs
<1>15. Syncs(Host)'
  <2>1. ASSUME NEW n \in DOMAIN Tail(w)
        PROVE  broken[Host] /\ \A m \in DOMAIN Tail(w) : ~(n < m)
    <3>1. n + 1 \in DOMAIN w /\ w[n + 1].cmd = "SYNC"
      BY <1>2, <1>3, <1>6, TailFacts
    <3>2. broken[Host] /\ \A m \in DOMAIN w : ~(n + 1 < m)
      BY <1>1, <3>1 DEF Syncs
    <3>3. \A m \in DOMAIN Tail(w) : m + 1 \in DOMAIN w /\ (n < m => n + 1 < m + 1)
      BY <1>2, <1>3, <2>1, TailFacts
    <3> QED
      BY <3>2, <3>3
  <2>2. ~broken[Host] => ~broken[Device]
    BY <1>1, <1>2 DEF Syncs
  <2>3. ASSUME broken[Host], broken[Device]
        PROVE  Tail(w) # <<>> /\ Tail(w)[Len(Tail(w))].cmd = "SYNC"
    <3>1. w[Len(w)].cmd = "SYNC"
      BY <1>1, <2>3 DEF Syncs
    <3>2. Len(w) # 1
      BY <1>5, <3>1
    <3>3. Len(Tail(w)) = Len(w) - 1 /\ DOMAIN Tail(w) = 1 .. Len(Tail(w)) /\ Len(w) \in Nat
          /\ 1 \in DOMAIN w /\ DOMAIN w = 1 .. Len(w)
      BY <1>2, <1>3, TailFacts
    <3>4. Len(w) - 1 # 0
      BY <3>2, <3>3
    <3>5. Tail(w) # <<>>
      BY <3>3, <3>4
    <3> QED
      BY <1>2, <1>3, <3>1, <3>3, <3>5, TailFacts
  <2> QED
    BY <1>1, <1>4, <1>6, <1>10, <2>1, <2>2, <2>3 DEF Syncs
<1>16. Cuts(0, 1)
  <2>1. \A n \in DOMAIN wire'[Device] : wire'[Device][n].cmd # "OKAY"
    BY <1>4, <1>6
  <2> QED
    BY <1>8, <2>1 DEF Cuts
<1> QED
  BY <1>1, <1>9, <1>11, <1>12, <1>13, <1>14, <1>15, <1>16 DEF Sessions

(* The server finds its connection broken, and makes another. *)
LEMMA HostSyncs ==
  ASSUME IInv, Sessions, HandleSync(Host)
  PROVE  /\ Sessions' /\ Cuts(0, 1)
         /\ Reconnects(0, Len(wire[Host]), <<Connection>>, 1, Len(wire[Device]) - 1, <<>>)
<1> DEFINE w == wire[Host]
           v == wire'[Host]
           u == wire[Device]
<1>1. /\ Syncs(Host) /\ Syncs(Device) /\ OfflineCloses /\ Connecting
      /\ Host \in Peers /\ Device \in Peers /\ Host # Device
      /\ Other(Host) = Device /\ Other(Device) = Host
      /\ \A p \in Peers : p = Host \/ p = Device
  BY SyncFacts
<1>2. /\ u # <<>> /\ Received(Host).cmd = "SYNC" /\ CloseAll(Host, OpenSockets(Host))
      /\ online' = [online EXCEPT ![Host] = FALSE] /\ broken' = [broken EXCEPT ![Host] = FALSE]
      /\ wire' = [wire EXCEPT ![Device] = Tail(@), ![Host] = Append(@, Connection)]
      /\ UNCHANGED <<local_socket_next_id, opened>>
  BY <1>1 DEF HandleSync, Handles, countVars
<1>3. /\ u \in Seq(Packets) /\ w \in Seq(Packets) /\ wire \in [Peers -> Seq(Packets)]
      /\ online \in [Peers -> BOOLEAN] /\ broken \in [Peers -> BOOLEAN] /\ Connection \in Packets
  BY <1>1, InvParts, PacketTypes DEF WireOK, CountersOK
<1>4. wire'[Device] = Tail(u) /\ v = Append(w, Connection)
  BY <1>1, <1>2, <1>3
<1>5. /\ v \in Seq(Packets) /\ Len(v) = Len(w) + 1 /\ Len(w) \in Nat
      /\ DOMAIN v = 1 .. Len(v) /\ DOMAIN w = 1 .. Len(w)
      /\ \A n \in DOMAIN w : n \in DOMAIN v /\ v[n] = w[n]
      /\ v[Len(w) + 1] = Connection
  BY <1>3, <1>4
<1> HIDE DEF v, w
<1>6. \A n \in DOMAIN v : (n \in DOMAIN w /\ v[n] = w[n]) \/ (n = Len(w) + 1 /\ v[n] = Connection)
  <2> SUFFICES ASSUME NEW n \in DOMAIN v
               PROVE  (n \in DOMAIN w /\ v[n] = w[n]) \/ (n = Len(w) + 1 /\ v[n] = Connection)
    OBVIOUS
  <2>1. n \in Nat /\ n >= 1 /\ n <= Len(w) + 1
    BY <1>5
  <2>2. CASE n = Len(w) + 1
    BY <1>5, <2>2
  <2>3. CASE n # Len(w) + 1
    BY <1>5, <2>1, <2>3
  <2> QED
    BY <2>2, <2>3
<1>7. 1 \in DOMAIN u /\ u[1].cmd = "SYNC"
  BY <1>1, <1>2, <1>3, TailFacts, ReceivedFacts
<1>8. broken[Host] /\ Tail(u) = <<>>
  <2>1. broken[Host] /\ \A m \in DOMAIN u : ~(1 < m)
    BY <1>1, <1>7 DEF Syncs
  <2>2. \A m \in DOMAIN Tail(u) : m + 1 \in DOMAIN u /\ m \in Nat /\ m >= 1
    BY <1>2, <1>3, TailFacts
  <2>3. \A m \in DOMAIN Tail(u) : FALSE
    BY <2>1, <2>2
  <2>4. Tail(u) \in Seq(Packets)
    BY <1>2, <1>3, TailFacts
  <2> QED
    BY <2>1, <2>3, <2>4, NoPackets
<1>9. /\ ~online'[Host] /\ ~broken'[Host] /\ online'[Device] = online[Device]
      /\ broken'[Device] = broken[Device]
  BY <1>1, <1>2, <1>3
<1>10. /\ \A r \in Peers, i \in Ids : Quieter(r, i)
       /\ \A i \in OpenSockets(Host) : socket'[Host][i].state # "open"
       /\ \A i \in Ids \ OpenSockets(Host) : socket'[Host][i] = socket[Host][i]
       /\ \A i \in Ids : socket'[Device][i] = socket[Device][i]
  BY <1>1, <1>2, CloseAllQuiets
<1>11. NoneOpen(Host)'
  BY <1>10 DEF NoneOpen, OpenSockets
<1>12. Reconnects(0, Len(w), <<Connection>>, 1, Len(u) - 1, <<>>)
  <2>1. Append(w, Connection) = w \o <<Connection>> /\ <<Connection>> \in Seq(Packets)
    BY <1>3
  <2>2. Moved(w, v, 0, Len(w), <<Connection>>)
    BY <1>3, <1>4, <2>1, WireMoves
  <2>3. Moved(u, wire'[Device], 1, Len(u) - 1, <<>>)
    BY <1>2, <1>3, <1>4, WireMoves
  <2> QED
    BY <1>2, <1>10, <2>2, <2>3, NewConnects DEF Reconnects, v, w
<1>13. HostIds' /\ DeviceIds' /\ HostPeers' /\ PacketsBelong' /\ Unanswered' /\ Unheard'
  BY <1>2, <1>9, <1>11, <1>12, ConnectionKeeps
<1>14. OfflineCloses'
  BY <1>1, <1>9, <1>10, <1>11 DEF OfflineCloses, NoneOpen
<1>15. /\ ~broken[Device] => w = <<>>
       /\ broken[Device] => w # <<>> /\ w[Len(w)].cmd = "SYNC"
       /\ \A n \in DOMAIN w : w[n].cmd = "SYNC" => \A m \in DOMAIN w : ~(n < m)
  <2>1. ~broken[Device] => w = <<>>
    BY <1>1, <1>8 DEF Syncs, w
  <2>2. broken[Device] => w # <<>> /\ w[Len(w)].cmd = "SYNC"
    BY <1>1, <1>8 DEF Syncs, w
  <2>3. \A n \in DOMAIN w : w[n].cmd = "SYNC" => \A m \in DOMAIN w : ~(n < m)
    BY <1>1, <1>8 DEF Syncs, w
  <2> QED
    BY <2>1, <2>2, <2>3
<1>16. Connection.cmd = "CNXN"
  BY DEF Connection, Packet
<1>17. Syncs(Host)'
  <2>1. wire'[Device] = <<>> /\ \A n \in DOMAIN wire'[Device] : FALSE
    BY <1>4, <1>8
  <2> QED
    BY <1>1, <1>9, <2>1 DEF Syncs
<1>18. Syncs(Device)'
  <2>1. ASSUME NEW n \in DOMAIN v, v[n].cmd = "SYNC"
        PROVE  broken[Device] /\ \A m \in DOMAIN v : n < m => v[m].cmd = "CNXN"
    <3>1. n \in DOMAIN w /\ w[n].cmd = "SYNC"
      BY <1>6, <1>16, <2>1
    <3>2. broken[Device]
      BY <1>15, <3>1
    <3> QED
      BY <1>6, <1>15, <1>16, <3>1, <3>2
  <2> QED
    BY <1>1, <1>9, <2>1 DEF Syncs, v
<1>19. Connecting'
  <2>1. ASSUME NEW n \in DOMAIN v, NEW m \in DOMAIN v, v[n].cmd = "CNXN", n < m
        PROVE  /\ v[m].cmd \in {"SYNC", "CNXN"}
               /\ v[m].cmd = "CNXN" =>
                    \E l \in DOMAIN v : n < l /\ l < m /\ v[l].cmd = "SYNC"
    <3>1. n \in DOMAIN w /\ v[n] = w[n] /\ n \in Nat /\ m \in Nat
      BY <1>5, <1>6, <2>1
    <3>2. CASE m \in DOMAIN w /\ v[m] = w[m]
      <4>1. /\ w[m].cmd \in {"SYNC", "CNXN"}
            /\ w[m].cmd = "CNXN" =>
                 \E l \in DOMAIN w : n < l /\ l < m /\ w[l].cmd = "SYNC"
        BY <1>1, <2>1, <3>1, <3>2 DEF Connecting, w
      <4> QED
        BY <1>5, <3>2, <4>1
    <3>3. CASE m = Len(w) + 1 /\ v[m] = Connection
      <4>1. broken[Device] /\ w[Len(w)].cmd = "SYNC" /\ Len(w) \in DOMAIN w
        <5>1. w # <<>>
          BY <3>1
        <5> QED
          BY <1>3, <1>5, <1>15, <3>1, <5>1
      <4>2. Len(w) # n
        BY <2>1, <3>1, <4>1
      <4>3. n < Len(w) /\ Len(w) < m
        BY <1>5, <3>1, <3>3, <4>2
      <4> QED
        BY <1>5, <1>16, <3>3, <4>1, <4>3
    <3> QED
      BY <1>6, <3>2, <3>3
  <2>2. \A n, m \in DOMAIN v : v[n].cmd = "CNXN" /\ n < m =>
          /\ v[m].cmd \in {"SYNC", "CNXN"}
          /\ v[m].cmd = "CNXN" =>
               \E l \in DOMAIN v : n < l /\ l < m /\ v[l].cmd = "SYNC"
    BY <2>1
  <2>3. \A n \in DOMAIN wire'[Device] : FALSE
    BY <1>4, <1>8
  <2> QED
    BY <1>9, <2>2, <2>3 DEF Connecting, v
<1>20. Cuts(0, 1)
  BY <1>9, <1>11 DEF Cuts
<1> QED
  BY <1>1, <1>12, <1>13, <1>14, <1>17, <1>18, <1>19, <1>20 DEF Sessions, w

(* The device finds the connection broken, and waits for another. *)
LEMMA DeviceSyncs ==
  ASSUME IInv, Sessions, HandleSync(Device)
  PROVE  /\ Sessions' /\ Cuts(1, 0)
         /\ Reconnects(1, Len(wire[Host]) - 1, <<>>, 0, Len(wire[Device]), <<>>)
<1> DEFINE w == wire[Host]
<1>1. /\ Syncs(Host) /\ Syncs(Device) /\ OfflineCloses /\ Connecting
      /\ Host \in Peers /\ Device \in Peers /\ Host # Device
      /\ Other(Host) = Device /\ Other(Device) = Host
      /\ \A p \in Peers : p = Host \/ p = Device
  BY SyncFacts
<1>2. /\ w # <<>> /\ Received(Device).cmd = "SYNC" /\ CloseAll(Device, OpenSockets(Device))
      /\ online' = [online EXCEPT ![Device] = FALSE] /\ broken' = [broken EXCEPT ![Device] = FALSE]
      /\ wire' = [wire EXCEPT ![Host] = Tail(@), ![Device] = @]
      /\ UNCHANGED <<local_socket_next_id, opened>>
  BY <1>1 DEF HandleSync, Handles, countVars
<1>3. /\ w \in Seq(Packets) /\ wire[Device] \in Seq(Packets) /\ wire \in [Peers -> Seq(Packets)]
      /\ online \in [Peers -> BOOLEAN] /\ broken \in [Peers -> BOOLEAN]
  BY <1>1, InvParts DEF WireOK, CountersOK
<1>4. wire'[Host] = Tail(w) /\ wire'[Device] = wire[Device]
  BY <1>1, <1>2, <1>3
<1>5. 1 \in DOMAIN w /\ w[1].cmd = "SYNC"
  BY <1>1, <1>2, <1>3, TailFacts, ReceivedFacts
<1>6. /\ online'[Host] = online[Host] /\ ~online'[Device]
      /\ broken'[Host] = broken[Host] /\ ~broken'[Device]
  BY <1>1, <1>2, <1>3
<1>7. /\ \A r \in Peers, i \in Ids : Quieter(r, i)
      /\ \A i \in OpenSockets(Device) : socket'[Device][i].state # "open"
      /\ \A i \in Ids \ OpenSockets(Device) : socket'[Device][i] = socket[Device][i]
      /\ \A i \in Ids : socket'[Host][i] = socket[Host][i]
  BY <1>1, <1>2, CloseAllQuiets
<1>8. NoneOpen(Device)'
  BY <1>7 DEF NoneOpen, OpenSockets
<1>9. Reconnects(1, Len(w) - 1, <<>>, 0, Len(wire[Device]), <<>>)
  <2>1. Moved(w, wire'[Host], 1, Len(w) - 1, <<>>)
    BY <1>2, <1>3, <1>4, WireMoves
  <2>2. Moved(wire[Device], wire'[Device], 0, Len(wire[Device]), <<>>)
    BY <1>3, <1>4, WireMoves
  <2> QED
    BY <1>2, <1>7, <2>1, <2>2, NewConnects DEF Reconnects
<1>10. HostIds' /\ DeviceIds' /\ HostPeers' /\ PacketsBelong' /\ Unanswered' /\ Unheard'
  BY <1>2, <1>6, <1>8, <1>9, ConnectionKeeps
<1>11. OfflineCloses'
  BY <1>1, <1>6, <1>7, <1>8 DEF OfflineCloses, NoneOpen
<1>12. \A n \in DOMAIN Tail(w) : n + 1 \in DOMAIN w /\ 1 < n + 1 /\ Tail(w)[n] = w[n + 1]
  <2>1. \A n \in DOMAIN Tail(w) : n \in Nat /\ n >= 1 /\ n + 1 \in DOMAIN w /\ Tail(w)[n] = w[n + 1]
    BY <1>2, <1>3, TailFacts
  <2> QED
    BY <2>1
<1>13. /\ broken[Device]
       /\ \A n \in DOMAIN Tail(w) : Tail(w)[n].cmd = "CNXN" /\ ~broken[Host]
  <2>1. broken[Device] /\ \A m \in DOMAIN w : 1 < m => w[m].cmd = "CNXN" /\ ~broken[Host]
    BY <1>1, <1>5 DEF Syncs
  <2> QED
    BY <1>12, <2>1
<1>14. Syncs(Device)'
  <2>1. broken[Host] => Tail(w) = <<>>
    <3>1. broken[Host] => \A n \in DOMAIN Tail(w) : FALSE
      BY <1>13
    <3>2. Tail(w) \in Seq(Packets)
      BY <1>2, <1>3, TailFacts
    <3> QED
      BY <3>1, <3>2, NoPackets
  <2> QED
    BY <1>1, <1>4, <1>6, <1>13, <2>1 DEF Syncs
<1>15. Syncs(Host)'
  BY <1>1, <1>4, <1>6 DEF Syncs
<1>16. Connecting'
  <2>1. ASSUME NEW n \in DOMAIN Tail(w), NEW m \in DOMAIN Tail(w), Tail(w)[n].cmd = "CNXN", n < m
        PROVE  FALSE
    <3>1. /\ n + 1 \in DOMAIN w /\ m + 1 \in DOMAIN w /\ n + 1 < m + 1
          /\ Tail(w)[n] = w[n + 1] /\ Tail(w)[m] = w[m + 1]
      BY <1>2, <1>3, <2>1, TailFacts
    <3>2. w[m + 1].cmd = "CNXN"
      BY <1>13, <3>1
    <3>3. PICK l \in DOMAIN w : n + 1 < l /\ l < m + 1 /\ w[l].cmd = "SYNC"
      BY <1>1, <2>1, <3>1, <3>2 DEF Connecting
    <3>4. 1 < l
      <4>1. n \in Nat /\ n >= 1 /\ l \in Nat
        BY <1>1, <1>2, <1>3, <2>1, Types, TailFacts
      <4> QED
        BY <3>3, <4>1
    <3> QED
      BY <1>1, <1>5, <3>3, <3>4 DEF Syncs
  <2>2. ASSUME NEW n \in DOMAIN wire[Device], wire[Device][n].cmd = "CNXN"
        PROVE  /\ \A m \in DOMAIN Tail(w) : Tail(w)[m].cmd = "SYNC"
               /\ \A m \in DOMAIN wire[Device] : n < m => wire[Device][m].cmd = "SYNC"
    <3>1. /\ \A m \in DOMAIN w : w[m].cmd = "SYNC"
          /\ \A m \in DOMAIN wire[Device] : n < m => wire[Device][m].cmd = "SYNC"
      BY <1>1, <2>2 DEF Connecting
    <3> QED
      BY <1>12, <3>1
  <2>3. online'[Host] => \A p \in Peers : \A n \in DOMAIN wire'[p] : wire'[p][n].cmd # "CNXN"
    <3>1. online'[Host] => /\ \A n \in DOMAIN w : w[n].cmd # "CNXN"
                           /\ \A n \in DOMAIN wire[Device] : wire[Device][n].cmd # "CNXN"
      BY <1>1, <1>6 DEF Connecting
    <3>2. online'[Host] => \A n \in DOMAIN wire'[Host] : wire'[Host][n].cmd # "CNXN"
      BY <1>4, <1>12, <3>1
    <3>3. online'[Host] => \A n \in DOMAIN wire'[Device] : wire'[Device][n].cmd # "CNXN"
      BY <1>4, <3>1
    <3> QED
      BY <1>1, <3>2, <3>3
  <2> QED
    BY <1>4, <1>8, <2>1, <2>2, <2>3 DEF Connecting
<1>17. Cuts(1, 0)
  BY <1>1, <1>2, <1>6, <1>8 DEF Cuts
<1> QED
  BY <1>1, <1>9, <1>10, <1>11, <1>14, <1>15, <1>16, <1>17 DEF Sessions

(* The cable is pulled. *)
LEMMA Unplugs ==
  ASSUME IInv, Sessions, Unplug
  PROVE  /\ Sessions' /\ Cuts(0, 0)
         /\ \E n, m : Reconnects(0, n, <<Packet("SYNC", 0, 0)>>, 0, m, <<Packet("SYNC", 0, 0)>>)
<1> DEFINE sync == Packet("SYNC", 0, 0)
<1>1. /\ Syncs(Host) /\ Syncs(Device) /\ OfflineCloses /\ Connecting
      /\ Host \in Peers /\ Device \in Peers /\ Host # Device
      /\ Other(Host) = Device /\ Other(Device) = Host
      /\ \A p \in Peers : p = Host \/ p = Device
  BY SyncFacts
<1>2. /\ ~broken[Host] /\ ~broken[Device] /\ broken' = [p \in Peers |-> TRUE]
      /\ UNCHANGED <<socket, local_socket_next_id, online, opened>>
  BY <1>1 DEF Unplug
<1>3. /\ wire[Host] \in Seq(Packets) /\ wire[Device] \in Seq(Packets)
      /\ sync \in Packets /\ sync.cmd = "SYNC"
      /\ Len(wire[Host]) \in Nat /\ Len(wire[Device]) \in Nat
      /\ DOMAIN wire[Host] = 1 .. Len(wire[Host]) /\ DOMAIN wire[Device] = 1 .. Len(wire[Device])
  BY <1>1, Types, SmallPackets DEF Packet
<1>4. PICK a \in 0 .. Len(wire[Host]), b \in 0 .. Len(wire[Device]) :
        wire' = [p \in Peers |-> Append(SubSeq(wire[p], 1, IF p = Host THEN a ELSE b), sync)]
  BY DEF Unplug
<1> HIDE DEF sync
<1>5. /\ wire'[Host] = Append(SubSeq(wire[Host], 1, a), sync)
      /\ wire'[Device] = Append(SubSeq(wire[Device], 1, b), sync)
  BY <1>1, <1>4
<1>6. /\ Moved(wire[Host], wire'[Host], 0, a, <<sync>>)
      /\ Moved(wire[Device], wire'[Device], 0, b, <<sync>>)
  BY <1>3, <1>5, WireMoves
<1>7. Reconnects(0, a, <<sync>>, 0, b, <<sync>>)
  BY <1>1, <1>2, <1>6, NewConnects DEF Reconnects, Quieter, sync
<1>8. broken'[Host] /\ broken'[Device]
  BY <1>1, <1>2
<1>9. HostIds' /\ DeviceIds' /\ HostPeers' /\ PacketsBelong' /\ Unanswered' /\ Unheard'
  BY <1>2, <1>7, <1>8, ConnectionKeeps
<1>10. /\ \A n \in DOMAIN wire'[Host] :
            \/ n \in DOMAIN wire[Host] /\ n <= a /\ wire'[Host][n] = wire[Host][n]
            \/ n = a + 1 /\ wire'[Host][n] = sync
       /\ \A n \in DOMAIN wire'[Device] :
            \/ n \in DOMAIN wire[Device] /\ n <= b /\ wire'[Device][n] = wire[Device][n]
            \/ n = b + 1 /\ wire'[Device][n] = sync
       /\ \A n \in DOMAIN wire[Host] : n <= a => n \in DOMAIN wire'[Host] /\ wire'[Host][n] = wire[Host][n]
       /\ DOMAIN wire'[Host] = 1 .. Len(wire'[Host]) /\ DOMAIN wire'[Device] = 1 .. Len(wire'[Device])
       /\ Len(wire'[Host]) = a + 1 /\ Len(wire'[Device]) = b + 1
  <2>1. ASSUME NEW w \in Seq(Packets), NEW v, NEW c \in Nat, c <= Len(w), Moved(w, v, 0, c, <<sync>>)
        PROVE  /\ \A n \in DOMAIN v : \/ n \in DOMAIN w /\ n <= c /\ v[n] = w[n]
                                      \/ n = c + 1 /\ v[n] = sync
               /\ \A n \in DOMAIN w : n <= c => n \in DOMAIN v /\ v[n] = w[n]
               /\ DOMAIN v = 1 .. Len(v) /\ Len(v) = c + 1
    <3>1. /\ v \in Seq(Packets) /\ Len(v) = c + Len(<<sync>>) /\ \A n \in 1 .. c : v[n] = w[n + 0]
          /\ \A n \in 1 .. Len(<<sync>>) : v[n + c] = <<sync>>[n]
      BY <2>1 DEF Moved
    <3>2. Len(<<sync>>) = 1 /\ <<sync>>[1] = sync
      OBVIOUS
    <3>3. Len(v) = c + 1 /\ DOMAIN v = 1 .. c + 1 /\ v[1 + c] = sync /\ 1 + c = c + 1
      BY <3>1, <3>2
    <3>4. \A n \in 1 .. c : v[n] = w[n] /\ n \in DOMAIN w /\ n \in DOMAIN v
      BY <2>1, <3>1, <3>3
    <3>5. \A n \in 1 .. c + 1 : n \in 1 .. c \/ n = c + 1
      OBVIOUS
    <3>6. \A n \in DOMAIN w : n <= c => n \in 1 .. c
      OBVIOUS
    <3> QED
      BY <3>3, <3>4, <3>5, <3>6
  <2>2. a \in Nat /\ b \in Nat /\ a <= Len(wire[Host]) /\ b <= Len(wire[Device])
    BY <1>3
  <2>3. /\ \A n \in DOMAIN wire'[Host] :
             \/ n \in DOMAIN wire[Host] /\ n <= a /\ wire'[Host][n] = wire[Host][n]
             \/ n = a + 1 /\ wire'[Host][n] = sync
        /\ \A n \in DOMAIN wire[Host] : n <= a => n \in DOMAIN wire'[Host] /\ wire'[Host][n] = wire[Host][n]
        /\ DOMAIN wire'[Host] = 1 .. Len(wire'[Host]) /\ Len(wire'[Host]) = a + 1
    <3>1. wire[Host] \in Seq(Packets) /\ Moved(wire[Host], wire'[Host], 0, a, <<sync>>)
      BY <1>3, <1>6
    <3> DEFINE w == wire[Host]
               v == wire'[Host]
    <3> HIDE DEF w, v
    <3>2. w \in Seq(Packets) /\ Moved(w, v, 0, a, <<sync>>) /\ a \in Nat /\ a <= Len(w)
      BY <2>2, <3>1 DEF w, v
    <3>3. /\ \A n \in DOMAIN v : \/ n \in DOMAIN w /\ n <= a /\ v[n] = w[n]
                                 \/ n = a + 1 /\ v[n] = sync
          /\ \A n \in DOMAIN w : n <= a => n \in DOMAIN v /\ v[n] = w[n]
          /\ DOMAIN v = 1 .. Len(v) /\ Len(v) = a + 1
      BY <2>1, <3>2
    <3> QED
      BY <3>3 DEF w, v
  <2>4. /\ \A n \in DOMAIN wire'[Device] :
             \/ n \in DOMAIN wire[Device] /\ n <= b /\ wire'[Device][n] = wire[Device][n]
             \/ n = b + 1 /\ wire'[Device][n] = sync
        /\ DOMAIN wire'[Device] = 1 .. Len(wire'[Device]) /\ Len(wire'[Device]) = b + 1
    BY <1>3, <1>6, <2>1, <2>2
  <2> QED
    BY <2>3, <2>4
<1>11. /\ \A n \in DOMAIN wire[Host] : wire[Host][n].cmd # "SYNC"
       /\ \A n \in DOMAIN wire[Device] : wire[Device][n].cmd # "SYNC"
  BY <1>1, <1>2 DEF Syncs
<1>12. Syncs(Host)' /\ Syncs(Device)'
  <2>1. /\ \A n \in DOMAIN wire'[Host] : n \in Nat /\ n <= a + 1
        /\ \A n \in DOMAIN wire'[Device] : n \in Nat /\ n <= b + 1
    BY <1>10
  <2>2. /\ \A n \in DOMAIN wire'[Host] : wire'[Host][n].cmd = "SYNC" => n = a + 1
        /\ \A n \in DOMAIN wire'[Device] : wire'[Device][n].cmd = "SYNC" => n = b + 1
    BY <1>10, <1>11
  <2>3. /\ \A n, m \in DOMAIN wire'[Host] : wire'[Host][n].cmd = "SYNC" => ~(n < m)
        /\ \A n, m \in DOMAIN wire'[Device] : wire'[Device][n].cmd = "SYNC" => ~(n < m)
    BY <2>1, <2>2
  <2>4. /\ wire'[Host] # <<>> /\ wire'[Host][Len(wire'[Host])].cmd = "SYNC"
        /\ wire'[Device] # <<>> /\ wire'[Device][Len(wire'[Device])].cmd = "SYNC"
    <3>1. /\ \A v \in Seq(Packets) : Append(v, sync) # <<>> /\ Append(v, sync)[Len(Append(v, sync))] = sync
          /\ SubSeq(wire[Host], 1, a) \in Seq(Packets) /\ SubSeq(wire[Device], 1, b) \in Seq(Packets)
      BY <1>3
    <3> QED
      BY <1>3, <1>5, <3>1
  <2> QED
    BY <1>1, <1>8, <2>3, <2>4 DEF Syncs
<1>13. OfflineCloses'
  BY <1>1, <1>2 DEF OfflineCloses, NoneOpen
<1>14. Connecting'
  <2>1. ASSUME online'[Host], NEW p \in Peers, NEW n \in DOMAIN wire'[p]
        PROVE  wire'[p][n].cmd # "CNXN"
    <3>1. /\ \A m \in DOMAIN wire[Host] : wire[Host][m].cmd # "CNXN"
          /\ \A m \in DOMAIN wire[Device] : wire[Device][m].cmd # "CNXN"
      BY <1>1, <1>2, <2>1 DEF Connecting
    <3>2. CASE p = Host
      BY <1>3, <1>10, <2>1, <3>1, <3>2
    <3>3. CASE p = Device
      BY <1>3, <1>10, <2>1, <3>1, <3>3
    <3> QED
      BY <1>1, <3>2, <3>3
  <2>2. ASSUME NEW n \in DOMAIN wire'[Host], NEW m \in DOMAIN wire'[Host],
               wire'[Host][n].cmd = "CNXN", n < m
        PROVE  wire'[Host][m].cmd = "SYNC"
    <3>1. n \in DOMAIN wire[Host] /\ wire[Host][n].cmd = "CNXN"
      <4>1. n # a + 1 \/ wire'[Host][n] # sync
        BY <1>3, <2>2
      <4> QED
        BY <1>10, <2>2, <4>1
    <3>2. CASE m \in DOMAIN wire[Host] /\ wire'[Host][m] = wire[Host][m]
      BY <1>1, <1>11, <2>2, <3>1, <3>2 DEF Connecting
    <3> QED
      BY <1>3, <1>10, <3>2
  <2>3. ASSUME NEW n \in DOMAIN wire'[Device], wire'[Device][n].cmd = "CNXN"
        PROVE  /\ NoneOpen(Device)'
               /\ \A m \in DOMAIN wire'[Host] : wire'[Host][m].cmd = "SYNC"
               /\ \A m \in DOMAIN wire'[Device] : n < m => wire'[Device][m].cmd = "SYNC"
    <3>1. n \in DOMAIN wire[Device] /\ wire[Device][n].cmd = "CNXN"
      <4>1. n # b + 1 \/ wire'[Device][n] # sync
        BY <1>3, <2>3
      <4> QED
        BY <1>10, <2>3, <4>1
    <3>2. /\ NoneOpen(Device)
          /\ \A m \in DOMAIN wire[Host] : wire[Host][m].cmd = "SYNC"
          /\ \A m \in DOMAIN wire[Device] : n < m => wire[Device][m].cmd = "SYNC"
      BY <1>1, <3>1 DEF Connecting
    <3>3. NoneOpen(Device)'
      BY <1>2, <3>2 DEF NoneOpen
    <3> QED
      BY <1>3, <1>10, <3>2, <3>3
  <2>4. /\ \A n, m \in DOMAIN wire'[Host] :
             wire'[Host][n].cmd = "CNXN" /\ n < m => wire'[Host][m].cmd = "SYNC"
        /\ \A n \in DOMAIN wire'[Device] : wire'[Device][n].cmd = "CNXN" =>
             /\ NoneOpen(Device)'
             /\ \A m \in DOMAIN wire'[Host] : wire'[Host][m].cmd = "SYNC"
             /\ \A m \in DOMAIN wire'[Device] : n < m => wire'[Device][m].cmd = "SYNC"
    BY <2>2, <2>3
  <2> QED
    BY <2>1, <2>4 DEF Connecting
<1>15. Cuts(0, 0)
  BY <1>1, <1>2, <1>8, SyncFacts, InvParts DEF Cuts, CountersOK
<1> QED
  BY <1>1, <1>7, <1>9, <1>12, <1>13, <1>14, <1>15 DEF Sessions, sync

(* A server is replaced by another. *)
LEMMA Restarts ==
  ASSUME IInv, Sessions, HostRestart, online[Host]
  PROVE  /\ Sessions'
         /\ \E n, m, l : Reconnects(0, n, <<Connection>>, m, l, <<>>) /\ Cuts(0, m)
<1>1. /\ Syncs(Host) /\ Syncs(Device) /\ OfflineCloses /\ Connecting
      /\ Host \in Peers /\ Device \in Peers /\ Host # Device
      /\ Other(Host) = Device /\ Other(Device) = Host
      /\ \A p \in Peers : p = Host \/ p = Device
  BY SyncFacts
<1>2. /\ ~broken[Host] /\ ~broken[Device]
      /\ socket' = [socket EXCEPT ![Host] = [i \in Ids |-> Free]]
      /\ local_socket_next_id' = [local_socket_next_id EXCEPT ![Host] = 1]
      /\ online' = [online EXCEPT ![Host] = FALSE]
      /\ UNCHANGED <<broken, opened>>
  BY <1>1 DEF HostRestart
<1>3. /\ wire[Host] \in Seq(Packets) /\ wire[Device] \in Seq(Packets)
      /\ Connection \in Packets /\ Connection.cmd = "CNXN"
      /\ Len(wire[Host]) \in Nat /\ Len(wire[Device]) \in Nat
      /\ socket \in [Peers -> [Ids -> Sockets]] /\ online \in [Peers -> BOOLEAN]
      /\ local_socket_next_id \in [Peers -> 1 .. MaxOpens + 1]
  BY <1>1, Types, PacketTypes, InvParts DEF SocketsWhole, CountersOK
<1>4. PICK a \in 0 .. Len(wire[Host]), b \in 1 .. Len(wire[Device]) + 1 :
        wire' = [p \in Peers |-> IF p = Host THEN Append(SubSeq(wire[Host], 1, a), Connection)
                                 ELSE SubSeq(wire[Device], b, Len(wire[Device]))]
  BY DEF HostRestart
<1>5. /\ wire'[Host] = Append(SubSeq(wire[Host], 1, a), Connection)
      /\ wire'[Device] = SubSeq(wire[Device], b, Len(wire[Device]))
  BY <1>1, <1>4
<1>6. /\ Moved(wire[Host], wire'[Host], 0, a, <<Connection>>)
      /\ Moved(wire[Device], wire'[Device], b - 1, Len(wire[Device]) - (b - 1), <<>>)
  BY <1>3, <1>5, WireMoves
<1>7. /\ \A i \in Ids : socket'[Host][i] = Free /\ socket'[Device][i] = socket[Device][i]
      /\ \A r \in Peers, i \in Ids : Quieter(r, i)
  <2>1. \A i \in Ids : socket'[Host][i] = Free /\ socket'[Device][i] = socket[Device][i]
    BY <1>1, <1>2, <1>3
  <2> QED
    BY <1>1, <2>1 DEF Quieter
<1>8. /\ local_socket_next_id'[Device] = local_socket_next_id[Device]
      /\ ~online'[Host] /\ online'[Device] = online[Device]
      /\ \A i \in Ids : socket'[Host][i].state = "free"
      /\ NoneOpen(Host)'
  BY <1>1, <1>2, <1>3, <1>7 DEF NoneOpen, Free
<1>9. Reconnects(0, a, <<Connection>>, b - 1, Len(wire[Device]) - (b - 1), <<>>)
  BY <1>2, <1>6, <1>7, <1>8, NewConnects DEF Reconnects
<1>10. HostIds' /\ DeviceIds' /\ HostPeers' /\ PacketsBelong' /\ Unanswered' /\ Unheard'
  BY <1>8, <1>9, ConnectionKeeps
<1>11. /\ \A n \in DOMAIN wire[Host] : wire[Host][n].cmd \notin {"SYNC", "CNXN"}
       /\ \A n \in DOMAIN wire[Device] : wire[Device][n].cmd \notin {"SYNC", "CNXN"}
  BY <1>1, <1>2 DEF Syncs, Connecting
<1>12. \A n \in DOMAIN wire'[Device] : wire'[Device][n].cmd \notin {"SYNC", "CNXN"}
  <2>1. \A n \in DOMAIN wire'[Device] :
          \/ n + (b - 1) \in DOMAIN wire[Device] /\ wire'[Device][n] = wire[Device][n + (b - 1)]
          \/ n - (Len(wire[Device]) - (b - 1)) \in DOMAIN <<>>
    BY <1>6, MovedFacts
  <2> QED
    BY <1>11, <2>1
<1>13. /\ \A n \in DOMAIN wire'[Host] : n \in Nat /\ n <= a + 1
       /\ \A n \in DOMAIN wire'[Host] : wire'[Host][n].cmd # "SYNC"
       /\ \A n \in DOMAIN wire'[Host] : wire'[Host][n].cmd = "CNXN" => n = a + 1
  <2>1. /\ wire'[Host] \in Seq(Packets) /\ Len(wire'[Host]) = a + Len(<<Connection>>)
        /\ \A n \in 1 .. a : wire'[Host][n] = wire[Host][n + 0]
        /\ \A n \in 1 .. Len(<<Connection>>) : wire'[Host][n + a] = <<Connection>>[n]
    BY <1>6 DEF Moved
  <2>2. Len(<<Connection>>) = 1 /\ <<Connection>>[1] = Connection
    OBVIOUS
  <2>3. /\ DOMAIN wire'[Host] = 1 .. a + 1 /\ wire'[Host][a + 1] = Connection
    BY <2>1, <2>2
  <2>4. \A n \in 1 .. a : n \in DOMAIN wire[Host] /\ wire'[Host][n] = wire[Host][n]
    BY <1>3, <2>1
  <2>5. \A n \in 1 .. a + 1 : n \in Nat /\ n <= a + 1 /\ (n \in 1 .. a \/ n = a + 1)
    OBVIOUS
  <2> QED
    BY <1>3, <1>11, <2>3, <2>4, <2>5
<1>14. Syncs(Host)' /\ Syncs(Device)'
  BY <1>1, <1>2, <1>12, <1>13 DEF Syncs
<1>15. OfflineCloses'
  BY <1>1, <1>7, <1>8 DEF OfflineCloses, NoneOpen
<1>16. Connecting'
  <2>1. \A n, m \in DOMAIN wire'[Host] : wire'[Host][n].cmd = "CNXN" => ~(n < m)
    BY <1>13
  <2> QED
    BY <1>8, <1>12, <2>1 DEF Connecting
<1>17. Cuts(0, b - 1)
  BY <1>8 DEF Cuts
<1> QED
  BY <1>1, <1>9, <1>10, <1>14, <1>15, <1>16, <1>17 DEF Sessions

-------------------------------------------------------------------------------
(* A stream is opened.                                                       *)

OpenOf(i, k) == [Packet("OPEN", i, 0) EXCEPT !.data = <<Host, k, 0>>]

LEMMA OpenFacts ==
  ASSUME IInv, Sessions, Open
  PROVE  LET i == local_socket_next_id[Host]
             k == opened + 1 IN
         /\ i \in Ids /\ k \in Streams /\ opened' = k /\ online[Host]
         /\ local_socket_next_id'[Host] = i + 1
         /\ local_socket_next_id'[Device] = local_socket_next_id[Device]
         /\ UNCHANGED <<online, broken, chunks, written>>
         /\ \A l \in Ids : socket'[Device][l] = socket[Device][l]
         /\ \A l \in Ids : l # i => socket'[Host][l] = socket[Host][l]
         /\ socket[Host][i].state = "free"
         /\ \/ socket'[Host][i] = NewSocket(0, k)
            \/ socket'[Host][i] = socket[Host][i]
         /\ OpenOf(i, k).cmd = "OPEN" /\ OpenOf(i, k).arg0 = i /\ OpenOf(i, k).data[2] = k
         /\ Passes(Host, 0, Sent(Host, <<OpenOf(i, k)>>))
<1> DEFINE i == local_socket_next_id[Host]
           k == opened + 1
           m == OpenOf(i, k)
<1>1. /\ Host \in Peers /\ Device \in Peers /\ Host # Device /\ Other(Host) = Device
      /\ socket \in [Peers -> [Ids -> Sockets]]
      /\ local_socket_next_id \in [Peers -> 1 .. MaxOpens + 1]
      /\ opened \in Nat /\ MaxOpens \in Nat /\ i <= opened + 1
      /\ wire[Host] \in Seq(Packets) /\ wire[Device] \in Seq(Packets)
  BY InvParts, TwoPeers, AdbStreamAssumption DEF SocketsWhole, CountersOK, Numbered
<1>2. /\ online[Host] /\ opened < MaxOpens /\ opened' = k
      /\ local_socket_next_id' = [local_socket_next_id EXCEPT ![Host] = i + 1]
      /\ Sends(Host, <<m>>)
      /\ \/ socket' = [socket EXCEPT ![Host][i] = NewSocket(0, k)]
         \/ UNCHANGED socket
      /\ UNCHANGED <<online, broken, chunks, written>>
  BY DEF Open, OpenOf
<1>3. i \in Ids /\ k \in Streams /\ i \in 0 .. MaxOpens /\ k \in 0 .. MaxOpens
  BY <1>1, <1>2 DEF Ids, Streams
<1>4. /\ \A l \in Ids : socket'[Device][l] = socket[Device][l]
      /\ \A l \in Ids : l # i => socket'[Host][l] = socket[Host][l]
      /\ \/ socket'[Host][i] = NewSocket(0, k)
         \/ socket'[Host][i] = socket[Host][i]
  <2> HIDE DEF i, k
  <2> QED
    BY <1>1, <1>2, <1>3
<1>5. socket[Host][i].state = "free"
  BY <1>1, <1>3 DEF Sessions, HostIds
<1>6. m.cmd = "OPEN" /\ m.arg0 = i /\ m.data[2] = k /\ m \in Packets
  <2>1. <<Host, k, 0>> \in Data /\ 0 \in 0 .. MaxOpens
    BY <1>1, <1>3 DEF Data
  <2>2. m \in Packets /\ m.cmd = "OPEN"
    BY <1>3, <2>1, PacketTypes DEF OpenOf
  <2>3. m.arg0 = i /\ m.data[2] = k
    BY DEF OpenOf, Packet
  <2> QED
    BY <2>2, <2>3
<1>7. Passes(Host, 0, Sent(Host, <<m>>))
  <2> HIDE DEF m
  <2>1. <<m>> \in Seq(Packets) /\ \A n \in DOMAIN <<m>> : <<m>>[n] = m
    BY <1>6
  <2> DEFINE new == <<m>>
  <2>2. new \in Seq(Packets) /\ Sends(Host, new) /\ \A n \in DOMAIN new : new[n].cmd = "OPEN"
    BY <1>2, <1>6, <2>1
  <2> HIDE DEF new
  <2>3. /\ Moved(wire[Device], wire'[Device], 0, Len(wire[Device]) - 0, <<>>)
        /\ Moved(wire[Host], wire'[Host], 0, Len(wire[Host]), Sent(Host, new))
    BY <1>1, <2>2, SendsMove
  <2>4. Passes(Host, 0, Sent(Host, new))
    BY <1>1, <1>2, <2>2, <2>3 DEF Passes, Sent
  <2> QED
    BY <2>4 DEF new
<1>8. /\ local_socket_next_id'[Host] = i + 1
      /\ local_socket_next_id'[Device] = local_socket_next_id[Device]
  BY <1>1, <1>2
<1> QED
  BY <1>2, <1>3, <1>4, <1>5, <1>6, <1>7, <1>8

LEMMA Opens ==
  ASSUME IInv, Sessions, Open
  PROVE  Sessions'
<1> DEFINE i == local_socket_next_id[Host]
           k == opened + 1
           m == OpenOf(i, k)
           sent == Sent(Host, <<m>>)
<1>1. /\ Host \in Peers /\ Device \in Peers /\ Host # Device
      /\ Other(Host) = Device /\ Other(Device) = Host
      /\ \A p \in Peers : p = Host \/ p = Device
      /\ local_socket_next_id[Host] \in Nat /\ local_socket_next_id[Device] \in Nat
      /\ opened \in Nat /\ i <= opened + 1
  BY InvParts, TwoPeers, AdbStreamAssumption DEF Numbered
<1>2. /\ i \in Ids /\ k \in Streams /\ opened' = k /\ online[Host]
      /\ local_socket_next_id'[Host] = i + 1
      /\ local_socket_next_id'[Device] = local_socket_next_id[Device]
      /\ UNCHANGED <<online, broken>>
      /\ \A l \in Ids : socket'[Device][l] = socket[Device][l]
      /\ \A l \in Ids : l # i => socket'[Host][l] = socket[Host][l]
      /\ socket[Host][i].state = "free"
      /\ \/ socket'[Host][i] = NewSocket(0, k)
         \/ socket'[Host][i] = socket[Host][i]
      /\ m.cmd = "OPEN" /\ m.arg0 = i /\ m.data[2] = k
      /\ Passes(Host, 0, sent)
  BY OpenFacts
<1> HIDE DEF sent, m
<1>3. /\ HostIds /\ DeviceIds /\ HostPeers /\ PacketsBelong /\ Unanswered /\ Unheard
      /\ OfflineCloses
  BY DEF Sessions
<1>4. wire'[Device] = wire[Device]
  <2>1. Moved(wire[Device], wire'[Device], 0, Len(wire[Device]) - 0, <<>>)
    BY <1>1, <1>2 DEF Passes
  <2>2. /\ wire[Device] \in Seq(Packets) /\ wire'[Device] \in Seq(Packets)
        /\ Len(wire'[Device]) = Len(wire[Device])
        /\ \A n \in 1 .. Len(wire[Device]) : wire'[Device][n] = wire[Device][n]
    BY <2>1 DEF Moved
  <2> QED
    BY <2>2
<1>5. \A n \in DOMAIN wire'[Host] :
        (n \in DOMAIN wire[Host] /\ wire'[Host][n] = wire[Host][n]) \/ wire'[Host][n] = m
  <2>1. /\ \A n \in DOMAIN wire'[Host] :
             \/ n \in DOMAIN wire[Host]
             \/ n - Len(wire[Host]) \in DOMAIN sent /\ wire'[Host][n] = sent[n - Len(wire[Host])]
        /\ \A n \in DOMAIN wire[Host] : wire'[Host][n] = wire[Host][n]
    BY <1>1, <1>2, PassesWires
  <2>2. \A n \in DOMAIN sent : sent[n] = m
    <3>1. \A n \in DOMAIN <<m>> : <<m>>[n] = m
      OBVIOUS
    <3> QED
      BY <3>1 DEF sent, Sent
  <2> QED
    BY <2>1, <2>2
<1>6. LET t == socket'[Host][i] IN
      \/ t.state = "free"
      \/ /\ t.state = "open" /\ t.peer = 0 /\ ~t.reading /\ t.pending = <<>>
         /\ t.stream = k
  <2>1. CASE socket'[Host][i] = NewSocket(0, k)
    BY <2>1 DEF NewSocket, Free
  <2>2. CASE socket'[Host][i] = socket[Host][i]
    BY <1>2, <2>2
  <2> QED
    BY <1>2, <2>1, <2>2
<1>7. /\ Syncs(Host)' /\ Syncs(Device)' /\ Connecting'
  <2>1. NoneOpen(Device) => NoneOpen(Device)'
    BY <1>2 DEF NoneOpen
  <2> QED
    BY <1>1, <1>2, <2>1, PassesSyncs, PassesConnecting
<1>8. OfflineCloses'
  BY <1>1, <1>2, <1>3 DEF OfflineCloses, NoneOpen
<1> DEFINE Then(l) == l + opened' + 1 - local_socket_next_id'[Host]
<1>9. /\ \A l \in Ids : l \in Nat
      /\ \A l \in Nat : Then(l) = StreamOf(l)
  <2>1. \A l \in Ids : l \in Nat
    BY DEF Ids
  <2>2. ASSUME NEW l \in Nat
        PROVE  Then(l) = StreamOf(l)
    <3>1. opened' = opened + 1 /\ local_socket_next_id'[Host] = local_socket_next_id[Host] + 1
      BY <1>2
    <3> QED
      BY <1>1, <3>1 DEF StreamOf
  <2> QED
    BY <2>1, <2>2
<1> HIDE DEF Later
<1>10. k = StreamOf(i) /\ i < i + 1 /\ opened < k
  BY <1>1, <1>2, <1>9 DEF StreamOf
<1>11. HostIds'
  <2> SUFFICES ASSUME NEW l \in Ids, socket'[Host][l].state # "free"
               PROVE  l < i + 1 /\ socket'[Host][l].stream = Then(l)
    BY <1>2 DEF HostIds, StreamOf, Then
  <2>1. CASE l = i
    BY <1>1, <1>6, <1>9, <1>10, <2>1
  <2>2. CASE l # i
    <3>1. l < i /\ socket'[Host][l].stream = StreamOf(l)
      BY <1>2, <1>3, <2>2 DEF HostIds
    <3> QED
      BY <1>1, <1>9, <3>1
  <2> QED
    BY <2>1, <2>2
<1>12. /\ \A l \in Ids : socket[Device][l].state # "free" => socket[Device][l].stream <= opened
       /\ \A l \in Ids : socket[Device][l].state # "free" => socket[Device][l].stream \in Nat
       /\ \A l \in Ids : socket[Device][l].state # "free" => socket[Device][l].stream # k
  <2>1. \A l \in Ids : socket[Device][l].state # "free" =>
          socket[Device][l].stream <= opened /\ socket[Device][l].stream \in Nat
    BY <1>1, <1>3, PeerTypes, Types DEF DeviceIds
  <2> QED
    BY <1>1, <2>1
<1>13. DeviceIds'
  <2> SUFFICES ASSUME NEW j \in Ids, socket'[Device][j].state # "free"
               PROVE  LET s == socket'[Device][j] IN
                      /\ j < local_socket_next_id[Device] /\ s.stream <= k
                      /\ \A l \in Ids : socket'[Device][l].state # "free"
                           /\ socket'[Device][l].stream = s.stream => l = j
                      /\ s.state = "open" /\ online[Host] =>
                           s.stream = Then(s.peer) /\ s.peer < i + 1
    BY <1>2 DEF DeviceIds, StreamOf, Then
  <2> DEFINE s == socket[Device][j]
  <2>1. socket'[Device][j] = s /\ s.state # "free"
    BY <1>2
  <2>2. /\ j < local_socket_next_id[Device] /\ s.stream <= opened /\ s.stream \in Nat
        /\ \A l \in Ids : socket[Device][l].state # "free" /\ socket[Device][l].stream = s.stream => l = j
        /\ s.state = "open" => s.stream = StreamOf(s.peer) /\ s.peer < i
    BY <1>2, <1>3, <1>12, <2>1 DEF DeviceIds
  <2>3. s.stream <= k
    BY <1>1, <2>2
  <2>4. s.state = "open" => s.peer \in Ids
    BY <1>1, PeerTypes, InvParts DEF DeviceConnected
  <2>5. s.state = "open" => s.stream = Then(s.peer) /\ s.peer < i + 1
    BY <1>1, <1>9, <2>2, <2>4
  <2> QED
    BY <1>2, <2>1, <2>2, <2>3, <2>5
<1>14. HostPeers'
  <2> SUFFICES ASSUME NEW l \in Ids, socket'[Host][l].state = "open", socket'[Host][l].peer # 0
               PROVE  /\ socket'[Host][l].peer < local_socket_next_id'[Device]
                      /\ IsStream(socket[Host][l].peer, socket[Host][l].stream)'
    BY DEF HostPeers
  <2>1. l # i
    BY <1>6
  <2>2. /\ socket'[Host][l] = socket[Host][l] /\ socket[Host][l].peer \in Ids
        /\ socket[Host][l].peer < local_socket_next_id[Device]
        /\ IsStream(socket[Host][l].peer, socket[Host][l].stream)
    BY <1>1, <1>2, <1>3, <2>1, PeerTypes DEF HostPeers
  <2> QED
    BY <1>2, <2>2 DEF IsStream
<1>15. PacketsBelong'
  <2>1. ASSUME NEW n \in DOMAIN wire[Host], wire'[Host][n] = wire[Host][n]
        PROVE  HostPacket(wire[Host][n])'
    <3> DEFINE c == wire[Host][n]
    <3>1. /\ HostPacket(c) /\ c.arg0 \in Nat /\ (c.arg1 # 0 => c.arg1 \in Ids)
          /\ (c.arg0 # 0 => c.arg0 \in Ids)
      BY <1>1, <1>3, Types, ReceivedIds, PeerTypes DEF PacketsBelong
    <3>2. c.cmd = "OPEN" => OpenPacket(wire[Host][n])'
      <4> SUFFICES ASSUME c.cmd = "OPEN" PROVE OpenPacket(wire[Host][n])'
        OBVIOUS
      <4>1. /\ \A j \in Ids : socket'[Device][j].state # "free" => socket'[Device][j].stream # c.data[2]
        BY <1>2, <3>1 DEF HostPacket, OpenPacket
      <4>2. /\ c.arg0 < i /\ c.data[2] = StreamOf(c.arg0)
            /\ \A e \in DOMAIN wire[Device] : wire[Device][e].cmd \in Addressed =>
                 wire[Device][e].arg1 # c.arg0
        BY <1>2, <3>1 DEF HostPacket, OpenPacket
      <4>3. c.arg0 < i + 1 /\ Then(c.arg0) = StreamOf(c.arg0)
        BY <1>1, <1>9, <3>1, <4>2
      <4> QED
        BY <1>2, <1>4, <2>1, <4>1, <4>2, <4>3 DEF OpenPacket, StreamOf, Then
    <3>3. Then(c.arg0) = StreamOf(c.arg0)
      BY <1>9, <3>1
    <3> QED
      BY <1>2, <2>1, <3>1, <3>2, <3>3 DEF HostPacket, IsStream, StreamOf, Then
  <2>2. ASSUME NEW n, wire'[Host][n] = m
        PROVE  HostPacket(wire[Host][n])'
    <3>1. \A e \in DOMAIN wire[Device] : wire[Device][e].cmd \in Addressed => wire[Device][e].arg1 # i
      <4>1. \A e \in DOMAIN wire[Device] : wire[Device][e].cmd \in Addressed => wire[Device][e].arg1 < i
        BY <1>2, <1>3 DEF PacketsBelong, DevicePacket
      <4> QED
        BY <1>1, <4>1
    <3>2. i < i + 1 /\ k = Then(i)
      BY <1>1, <1>9, <1>10
    <3>3. OpenPacket(wire[Host][n])'
      BY <1>2, <1>4, <1>12, <2>2, <3>1, <3>2 DEF OpenPacket, StreamOf, Then
    <3> QED
      BY <1>2, <2>2, <3>3 DEF HostPacket, Addressed
  <2>3. ASSUME NEW n \in DOMAIN wire'[Device]
        PROVE  DevicePacket(wire[Device][n])'
    <3> DEFINE c == wire[Device][n]
    <3>1. n \in DOMAIN wire[Device] /\ wire'[Device][n] = c
      BY <1>4, <2>3
    <3>2. /\ DevicePacket(c) /\ c.arg1 \in Nat /\ c.arg0 \in Nat /\ (c.arg0 # 0 => c.arg0 \in Ids)
          /\ (c.arg1 # 0 => c.arg1 \in Ids)
      BY <1>1, <1>3, <3>1, Types, ReceivedIds, PeerTypes DEF PacketsBelong
    <3>3. c.cmd \in Addressed => c.arg1 # 0 /\ c.arg1 < i /\ c.arg1 < i + 1
      BY <1>1, <1>2, <3>2 DEF DevicePacket
    <3>4. Then(c.arg1) = StreamOf(c.arg1)
      BY <1>9, <3>2
    <3> QED
      BY <1>2, <3>1, <3>2, <3>3, <3>4 DEF DevicePacket, IsStream, StreamOf, Then
  <2> QED
    BY <1>5, <2>1, <2>2, <2>3 DEF PacketsBelong
<1>16. Unanswered'
  <2> SUFFICES ASSUME NEW l \in Ids, socket'[Host][l].state = "open", socket'[Host][l].peer = 0
               PROVE  /\ ~socket'[Host][l].reading /\ socket'[Host][l].pending = <<>>
                      /\ \A n \in DOMAIN wire'[Device] : To(n, "WRTE", l)' =>
                           \E e \in DOMAIN wire'[Device] : e < n /\ To(e, "OKAY", l)'
                      /\ ~broken'[Device] =>
                           \A j \in Ids : socket'[Device][j].state = "open" /\ socket'[Device][j].peer = l =>
                             \E e \in DOMAIN wire'[Device] : To(e, "OKAY", l)'
    BY DEF Unanswered
  <2>1. CASE l = i
    <3>1. ASSUME NEW n \in DOMAIN wire[Device], To(n, "WRTE", i)
          PROVE  FALSE
      <4>1. wire[Device][n].arg1 < i /\ wire[Device][n].arg1 = i
        BY <1>2, <1>3, <3>1 DEF PacketsBelong, DevicePacket, To, Addressed
      <4> QED
        BY <1>1, <4>1
    <3>2. ASSUME NEW j \in Ids, socket[Device][j].state = "open", socket[Device][j].peer = i
          PROVE  FALSE
      <4>1. socket[Device][j].peer < i
        BY <1>2, <1>3, <3>2 DEF DeviceIds
      <4> QED
        BY <1>1, <3>2, <4>1
    <3> QED
      BY <1>2, <1>4, <1>6, <2>1, <3>1, <3>2 DEF To
  <2>2. CASE l # i
    <3>1. socket'[Host][l] = socket[Host][l]
      BY <1>2, <2>2
    <3> QED
      BY <1>2, <1>3, <1>4, <3>1 DEF Unanswered, To
  <2> QED
    BY <2>1, <2>2
<1>17. Unheard'
  <2> SUFFICES ASSUME NEW l \in Ids, NEW n \in DOMAIN wire'[Host],
                      socket'[Host][l].state = "open", wire'[Host][n].cmd = "OPEN",
                      socket'[Host][l].stream = wire'[Host][n].data[2], l # i
               PROVE  socket'[Host][l].peer = 0
    BY <1>6 DEF Unheard
  <2>1. socket'[Host][l] = socket[Host][l] /\ socket[Host][l].stream = StreamOf(l) /\ l < i
    BY <1>2, <1>3 DEF HostIds
  <2>2. socket[Host][l].stream # k
    BY <1>1, <1>9, <2>1 DEF StreamOf
  <2> QED
    BY <1>2, <1>3, <1>5, <2>1, <2>2 DEF Unheard
<1> QED
  BY <1>1, <1>7, <1>8, <1>11, <1>13, <1>14, <1>15, <1>16, <1>17 DEF Sessions

-------------------------------------------------------------------------------
(* The sessions, in every state.                                             *)

LEMMA SessionsStart == Init => Sessions
<1> SUFFICES ASSUME Init
             PROVE  Sessions
  OBVIOUS
<1>1. /\ Host \in Peers /\ Device \in Peers /\ Host # Device
      /\ Other(Host) = Device /\ Other(Device) = Host
      /\ \A p \in Peers : p = Host \/ p = Device
  BY TwoPeers, AdbStreamAssumption
<1>2. /\ \A p \in Peers, i \in Ids : socket[p][i] = Free
      /\ ~online[Host] /\ ~online[Device] /\ ~broken[Host] /\ ~broken[Device]
      /\ wire[Host] = <<Connection>> /\ wire[Device] = <<>>
  BY <1>1 DEF Init
<1>3. /\ \A n \in DOMAIN wire[Host] : n = 1 /\ wire[Host][n].cmd = "CNXN"
      /\ \A n \in DOMAIN wire[Device] : FALSE
      /\ \A p \in Peers, i \in Ids : socket[p][i].state = "free"
  <2>1. \A n \in DOMAIN <<Connection>> : n = 1 /\ <<Connection>>[n] = Connection
    OBVIOUS
  <2> QED
    BY <1>2, <2>1 DEF Connection, Packet, Free
<1>4. \A n, m \in DOMAIN wire[Host] : ~(n < m)
  BY <1>3
<1>5. \A p \in Peers : Syncs(p)
  BY <1>1, <1>2, <1>3 DEF Syncs
<1>6. OfflineCloses /\ Connecting
  BY <1>1, <1>2, <1>3, <1>4 DEF OfflineCloses, Connecting, NoneOpen
<1>7. HostIds /\ DeviceIds /\ HostPeers
  BY <1>1, <1>3 DEF HostIds, DeviceIds, HostPeers
<1>8. PacketsBelong
  BY <1>3 DEF PacketsBelong, HostPacket, Addressed
<1>9. Unanswered /\ Unheard
  BY <1>1, <1>3 DEF Unanswered, Unheard
<1> QED
  BY <1>5, <1>6, <1>7, <1>8, <1>9 DEF Sessions

LEMMA PacketSteps ==
  ASSUME IInv, IInv', Sessions, NEW p \in Peers, HandlePacket(p)
  PROVE  Sessions'
<1>1. CASE p = Device /\ HandleOpen
  <2> DEFINE m == Received(Device)
  <2>1. CASE Accepts
    BY <2>1, AcceptKeeps
  <2>2. CASE /\ Handles(Device, "OPEN") /\ online[Device]
             /\ Replies(Device, <<Packet("CLSE", 0, m.arg0)>>)
             /\ UNCHANGED <<socket, endVars, opened>>
    <3>1. Ordinary(Device, 1, Sent(Device, <<Packet("CLSE", 0, m.arg0)>>))
      BY <2>2, RejectIsOrdinary
    <3> QED
      BY <1>1, <3>1, OrdinaryKeeps
  <2> QED
    BY <1>1, <2>1, <2>2 DEF HandleOpen, Accepts, endVars, countVars
<1>2. CASE HandleOkay(p)
  BY <1>2, OkayIsOrdinary, OrdinaryKeeps
<1>3. CASE HandleWrite(p)
  BY <1>3, WriteIsOrdinary, OrdinaryKeeps
<1>4. CASE HandleClose(p)
  BY <1>4, CloseIsOrdinary, OrdinaryKeeps
<1>5. CASE HandleConnect(p)
  BY <1>5, TwoPeers, HostConnects, DeviceConnects
<1>6. CASE HandleSync(p)
  BY <1>6, TwoPeers, HostSyncs, DeviceSyncs
<1>7. CASE Ignore(p)
  BY <1>7, IgnoreIsOrdinary, OrdinaryKeeps
<1> QED
  BY <1>1, <1>2, <1>3, <1>4, <1>5, <1>6, <1>7 DEF HandlePacket

LEMMA SessionsStep ==
  IInv /\ IInv' /\ Sessions /\ [Next]_vars /\ [SettledRestart]_vars => Sessions'
<1> SUFFICES ASSUME IInv, IInv', Sessions, [Next]_vars, [SettledRestart]_vars
             PROVE  Sessions'
  OBVIOUS
<1>1. CASE Open
  BY <1>1, Opens
<1>2. CASE \E p \in Peers : HandlePacket(p)
  BY <1>2, PacketSteps
<1>3. CASE \E p \in Peers, i \in Ids : WriteEvent(p, i)
  BY <1>3, WriteEventIsOrdinary, OrdinaryKeeps
<1>4. CASE \E p \in Peers, i \in Ids : ReadEvent(p, i)
  <2>1. PICK p \in Peers, i \in Ids : ReadEvent(p, i)
    BY <1>4
  <2>2. \E sent : Ordinary(p, 0, sent)
    BY <2>1, ReadEventIsOrdinary
  <2> QED
    BY <2>2, OrdinaryKeeps
<1>5. CASE Unplug
  BY <1>5, Unplugs
<1>6. CASE HostRestart
  <2>1. CASE UNCHANGED vars
    <3>1. faults' = faults /\ faults' = faults + 1 /\ faults \in Nat
      <4>1. faults \in Nat
        BY InvParts, AdbStreamAssumption DEF CountersOK
      <4> QED
        BY <1>6, <2>1, <4>1 DEF vars, countVars, HostRestart
    <3> QED
      BY <3>1
  <2>2. CASE SettledRestart
    BY <1>6, <2>2, Restarts DEF SettledRestart
  <2> QED
    BY <2>1, <2>2
<1>7. CASE UNCHANGED vars
  <2>1. UNCHANGED <<socket, local_socket_next_id, online, broken, wire, opened>>
    BY <1>7 DEF vars, endVars, countVars
  <2>2. (\A p \in Peers : Syncs(p)) => (\A p \in Peers : Syncs(p))'
    BY <2>1 DEF Syncs
  <2>3. (OfflineCloses => OfflineCloses') /\ (Connecting => Connecting')
    BY <2>1 DEF OfflineCloses, Connecting, NoneOpen
  <2>4. (HostIds => HostIds') /\ (DeviceIds => DeviceIds') /\ (HostPeers => HostPeers')
    BY <2>1 DEF HostIds, DeviceIds, HostPeers, StreamOf, IsStream
  <2>5. PacketsBelong => PacketsBelong'
    BY <2>1 DEF PacketsBelong, HostPacket, DevicePacket, OpenPacket, StreamOf, IsStream
  <2>6. (Unanswered => Unanswered') /\ (Unheard => Unheard')
    BY <2>1 DEF Unanswered, Unheard, To
  <2> QED
    BY <2>2, <2>3, <2>4, <2>5, <2>6 DEF Sessions
<1> QED
  BY <1>1, <1>2, <1>3, <1>4, <1>5, <1>6, <1>7 DEF Next

LEMMA SessionsHold == Spec /\ [][SettledRestart]_vars => []Sessions
  BY SessionsStart, SessionsStep, Always, PTL DEF Spec

(* A socket that reads or has packets to write knows its peer (sockets.c):  *)
(* handlers answer through s->peer, at either end, whatever the order in    *)
(* which streams, broken connections and new servers meet.                  *)
THEOREM PeersKnownAlways == Spec /\ [][SettledRestart]_vars => []PeersAreKnown
<1>1. IInv /\ Sessions => PeersAreKnown
  BY TwoPeers DEF PeersAreKnown, PeersKnown, IInv, DeviceConnected, Sessions, Unanswered
<1> QED
  BY <1>1, Always, SessionsHold, PTL
===============================================================================
