------------------------------- MODULE AdbStream -------------------------------
(***************************************************************************)
(* The streams adbd carries for an adb server: local and remote sockets     *)
(* (adb/sockets.c) and handle_packet (adb/adb.c) at both ends of a          *)
(* transport.  The server opens the streams, as it does in this program;    *)
(* both ends run the same code otherwise.                                   *)
(*                                                                         *)
(* A remote socket exists as long as a local socket is its peer, and knows  *)
(* nothing but the id of the local socket at the other end: it is the field *)
(* peer here.  What one event reads from a descriptor is one chunk.         *)
(***************************************************************************)
EXTENDS Naturals, Sequences

CONSTANTS
  Host, Device,
  MaxOpens, MaxReads, MaxFaults  (* bounds: of streams, of chunks read at an end *)
                                 (* of a stream, of lost connections            *)

Peers == {Host, Device}
Other(p) == IF p = Host THEN Device ELSE Host

ASSUME AdbStreamAssumption ==
  /\ Host # Device
  /\ MaxOpens \in Nat \ {0} /\ MaxFaults \in Nat
  /\ MaxReads \in [Peers -> [1 .. MaxOpens -> Nat]]

(* The streams in the order they are opened; an end knows them by its ids.  *)
Streams == 1 .. MaxOpens
Ids == 1 .. MaxOpens

VARIABLES
  socket,    (* the local sockets of each end                                 *)
  local_socket_next_id,
  online,    (* of the transport at each end                                  *)
  broken,    (* the transport fails and its end does not know yet             *)
  wire,      (* the packets each end has sent                                 *)
  opened,    (* the streams opened so far                                     *)
  faults,
  (* history, of each end and stream *)
  chunks,    (* how many were read                                            *)
  written,   (* those that were written                                       *)
  ended      (* how it was closed                                             *)

endVars == <<local_socket_next_id, online, broken>>
countVars == <<opened, faults>>
historyVars == <<chunks, written, ended>>
vars == <<socket, endVars, wire, countVars, historyVars>>

Free == [state |-> "free", peer |-> 0, reading |-> FALSE, pending |-> <<>>, stream |-> 0]

(* create_local_socket; the peer is 0 until the other end is known.         *)
NewSocket(remote, k) == [Free EXCEPT !.state = "open", !.peer = remote, !.stream = k]

Packet(command, arg0, arg1) ==
  [cmd |-> command, arg0 |-> arg0, arg1 |-> arg1, data |-> <<Host, 0, 0>>]

Okay(local, remote) == Packet("OKAY", local, remote)
Connection == Packet("CNXN", 0, 0)

Init ==
  /\ socket = [p \in Peers |-> [i \in Ids |-> Free]]
  /\ local_socket_next_id = [p \in Peers |-> 1]
  /\ online = [p \in Peers |-> FALSE] /\ broken = [p \in Peers |-> FALSE]
  /\ wire = [p \in Peers |-> IF p = Host THEN <<Connection>> ELSE <<>>]
  /\ opened = 0 /\ faults = 0
  /\ chunks = [p \in Peers |-> [k \in Streams |-> 0]]
  /\ written = [p \in Peers |-> [k \in Streams |-> <<>>]]
  /\ ended = [p \in Peers |-> [k \in Streams |-> "no"]]

-------------------------------------------------------------------------------
(* Packets.                                                                  *)

(* send_packet; what a failing transport is given is lost.                  *)
Put(p, packets) == IF broken[p] THEN wire[p] ELSE wire[p] \o packets

Sends(p, packets) == wire' = [wire EXCEPT ![p] = Put(p, packets)]

Received(p) == Head(wire[Other(p)])

(* handle_packet takes a packet and sends others. *)
Replies(p, packets) ==
  wire' = [wire EXCEPT ![Other(p)] = Tail(@), ![p] = Put(p, packets)]

Handles(p, command) == wire[Other(p)] # <<>> /\ Received(p).cmd = command

(* find_local_socket, which knows open sockets only. *)
Finds(p) ==
  LET i == Received(p).arg1 IN online[p] /\ i \in Ids /\ socket[p][i].state = "open"

-------------------------------------------------------------------------------
(* Closing: local_socket_close_locked.                                       *)

(* Mutant: the peer and the interest in readable events are left alone. *)
MutClosed(s) == IF s.pending = <<>> THEN Free ELSE [s EXCEPT !.state = "closing"]

(* Mutant: what was not written yet is thrown away. *)
MutClosedAtOnce(s) == Free

Closed(s) ==
  IF s.state = "closing" \/ s.pending = <<>> THEN Free
  ELSE [s EXCEPT !.state = "closing", !.peer = 0, !.reading = FALSE]

(* Mutant: the other end is not told. *)
MutCloseMessage(s) == <<>>

(* remote_socket_close, when there is a remote socket.                      *)
CloseMessage(s) == IF s.peer = 0 THEN <<>> ELSE <<Packet("CLSE", 0, s.peer)>>

Ends(p, k, why) == ended' = [ended EXCEPT ![p][k] = why]

CloseAll(p, closing) ==
  /\ socket' = [socket EXCEPT ![p] =
                  [i \in Ids |-> IF i \in closing THEN Closed(@[i]) ELSE @[i]]]
  /\ ended' = [ended EXCEPT ![p] =
                 [k \in Streams |-> IF \E i \in closing : socket[p][i].stream = k
                                    THEN "offline" ELSE @[k]]]

OpenSockets(p) == {i \in Ids : socket[p][i].state = "open"}

(* run_transport_disconnects: the sockets that have a remote socket.        *)
Disconnected(p) == {i \in OpenSockets(p) : socket[p][i].peer # 0}

-------------------------------------------------------------------------------
(* Opening a stream.                                                         *)

(* A client of the server asks for a service (connect_to_remote); early: it *)
(* is gone when its request is read, so the socket is closed at once.       *)
Open ==
  LET i == local_socket_next_id[Host]
      k == opened + 1
  IN /\ online[Host] /\ opened < MaxOpens
     /\ opened' = k
     /\ local_socket_next_id' = [local_socket_next_id EXCEPT ![Host] = i + 1]
     /\ Sends(Host, <<[Packet("OPEN", i, 0) EXCEPT !.data = <<Host, k, 0>>]>>)
     /\ \/ /\ socket' = [socket EXCEPT ![Host][i] = NewSocket(0, k)]
           /\ UNCHANGED ended
        \/ /\ Ends(Host, k, "early")
           /\ UNCHANGED socket
     /\ UNCHANGED <<online, broken, faults, chunks, written>>

HandleOpen ==
  LET m == Received(Device)
      i == local_socket_next_id[Device]
  IN /\ Handles(Device, "OPEN") /\ online[Device]
     /\ \/ /\ local_socket_next_id' = [local_socket_next_id EXCEPT ![Device] = i + 1]
           /\ socket' = [socket EXCEPT ![Device][i] =
                           [NewSocket(m.arg0, m.data[2]) EXCEPT !.reading = TRUE]]
           /\ Replies(Device, <<Okay(i, m.arg0)>>)
        \/ /\ Replies(Device, <<Packet("CLSE", 0, m.arg0)>>)
           /\ UNCHANGED <<socket, local_socket_next_id>>
     /\ UNCHANGED <<online, broken, countVars, historyVars>>

(* Mutant: the remote socket is not made. *)
MutHandleOkay(p) ==
  LET m == Received(p)
  IN /\ Handles(p, "OKAY") /\ Finds(p)
     /\ socket' = [socket EXCEPT ![p][m.arg1].reading = TRUE]
     /\ Replies(p, <<>>)
     /\ UNCHANGED <<endVars, countVars, historyVars>>

HandleOkay(p) ==
  LET m == Received(p)
  IN /\ Handles(p, "OKAY") /\ Finds(p)
     /\ socket' = [socket EXCEPT ![p][m.arg1].peer = IF @ = 0 THEN m.arg0 ELSE @,
                                 ![p][m.arg1].reading = TRUE]
     /\ Replies(p, <<>>)
     /\ UNCHANGED <<endVars, countVars, historyVars>>

-------------------------------------------------------------------------------
(* Data.                                                                     *)

(* Mutant: the other end may go on although there is a backlog. *)
MutHandleWrite(p) ==
  LET m == Received(p)
  IN /\ Handles(p, "WRTE") /\ Finds(p)
     /\ socket' = [socket EXCEPT ![p][m.arg1].pending = Append(@, m.data)]
     /\ Replies(p, <<Okay(m.arg1, m.arg0)>>)
     /\ UNCHANGED <<endVars, countVars, historyVars>>

(* local_socket_enqueue: all is written, or some is left, or writing fails. *)
HandleWrite(p) ==
  LET m == Received(p)
      s == socket[p][m.arg1]
  IN /\ Handles(p, "WRTE") /\ Finds(p)
     /\ \/ /\ s.pending = <<>>
           /\ written' = [written EXCEPT ![p][s.stream] = Append(@, m.data)]
           /\ Replies(p, <<Okay(m.arg1, m.arg0)>>)
           /\ UNCHANGED <<socket, ended>>
        \/ /\ socket' = [socket EXCEPT ![p][m.arg1].pending = Append(@, m.data)]
           /\ Replies(p, <<>>)
           /\ UNCHANGED <<written, ended>>
        \/ /\ s.pending = <<>>
           /\ socket' = [socket EXCEPT ![p][m.arg1] = Closed(@)]
           /\ Ends(p, s.stream, "error")
           /\ Replies(p, CloseMessage(s))
           /\ UNCHANGED written
     /\ UNCHANGED <<endVars, countVars, chunks>>

(* Mutant: the last packet stays in the queue when it is written. *)
MutDrain(p, i, n) ==
  LET s == socket[p][i]
      rest == SubSeq(s.pending, n + 1, Len(s.pending))
  IN /\ written' = [written EXCEPT ![p][s.stream] = @ \o SubSeq(s.pending, 1, n)]
     /\ socket' = [socket EXCEPT ![p][i] =
                     IF rest = <<>> /\ s.state = "closing" THEN Closed(@)
                     ELSE [@ EXCEPT !.pending = IF rest = <<>> THEN @ ELSE rest]]
     /\ Sends(p, IF rest = <<>> /\ s.state = "open" THEN <<Okay(i, s.peer)>> ELSE <<>>)

(* Mutant: the other end is not told to go on. *)
MutDrainSilently(p, i, n) ==
  LET s == socket[p][i]
      rest == SubSeq(s.pending, n + 1, Len(s.pending))
  IN /\ written' = [written EXCEPT ![p][s.stream] = @ \o SubSeq(s.pending, 1, n)]
     /\ socket' = [socket EXCEPT ![p][i] =
                     IF rest = <<>> /\ s.state = "closing" THEN Closed(@)
                     ELSE [@ EXCEPT !.pending = rest]]
     /\ Sends(p, <<>>)

(* FDE_WRITE: n of the packets are written. *)
Drain(p, i, n) ==
  LET s == socket[p][i]
      rest == SubSeq(s.pending, n + 1, Len(s.pending))
  IN /\ written' = [written EXCEPT ![p][s.stream] = @ \o SubSeq(s.pending, 1, n)]
     /\ socket' = [socket EXCEPT ![p][i] =
                     IF rest = <<>> /\ s.state = "closing" THEN Closed(@)
                     ELSE [@ EXCEPT !.pending = rest]]
     /\ Sends(p, IF rest = <<>> /\ s.state = "open" THEN <<Okay(i, s.peer)>> ELSE <<>>)

(* local_socket_event_func with FDE_WRITE.                                  *)
WriteEvent(p, i) ==
  LET s == socket[p][i]
  IN /\ s.state # "free" /\ s.pending # <<>>
     /\ \/ \E n \in 1 .. Len(s.pending) : Drain(p, i, n) /\ UNCHANGED ended
        \/ /\ socket' = [socket EXCEPT ![p][i] = Closed(@)]
           /\ Ends(p, s.stream, "error")
           /\ Sends(p, CloseMessage(s))
           /\ UNCHANGED written
     /\ UNCHANGED <<endVars, countVars, chunks>>

(* local_socket_event_func with FDE_READ: what there is to read goes to     *)
(* remote_socket_enqueue; the end of the file closes the socket.            *)
ReadEvent(p, i) ==
  LET s == socket[p][i]
      n == chunks[p][s.stream] + 1
      write == [Packet("WRTE", i, s.peer) EXCEPT !.data = <<p, s.stream, n>>]
      Chunk == n <= MaxReads[p][s.stream] /\ chunks' = [chunks EXCEPT ![p][s.stream] = n]
  IN /\ s.state = "open" /\ s.reading
     /\ \/ /\ Chunk
           /\ socket' = [socket EXCEPT ![p][i].reading = FALSE]
           /\ Sends(p, <<write>>)
           /\ UNCHANGED ended
        \/ /\ Chunk
           /\ socket' = [socket EXCEPT ![p][i] = Closed(@)]
           /\ Sends(p, <<write>> \o CloseMessage(s))
           /\ Ends(p, s.stream, "eof")
        \/ /\ socket' = [socket EXCEPT ![p][i] = Closed(@)]
           /\ Sends(p, CloseMessage(s))
           /\ Ends(p, s.stream, "eof")
           /\ UNCHANGED chunks
     /\ UNCHANGED <<endVars, countVars, written>>

HandleClose(p) ==
  LET i == Received(p).arg1
      s == socket[p][i]
  IN /\ Handles(p, "CLSE") /\ Finds(p)
     /\ socket' = [socket EXCEPT ![p][i] = Closed(@)]
     /\ Ends(p, s.stream, "clse")
     /\ Replies(p, CloseMessage(s))
     /\ UNCHANGED <<endVars, countVars, chunks, written>>

(* A packet for a socket that is not there, or while the end is offline.    *)
Ignore(p) ==
  /\ \/ Handles(p, "OPEN") /\ ~online[p]
     \/ (Handles(p, "OKAY") \/ Handles(p, "WRTE") \/ Handles(p, "CLSE")) /\ ~Finds(p)
  /\ Replies(p, <<>>)
  /\ UNCHANGED <<socket, endVars, countVars, historyVars>>

-------------------------------------------------------------------------------
(* The connection.                                                           *)

(* A CNXN at an end that is connected takes it offline first.               *)
HandleConnect(p) ==
  /\ Handles(p, "CNXN")
  /\ CloseAll(p, IF online[p] THEN Disconnected(p) ELSE {})
  /\ online' = [online EXCEPT ![p] = TRUE]
  /\ Replies(p, IF p = Device THEN <<Connection>> ELSE <<>>)
  /\ UNCHANGED <<local_socket_next_id, broken, countVars, chunks, written>>

(* The cable is pulled and put back: each end still finds some of what was  *)
(* sent, and then the SYNC(0, 0) of its own output_thread.                  *)
Unplug ==
  /\ faults < MaxFaults /\ \A p \in Peers : ~broken[p]
  /\ faults' = faults + 1
  /\ \E n \in 0 .. Len(wire[Host]), m \in 0 .. Len(wire[Device]) :
       wire' = [p \in Peers |-> Append(SubSeq(wire[p], 1, IF p = Host THEN n ELSE m),
                                       Packet("SYNC", 0, 0))]
  /\ broken' = [p \in Peers |-> TRUE]
  /\ UNCHANGED <<socket, local_socket_next_id, online, opened, historyVars>>

(* SYNC(0, 0) closes the streams, and close_all_sockets those that wait for *)
(* an answer; a new transport follows, and the server sends CNXN on it.     *)
HandleSync(p) ==
  /\ Handles(p, "SYNC")
  /\ CloseAll(p, OpenSockets(p))
  /\ online' = [online EXCEPT ![p] = FALSE] /\ broken' = [broken EXCEPT ![p] = FALSE]
  /\ wire' = [wire EXCEPT ![Other(p)] = Tail(@),
                          ![p] = IF p = Host THEN Append(@, Connection) ELSE @]
  /\ UNCHANGED <<local_socket_next_id, countVars, chunks, written>>

(* The server dies and another takes over the device, which does not know:  *)
(* of what its predecessor sent the end may be lost, of what was sent to it *)
(* the beginning was read.                                                  *)
HostRestart ==
  /\ faults < MaxFaults /\ \A p \in Peers : ~broken[p]
  /\ faults' = faults + 1
  /\ \E n \in 0 .. Len(wire[Host]), m \in 1 .. Len(wire[Device]) + 1 :
       wire' = [p \in Peers |-> IF p = Host THEN Append(SubSeq(wire[Host], 1, n), Connection)
                                ELSE SubSeq(wire[Device], m, Len(wire[Device]))]
  /\ socket' = [socket EXCEPT ![Host] = [i \in Ids |-> Free]]
  /\ local_socket_next_id' = [local_socket_next_id EXCEPT ![Host] = 1]
  /\ online' = [online EXCEPT ![Host] = FALSE]
  /\ ended' = [ended EXCEPT ![Host] =
                 [k \in Streams |-> IF \E i \in Ids : socket[Host][i].stream = k
                                    THEN "offline" ELSE @[k]]]
  /\ UNCHANGED <<broken, opened, chunks, written>>

HandlePacket(p) ==
  \/ p = Device /\ HandleOpen
  \/ HandleOkay(p)
  \/ HandleWrite(p)
  \/ HandleClose(p)
  \/ HandleConnect(p)
  \/ HandleSync(p)
  \/ Ignore(p)

Next ==
  \/ Open
  \/ \E p \in Peers : HandlePacket(p)
  \/ \E p \in Peers, i \in Ids : WriteEvent(p, i) \/ ReadEvent(p, i)
  \/ Unplug
  \/ HostRestart

(* Both loops run, and what a descriptor is given is read or it fails.      *)
Fairness ==
  /\ \A p \in Peers : WF_vars(HandlePacket(p))
  /\ \A p \in Peers, i \in Ids : WF_vars(WriteEvent(p, i))

Spec == Init /\ [][Next]_vars /\ Fairness

-------------------------------------------------------------------------------
Data == Peers \X (0 .. MaxOpens) \X Nat

Packets == [cmd : {"SYNC", "CNXN", "OPEN", "OKAY", "CLSE", "WRTE"},
            arg0 : 0 .. MaxOpens, arg1 : 0 .. MaxOpens, data : Data]

Sockets == [state : {"free", "open", "closing"}, peer : 0 .. MaxOpens, reading : BOOLEAN,
            pending : Seq(Data), stream : 0 .. MaxOpens]

(* The state is well formed, and a socket that waits for its last packets   *)
(* to be written has no peer and does not read (sockets.c).                 *)
TypeOK ==
  /\ socket \in [Peers -> [Ids -> Sockets]]
  /\ \A p \in Peers, i \in Ids :
       LET s == socket[p][i]
       IN /\ s.state = "free" <=> s.stream = 0
          /\ s.state = "closing" => s.pending # <<>> /\ s.peer = 0 /\ ~s.reading
  /\ local_socket_next_id \in [Peers -> 1 .. MaxOpens + 1]
  /\ online \in [Peers -> BOOLEAN] /\ broken \in [Peers -> BOOLEAN]
  /\ wire \in [Peers -> Seq(Packets)]
  /\ opened \in 0 .. MaxOpens /\ faults \in 0 .. MaxFaults
  /\ chunks \in [Peers -> [Streams -> Nat]]
  /\ written \in [Peers -> [Streams -> Seq(Data)]]
  /\ ended \in [Peers -> [Streams -> {"no", "eof", "error", "clse", "offline", "early"}]]

(* Handlers answer through s->peer: a socket that reads or has packets to   *)
(* write has one, whatever the order in which streams, connections and      *)
(* restart meet.  Like the next three properties it needs that a server does *)
(* not restart again before the CNXN of its predecessor is answered.        *)
PeersKnown(p) ==
  \A i \in Ids :
    LET s == socket[p][i]
    IN s.state = "open" /\ (s.reading \/ s.pending # <<>>) => s.peer # 0

PeersAreKnown == \A p \in Peers : PeersKnown(p)

Underway(p, k) ==
  {n \in DOMAIN wire[p] : wire[p][n].cmd = "WRTE" /\ wire[p][n].data[2] = k}

(* "Once a WRITE message is sent, an additional WRITE message may not be    *)
(* sent until another READY message has been received": of each end of a    *)
(* stream one packet at most is on its way or waits to be written.          *)
OneWriteAtATime ==
  \A p \in Peers, k \in Streams :
    /\ \A n, m \in Underway(p, k) : n = m
    /\ \A i \in Ids : socket[Other(p)][i].stream = k =>
         /\ Len(socket[Other(p)][i].pending) <= 1
         /\ socket[Other(p)][i].pending = <<>> \/ Underway(p, k) = {}

(* What is written at one end of a stream was read at its other end, all of *)
(* it in the same order: nothing of another stream, another direction or a  *)
(* server that is gone.                                                     *)
DeliveredInOrder ==
  \A p \in Peers, k \in Streams :
    /\ Len(written[p][k]) <= chunks[Other(p)][k]
    /\ \A n \in DOMAIN written[p][k] : written[p][k][n] = <<Other(p), k, n>>

(* A stream that an end closed because the other end did has delivered all  *)
(* the other end read, be it that the packets were queued when the CLOSE    *)
(* came.                                                                    *)
NothingCutOff ==
  \A p \in Peers, k \in Streams :
    ended[p][k] = "clse" /\ (\A i \in Ids : socket[p][i].stream # k) =>
      Len(written[p][k]) = chunks[Other(p)][k]

(* An OPEN or a WRITE is answered by a READY or a CLOSE, or the connection  *)
(* is lost: no stream stands still.  (But if the client of the server was   *)
(* gone before the OPEN was answered nobody tells the device.)              *)
Waits(p, i) ==
  LET s == socket[p][i]
  IN s.state = "open" /\ ~s.reading /\ ended[Other(p)][s.stream] # "early"

NobodyStandsStill == \A p \in Peers, i \in Ids : Waits(p, i) ~> ~Waits(p, i)

(* An end that waits does not wait in vain: something is under way that ends *)
(* its wait.  The connection is about to be lost or made anew; a READY or a   *)
(* CLOSE for it comes; its own OPEN or WRITE is yet to be handled; or the     *)
(* other end has packets to write and sends READY when it has written them.  *)
Owed(p, i) ==
  LET q == Other(p)
      k == socket[p][i].stream
  IN \/ broken[p]
     \/ \E n \in DOMAIN wire[q] :
          \/ wire[q][n].cmd = "CNXN"
          \/ wire[q][n].cmd \in {"OKAY", "CLSE"} /\ wire[q][n].arg1 = i
     \/ \E n \in DOMAIN wire[p] :
          wire[p][n].cmd \in {"OPEN", "WRTE"} /\ wire[p][n].data[2] = k
     \/ \E j \in Ids : /\ socket[q][j].state = "open" /\ socket[q][j].stream = k
                      /\ socket[q][j].pending # <<>>

NobodyWaitsInVain == \A p \in Peers, i \in Ids : Waits(p, i) => Owed(p, i)
===============================================================================
