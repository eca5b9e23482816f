------------------------------- MODULE Reception -------------------------------
(***************************************************************************)
(* How packets come into the ring from which Run() takes them:               *)
(* Lidar::ReceiveUdpThread asks the source that Lidar::Init has made.         *)
(***************************************************************************)
EXTENDS Received, SequencesExt

CONSTANTS
  Setups,          \* what may be received, see SetupAssumption
  RingRoom,        \* room of origin_packets_buffer_, which PacketFifo describes
  SocketRoom,      \* see SocketSource
  PacketParts, TcpRoom, TcpReserve, QueueRoom,   \* see TcpSource
  OneRead, SerialRoom, MaxLost,                  \* see SerialSource
  PcapRoom, PcapReserve,                         \* see PcapSource
  MaxReplayed      \* bound on the packets that a capture that is repeated gives

\* What a lidar sends over each source, and the records of a capture, of which only the last
\* can be cut.
ScriptKinds(name) ==
  CASE name = "socket" -> {"points", "fault", "gps"}
    [] name = "tcp"    -> {"points"}
    [] name = "serial" -> {"points", "imu", "ack"}
    [] name = "pcap"   -> {"udp", "empty", "segment", "segments", "other", "jumbo", "cut header",
                           "cut data"}

ASSUME SetupAssumption ==
  /\ Setups # {}
  /\ \A s \in Setups :
       /\ s.source \in {"socket", "tcp", "serial", "pcap"}
       /\ s.script \in Seq(ScriptKinds(s.source))
       /\ s.format \in {"pcap", "pcapng", "none"} /\ s.loops \in BOOLEAN
       /\ s.source = "pcap" =>
            /\ s.script # <<>>
            /\ \A i \in 1..(Len(s.script) - 1) : s.script[i] \notin {"cut header", "cut data"}
  /\ {PacketParts, TcpReserve, TcpRoom, QueueRoom} \subseteq Nat \ {0}
  /\ TcpReserve >= PacketParts /\ TcpRoom > TcpReserve + PacketParts
  /\ {PcapReserve, PcapRoom, OneRead, SerialRoom} \subseteq Nat
  /\ PcapReserve >= 2 /\ PcapRoom >= PcapReserve

VARIABLES
  source,     \* source_
  receiver,   \* where ReceiveUdpThread is: it asks, or waits for room with what it got
  silent,     \* is_timeout_
  put,        \* everything that was put into the ring
  popped,     \* how much of it Run() has taken
  got,        \* what Receive returned
  script, sent, wire,                         \* the lidar, or the capture
  selecting,                                  \* see SocketSource
  opened, turn, data, dataIndex, dataLength,  \* see TcpSource and PcapSource
  unread, lost, dropped,                      \* see SerialSource
  queue, arrived,                             \* see TcpSource, SerialSource and SocketSource
  format, loops, fpos, ended                  \* see PcapSource

\* The file that is replayed.
CaptureFile == FlattenSeq([i \in 1..Len(script) |-> [b \in 1..Len(Blocks(script[i])) |->
                                                       <<i, Blocks(script[i])[b]>>]])

Socket == INSTANCE SocketSource
Tcp    == INSTANCE TcpSource WITH BufferRoom <- TcpRoom, Reserve <- TcpReserve
Serial == INSTANCE SerialSource WITH BufferRoom <- SerialRoom
Pcap   == INSTANCE PcapSource WITH BufferRoom <- PcapRoom, Reserve <- PcapReserve,
                                   capture <- CaptureFile

threadVars == <<receiver, silent, put, popped>>
arrayVars  == <<data, dataIndex, dataLength>>
tcpVars    == <<opened, turn, arrayVars>>
serialVars == <<unread, lost, dropped>>
pcapVars   == <<format, loops, fpos, ended>>
receptionVars == <<source, threadVars, got, script, sent, wire, selecting, tcpVars, serialVars,
                   queue, arrived, pcapVars>>

StartsWith(setup) ==
  /\ source = setup.source /\ script = setup.script
  /\ format = setup.format /\ loops = setup.loops
  /\ receiver = "ask" /\ silent = FALSE /\ put = <<>> /\ popped = 0 /\ got = Nothing
  /\ sent = 0 /\ wire = <<>> /\ selecting = FALSE
  /\ opened = (source = "tcp") /\ turn = "recv" /\ dataIndex = 0 /\ dataLength = 0
  /\ data = [i \in 0..((IF source = "tcp" THEN TcpRoom ELSE PcapRoom) - 1) |-> <<0, 0>>]
  /\ unread = <<>> /\ lost = {} /\ dropped = {} /\ queue = <<>> /\ arrived = {}
  /\ fpos = 0 /\ ended = FALSE
ReceptionInit == \E s \in Setups : StartsWith(s)
-----------------------------------------------------------------------------
(***************************************************************************)
(* The sources                                                             *)
(***************************************************************************)
SourceIs(name) == source = name /\ UNCHANGED source

OfSocket(A) == /\ SourceIs("socket") /\ A
               /\ UNCHANGED <<tcpVars, serialVars, queue, pcapVars>>
OfTcp(A)    == /\ SourceIs("tcp") /\ A
               /\ UNCHANGED <<selecting, serialVars, pcapVars>>
OfSerial(A) == /\ SourceIs("serial") /\ A
               /\ UNCHANGED <<selecting, tcpVars, arrived, pcapVars>>
OfPcap(A)   == /\ SourceIs("pcap") /\ A
               /\ UNCHANGED <<sent, wire, selecting, opened, turn, serialVars, queue, arrived>>

SourceRuns == /\ \/ OfSocket(Socket!Sends)
                 \/ OfTcp(Tcp!Sends \/ Tcp!ReceivedThread)
                 \/ OfSerial(Serial!Sends \/ Serial!Loses \/ Serial!ReceivedThread)
              /\ UNCHANGED threadVars

SourceReceives == \/ OfSocket(Socket!Receive)
                  \/ OfTcp(Tcp!Receive)
                  \/ OfSerial(Serial!Receive)
                  \/ OfPcap(Pcap!Receive)
-----------------------------------------------------------------------------
(***************************************************************************)
(* ReceiveUdpThread                                                        *)
(***************************************************************************)
Asks == /\ receiver = "ask"
        /\ loops => Len(put) < MaxReplayed
        /\ SourceReceives
        /\ receiver' = IF got'.kind = "nothing" THEN "ask" ELSE "room"
        /\ UNCHANGED <<silent, put, popped>>

\* A silence puts one packet without content into the ring, until points come again; a fault
\* message does not end it, and a GPS packet is left out.
TimeoutPacket == Result("timeout", <<>>)
EachSilence(packet) ==         \* mutant: is_timeout_ is not looked at
  /\ put' = IF packet.kind = "gps" THEN put
            ELSE Append(put, IF packet.kind = "silence" THEN TimeoutPacket ELSE packet)
  /\ UNCHANGED silent
PutsIn(packet) ==
  \/ /\ packet.kind = "silence" /\ ~silent
     /\ put' = Append(put, TimeoutPacket)
     /\ silent' = TRUE
  \/ /\ packet.kind = "points"
     /\ put' = Append(put, packet)
     /\ silent' = FALSE
  \/ /\ packet.kind = "fault"
     /\ put' = Append(put, packet)
     /\ UNCHANGED silent
  \/ /\ packet.kind = "gps" \/ (packet.kind = "silence" /\ silent)
     /\ UNCHANGED <<put, silent>>

SeesRoom == /\ receiver = "room"
            /\ Len(put) - popped < RingRoom
            /\ PutsIn(got)
            /\ receiver' = "ask"
            /\ UNCHANGED <<source, popped, got, script, sent, wire, selecting, tcpVars, serialVars,
                           queue, arrived, pcapVars>>

\* Run().
Takes == /\ popped < Len(put)
         /\ popped' = popped + 1
         /\ UNCHANGED <<source, receiver, silent, put, got, script, sent, wire, selecting, tcpVars,
                        serialVars, queue, arrived, pcapVars>>

ReceptionNext == SourceRuns \/ Asks \/ SeesRoom \/ Takes
-----------------------------------------------------------------------------
(***************************************************************************)
(* Properties                                                              *)
(***************************************************************************)
IsPacket(r) == r.kind \in {"points", "fault"}
PacketsIn(s) ==
  LET found[n \in 0..Len(s)] ==
        IF n = 0 THEN <<>>
        ELSE IF IsPacket(s[n]) THEN Append(found[n - 1], s[n]) ELSE found[n - 1]
  IN found[Len(s)]

\* What the source has handed on, in order, with what is still in its own ring.
HandedOn == PacketsIn(put \o (IF receiver = "room" THEN <<got>> ELSE <<>>) \o queue)
HandedParts == {HandedOn[i].parts : i \in 1..Len(HandedOn)}

\* The packets of this set that came out, came in the order in which they were sent.
InTurn(packets) ==
  \A i, j \in 1..Len(HandedOn) :
    i < j /\ {HandedOn[i].parts, HandedOn[j].parts} \subseteq packets =>
      HandedOn[i].parts[1][1] < HandedOn[j].parts[1][1]

\* A datagram that reached the socket is on its way, and they keep their order.
DatagramsKept ==
  LET waiting == HandedOn \o PacketsIn(wire)
  IN source = "socket" =>
       /\ \A i, j \in 1..Len(waiting) : i < j => waiting[i].parts[1][1] < waiting[j].parts[1][1]
       /\ {waiting[i].parts[1][1] : i \in 1..Len(waiting)} = {p \in arrived : script[p] # "gps"}

\* A read that does not begin with a packet mixes up what it reads, as may a new connection; but
\* a packet that was read whole, by a read that began with a packet, is handed on once, as it was
\* sent, in its turn.
WholeReadsKept ==
  LET Remains(p) == \E k \in 0..dataLength :
        /\ dataIndex + (k + 1) * PacketParts <= dataLength
        /\ \A i \in 1..PacketParts : data[dataIndex + k * PacketParts + i - 1] = <<p, i>>
  IN source = "tcp" =>
       /\ \A p \in arrived : Intact(p, PacketParts) \in HandedParts \/ Remains(p)
       /\ InTurn({Intact(p, PacketParts) : p \in 1..sent})

\* Lost bytes damage the packet they were lost from and the one after it, and no other.
SerialSize(p) == Serial!PartsOf(script[p])
Undamaged(p) == \A part \in lost : part[1] \notin {p, p - 1}
DamageBounded ==
  source = "serial" =>
    /\ \A p \in 1..sent :
         \/ script[p] = "ack" \/ ~Undamaged(p)
         \/ Intact(p, SerialSize(p)) \in HandedParts \cup dropped
         \/ \E i \in 1..Len(unread \o wire) : (unread \o wire)[i][1] = p
    /\ InTurn({Intact(p, SerialSize(p)) : p \in 1..sent})

\* A capture gives its packets, each once, in the order of the file, and from the start again
\* when it is repeated; it is at its end when all have been given.  Of a TCP segment with
\* more than one packet only the first is right, and after a cut in a pcap file anything may come.
Captured == FlattenSeq([i \in 1..Len(script) |-> Pcap!PacketsOf(i)])
ReplayIsCapture ==
  source = "pcap" /\ ~(format = "pcap" /\ "cut data" \in ToSet(script)) =>
    /\ \A i \in 1..Len(HandedOn) :
         LET expected == Captured[1 + ((i - 1) % Len(Captured))]
         IN HandedOn[i].parts = expected \/ expected[1][2] > 1
    /\ ended => Len(HandedOn) = Len(Captured)

\* Two silences are not told to the parser without points between them.
TimeoutsApart ==
  \A i, j \in 1..Len(put) : i < j /\ put[i] = TimeoutPacket /\ put[j] = TimeoutPacket =>
    \E k \in i..j : put[k].kind = "points"

\* What is put into the ring is what was sent, with the exceptions that stand above.
SourceKept ==
  DatagramsKept /\ WholeReadsKept /\ DamageBounded /\ ReplayIsCapture /\ TimeoutsApart
=============================================================================
