------------------------------- MODULE TcpSource -------------------------------
(***************************************************************************)
(* Points from a TCP connection (tcp_source.cc): ReceivedThread reads bytes  *)
(* into an array and hands a packet on whenever a packet's length has come.   *)
(* Nothing in the bytes says where a packet begins.                          *)
(***************************************************************************)
EXTENDS Received

CONSTANTS PacketParts,  \* pieces of a packet, of 581 bytes together
          BufferRoom,   \* kDataMaxLength, in pieces
          Reserve,      \* 5 * kBufSize, in pieces
          QueueRoom     \* room of pointCloudRecvBuf

VARIABLES
  script, sent,  \* as in SocketSource
  wire,          \* the pieces that wait in the socket
  opened,        \* m_bLidarConnected
  turn,          \* where ReceivedThread is in its loop
  data,          \* m_receiveBuffer
  dataIndex,     \* the first piece that no packet has taken
  dataLength,    \* the pieces that have come, from the array's start
  queue,         \* pointCloudRecvBuf
  got,           \* what Receive returned
  arrived        \* history: the packets read whole by a read that began with a packet

bufferVars == <<data, dataIndex, dataLength>>

Sends == /\ opened /\ sent < Len(script)
         /\ sent' = sent + 1
         /\ wire' = wire \o Intact(sent + 1, PacketParts)
         /\ UNCHANGED <<script, opened, turn, bufferVars, queue, got, arrived>>

\* recv() fails, and with Close() what has not been read is lost; the array stays as it is,
\* also for the next connection, which the lidar starts with a new packet.
Breaks == /\ opened /\ turn = "recv"
          /\ opened' = FALSE
          /\ wire' = <<>>
          /\ UNCHANGED <<script, sent, turn, bufferVars, queue, got, arrived>>
Opens == /\ ~opened
         /\ opened' = TRUE
         /\ UNCHANGED <<script, sent, wire, turn, bufferVars, queue, got, arrived>>

\* What comes goes where the next packet begins, over a rest that is already there.
AtIndex == dataIndex

ReadWhole(n) ==
  IF wire[1][2] = 1
  THEN {p \in 1..sent : Intact(p, PacketParts) \in {SubSeq(wire, i, i + PacketParts - 1) :
                                                    i \in 1..(n + 1 - PacketParts)}}
  ELSE {}

Reads(n) == /\ turn = "recv" /\ opened
            /\ n <= Len(wire) /\ n <= BufferRoom - dataLength
            /\ data' = [i \in DOMAIN data |->
                          IF i \in AtIndex..(AtIndex + n - 1) THEN wire[i - AtIndex + 1] ELSE data[i]]
            /\ dataLength' = dataLength + n
            /\ wire' = SubSeq(wire, n + 1, Len(wire))
            /\ turn' = "extract"
            /\ arrived' = arrived \cup ReadWhole(n)
            /\ UNCHANGED <<script, sent, opened, dataIndex, queue, got>>

HasPacketAndMore == dataIndex + PacketParts < dataLength     \* mutant
HasPacket == dataIndex + PacketParts <= dataLength

\* emplace_back waits for room.
Extracts == /\ turn = "extract" /\ HasPacket
            /\ Len(queue) < QueueRoom
            /\ queue' = Append(queue, Result("points",
                          [i \in 1..PacketParts |-> data[dataIndex + i - 1]]))
            /\ dataIndex' = dataIndex + PacketParts
            /\ UNCHANGED <<script, sent, wire, opened, turn, data, dataLength, got, arrived>>

\* The rest moves to the front while there is still room; it is shorter than a packet.
MovesToFront ==
  IF dataLength + Reserve > BufferRoom
  THEN /\ data' = [i \in DOMAIN data |->
                     IF i < dataLength - dataIndex THEN data[i + dataIndex] ELSE data[i]]
       /\ dataLength' = dataLength - dataIndex
       /\ dataIndex' = 0
  ELSE UNCHANGED bufferVars
EndsTurn == /\ turn = "extract" /\ ~HasPacket
            /\ MovesToFront
            /\ turn' = "recv"
            /\ UNCHANGED <<script, sent, wire, opened, queue, got, arrived>>

ReceivedThread == Opens \/ Breaks \/ (\E n \in 1..BufferRoom : Reads(n)) \/ Extracts \/ EndsTurn

\* Receive tries for about a second.
Receive == /\ \/ queue # <<>> /\ got' = Head(queue) /\ queue' = Tail(queue)
              \/ queue = <<>> /\ got' = Nothing /\ UNCHANGED queue
           /\ UNCHANGED <<script, sent, wire, opened, turn, bufferVars, arrived>>
=============================================================================
