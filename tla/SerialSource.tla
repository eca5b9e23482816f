----------------------------- MODULE SerialSource -----------------------------
(***************************************************************************)
(* Points from the serial line (serial_source.cc): ReceivedThread finds the  *)
(* packets in the bytes by what they begin with.  Bytes may be lost on the   *)
(* line, and then a packet takes in the beginning of the next.               *)
(*                                                                         *)
(* The first piece of a packet holds what identifies it; an acknowledgement   *)
(* of a command is between the points and ends with the two bytes with which  *)
(* a packet of points begins.                                                *)
(***************************************************************************)
EXTENDS Received, FiniteSets

CONSTANTS OneRead,     \* kOneRecvLength, in pieces
          BufferRoom,  \* kDataMaxLength, in pieces
          QueueRoom,   \* room of pointCloudRecvBuf
          MaxLost      \* bound on the pieces that the line loses

VARIABLES
  script,     \* the kinds of the packets that the lidar sends: "points", "imu" or "ack"
  sent,       \* how many it has sent
  wire,       \* the pieces on the line
  unread,     \* serialData from dataIndex to dataLength
  queue,      \* pointCloudRecvBuf
  got,        \* what Receive returned
  lost,       \* history: the pieces that the line lost
  dropped     \* history: the packets that a full ring dropped

PartsOf(kind) == IF kind = "points" THEN 3 ELSE 2

Sends == /\ sent < Len(script)
         /\ sent' = sent + 1
         /\ wire' = wire \o Intact(sent + 1, PartsOf(script[sent + 1]))
         /\ UNCHANGED <<script, unread, queue, got, lost, dropped>>

Loses == /\ wire # <<>> /\ Cardinality(lost) < MaxLost
         /\ lost' = lost \cup {Head(wire)}
         /\ wire' = Tail(wire)
         /\ UNCHANGED <<script, sent, unread, queue, got, dropped>>

Begins(part, kind) == part[2] = 1 /\ script[part[1]] = kind
BeginsPoints(part) == Begins(part, "points") \/ Begins(part, "imu")
EndsAck(part) == BeginsPoints(part) \/ (script[part[1]] = "ack" /\ part[2] = PartsOf("ack"))

\* The first piece that begins something; what is before it is skipped.
Starts(buffer) == {i \in 1..Len(buffer) : BeginsPoints(buffer[i]) \/ Begins(buffer[i], "ack")}
SkipTo(buffer) == IF Starts(buffer) = {} THEN <<>>
                  ELSE SubSeq(buffer, CHOOSE i \in Starts(buffer) : \A j \in Starts(buffer) : i <= j,
                              Len(buffer))

\* One packet is taken in a turn.  A full ring drops its oldest packet first, also when the
\* new one has not come whole; its length is what its first piece says, whatever follows.
MakesRoom == IF Len(queue) = QueueRoom THEN Tail(queue) ELSE queue
PutForced(packets) ==
  /\ queue' = MakesRoom \o packets
  /\ dropped' = dropped \cup ({queue[i].parts : i \in 1..Len(queue)}
                                \ {MakesRoom[i].parts : i \in 1..Len(MakesRoom)})

\* What has not come whole stays for the next turn.
StaysNot(buffer) == unread' = <<>>     \* mutant
Stays(buffer) == unread' = buffer

TakesPoints(buffer) ==
  LET n == PartsOf(script[buffer[1][1]])
  IN IF Len(buffer) < n
     THEN Stays(buffer) /\ PutForced(<<>>)
     ELSE /\ unread' = SubSeq(buffer, n + 1, Len(buffer))
          /\ PutForced(<<Result("points", SubSeq(buffer, 1, n))>>)

AckEnds(buffer) == {i \in 2..Len(buffer) : EndsAck(buffer[i])}
TakesAck(buffer) ==
  /\ unread' = IF AckEnds(buffer) = {} THEN buffer
               ELSE SubSeq(buffer, 1 + CHOOSE i \in AckEnds(buffer) : \A j \in AckEnds(buffer) : i <= j,
                           Len(buffer))
  /\ UNCHANGED <<queue, dropped>>

Scans(buffer) ==
  LET rest == SkipTo(buffer)
  IN IF rest = <<>> THEN unread' = <<>> /\ UNCHANGED <<queue, dropped>>
     ELSE IF BeginsPoints(rest[1]) THEN TakesPoints(rest) ELSE TakesAck(rest)

\* A turn reads at most kOneRecvLength bytes, and nothing when there is no room for as many.
ReceivedThread ==
  \E n \in 0..OneRead :
    /\ n <= Len(wire) /\ (n > 0 => Len(unread) + OneRead <= BufferRoom)
    /\ Scans(unread \o SubSeq(wire, 1, n))
    /\ wire' = SubSeq(wire, n + 1, Len(wire))
    /\ UNCHANGED <<script, sent, got, lost>>

Receive == /\ \/ queue # <<>> /\ got' = Head(queue) /\ queue' = Tail(queue)
              \/ queue = <<>> /\ got' = Nothing /\ UNCHANGED queue
           /\ UNCHANGED <<script, sent, wire, unread, lost, dropped>>
=============================================================================
