------------------------------ MODULE PcapSource ------------------------------
(***************************************************************************)
(* Points from a capture (pcap_source.cc), in either format: a record is     *)
(* found where the one before it ends.  UDP payloads are handed on at once; a *)
(* TCP segment goes into an array, from which its packets are taken.         *)
(***************************************************************************)
EXTENDS Received

CONSTANTS BufferRoom,  \* kDataMaxLength, in packets
          Reserve      \* 5 * kBufSize, in packets

VARIABLES
  script,     \* the kinds of the records in the capture, see Blocks
  capture,    \* the capture: its blocks, each with the number of its record
  format,     \* "pcap" or "pcapng"
  loops,      \* is_loop
  fpos,       \* the position in the file
  ended,      \* is_pcap_end
  data,       \* m_receiveBuffer
  dataIndex, dataLength,
  got         \* what Receive returned

PacketsOf(i) == CASE script[i] \in {"udp", "segment"} -> <<Intact(i, 1)>>
                  [] script[i] = "segments" -> <<Intact(i, 1), <<<<i, 2>>>>>>
                  [] OTHER -> <<>>

\* All packets of the array have been taken: near its end the next segment goes to the front.
Base == IF dataLength + Reserve > BufferRoom THEN 0 ELSE dataLength
NoSegment == data' = data /\ dataIndex' = Base /\ dataLength' = Base

\* The callback of a TCP segment appends its packets and hands on the first.
TakesSegment(packets) ==
  /\ data' = [k \in DOMAIN data |-> IF k \in Base..(Base + Len(packets) - 1)
                                     THEN packets[k - Base + 1] ELSE data[k]]
  /\ dataLength' = Base + Len(packets)
  /\ dataIndex' = Base + 1
  /\ got' = Result("points", Head(packets))

\* What the callbacks return for a record.
HandsOn(i) ==
  \/ script[i] = "udp" /\ got' = Result("points", Intact(i, 1)) /\ NoSegment
  \/ script[i] = "empty" /\ got' = Silence /\ NoSegment
  \/ script[i] \in {"segment", "segments"} /\ TakesSegment(PacketsOf(i))
  \/ script[i] \in {"other", "jumbo", "cut data"} /\ got' = Nothing /\ NoSegment

\* Where the file is after a record: behind it also when it does not fit into the buffer.  A
\* record whose data are missing ends a pcapng file; of a pcap file, the header is skipped.
AsFarAsItFits(i) ==            \* mutant
  IF script[i] = "cut data" /\ format = "pcap" THEN 1 ELSE 2
RecordLength(i) == IF script[i] = "cut data" /\ format = "pcap" THEN 1 ELSE Len(Blocks(script[i]))

\* next().  What is no header is read as one: its length is arbitrary, and what it announces
\* is missing or, by chance, is taken for a packet.
Garbage == Result("points", <<<<0, 0>>>>)
ReadsBlock(pos) ==
  LET block == capture[pos + 1]
  IN \/ /\ block[2] = "header"
        /\ fpos' = pos + RecordLength(block[1])
        /\ HandsOn(block[1])
     \/ /\ block[2] = "stub"
        /\ fpos' = Len(capture)
        /\ got' = Nothing /\ NoSegment
     \/ /\ block[2] \in {"data", "rest", "torn"}
        /\ fpos' = pos + 1
        /\ got' \in {Nothing, Garbage} /\ NoSegment

ReadsOn == IF fpos < Len(capture) THEN ReadsBlock(fpos) /\ UNCHANGED ended
           ELSE IF loops THEN ReadsBlock(0) /\ UNCHANGED ended
           ELSE /\ ended' = TRUE /\ got' = Nothing
                /\ NoSegment /\ UNCHANGED fpos

\* A packet of a segment that is left over is copied, but from the front of the array.
HandsOnRest == /\ got' = Result("points", data[0])
               /\ dataIndex' = dataIndex + 1
               /\ UNCHANGED <<data, dataLength, fpos, ended>>

Receive == /\ IF dataIndex < dataLength THEN HandsOnRest ELSE ReadsOn
           /\ UNCHANGED <<script, format, loops>>
=============================================================================
