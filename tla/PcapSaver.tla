------------------------------ MODULE PcapSaver ------------------------------
(***************************************************************************)
(* Recording (pcap_saver.cc): Lidar's receive threads give each packet to    *)
(* Dump while is_record_pcap_ is set, and a thread of the recorder writes    *)
(* them through a buffer into the file.  StartRecordPcap and StopRecordPcap  *)
(* come from the user of the library.                                       *)
(*                                                                         *)
(* The ring between them is made by the first Dump, without a lock.          *)
(***************************************************************************)
EXTENDS Integers, Sequences, FiniteSets

CONSTANTS Receivers,    \* ReceiveUdpThread and ReceiveUdpThreadFaultMessage
          CacheRoom,    \* room of packets_cache_
          BufferRoom,   \* records that write_buffer_ holds
          MaxPackets,   \* bound on the packets of a receiver
          MaxCalls      \* bound on the calls of StartRecordPcap and StopRecordPcap

VARIABLES
  recording,  \* is_record_pcap_
  user,       \* where the user's call is
  calls,      \* how many it has made
  receiver,   \* where each receive thread is
  count,      \* the packets it has received
  made,       \* packets_cache_ is not null
  cache,      \* what it holds
  dumping,    \* dumping_
  writer,     \* where the recorder's thread is
  buffer,     \* write_buffer_
  file,       \* what the open file holds
  opened,     \* ofs_ is open
  owed,       \* history: packets dumped while the user thought that they are recorded
  remade      \* history: a ring has been replaced by another

saverVars == <<recording, user, calls, receiver, count, made, cache, dumping, writer, buffer, file,
               opened, owed, remade>>
fileVars == <<buffer, file, opened>>
userVars == <<recording, user, calls, dumping>>
cacheVars == <<made, cache, remade>>

SaverInit ==
  /\ recording = FALSE /\ user = "idle" /\ calls = 0 /\ dumping = FALSE /\ writer = "none"
  /\ receiver = [r \in Receivers |-> "receive"] /\ count = [r \in Receivers |-> 0]
  /\ made = FALSE /\ cache = <<>> /\ remade = FALSE
  /\ buffer = <<>> /\ file = <<>> /\ opened = FALSE /\ owed = {}
-----------------------------------------------------------------------------
(***************************************************************************)
(* The receive threads                                                     *)
(***************************************************************************)
Packet(r) == <<r, count[r]>>
ReceiverGoes(r, place) == receiver' = [receiver EXCEPT ![r] = place]

\* A packet is in the ring for Run() and is dumped if a recording is on.
Receives(r) == /\ receiver[r] = "receive" /\ count[r] < MaxPackets
               /\ count' = [count EXCEPT ![r] = @ + 1]
               /\ ReceiverGoes(r, IF recording THEN "dump" ELSE "receive")
               /\ UNCHANGED <<userVars, cacheVars, writer, fileVars, owed>>

\* Dump makes the ring if there is none.  Two threads may both see none: the ring that the
\* second makes takes the place of the first one's.
SeesNone(r) == /\ receiver[r] = "dump" /\ ~made
               /\ ReceiverGoes(r, "make")
               /\ UNCHANGED <<userVars, count, cacheVars, writer, fileVars, owed>>
Makes(r) == /\ receiver[r] = "make"
            /\ made' = TRUE /\ cache' = <<>>
            /\ remade' = made
            /\ ReceiverGoes(r, "push")
            /\ UNCHANGED <<userVars, count, writer, fileVars, owed>>
SeesRing(r) == /\ receiver[r] = "dump" /\ made
               /\ ReceiverGoes(r, "push")
               /\ UNCHANGED <<userVars, count, cacheVars, writer, fileVars, owed>>

\* push_back waits for room.
Pushes(r) == /\ receiver[r] = "push" /\ Len(cache) < CacheRoom
             /\ cache' = Append(cache, Packet(r))
             /\ owed' = IF user = "recording" THEN owed \cup {Packet(r)} ELSE owed
             /\ ReceiverGoes(r, "receive")
             /\ UNCHANGED <<userVars, count, made, remade, writer, fileVars>>

Dumps(r) == SeesNone(r) \/ Makes(r) \/ SeesRing(r) \/ Pushes(r)
-----------------------------------------------------------------------------
(***************************************************************************)
(* The recorder's thread                                                   *)
(***************************************************************************)
\* write_to_buffer: a full buffer goes to the file first.
WritesOver(packet) ==     \* mutant
  /\ buffer' = (IF Len(buffer) = BufferRoom THEN <<>> ELSE buffer) \o <<packet>>
  /\ UNCHANGED file
Writes(packet) ==
  IF Len(buffer) = BufferRoom
  THEN file' = file \o buffer /\ buffer' = <<packet>>
  ELSE buffer' = Append(buffer, packet) /\ UNCHANGED file

WriterTakes == /\ writer = "running" /\ made /\ cache # <<>>
               /\ cache' = Tail(cache)
               /\ Writes(Head(cache))
               /\ UNCHANGED <<userVars, receiver, count, made, remade, writer, opened, owed>>

\* Between two naps a buffer that is nearly full is flushed, or any when packets have come again.
WriterFlushes == /\ writer = "running" /\ buffer # <<>>
                 /\ file' = file \o buffer /\ buffer' = <<>>
                 /\ UNCHANGED <<userVars, receiver, count, cacheVars, writer, opened, owed>>

\* The loop ends when nothing is left.
StopsAtOnce == ~dumping                                 \* mutant
EndsWhenEmpty == ~made \/ cache = <<>>                  \* mutant: dumping_ is not looked at
NothingLeft == ~dumping /\ (~made \/ cache = <<>>)
WriterEnds == /\ writer = "running" /\ NothingLeft
              /\ file' = file \o buffer /\ buffer' = <<>>
              /\ writer' = "none"
              /\ UNCHANGED <<userVars, receiver, count, cacheVars, opened, owed>>
WriterStep == WriterTakes \/ WriterFlushes \/ WriterEnds
-----------------------------------------------------------------------------
(***************************************************************************)
(* StartRecordPcap and StopRecordPcap                                      *)
(***************************************************************************)
Calls(on) == /\ user \in {"idle", "recording"} /\ calls < MaxCalls
             /\ calls' = calls + 1
             /\ recording' = on
             /\ dumping' = FALSE                   \* close(), which Save() calls as well
             /\ user' = IF on THEN "starting" ELSE "stopping"
             /\ UNCHANGED <<receiver, count, cacheVars, writer, fileVars, owed>>

\* close() has joined the thread: the file is complete.
Closed == user \in {"starting", "stopping"} /\ writer = "none"

StopReturns == /\ Closed /\ user = "stopping"
               /\ user' = "idle"
               /\ opened' = FALSE /\ file' = <<>> /\ owed' = {}
               /\ UNCHANGED <<recording, calls, dumping, receiver, count, cacheVars, writer, buffer>>
StartReturns == /\ Closed /\ user = "starting"
                /\ user' = "recording"
                /\ opened' = TRUE /\ file' = <<>> /\ owed' = {}
                /\ dumping' = TRUE /\ writer' = "running"
                /\ UNCHANGED <<recording, calls, receiver, count, cacheVars, buffer>>

\* The file cannot be opened: no thread is started, but is_record_pcap_ stays set.
StartFails == /\ Closed /\ user = "starting"
              /\ user' = "idle"
              /\ opened' = FALSE /\ file' = <<>> /\ owed' = {}
              /\ UNCHANGED <<recording, calls, dumping, receiver, count, cacheVars, writer, buffer>>
UserStep == (\E on \in BOOLEAN : Calls(on)) \/ StopReturns \/ StartReturns \/ StartFails

SaverNext == UserStep \/ WriterStep \/ \E r \in Receivers : Receives(r) \/ Dumps(r)
-----------------------------------------------------------------------------
(***************************************************************************)
(* Properties                                                              *)
(***************************************************************************)
\* A file that is closed holds every packet that was dumped between the return of
\* StartRecordPcap and the next call, once and in order, unless the two receivers made the ring
\* at the same time.
RecordingComplete ==
  /\ Closed /\ opened /\ ~remade => \A x \in owed : \E i \in 1..Len(file) : file[i] = x
  /\ \A i, j \in 1..Len(file) : i < j /\ file[i][1] = file[j][1] => file[i][2] < file[j][2]

\* A recording does not stop reception: a receiver that waits for room gets on, unless the file
\* could not be opened and nobody empties the ring.
ReceptionGoesOn ==
  \A r \in Receivers : (receiver[r] = "push" /\ user = "recording")
                         ~> (receiver[r] # "push" \/ (user = "idle" /\ recording))
=============================================================================
