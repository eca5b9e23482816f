--------------------------- MODULE FramePipeline ---------------------------
(***************************************************************************)
(* The point cloud pipeline of the Hesai SDK (hesai_lidar_sdk.hpp, lidar.h, *)
(* udp6_1_parser.h).  The process thread Run() decodes packets into slots   *)
(* of one shared frame and queues the slot index; ParserThread hands the    *)
(* indices round-robin to the handle threads (or converts them itself when  *)
(* there are fewer than two); a handle thread converts a slot's raw bytes   *)
(* to points and adds one to a shared counter.  When a packet opens a new   *)
(* scan, Run() polls until the counter equals the number of packets queued, *)
(* publishes the frame, resets it and decodes that packet again, as the     *)
(* first one of the new frame.  A frame that fills up without a split is    *)
(* thrown away by a second, unsynchronised reset.                           *)
(*                                                                         *)
(* Contents are reduced to one bit: a slot's raw bytes and its points are   *)
(* "new" when they come from the current frame and "old" otherwise.         *)
(* Packets that are rejected (bad magic, wrong header, filtered source,     *)
(* fault messages) leave all of this state alone: they are stuttering.      *)
(***************************************************************************)
EXTENDS Integers, Sequences, FiniteSets

CONSTANTS NThreads,      \* handle_thread_count_ after SetThreadNum's clamp, when it is not one
          MaxPackets,    \* frame_.maxPacketPerFrame
          HandleCap,     \* handle_buffer_size_
          PacketKinds,   \* what the packets received do to the frame
          SplitsInTime   \* the sender splits each scan before the frame is full

\* store: accepted into the frame; split: opens a new scan and is stored again
\* after the reset; splitTimeout: a receive timeout closes the frame;
\* splitBadSize: opens a new scan but its length differs from the frame's, so
\* that the second decode rejects it.
AllKinds == {"store", "split", "splitTimeout", "splitBadSize"}

ASSUME PipelineAssumption == /\ NThreads \in Nat \ {0}
                             /\ MaxPackets \in Nat \ {0, 1}
                             /\ HandleCap \in Nat \ {0}
                             /\ PacketKinds \subseteq AllKinds
                             /\ SplitsInTime \in BOOLEAN

\* The input the design relies on.
GoodInput == /\ SplitsInTime
             /\ "splitBadSize" \notin PacketKinds
             /\ MaxPackets <= HandleCap

Slots    == 0..(MaxPackets - 1)
Handlers == 0..(NThreads - 1)
Tags     == {"old", "new"}
NoIdx    == -1
NoJob    == [idx |-> NoIdx, tag |-> "old"]
Jobs     == [idx : Slots \cup {NoIdx}, tag : Tags]

RunPcs == {"recv", "wait", "zero", "publish", "update", "redecode",
           "clearQueue", "clearHandles", "discard", "zeroLate", "done"}

VARIABLES
  inline,     \* handle_thread_count_ < 2: ParserThread converts the packets itself
  pc,         \* where Run() is
  running,    \* is_thread_runing_
  split,      \* the kind of the packet that closed the frame
  pktIndex,   \* packet_index, local to Run()
  packetNum,  \* frame_.packet_num
  raw,        \* frame_.point_cloud_raw_data, one tag per slot
  pts,        \* frame_.points and valid_points, one tag per slot
  count,      \* frame_.compute_packet_num of the parser
  dq,         \* decoded_packets_buffer_
  held,       \* the index ParserThread has popped and not yet handed over
  hb,         \* handle_thread_packet_buffer_
  rr,         \* nUDPCount
  job,        \* the conversion each computing thread is in
  lateWork    \* history: a discarded frame's work was alive when count was zeroed

runVars   == <<inline, pc, running, split, pktIndex, packetNum, lateWork>>
queueVars == <<dq, held, hb, rr>>
vars == <<runVars, raw, pts, count, queueVars, job>>

TypeOK == /\ inline \in BOOLEAN
          /\ pc \in RunPcs
          /\ running \in BOOLEAN
          /\ split \in AllKinds
          /\ pktIndex \in 0..MaxPackets
          /\ packetNum \in 0..MaxPackets
          /\ raw \in [Slots -> Tags]
          /\ pts \in [Slots -> Tags]
          /\ count \in Nat
          /\ dq \in Seq(Slots)
          /\ held \in Slots \cup {NoIdx}
          /\ hb \in [Handlers -> Seq(Slots)]
          /\ rr \in 0..NThreads
          /\ job \in [Handlers -> Jobs]
          /\ lateWork \in BOOLEAN

Init == /\ inline \in BOOLEAN /\ (NThreads = 1 => inline)
        /\ pc = "recv"
        /\ running = TRUE
        /\ split = "store"
        /\ pktIndex = 0
        /\ packetNum = 0
        /\ raw = [i \in Slots |-> "old"]
        /\ pts = [i \in Slots |-> "old"]
        /\ count = 0
        /\ dq = <<>>
        /\ held = NoIdx
        /\ hb = [h \in Handlers |-> <<>>]
        /\ rr = 0
        /\ job = [h \in Handlers |-> NoJob]
        /\ lateWork = FALSE

\* Work that was queued and has not been finished.
Pending == \/ dq # <<>>
           \/ held # NoIdx
           \/ \E h \in Handlers : hb[h] # <<>> \/ job[h] # NoJob

\* Everything belongs to an earlier frame once packet_num restarts at zero.
AgedNotAtAll(tags) == tags      \* mutant: Update forgets the flags of the slots
Aged(tags) == [i \in Slots |-> "old"]
-----------------------------------------------------------------------------
(***************************************************************************)
(* The process thread                                                      *)
(***************************************************************************)

\* A packet of the current scan: DecodePacket copies it into the slot
\* packet_num, and its index is queued when packet_num has moved past
\* packet_index.  A frame that is now full is discarded.
DecodeStore ==
  /\ pc = "recv" /\ running
  /\ "store" \in PacketKinds
  /\ SplitsInTime => pktIndex + 1 < MaxPackets
  /\ raw' = [raw EXCEPT ![packetNum] = "new"]
  /\ packetNum' = packetNum + 1
  /\ LET queued == packetNum + 1 # pktIndex
         next   == IF queued THEN pktIndex + 1 ELSE pktIndex
     IN /\ dq' = IF queued THEN Append(dq, pktIndex) ELSE dq
        /\ \/ /\ next < MaxPackets
              /\ pktIndex' = next
              /\ UNCHANGED pc
           \/ /\ next >= MaxPackets
              /\ pktIndex' = 0
              /\ pc' = "clearQueue"
  /\ UNCHANGED <<inline, running, split, lateWork, pts, count, held, hb, rr, job>>

\* A packet that opens a new scan, or a timeout: scan_complete.
DecodeSplit ==
  /\ pc = "recv" /\ running
  /\ \E k \in PacketKinds \ {"store"} : split' = k
  /\ pc' = "wait"
  /\ UNCHANGED <<inline, running, pktIndex, packetNum, lateWork, raw, pts, count, queueVars, job>>

\* ComputeXYZIComplete: one poll reads the counter, then zeroes it.
CompleteOneEarly == count + 1 >= pktIndex                 \* mutant
CompleteWhenQueueEmpty == dq = <<>> /\ held = NoIdx        \* mutant
ComputeXYZIComplete == count = pktIndex

WaitDone ==
  /\ pc = "wait"
  /\ ComputeXYZIComplete
  /\ pc' = "zero"
  /\ UNCHANGED <<inline, running, split, pktIndex, packetNum, lateWork, raw, pts, count, queueVars, job>>

ZeroCount ==
  /\ pc = "zero"
  /\ count' = 0
  /\ pc' = "publish"
  /\ UNCHANGED <<inline, running, split, pktIndex, packetNum, lateWork, raw, pts, queueVars, job>>

\* FrameProcess, compaction of the slots and the callbacks read the points of
\* every slot below packet_num, from here to the next step.
Publish ==
  /\ pc = "publish"
  /\ pc' = "update"
  /\ UNCHANGED <<inline, running, split, pktIndex, packetNum, lateWork, raw, pts, count, queueVars, job>>

\* frame_.Update() and resetFrame().
AgeFrame == /\ packetNum' = 0
            /\ raw' = Aged(raw)
            /\ pts' = Aged(pts)
            /\ job' = [h \in Handlers |-> [job[h] EXCEPT !.tag = "old"]]

UpdateFrame ==
  /\ pc = "update"
  /\ AgeFrame
  /\ pktIndex' = 0
  /\ pc' = IF split = "splitTimeout" THEN "recv" ELSE "redecode"
  /\ UNCHANGED <<inline, running, split, lateWork, count, queueVars>>

\* The second decode of the packet that opened the scan.  Its result is not
\* looked at: the index is queued and counted also when nothing was stored.
Redecode ==
  /\ pc = "redecode"
  /\ IF split = "split"
     THEN /\ raw' = [raw EXCEPT ![packetNum] = "new"]
          /\ packetNum' = packetNum + 1
     ELSE UNCHANGED <<raw, packetNum>>
  /\ dq' = Append(dq, pktIndex)
  /\ pktIndex' = pktIndex + 1
  /\ pc' = "recv"
  /\ UNCHANGED <<inline, running, split, lateWork, pts, count, held, hb, rr, job>>

ClearQueueKeepsIndices ==      \* mutant
  /\ pc = "clearQueue"
  /\ pc' = "clearHandles"
  /\ UNCHANGED <<inline, running, split, pktIndex, packetNum, lateWork, raw, pts, count, queueVars, job>>

\* ClearPacketBuffer, first the decoded queue under its own lock ...
ClearQueue ==
  /\ pc = "clearQueue"
  /\ dq' = <<>>
  /\ pc' = "clearHandles"
  /\ UNCHANGED <<inline, running, split, pktIndex, packetNum, lateWork, raw, pts, count, held, hb, rr, job>>

\* ... then the handle buffers.  One step: clearing them one after the other
\* gives the same results, as each transfer touches one buffer only.
ClearHandles ==
  /\ pc = "clearHandles"
  /\ hb' = IF inline THEN hb ELSE [h \in Handlers |-> <<>>]
  /\ pc' = "discard"
  /\ UNCHANGED <<inline, running, split, pktIndex, packetNum, lateWork, raw, pts, count, dq, held, rr, job>>

\* After a 100 us sleep, frame_.Update() ...
DiscardFrame ==
  /\ pc = "discard"
  /\ AgeFrame
  /\ pc' = "zeroLate"
  /\ UNCHANGED <<inline, running, split, pktIndex, lateWork, count, queueVars>>

\* ... and SetComputePacketNumToZero.  What ParserThread and the handle threads
\* are still working on will be counted in the next frame.
ZeroCountLate ==
  /\ pc = "zeroLate"
  /\ count' = 0
  /\ lateWork' = (lateWork \/ Pending)
  /\ pc' = "recv"
  /\ UNCHANGED <<inline, running, split, pktIndex, packetNum, raw, pts, queueVars, job>>

\* The loop head reads is_thread_runing_ between two packets only.
ExitLoop ==
  /\ pc = "recv" /\ ~running
  /\ pc' = "done"
  /\ UNCHANGED <<inline, running, split, pktIndex, packetNum, lateWork, raw, pts, count, queueVars, job>>

RunStep == \/ DecodeStore \/ DecodeSplit \/ WaitDone \/ ZeroCount \/ Publish
           \/ UpdateFrame \/ Redecode \/ ClearQueue \/ ClearHandles
           \/ DiscardFrame \/ ZeroCountLate \/ ExitLoop

\* Stop() or onRelease(), by another thread.
StopRun == /\ running
           /\ running' = FALSE
           /\ UNCHANGED <<inline, pc, split, pktIndex, packetNum, lateWork, raw, pts, count, queueVars, job>>
-----------------------------------------------------------------------------
(***************************************************************************)
(* ParserThread and HandleThread                                           *)
(***************************************************************************)

\* ComputeXYZI starts reading the slot's raw bytes.
Begin(h, i) == job' = [job EXCEPT ![h] = [idx |-> i, tag |-> raw[i]]]

\* One thread only: ParserThread pops an index and converts it itself.
ParserCompute ==
  /\ inline
  /\ dq # <<>>
  /\ job[0] = NoJob
  /\ Begin(0, Head(dq))
  /\ dq' = Tail(dq)
  /\ UNCHANGED <<runVars, raw, pts, count, held, hb, rr>>

\* ParserThread pops an index ...
ParserPop ==
  /\ ~inline
  /\ dq # <<>>
  /\ held = NoIdx
  /\ held' = Head(dq)
  /\ dq' = Tail(dq)
  /\ UNCHANGED <<runVars, raw, pts, count, hb, rr, job>>

\* A handle buffer longer than its limit drops its oldest index.
CappedPerThread(q) == IF Len(q) > HandleCap \div NThreads THEN Tail(q) ELSE q     \* mutant
Capped(q) == IF Len(q) > HandleCap THEN Tail(q) ELSE q

\* nUDPCount picks the buffers in turn.
NextHandlerUnwrapped == rr     \* mutant
NextHandler == rr % NThreads

\* ... and gives it to the next handle thread.
ParserRoute ==
  /\ held # NoIdx
  /\ LET h == NextHandler
     IN /\ hb' = [hb EXCEPT ![h] = Capped(Append(@, held))]
        /\ rr' = h + 1
  /\ held' = NoIdx
  /\ UNCHANGED <<runVars, raw, pts, count, dq, job>>

HandlerPop(h) ==
  /\ ~inline
  /\ hb[h] # <<>>
  /\ job[h] = NoJob
  /\ Begin(h, Head(hb[h]))
  /\ hb' = [hb EXCEPT ![h] = Tail(@)]
  /\ UNCHANGED <<runVars, raw, pts, count, dq, held, rr>>

\* ComputeXYZI ends: the points and valid_points of the slot are written and the
\* counter advances.  A slot whose raw bytes changed meanwhile gives either.
FrameNumAddRace == count' \in {count, count + 1}     \* mutant: an increment is lost
FrameNumAdd == count' = count + 1

ComputeEnd(h) ==
  /\ job[h] # NoJob
  /\ \E t \in {job[h].tag, raw[job[h].idx]} : pts' = [pts EXCEPT ![job[h].idx] = t]
  /\ FrameNumAdd
  /\ job' = [job EXCEPT ![h] = NoJob]
  /\ UNCHANGED <<runVars, raw, queueVars>>

ParserStep     == ParserCompute \/ ParserPop \/ ParserRoute
HandlerStep(h) == HandlerPop(h) \/ ComputeEnd(h)

Next == RunStep \/ StopRun \/ ParserStep \/ \E h \in Handlers : HandlerStep(h)

\* Safety only: what the proofs are about.
Spec == Init /\ [][Next]_vars

\* Run() is scheduled when it can go on without input, and so are the workers.
\* Nothing obliges packets to arrive or Stop() to be called.
RunFair == WF_vars(RunStep /\ ~(pc = "recv" /\ running))

LiveSpec == /\ Spec
            /\ RunFair
            /\ WF_vars(ParserStep)
            /\ \A h \in Handlers : WF_vars(HandlerStep(h))
-----------------------------------------------------------------------------
(***************************************************************************)
(* Properties                                                              *)
(***************************************************************************)
Delivering == pc \in {"publish", "update"}

\* Every point of a frame handed to the callbacks was computed from a packet of
\* that frame: hesai_lidar_sdk.hpp waits for the parser threads before the loop
\* that compacts points below packet_num.
FrameFresh == Delivering => \A i \in 0..(packetNum - 1) : pts[i] = "new"

\* While the callbacks read the frame no thread holds or will take up an index:
\* nobody writes frame_.points under the reader.
QuietWhileDelivering == Delivering => ~Pending

\* A late conversion is the only way to a stale frame when packets have the right
\* size: if the discarded frames had drained when the counter was zeroed, each
\* published frame is fresh (the 100 us sleep before Update is there for this).
StaleOnlyByLateWork == ~lateWork => FrameFresh

\* Run() pushes with frame_decode_mutex_ held, and push_back blocks on a full ring:
\* with room for a frame and for the work in flight when a frame was discarded
\* (one index per computing thread and the one ParserThread holds), the push
\* never waits.
DecodedQueueBounded == Len(dq) <= MaxPackets + NThreads + 1

\* No index that ParserThread hands over pushes an older one out of the buffer,
\* which would leave its packet uncounted and the frame open for ever.
NothingDropped == [][\A h \in Handlers : Len(hb'[h]) = Len(hb[h]) => hb'[h] = hb[h]]_hb

\* Once a frame is closed it is delivered.
FrameDelivered == pc = "wait" ~> pc = "publish"

\* A stop request ends Run(), so that Stop() returns from its join.
StopReturns == ~running ~> pc = "done"

\* The comment of ComputeXYZIComplete, "whether all pointxyzi info is parsed in
\* this frame": when the poll succeeds, all queued slots are converted.
CompleteMeansParsed == pc = "zero" => \A i \in 0..(pktIndex - 1) : pts[i] = "new"
-----------------------------------------------------------------------------
(***************************************************************************)
(* The inductive invariant behind the properties, on good input            *)
(***************************************************************************)
Converted == {i \in 0..(pktIndex - 1) : pts[i] = "new"}

\* The first index that has not reached a handle buffer or a conversion.
FirstQueued == pktIndex - Len(dq) - (IF held = NoIdx THEN 0 ELSE 1)

RunInv == /\ pc \notin {"clearQueue", "clearHandles", "discard", "zeroLate"}
          /\ split # "splitBadSize"
          /\ packetNum = pktIndex
          /\ pktIndex < MaxPackets
          /\ pc \in {"wait", "zero", "publish", "update"} => split # "store"
          /\ pc = "redecode" => pktIndex = 0 /\ split = "split"
          /\ \A i \in 0..(pktIndex - 1) : raw[i] = "new"

\* The decoded queue and the held index are the last packets, in order.
QueueInv == /\ FirstQueued >= 0
            /\ \A i \in 1..Len(dq) : dq[i] = pktIndex - Len(dq) + i - 1
            /\ held # NoIdx => held = FirstQueued
            /\ inline => held = NoIdx
            /\ \A i \in Slots : i >= FirstQueued => pts[i] = "old"

\* What the handle threads own: indices handed over, not converted, all different.
BufferInv == /\ \A h \in Handlers : \A j \in 1..Len(hb[h]) :
                  /\ hb[h][j] \in (j - 1)..(FirstQueued - 1)
                  /\ pts[hb[h][j]] = "old"
             /\ \A h \in Handlers : \A j, k \in 1..Len(hb[h]) : j < k => hb[h][j] < hb[h][k]
             /\ \A g, h \in Handlers : \A j \in 1..Len(hb[g]), k \in 1..Len(hb[h]) :
                  g # h => hb[g][j] # hb[h][k]

JobInv == /\ \A h \in Handlers : job[h] # NoJob =>
               /\ job[h].idx \in 0..(FirstQueued - 1)
               /\ job[h].tag = "new"
               /\ pts[job[h].idx] = "old"
          /\ \A g, h \in Handlers :
               g # h /\ job[g] # NoJob /\ job[h] # NoJob => job[g].idx # job[h].idx
          /\ \A g, h \in Handlers : \A j \in 1..Len(hb[h]) :
               job[g] # NoJob => hb[h][j] # job[g].idx

\* The counter counts the converted slots; a delivered frame has no others.
CountInv == /\ pc \notin {"publish", "update"} => count = Cardinality(Converted)
            /\ pc \in {"publish", "update"} => count = 0
            /\ pc \in {"zero", "publish", "update"} => Converted = 0..(pktIndex - 1)

PartsInv == RunInv /\ QueueInv /\ BufferInv /\ JobInv /\ CountInv

\* Types, and what the threads own of the frame, which together every step preserves.
PipelineInv == TypeOK /\ PartsInv
-----------------------------------------------------------------------------
(***************************************************************************)
(* The abstract specification that the pipeline implements on good input    *)
(***************************************************************************)
Phase == CASE pc \in {"wait", "zero"} -> "drain"
           [] pc \in {"publish", "update"} -> "deliver"
           [] pc = "done" -> "stopped"
           [] OTHER -> "fill"

Barrier == INSTANCE FrameBarrier WITH phase <- Phase, size <- pktIndex, converted <- Converted
BarrierSpec == Barrier!Spec
=============================================================================
