------------------------ MODULE FramePipelineProofs ------------------------
(***************************************************************************)
(* Proofs about FramePipeline for every number of threads, frame size and   *)
(* buffer limit.  On good input: the inductive invariant PipelineInv, the *)
(* freshness of every published frame, the absence of work in flight while  *)
(* it is read, and the implementation of FrameBarrier.  On every input,     *)
(* with frames that overflow: types, the bound of the decoded queue, and    *)
(* late conversions as the only cause of a stale frame.                     *)
(***************************************************************************)
EXTENDS FramePipeline, FiniteSetTheorems, TLAPS

\* What Tail does to a sequence, position by position.
LEMMA TailFacts ==
  ASSUME NEW S, NEW q \in Seq(S), q # <<>>
  PROVE  /\ Len(q) \in Nat /\ Len(q) >= 1
         /\ Head(q) = q[1] /\ Head(q) \in S
         /\ Tail(q) \in Seq(S)
         /\ Len(Tail(q)) = Len(q) - 1
         /\ \A i \in 1..Len(Tail(q)) : Tail(q)[i] = q[i + 1]
OBVIOUS

\* What Append does to a sequence, position by position.
LEMMA AppendFacts ==
  ASSUME NEW S, NEW q \in Seq(S), NEW e \in S
  PROVE  /\ Len(q) \in Nat
         /\ Append(q, e) \in Seq(S)
         /\ Len(Append(q, e)) = Len(q) + 1
         /\ Append(q, e)[Len(q) + 1] = e
         /\ \A i \in 1..Len(q) : Append(q, e)[i] = q[i]
OBVIOUS

\* The converted slots are finitely many.
LEMMA ConvertedFinite == TypeOK => IsFiniteSet(Converted) /\ Cardinality(Converted) \in Nat
<1> SUFFICES ASSUME TypeOK PROVE IsFiniteSet(Converted) /\ Cardinality(Converted) \in Nat
  OBVIOUS
<1>1. IsFiniteSet(0..(pktIndex - 1))
  BY FS_Interval, PipelineAssumption DEF TypeOK
<1>2. Converted \in SUBSET (0..(pktIndex - 1))
  BY DEF Converted
<1>3. IsFiniteSet(Converted)
  BY <1>1, <1>2, FS_Subset
<1> QED
  BY <1>3, FS_CardinalityType

\* A counter equal to the number of queued packets means that all are converted.
LEMMA CountFull ==
  ASSUME TypeOK, Cardinality(Converted) = pktIndex
  PROVE  Converted = 0..(pktIndex - 1)
<1> DEFINE last == pktIndex - 1
<1>0. pktIndex \in Nat /\ last \in Int /\ 0 \in Int
  BY PipelineAssumption DEF TypeOK
<1> HIDE DEF last
<1>a. /\ IsFiniteSet(0..last)
      /\ Cardinality(0..last) = IF 0 > last THEN 0 ELSE last - 0 + 1
  BY <1>0, FS_Interval
<1>1. IsFiniteSet(0..(pktIndex - 1)) /\ Cardinality(0..(pktIndex - 1)) = pktIndex
  BY <1>0, <1>a DEF last
<1>2. Converted \in SUBSET (0..(pktIndex - 1))
  BY DEF Converted
<1> QED
  BY <1>1, <1>2, FS_Subset

\* When all the slots of the frame are converted nothing is queued or in work.
LEMMA Drained ==
  ASSUME TypeOK, PartsInv, Converted = 0..(pktIndex - 1)
  PROVE  /\ dq = <<>> /\ held = NoIdx
         /\ \A h \in Handlers : hb[h] = <<>> /\ job[h] = NoJob
<1> USE PipelineAssumption DEF TypeOK, PartsInv
<1>1. /\ Len(dq) \in Nat /\ pktIndex \in Nat /\ pktIndex < MaxPackets /\ FirstQueued \in Int
      /\ FirstQueued <= pktIndex
  BY DEF FirstQueued, RunInv
<1>2. FirstQueued = pktIndex
  <2> SUFFICES ASSUME FirstQueued < pktIndex PROVE FALSE
    BY <1>1
  <2>1. FirstQueued \in 0..(pktIndex - 1) /\ FirstQueued \in Slots
    BY <1>1 DEF QueueInv, Slots
  <2>2. pts[FirstQueued] = "new"
    BY <2>1 DEF Converted
  <2>3. pts[FirstQueued] = "old"
    BY <2>1, <1>1 DEF QueueInv
  <2> QED
    BY <2>2, <2>3
<1>3. dq = <<>> /\ held = NoIdx
  BY <1>1, <1>2 DEF FirstQueued
<1>4. ASSUME NEW h \in Handlers PROVE hb[h] = <<>> /\ job[h] = NoJob
  <2>1. hb[h] \in Seq(Slots) /\ Len(hb[h]) \in Nat
    OBVIOUS
  <2>2. ASSUME hb[h] # <<>> PROVE FALSE
    <3>1. 1 \in 1..Len(hb[h])
      BY <2>1, <2>2
    <3>2. hb[h][1] \in 0..(FirstQueued - 1) /\ pts[hb[h][1]] = "old"
      BY <3>1 DEF BufferInv
    <3> QED
      BY <3>2, <1>2 DEF Converted
  <2>3. ASSUME job[h] # NoJob PROVE FALSE
    BY <2>3, <1>2 DEF JobInv, Converted
  <2> QED
    BY <2>2, <2>3
<1> QED
  BY <1>3, <1>4
-----------------------------------------------------------------------------
\* What the steps need that do not discard a frame.
RightSizes == "splitBadSize" \notin PacketKinds /\ MaxPackets <= HandleCap

\* The inductive invariant holds initially: nothing is stored and nothing is in work.
LEMMA InitPipelineInv == ASSUME RightSizes, Init PROVE PipelineInv
<1> USE PipelineAssumption
<1>1. TypeOK
  <2>1. raw \in [Slots -> Tags] /\ pts \in [Slots -> Tags] /\ NoJob \in Jobs
    BY DEF Init, Tags, NoJob, Jobs
  <2>2. hb \in [Handlers -> Seq(Slots)] /\ job \in [Handlers -> Jobs] /\ dq \in Seq(Slots)
    BY <2>1 DEF Init
  <2>3. held \in Slots \cup {NoIdx} /\ rr \in 0..NThreads
    BY DEF Init
  <2>4. /\ pktIndex \in 0..MaxPackets /\ packetNum \in 0..MaxPackets /\ count \in Nat
        /\ pc \in RunPcs /\ split \in AllKinds
    BY DEF Init, RunPcs, AllKinds
  <2>5. inline \in BOOLEAN /\ running \in BOOLEAN /\ lateWork \in BOOLEAN
    BY DEF Init
  <2> QED
    BY <2>1, <2>2, <2>3, <2>4, <2>5 DEF TypeOK
<1>2. RunInv /\ QueueInv
  BY DEF Init, RightSizes, RunInv, QueueInv, FirstQueued, NoIdx, Slots
<1>3. BufferInv /\ JobInv
  BY DEF Init, BufferInv, JobInv, NoJob
<1>4. CountInv
  <2>1. Converted = {}
    BY DEF Init, Converted
  <2> QED
    BY <2>1, FS_EmptySet DEF Init, CountInv
<1> QED
  BY <1>1, <1>2, <1>3, <1>4 DEF PipelineInv, PartsInv

\* Steps of Run() that move its program counter and leave the data alone.
LEMMA QuietSteps ==
  ASSUME RightSizes, PipelineInv, DecodeSplit \/ Publish \/ ExitLoop \/ StopRun
  PROVE  PipelineInv'
<1> USE PipelineAssumption
<1>1. UNCHANGED <<inline, pktIndex, packetNum, lateWork, raw, pts, count, queueVars, job>>
  BY DEF DecodeSplit, Publish, ExitLoop, StopRun
<1>2. TypeOK'
  BY <1>1 DEF PipelineInv, TypeOK, queueVars, DecodeSplit, Publish, ExitLoop, StopRun, RunPcs, AllKinds
<1>3. Converted' = Converted /\ FirstQueued' = FirstQueued
  BY <1>1 DEF Converted, FirstQueued, queueVars
<1>4. RunInv'
  BY <1>1 DEF PipelineInv, PartsInv, RunInv, DecodeSplit, Publish, ExitLoop, StopRun, RightSizes
<1>5. QueueInv' /\ BufferInv' /\ JobInv'
  <2>1. inline' = inline /\ pts' = pts /\ pktIndex' = pktIndex /\ dq' = dq /\ held' = held /\ hb' = hb /\ job' = job
    BY <1>1 DEF queueVars
  <2>2. QueueInv'
    BY <2>1, <1>3 DEF PipelineInv, PartsInv, QueueInv
  <2>3. BufferInv'
    BY <2>1, <1>3 DEF PipelineInv, PartsInv, BufferInv
  <2>4. JobInv'
    BY <2>1, <1>3 DEF PipelineInv, PartsInv, JobInv
  <2> QED
    BY <2>2, <2>3, <2>4
<1>6. CountInv'
  BY <1>1, <1>3 DEF PipelineInv, PartsInv, CountInv, DecodeSplit, Publish, ExitLoop, StopRun
<1> QED
  BY <1>2, <1>4, <1>5, <1>6 DEF PipelineInv, PartsInv

\* The poll of ComputeXYZIComplete succeeds only when every slot is converted.
LEMMA WaitDoneStep == ASSUME RightSizes, PipelineInv, WaitDone PROVE PipelineInv'
<1> USE PipelineAssumption
<1>0. UNCHANGED <<inline, pktIndex, packetNum, raw, pts, queueVars, job>>
  BY DEF WaitDone
<1>1. TypeOK'
  BY <1>0 DEF WaitDone, PipelineInv, TypeOK, queueVars, RunPcs
<1>2. Converted' = Converted /\ FirstQueued' = FirstQueued
  BY <1>0 DEF Converted, FirstQueued, queueVars
<1>3. RunInv'
  BY <1>0 DEF WaitDone, PipelineInv, PartsInv, RunInv
<1>4. QueueInv' /\ BufferInv' /\ JobInv'
  <2>1. QueueInv'
    BY <1>0, <1>2 DEF PipelineInv, PartsInv, QueueInv, queueVars
  <2>2. BufferInv'
    BY <1>0, <1>2 DEF PipelineInv, PartsInv, BufferInv, queueVars
  <2>3. JobInv'
    BY <1>0, <1>2 DEF PipelineInv, PartsInv, JobInv, queueVars
  <2> QED
    BY <2>1, <2>2, <2>3
<1>5. Cardinality(Converted) = pktIndex
  BY DEF WaitDone, PipelineInv, PartsInv, CountInv, ComputeXYZIComplete
<1>6. Converted = 0..(pktIndex - 1)
  BY <1>5, CountFull DEF PipelineInv
<1>7. CountInv'
  BY <1>0, <1>2, <1>6 DEF WaitDone, PipelineInv, PartsInv, CountInv
<1> QED
  BY <1>1, <1>3, <1>4, <1>7 DEF PipelineInv, PartsInv

\* Zeroing the counter is harmless: no conversion is left that could advance it.
LEMMA ZeroCountStep == ASSUME RightSizes, PipelineInv, ZeroCount PROVE PipelineInv'
<1> USE PipelineAssumption
<1>0. UNCHANGED <<inline, pktIndex, packetNum, raw, pts, queueVars, job>>
  BY DEF ZeroCount
<1>1. TypeOK'
  BY <1>0 DEF ZeroCount, PipelineInv, TypeOK, queueVars, RunPcs
<1>2. Converted' = Converted /\ FirstQueued' = FirstQueued
  BY <1>0 DEF Converted, FirstQueued, queueVars
<1>3. RunInv'
  BY <1>0 DEF ZeroCount, PipelineInv, PartsInv, RunInv
<1>4. QueueInv' /\ BufferInv' /\ JobInv'
  <2>1. QueueInv'
    BY <1>0, <1>2 DEF PipelineInv, PartsInv, QueueInv, queueVars
  <2>2. BufferInv'
    BY <1>0, <1>2 DEF PipelineInv, PartsInv, BufferInv, queueVars
  <2>3. JobInv'
    BY <1>0, <1>2 DEF PipelineInv, PartsInv, JobInv, queueVars
  <2> QED
    BY <2>1, <2>2, <2>3
<1>5. CountInv'
  BY <1>0, <1>2 DEF ZeroCount, PipelineInv, PartsInv, CountInv
<1> QED
  BY <1>1, <1>3, <1>4, <1>5 DEF PipelineInv, PartsInv

\* Update and resetFrame start a frame in which nothing is stored or in work.
LEMMA UpdateFrameStep == ASSUME RightSizes, PipelineInv, UpdateFrame PROVE PipelineInv'
<1> USE PipelineAssumption
<1>1. Converted = 0..(pktIndex - 1)
  BY DEF UpdateFrame, PipelineInv, PartsInv, CountInv
<1>2. /\ dq = <<>> /\ held = NoIdx
      /\ \A h \in Handlers : hb[h] = <<>> /\ job[h] = NoJob
  BY <1>1, Drained DEF PipelineInv
<1>3. /\ UNCHANGED <<inline, running, split, lateWork, count, dq, held, hb, rr>>
      /\ pktIndex' = 0 /\ packetNum' = 0
      /\ raw' = [i \in Slots |-> "old"] /\ pts' = [i \in Slots |-> "old"]
      /\ pc \in {"update"} /\ pc' \in {"recv", "redecode"}
      /\ pc' = "redecode" => split # "splitTimeout"
  BY DEF UpdateFrame, AgeFrame, Aged, queueVars
<1>j. job' = [h \in Handlers |-> NoJob] /\ NoJob \in Jobs
  BY <1>2 DEF UpdateFrame, AgeFrame, NoJob, Jobs, Tags
<1>4. TypeOK'
  BY <1>3, <1>j DEF PipelineInv, TypeOK, RunPcs, Tags
<1>5. RunInv'
  BY <1>3 DEF PipelineInv, PartsInv, RunInv, TypeOK, AllKinds
<1>6. FirstQueued' = 0
  <2>1. held' = NoIdx /\ Len(dq') = 0
    BY <1>2, <1>3
  <2>2. FirstQueued' = pktIndex' - Len(dq') - 0
    BY <2>1 DEF FirstQueued
  <2> QED
    BY <2>1, <2>2, <1>3
<1>7. QueueInv'
  BY <1>2, <1>3, <1>6 DEF QueueInv
<1>8. BufferInv' /\ JobInv'
  BY <1>2, <1>3, <1>j DEF BufferInv, JobInv
<1>9. CountInv'
  <2>1. Converted' = {}
    BY <1>3 DEF Converted
  <2> QED
    BY <2>1, <1>3, FS_EmptySet DEF PipelineInv, PartsInv, CountInv
<1> QED
  BY <1>4, <1>5, <1>7, <1>8, <1>9 DEF PipelineInv, PartsInv

\* An index enters the decoded queue at its end: the work of others is untouched.
LEMMA Enqueue ==
  ASSUME PipelineInv, dq' = Append(dq, pktIndex), pktIndex' = pktIndex + 1,
         UNCHANGED <<inline, pts, held, hb, job>>
  PROVE  /\ dq' \in Seq(Slots)
         /\ Converted' = Converted
         /\ QueueInv' /\ BufferInv' /\ JobInv'
<1> USE PipelineAssumption
<1>1. /\ pktIndex \in Nat /\ pktIndex \in Slots /\ dq \in Seq(Slots)
      /\ Len(dq) \in Nat /\ held \in Slots \cup {NoIdx}
  BY DEF PipelineInv, TypeOK, PartsInv, RunInv, Slots
<1>2. /\ dq' \in Seq(Slots) /\ Len(dq') = Len(dq) + 1
      /\ dq'[Len(dq) + 1] = pktIndex
      /\ \A i \in 1..Len(dq) : dq'[i] = dq[i]
  BY <1>1, AppendFacts
<1>3. FirstQueued' = FirstQueued /\ FirstQueued \in Int /\ FirstQueued <= pktIndex
  BY <1>1, <1>2 DEF FirstQueued
<1>4. Converted' = Converted
  <2>1. pts[pktIndex] = "old"
    BY <1>1, <1>3 DEF PipelineInv, PartsInv, QueueInv
  <2>2. 0..(pktIndex' - 1) = (0..(pktIndex - 1)) \cup {pktIndex}
    BY <1>1
  <2> QED
    BY <2>1, <2>2 DEF Converted
<1>5. QueueInv'
  <2>1. \A i \in 1..Len(dq') : dq'[i] = pktIndex' - Len(dq') + i - 1
    <3> SUFFICES ASSUME NEW i \in 1..Len(dq') PROVE dq'[i] = pktIndex' - Len(dq') + i - 1
      OBVIOUS
    <3>1. CASE i \in 1..Len(dq)
      BY <3>1, <1>1, <1>2 DEF PipelineInv, PartsInv, QueueInv
    <3>2. CASE i = Len(dq) + 1
      BY <3>2, <1>1, <1>2
    <3> QED
      BY <3>1, <3>2, <1>1, <1>2
  <2> QED
    BY <2>1, <1>3 DEF PipelineInv, PartsInv, QueueInv
<1>6. BufferInv' /\ JobInv'
  BY <1>3 DEF PipelineInv, PartsInv, BufferInv, JobInv
<1> QED
  BY <1>2, <1>4, <1>5, <1>6

\* Storing a packet of the scan keeps the invariant: its slot is queued once.
LEMMA DecodeStoreStep == ASSUME RightSizes, PipelineInv, DecodeStore, pktIndex + 1 < MaxPackets PROVE PipelineInv'
<1> USE PipelineAssumption
<1>1. /\ pktIndex \in Nat /\ packetNum = pktIndex /\ pktIndex \in Slots
      /\ pktIndex + 1 < MaxPackets /\ pktIndex + 1 # pktIndex
  BY DEF DecodeStore, PipelineInv, TypeOK, PartsInv, RunInv, Slots
<1>2. /\ UNCHANGED <<inline, pc, running, split, lateWork, pts, count, held, hb, rr, job>>
      /\ pc = "recv"
      /\ dq' = Append(dq, pktIndex) /\ pktIndex' = pktIndex + 1 /\ packetNum' = pktIndex + 1
      /\ raw' = [raw EXCEPT ![pktIndex] = "new"]
  BY <1>1 DEF DecodeStore
<1>3. dq' \in Seq(Slots) /\ Converted' = Converted /\ QueueInv' /\ BufferInv' /\ JobInv'
  BY <1>2, Enqueue
<1>4. TypeOK'
  <2>1. raw' \in [Slots -> Tags]
    BY <1>2 DEF PipelineInv, TypeOK, Tags
  <2>2. pktIndex' \in 0..MaxPackets /\ packetNum' \in 0..MaxPackets
    BY <1>1, <1>2
  <2> QED
    BY <1>2, <1>3, <2>1, <2>2 DEF PipelineInv, TypeOK
<1>5. RunInv'
  BY <1>1, <1>2 DEF PipelineInv, TypeOK, PartsInv, RunInv, Slots
<1>6. CountInv'
  BY <1>2, <1>3 DEF PipelineInv, PartsInv, CountInv
<1> QED
  BY <1>3, <1>4, <1>5, <1>6 DEF PipelineInv, PartsInv

\* The packet that opened the scan becomes slot 0 of the new frame, queued once.
LEMMA RedecodeStep == ASSUME RightSizes, PipelineInv, Redecode PROVE PipelineInv'
<1> USE PipelineAssumption
<1>1. pktIndex = 0 /\ packetNum = 0 /\ split = "split" /\ pc = "redecode" /\ 0 \in Slots
  BY DEF Redecode, PipelineInv, PartsInv, RunInv, Slots
<1>2. /\ UNCHANGED <<inline, running, split, lateWork, pts, count, held, hb, rr, job>>
      /\ dq' = Append(dq, pktIndex) /\ pktIndex' = pktIndex + 1 /\ packetNum' = 1
      /\ raw' = [raw EXCEPT ![0] = "new"] /\ pc' = "recv"
  BY <1>1 DEF Redecode
<1>3. dq' \in Seq(Slots) /\ Converted' = Converted /\ QueueInv' /\ BufferInv' /\ JobInv'
  BY <1>2, Enqueue
<1>4. TypeOK'
  <2>1. raw' \in [Slots -> Tags] /\ pc' \in RunPcs
    BY <1>2 DEF PipelineInv, TypeOK, Tags, RunPcs
  <2>2. pktIndex' \in 0..MaxPackets /\ packetNum' \in 0..MaxPackets
    BY <1>1, <1>2
  <2> QED
    BY <1>2, <1>3, <2>1, <2>2 DEF PipelineInv, TypeOK
<1>5. RunInv'
  BY <1>1, <1>2 DEF PipelineInv, TypeOK, PartsInv, RunInv, Slots
<1>6. CountInv'
  BY <1>1, <1>2, <1>3 DEF PipelineInv, PartsInv, CountInv
<1> QED
  BY <1>3, <1>4, <1>5, <1>6 DEF PipelineInv, PartsInv

\* The head of the decoded queue is the first index that nobody has taken.
LEMMA QueueHead ==
  ASSUME PipelineInv, dq # <<>>, held = NoIdx
  PROVE  /\ Head(dq) = FirstQueued /\ FirstQueued \in 0..(pktIndex - 1) /\ FirstQueued \in Slots
         /\ pts[FirstQueued] = "old" /\ raw[FirstQueued] = "new"
         /\ Tail(dq) \in Seq(Slots) /\ Len(Tail(dq)) = Len(dq) - 1
         /\ FirstQueued = pktIndex - Len(dq)
         /\ \A i \in 1..Len(Tail(dq)) : Tail(dq)[i] = pktIndex - Len(Tail(dq)) + i - 1
<1> USE PipelineAssumption
<1>1. /\ dq \in Seq(Slots) /\ pktIndex \in Nat /\ pktIndex < MaxPackets
  BY DEF PipelineInv, TypeOK, PartsInv, RunInv
<1>2. /\ Len(dq) \in Nat /\ Len(dq) >= 1 /\ Head(dq) = dq[1]
      /\ Tail(dq) \in Seq(Slots) /\ Len(Tail(dq)) = Len(dq) - 1
      /\ \A i \in 1..Len(Tail(dq)) : Tail(dq)[i] = dq[i + 1]
  BY <1>1, TailFacts
<1>3. FirstQueued = pktIndex - Len(dq)
  BY <1>1, <1>2 DEF FirstQueued
<1>4. FirstQueued >= 0 /\ \A i \in 1..Len(dq) : dq[i] = pktIndex - Len(dq) + i - 1
  BY DEF PipelineInv, PartsInv, QueueInv
<1>5. FirstQueued \in 0..(pktIndex - 1) /\ FirstQueued \in Slots
  BY <1>1, <1>2, <1>3, <1>4 DEF Slots
<1>6. pts[FirstQueued] = "old"
  BY <1>5 DEF PipelineInv, PartsInv, QueueInv
<1>7. raw[FirstQueued] = "new"
  BY <1>5 DEF PipelineInv, PartsInv, RunInv
<1>8. 1 \in 1..Len(dq) /\ dq[1] = pktIndex - Len(dq) + 1 - 1
  BY <1>1, <1>2, <1>4
<1>9. ASSUME NEW i \in 1..Len(Tail(dq))
      PROVE  Tail(dq)[i] = pktIndex - Len(Tail(dq)) + i - 1
  <2>1. i + 1 \in 1..Len(dq)
    BY <1>2
  <2> QED
    BY <2>1, <1>1, <1>2, <1>4
<1> QED
  BY <1>1, <1>2, <1>3, <1>5, <1>6, <1>7, <1>8, <1>9

\* ParserThread takes the head of the decoded queue: the index changes its owner.
LEMMA ParserPopStep == ASSUME RightSizes, PipelineInv, ParserPop PROVE PipelineInv'
<1> USE PipelineAssumption
<1>1. /\ UNCHANGED <<inline, pc, running, split, pktIndex, packetNum, lateWork>>
      /\ UNCHANGED <<raw, pts, count, hb, rr, job>>
      /\ dq # <<>> /\ held = NoIdx /\ held' = Head(dq) /\ dq' = Tail(dq) /\ ~inline
  BY DEF ParserPop, runVars
<1>2. /\ held' = FirstQueued /\ FirstQueued \in Slots /\ FirstQueued = pktIndex - Len(dq)
      /\ dq' \in Seq(Slots) /\ Len(dq') = Len(dq) - 1
      /\ \A i \in 1..Len(dq') : dq'[i] = pktIndex - Len(dq') + i - 1
  BY <1>1, QueueHead
<1>3. held' # NoIdx
  BY <1>2 DEF Slots, NoIdx
<1>4. FirstQueued' = FirstQueued
  <2>1. pktIndex \in Nat /\ Len(dq) \in Nat
    BY DEF PipelineInv, TypeOK
  <2>2. FirstQueued' = pktIndex' - Len(dq') - 1
    BY <1>3 DEF FirstQueued
  <2> QED
    BY <2>1, <2>2, <1>1, <1>2
<1>5. TypeOK'
  BY <1>1, <1>2 DEF PipelineInv, TypeOK
<1>6. Converted' = Converted
  BY <1>1 DEF Converted
<1>7. RunInv' /\ CountInv'
  BY <1>1, <1>6 DEF PipelineInv, PartsInv, RunInv, CountInv
<1>8. QueueInv'
  BY <1>1, <1>2, <1>4 DEF PipelineInv, PartsInv, QueueInv
<1>9. BufferInv' /\ JobInv'
  BY <1>1, <1>4 DEF PipelineInv, PartsInv, BufferInv, JobInv
<1> QED
  BY <1>5, <1>7, <1>8, <1>9 DEF PipelineInv, PartsInv

\* A thread takes up the slot i, which the process thread has stored.
LEMMA JobTyped ==
  ASSUME PipelineInv, NEW h \in Handlers, NEW i \in Slots,
         job' = [job EXCEPT ![h] = [idx |-> i, tag |-> raw[i]]]
  PROVE  /\ job' \in [Handlers -> Jobs]
         /\ job'[h] = [idx |-> i, tag |-> raw[i]] /\ job'[h] # NoJob
         /\ \A g \in Handlers \ {h} : job'[g] = job[g]
<1>1. raw[i] \in Tags /\ job \in [Handlers -> Jobs]
  BY DEF PipelineInv, TypeOK
<1>2. [idx |-> i, tag |-> raw[i]] \in Jobs
  BY <1>1 DEF Jobs
<1>3. i # NoIdx
  BY DEF Slots, NoIdx
<1> QED
  BY <1>1, <1>2, <1>3 DEF NoJob

\* With one thread, ParserThread starts to convert the head of the decoded queue.
LEMMA ParserComputeStep == ASSUME RightSizes, PipelineInv, ParserCompute PROVE PipelineInv'
<1> USE PipelineAssumption
<1> DEFINE n == FirstQueued
<1>1. /\ UNCHANGED <<inline, pc, running, split, pktIndex, packetNum, lateWork>>
      /\ UNCHANGED <<raw, pts, count, held, hb, rr>>
      /\ dq # <<>> /\ dq' = Tail(dq) /\ inline /\ job[0] = NoJob
      /\ job' = [job EXCEPT ![0] = [idx |-> Head(dq), tag |-> raw[Head(dq)]]]
  BY DEF ParserCompute, runVars, Begin
<1>2. held = NoIdx /\ 0 \in Handlers /\ \A h \in Handlers \ {0} : job'[h] = job[h]
  BY <1>1 DEF PipelineInv, TypeOK, PartsInv, QueueInv, Handlers
<1>3. /\ Head(dq) = n /\ n \in Slots /\ n = pktIndex - Len(dq) /\ n \in 0..(pktIndex - 1)
      /\ raw[n] = "new" /\ pts[n] = "old"
      /\ dq' \in Seq(Slots) /\ Len(dq') = Len(dq) - 1
      /\ \A i \in 1..Len(dq') : dq'[i] = pktIndex - Len(dq') + i - 1
  BY <1>1, <1>2, QueueHead
<1>4. FirstQueued' = n + 1
  <2>1. pktIndex \in Nat /\ Len(dq) \in Nat
    BY DEF PipelineInv, TypeOK
  <2>2. FirstQueued' = pktIndex' - Len(dq') - 0
    BY <1>1, <1>2 DEF FirstQueued
  <2> QED
    BY <2>1, <2>2, <1>1, <1>3
<1>5. /\ job' \in [Handlers -> Jobs]
      /\ job'[0] = [idx |-> n, tag |-> "new"] /\ job'[0] # NoJob
  BY <1>1, <1>2, <1>3, JobTyped
<1> HIDE DEF n
<1>6. TypeOK'
  BY <1>1, <1>3, <1>5 DEF PipelineInv, TypeOK
<1>7. Converted' = Converted
  BY <1>1 DEF Converted
<1>8. RunInv' /\ CountInv'
  BY <1>1, <1>7 DEF PipelineInv, PartsInv, RunInv, CountInv
<1>9. QueueInv'
  BY <1>1, <1>2, <1>3, <1>4 DEF PipelineInv, PartsInv, QueueInv, Slots, n
<1>10. BufferInv'
  BY <1>1, <1>3, <1>4 DEF PipelineInv, PartsInv, BufferInv, n
<1>11. JobInv'
  <2>1. \A h \in Handlers : job'[h] # NoJob =>
          /\ job'[h].idx \in 0..(FirstQueued' - 1) /\ job'[h].tag = "new"
          /\ pts'[job'[h].idx] = "old"
    BY <1>1, <1>2, <1>3, <1>4, <1>5 DEF PipelineInv, PartsInv, JobInv, n
  <2>2. \A h \in Handlers \ {0} : job[h] # NoJob => job[h].idx # n
    BY <1>3 DEF PipelineInv, PartsInv, JobInv, n
  <2>3. \A g, h \in Handlers : g # h /\ job'[g] # NoJob /\ job'[h] # NoJob
          => job'[g].idx # job'[h].idx
    BY <2>2, <1>2, <1>5 DEF PipelineInv, PartsInv, JobInv
  <2>4. \A h \in Handlers : \A j \in 1..Len(hb[h]) : hb[h][j] # n
    BY <1>3 DEF PipelineInv, PartsInv, BufferInv, n
  <2>5. \A g, h \in Handlers : \A j \in 1..Len(hb'[h]) :
          job'[g] # NoJob => hb'[h][j] # job'[g].idx
    BY <2>4, <1>1, <1>2, <1>5 DEF PipelineInv, PartsInv, JobInv
  <2> QED
    BY <2>1, <2>3, <2>5 DEF JobInv
<1> QED
  BY <1>6, <1>8, <1>9, <1>10, <1>11 DEF PipelineInv, PartsInv

\* The buffer of a handle thread never reaches its limit within one frame.
LEMMA BufferRoom ==
  ASSUME RightSizes, PipelineInv, NEW h \in Handlers
  PROVE  Len(hb[h]) \in Nat /\ Len(hb[h]) + 1 <= HandleCap
<1> USE PipelineAssumption
<1>1. /\ Len(hb[h]) \in Nat /\ FirstQueued \in Int /\ 0 <= FirstQueued
      /\ FirstQueued <= pktIndex /\ pktIndex \in Nat /\ pktIndex < MaxPackets
  BY DEF PipelineInv, TypeOK, PartsInv, RunInv, QueueInv, FirstQueued
<1>2. CASE Len(hb[h]) = 0
  BY <1>1, <1>2
<1>3. CASE Len(hb[h]) # 0
  <2>1. Len(hb[h]) \in 1..Len(hb[h])
    BY <1>1, <1>3
  <2>2. hb[h][Len(hb[h])] \in (Len(hb[h]) - 1)..(FirstQueued - 1)
    BY <2>1 DEF PipelineInv, PartsInv, BufferInv
  <2>3. Len(hb[h]) - 1 <= FirstQueued - 1
    BY <2>2, <1>1
  <2> QED
    BY <2>3, <1>1 DEF RightSizes
<1> QED
  BY <1>2, <1>3

\* ParserThread hands its index over, and the buffer has room for it.
LEMMA ParserRouteStep == ASSUME RightSizes, PipelineInv, ParserRoute PROVE PipelineInv'
<1> USE PipelineAssumption
<1> DEFINE n == FirstQueued
           h == rr % NThreads
<1>1. h \in Handlers /\ h + 1 \in 0..NThreads
  BY DEF PipelineInv, TypeOK, Handlers
<1>2. /\ hb[h] \in Seq(Slots) /\ held = n /\ n \in Slots /\ n \in 0..(pktIndex - 1)
      /\ pts[n] = "old"
  <2>1. hb[h] \in Seq(Slots)
    BY <1>1 DEF PipelineInv, TypeOK
  <2>2. held = n /\ held \in Slots
    BY DEF ParserRoute, NextHandler, PipelineInv, TypeOK, PartsInv, QueueInv
  <2>3. n \in 0..(pktIndex - 1)
    <3>1. pktIndex \in Nat /\ Len(dq) \in Nat
      BY DEF PipelineInv, TypeOK
    <3>2. n = pktIndex - Len(dq) - 1
      BY DEF ParserRoute, NextHandler, FirstQueued
    <3>3. n \in Nat
      BY <2>2 DEF Slots
    <3> QED
      BY <3>1, <3>2, <3>3
  <2>4. pts[n] = "old"
    <3>1. \A i \in Slots : i >= FirstQueued => pts[i] = "old"
      BY DEF PipelineInv, PartsInv, QueueInv
    <3>2. n \in Slots /\ n \in Int
      BY <2>2 DEF Slots
    <3> QED
      BY <3>1, <3>2
  <2> QED
    BY <2>1, <2>2, <2>3, <2>4
<1> HIDE DEF n, h
<1>3. Capped(Append(hb[h], held)) = Append(hb[h], held)
  <2>1. Len(hb[h]) \in Nat /\ Len(hb[h]) + 1 <= HandleCap
    BY <1>1, BufferRoom
  <2>2. Len(Append(hb[h], held)) = Len(hb[h]) + 1
    BY <1>2, AppendFacts
  <2> QED
    BY <2>1, <2>2 DEF Capped
<1>4. /\ UNCHANGED <<inline, pc, running, split, pktIndex, packetNum, lateWork>>
      /\ UNCHANGED <<raw, pts, count, dq, job>>
      /\ hb' = [hb EXCEPT ![h] = Append(hb[h], n)] /\ rr' = h + 1
      /\ held # NoIdx /\ held' = NoIdx
  BY <1>2, <1>3 DEF ParserRoute, NextHandler, runVars, h
<1>5. /\ hb' \in [Handlers -> Seq(Slots)]
      /\ \A g \in Handlers \ {h} : hb'[g] = hb[g]
      /\ Len(hb[h]) \in Nat /\ Len(hb'[h]) = Len(hb[h]) + 1
      /\ hb'[h][Len(hb[h]) + 1] = n
      /\ \A i \in 1..Len(hb[h]) : hb'[h][i] = hb[h][i]
  <2>1. hb'[h] = Append(hb[h], n) /\ \A g \in Handlers \ {h} : hb'[g] = hb[g]
    BY <1>1, <1>4 DEF PipelineInv, TypeOK
  <2>2. Append(hb[h], n) \in Seq(Slots)
    BY <1>2, AppendFacts
  <2>3. hb' \in [Handlers -> Seq(Slots)]
    BY <2>2, <1>4 DEF PipelineInv, TypeOK
  <2> QED
    BY <2>1, <2>3, <1>2, AppendFacts
<1>6. FirstQueued' = n + 1 /\ n \in Int
  <2>1. pktIndex \in Nat /\ Len(dq) \in Nat
    BY DEF PipelineInv, TypeOK
  <2>2. n = pktIndex - Len(dq) - 1 /\ FirstQueued' = pktIndex' - Len(dq') - 0
    BY <1>4 DEF FirstQueued, n
  <2> QED
    BY <2>1, <2>2, <1>4
<1>7. TypeOK'
  BY <1>1, <1>4, <1>5 DEF PipelineInv, TypeOK
<1>8. Converted' = Converted
  BY <1>4 DEF Converted
<1>9. RunInv' /\ CountInv'
  BY <1>4, <1>8 DEF PipelineInv, PartsInv, RunInv, CountInv
<1>10. QueueInv'
  <2>1. FirstQueued' >= 0 /\ \A i \in Slots : i >= FirstQueued' => pts'[i] = "old"
    BY <1>2, <1>4, <1>6 DEF PipelineInv, PartsInv, QueueInv, Slots, n
  <2> QED
    BY <2>1, <1>4 DEF PipelineInv, PartsInv, QueueInv
<1>11. BufferInv'
  <2>1. ASSUME NEW g \in Handlers, NEW j \in 1..Len(hb'[g])
        PROVE  /\ hb'[g][j] \in (j - 1)..(FirstQueued' - 1)
               /\ pts'[hb'[g][j]] = "old"
    <3>1. CASE g = h /\ j = Len(hb[h]) + 1
      <4>1. hb'[g][j] = n
        BY <3>1, <1>5
      <4>2. Len(hb[h]) <= n
        <5>1. CASE Len(hb[h]) = 0
          BY <5>1, <1>2
        <5>2. CASE Len(hb[h]) # 0
          <6>1. Len(hb[h]) \in 1..Len(hb[h])
            BY <5>2, <1>5
          <6>2. hb[h][Len(hb[h])] \in (Len(hb[h]) - 1)..(n - 1)
            BY <6>1, <1>1 DEF PipelineInv, PartsInv, BufferInv, n
          <6> QED
            BY <6>2, <1>5, <1>6
        <5> QED
          BY <5>1, <5>2
      <4> QED
        BY <4>1, <4>2, <3>1, <1>2, <1>4, <1>5, <1>6
    <3>2. CASE ~(g = h /\ j = Len(hb[h]) + 1)
      <4>1. j \in 1..Len(hb[g]) /\ hb'[g][j] = hb[g][j]
        BY <3>2, <1>5
      <4>2. hb[g][j] \in (j - 1)..(n - 1) /\ pts[hb[g][j]] = "old"
        BY <4>1 DEF PipelineInv, PartsInv, BufferInv, n
      <4> QED
        BY <4>1, <4>2, <1>4, <1>6
    <3> QED
      BY <3>1, <3>2
  <2>2. ASSUME NEW g \in Handlers, NEW j \in 1..Len(hb'[g]), ~(g = h /\ j = Len(hb[h]) + 1)
        PROVE  j \in 1..Len(hb[g]) /\ hb'[g][j] = hb[g][j] /\ hb[g][j] < n
    <3>1. j \in 1..Len(hb[g]) /\ hb'[g][j] = hb[g][j]
      BY <2>2, <1>5
    <3>2. hb[g][j] \in (j - 1)..(n - 1)
      BY <3>1 DEF PipelineInv, PartsInv, BufferInv, n
    <3> QED
      BY <3>1, <3>2, <1>6
  <2>3. ASSUME NEW g \in Handlers, NEW j \in 1..Len(hb'[g]), NEW k \in 1..Len(hb'[g]), j < k
        PROVE  hb'[g][j] < hb'[g][k]
    <3>1. ~(g = h /\ j = Len(hb[h]) + 1)
      BY <2>3, <1>5
    <3>2. j \in 1..Len(hb[g]) /\ hb'[g][j] = hb[g][j] /\ hb[g][j] < n
      BY <3>1, <2>2
    <3>3. CASE g = h /\ k = Len(hb[h]) + 1
      BY <3>2, <3>3, <1>5
    <3>4. CASE ~(g = h /\ k = Len(hb[h]) + 1)
      BY <3>2, <3>4, <2>2, <2>3 DEF PipelineInv, PartsInv, BufferInv
    <3> QED
      BY <3>3, <3>4
  <2>4. ASSUME NEW f \in Handlers, NEW g \in Handlers, f # g,
               NEW j \in 1..Len(hb'[f]), NEW k \in 1..Len(hb'[g])
        PROVE  hb'[f][j] # hb'[g][k]
    <3>1. CASE f = h /\ j = Len(hb[h]) + 1
      <4>1. hb'[f][j] = n
        BY <3>1, <1>5
      <4>2. hb'[g][k] < n
        BY <2>2, <2>4, <3>1
      <4> QED
        BY <4>1, <4>2, <1>6
    <3>2. CASE g = h /\ k = Len(hb[h]) + 1
      <4>1. hb'[g][k] = n
        BY <3>2, <1>5
      <4>2. hb'[f][j] < n
        BY <2>2, <2>4, <3>2
      <4> QED
        BY <4>1, <4>2, <1>6
    <3>3. CASE ~(f = h /\ j = Len(hb[h]) + 1) /\ ~(g = h /\ k = Len(hb[h]) + 1)
      BY <2>2, <2>4, <3>3, SMTT(30) DEF PipelineInv, PartsInv, BufferInv
    <3> QED
      BY <3>1, <3>2, <3>3
  <2> QED
    BY <2>1, <2>3, <2>4 DEF BufferInv
<1>12. JobInv'
  <2>1. ASSUME NEW g \in Handlers, job[g] # NoJob
        PROVE  job[g].idx \in 0..(n - 1) /\ job[g].idx < n
    BY <2>1, <1>6 DEF PipelineInv, PartsInv, JobInv, n
  <2>2. ASSUME NEW g \in Handlers, NEW f \in Handlers, NEW j \in 1..Len(hb'[f]), job[g] # NoJob
        PROVE  hb'[f][j] # job[g].idx
    <3>1. CASE f = h /\ j = Len(hb[h]) + 1
      BY <3>1, <2>1, <2>2, <1>5, <1>6
    <3>2. CASE ~(f = h /\ j = Len(hb[h]) + 1)
      <4>1. j \in 1..Len(hb[f]) /\ hb'[f][j] = hb[f][j]
        BY <3>2, <1>5
      <4> QED
        BY <4>1, <2>2 DEF PipelineInv, PartsInv, JobInv
    <3> QED
      BY <3>1, <3>2
  <2> QED
    BY <2>1, <2>2, <1>4, <1>6 DEF PipelineInv, PartsInv, JobInv
<1> QED
  BY <1>7, <1>9, <1>10, <1>11, <1>12 DEF PipelineInv, PartsInv

\* A handle thread takes the oldest index of its buffer and starts to convert it.
LEMMA HandlerPopStep ==
  ASSUME RightSizes, PipelineInv, NEW h \in Handlers, HandlerPop(h) PROVE PipelineInv'
<1> USE PipelineAssumption
<1> DEFINE i == Head(hb[h])
<1>1. /\ hb[h] \in Seq(Slots) /\ hb[h] # <<>> /\ job[h] = NoJob
  BY DEF HandlerPop, PipelineInv, TypeOK
<1>2. /\ Len(hb[h]) \in Nat /\ Len(hb[h]) >= 1 /\ i = hb[h][1] /\ i \in Slots
      /\ Tail(hb[h]) \in Seq(Slots) /\ Len(Tail(hb[h])) = Len(hb[h]) - 1
      /\ \A j \in 1..Len(Tail(hb[h])) : Tail(hb[h])[j] = hb[h][j + 1]
  BY <1>1, TailFacts
<1>3. 1 \in 1..Len(hb[h])
  BY <1>2
<1>4. i \in 0..(FirstQueued - 1) /\ pts[i] = "old"
  BY <1>2, <1>3 DEF PipelineInv, PartsInv, BufferInv
<1>5. raw[i] = "new"
  <2>1. pktIndex \in Nat /\ Len(dq) \in Nat /\ FirstQueued <= pktIndex /\ FirstQueued \in Int
    BY DEF PipelineInv, TypeOK, FirstQueued
  <2> QED
    BY <2>1, <1>4 DEF PipelineInv, PartsInv, RunInv
<1> HIDE DEF i
<1>6. /\ UNCHANGED <<inline, pc, running, split, pktIndex, packetNum, lateWork>>
      /\ UNCHANGED <<raw, pts, count, dq, held, rr>>
      /\ hb' = [hb EXCEPT ![h] = Tail(hb[h])]
      /\ job' = [job EXCEPT ![h] = [idx |-> i, tag |-> raw[i]]]
  BY DEF HandlerPop, runVars, Begin, i
<1>7. /\ job' \in [Handlers -> Jobs] /\ job'[h] = [idx |-> i, tag |-> "new"]
      /\ job'[h] # NoJob /\ \A g \in Handlers \ {h} : job'[g] = job[g]
  BY <1>2, <1>5, <1>6, JobTyped
<1>8. /\ hb' \in [Handlers -> Seq(Slots)] /\ Len(hb'[h]) = Len(hb[h]) - 1
      /\ \A j \in 1..Len(hb'[h]) : j + 1 \in 1..Len(hb[h]) /\ hb'[h][j] = hb[h][j + 1]
      /\ \A g \in Handlers \ {h} : hb'[g] = hb[g]
  <2>1. hb'[h] = Tail(hb[h]) /\ \A g \in Handlers \ {h} : hb'[g] = hb[g]
    BY <1>6 DEF PipelineInv, TypeOK
  <2>2. hb' \in [Handlers -> Seq(Slots)]
    BY <1>2, <1>6 DEF PipelineInv, TypeOK
  <2> QED
    BY <2>1, <2>2, <1>2
<1>9. FirstQueued' = FirstQueued /\ Converted' = Converted
  BY <1>6 DEF FirstQueued, Converted
<1>10. TypeOK'
  BY <1>6, <1>7, <1>8 DEF PipelineInv, TypeOK
<1>11. RunInv' /\ CountInv' /\ QueueInv'
  BY <1>6, <1>9 DEF PipelineInv, PartsInv, RunInv, CountInv, QueueInv
\* Each position of the buffers after the step is a position before it, not the head of h.
<1>12. ASSUME NEW g \in Handlers, NEW j \in 1..Len(hb'[g])
       PROVE  \E k \in 1..Len(hb[g]) :
                hb'[g][j] = hb[g][k] /\ k = (IF g = h THEN j + 1 ELSE j)
  BY <1>8
<1>13. BufferInv'
  <2>1. ASSUME NEW g \in Handlers, NEW j \in 1..Len(hb'[g])
        PROVE  hb'[g][j] \in (j - 1)..(FirstQueued' - 1) /\ pts'[hb'[g][j]] = "old"
    <3>1. PICK k \in 1..Len(hb[g]) : hb'[g][j] = hb[g][k] /\ k >= j
      BY <1>12, SMTT(60)
    <3>2. hb[g][k] \in (k - 1)..(FirstQueued - 1) /\ pts[hb[g][k]] = "old"
      BY DEF PipelineInv, PartsInv, BufferInv
    <3> QED
      BY <3>1, <3>2, <1>6, <1>9
  <2>2. ASSUME NEW g \in Handlers, NEW j \in 1..Len(hb'[g]), NEW k \in 1..Len(hb'[g]), j < k
        PROVE  hb'[g][j] < hb'[g][k]
    <3>1. CASE g = h
      <4>1. /\ j + 1 \in 1..Len(hb[g]) /\ k + 1 \in 1..Len(hb[g]) /\ j + 1 < k + 1
            /\ hb'[g][j] = hb[g][j + 1] /\ hb'[g][k] = hb[g][k + 1]
        BY <3>1, <2>2, <1>8
      <4> QED
        BY <4>1 DEF PipelineInv, PartsInv, BufferInv
    <3>2. CASE g # h
      <4>1. hb'[g] = hb[g]
        BY <3>2, <1>8
      <4> QED
        BY <4>1, <2>2 DEF PipelineInv, PartsInv, BufferInv
    <3> QED
      BY <3>1, <3>2
  <2>3. ASSUME NEW f \in Handlers, NEW g \in Handlers, f # g,
               NEW j \in 1..Len(hb'[f]), NEW k \in 1..Len(hb'[g])
        PROVE  hb'[f][j] # hb'[g][k]
    <3>1. PICK a \in 1..Len(hb[f]) : hb'[f][j] = hb[f][a]
      BY <1>12
    <3>2. PICK b \in 1..Len(hb[g]) : hb'[g][k] = hb[g][b]
      BY <1>12
    <3> QED
      BY <3>1, <3>2, <2>3 DEF PipelineInv, PartsInv, BufferInv
  <2> QED
    BY <2>1, <2>2, <2>3 DEF BufferInv
<1>14. JobInv'
  <2>1. ASSUME NEW g \in Handlers, g # h, job[g] # NoJob PROVE job[g].idx # i
    BY <2>1, <1>2, <1>3 DEF PipelineInv, PartsInv, JobInv
  <2>2. ASSUME NEW g \in Handlers, NEW j \in 1..Len(hb'[g]) PROVE hb'[g][j] # i
    <3>1. CASE g = h
      <4>1. j + 1 \in 1..Len(hb[h]) /\ hb'[h][j] = hb[h][j + 1] /\ 1 < j + 1
        BY <3>1, <1>8
      <4>2. hb[h][1] < hb[h][j + 1] /\ hb[h][1] \in 0..(FirstQueued - 1)
        BY <4>1, <1>3 DEF PipelineInv, PartsInv, BufferInv
      <4> QED
        BY <4>1, <4>2, <3>1, <1>2
    <3>2. CASE g # h
      <4>1. hb'[g] = hb[g] /\ j \in 1..Len(hb[g])
        BY <3>2, <2>2, <1>8
      <4>2. hb[h][1] # hb[g][j]
        BY <4>1, <3>2, <1>3 DEF PipelineInv, PartsInv, BufferInv
      <4> QED
        BY <4>1, <4>2, <1>2
    <3> QED
      BY <3>1, <3>2
  <2>3. ASSUME NEW g \in Handlers, NEW f \in Handlers, NEW j \in 1..Len(hb'[f]), job'[g] # NoJob
        PROVE  hb'[f][j] # job'[g].idx
    <3>1. CASE g = h
      BY <3>1, <2>2, <1>7
    <3>2. CASE g # h
      <4>1. PICK k \in 1..Len(hb[f]) : hb'[f][j] = hb[f][k]
        BY <1>12
      <4> QED
        BY <4>1, <3>2, <2>3, <1>7 DEF PipelineInv, PartsInv, JobInv
    <3> QED
      BY <3>1, <3>2
  <2>4. ASSUME NEW g \in Handlers, job'[g] # NoJob
        PROVE  job'[g].idx \in 0..(FirstQueued' - 1) /\ job'[g].tag = "new"
               /\ pts'[job'[g].idx] = "old"
    BY <2>4, <1>4, <1>6, <1>7, <1>9 DEF PipelineInv, PartsInv, JobInv
  <2>5. ASSUME NEW f \in Handlers, NEW g \in Handlers, f # g, job'[f] # NoJob, job'[g] # NoJob
        PROVE  job'[f].idx # job'[g].idx
    BY <2>1, <2>5, <1>7 DEF PipelineInv, PartsInv, JobInv
  <2> QED
    BY <2>3, <2>4, <2>5 DEF JobInv
<1> QED
  BY <1>10, <1>11, <1>13, <1>14 DEF PipelineInv, PartsInv

\* A conversion ends: its slot is converted and counted, each for the first time.
LEMMA ComputeEndStep ==
  ASSUME RightSizes, PipelineInv, NEW h \in Handlers, ComputeEnd(h) PROVE PipelineInv'
<1> USE PipelineAssumption
<1> DEFINE i == job[h].idx
<1>1. /\ job[h] # NoJob /\ i \in 0..(FirstQueued - 1) /\ pts[i] = "old" /\ job[h].tag = "new"
  BY DEF ComputeEnd, PipelineInv, PartsInv, JobInv
<1>2. /\ pktIndex \in Nat /\ pktIndex < MaxPackets /\ FirstQueued <= pktIndex
      /\ FirstQueued \in Int
  BY DEF PipelineInv, TypeOK, PartsInv, RunInv, FirstQueued
<1>3. i \in Slots /\ i \in 0..(pktIndex - 1) /\ raw[i] = "new"
  BY <1>1, <1>2 DEF PipelineInv, PartsInv, RunInv, Slots
<1>4. /\ UNCHANGED <<inline, pc, running, split, pktIndex, packetNum, lateWork>>
      /\ UNCHANGED <<raw, dq, held, hb, rr>>
      /\ pts' = [pts EXCEPT ![i] = "new"] /\ count' = count + 1
      /\ job' = [job EXCEPT ![h] = NoJob]
  BY <1>1, <1>3 DEF ComputeEnd, runVars, queueVars, FrameNumAdd
<1> HIDE DEF i
<1>5. pc \notin {"zero", "publish", "update"}
  <2>1. Converted # 0..(pktIndex - 1)
    BY <1>1, Drained DEF PipelineInv
  <2> QED
    BY <2>1 DEF PipelineInv, PartsInv, CountInv
<1>6. FirstQueued' = FirstQueued
  BY <1>4 DEF FirstQueued
<1>7. Converted' = Converted \cup {i} /\ i \notin Converted
  <2>1. \A j \in Slots : pts'[j] = IF j = i THEN "new" ELSE pts[j]
    BY <1>3, <1>4 DEF PipelineInv, TypeOK
  <2>2. \A j \in 0..(pktIndex - 1) : j \in Slots
    BY <1>2 DEF Slots
  <2> QED
    BY <2>1, <2>2, <1>1, <1>3, <1>4 DEF Converted
<1>8. /\ \A g \in Handlers \ {h} : job'[g] = job[g]
      /\ job'[h] = NoJob /\ job' \in [Handlers -> Jobs]
  <2>1. NoJob \in Jobs
    BY DEF NoJob, Jobs, Tags
  <2> QED
    BY <2>1, <1>4 DEF PipelineInv, TypeOK
<1>9. TypeOK'
  <2>1. pts' \in [Slots -> Tags]
    BY <1>4 DEF PipelineInv, TypeOK, Tags
  <2>2. count' \in Nat
    BY <1>4 DEF PipelineInv, TypeOK
  <2> QED
    BY <2>1, <2>2, <1>4, <1>8 DEF PipelineInv, TypeOK
<1>10. RunInv'
  BY <1>4 DEF PipelineInv, PartsInv, RunInv
<1>11. QueueInv'
  <2>1. \A j \in Slots : j >= FirstQueued' => pts'[j] = "old"
    <3>1. \A j \in Slots : j # i => pts'[j] = pts[j]
      BY <1>4 DEF PipelineInv, TypeOK
    <3>2. \A j \in Slots : j >= FirstQueued => j # i /\ pts[j] = "old"
      BY <1>1, <1>2 DEF PipelineInv, PartsInv, QueueInv, Slots
    <3> QED
      BY <3>1, <3>2, <1>6
  <2> QED
    BY <2>1, <1>4, <1>6 DEF PipelineInv, PartsInv, QueueInv
<1>12. BufferInv'
  <2>1. ASSUME NEW g \in Handlers, NEW j \in 1..Len(hb'[g])
        PROVE  hb'[g][j] \in (j - 1)..(FirstQueued' - 1) /\ pts'[hb'[g][j]] = "old"
    <3>1. hb[g][j] # i
      BY <1>1, <1>4 DEF PipelineInv, PartsInv, JobInv, i
    <3>2. hb[g][j] \in (j - 1)..(FirstQueued - 1) /\ pts[hb[g][j]] = "old" /\ hb[g][j] \in Slots
      BY <1>4 DEF PipelineInv, TypeOK, PartsInv, BufferInv
    <3> QED
      BY <3>1, <3>2, <1>4, <1>6 DEF PipelineInv, TypeOK
  <2>2. /\ \A g \in Handlers : \A j, k \in 1..Len(hb[g]) : j < k => hb[g][j] < hb[g][k]
        /\ \A f, g \in Handlers : \A j \in 1..Len(hb[f]), k \in 1..Len(hb[g]) :
             f # g => hb[f][j] # hb[g][k]
    BY DEF PipelineInv, PartsInv, BufferInv
  <2>3. hb' = hb
    BY <1>4
  <2> QED
    BY <2>1, <2>2, <2>3 DEF BufferInv
<1>13. JobInv'
  <2>1. ASSUME NEW g \in Handlers, job'[g] # NoJob
        PROVE  /\ g # h /\ job'[g] = job[g] /\ job[g] # NoJob /\ job[g].idx # i
               /\ job[g].idx \in Slots
    <3>1. g # h /\ job'[g] = job[g]
      BY <2>1, <1>8
    <3>2. job[g].idx # i
      BY <3>1, <2>1, <1>1 DEF PipelineInv, PartsInv, JobInv, i
    <3>3. job[g].idx \in 0..(FirstQueued - 1)
      BY <3>1, <2>1 DEF PipelineInv, PartsInv, JobInv
    <3> QED
      BY <2>1, <3>1, <3>2, <3>3, <1>2 DEF Slots
  <2>2. ASSUME NEW g \in Handlers, job'[g] # NoJob
        PROVE  job'[g].idx \in 0..(FirstQueued' - 1) /\ job'[g].tag = "new"
               /\ pts'[job'[g].idx] = "old"
    BY <2>1, <2>2, <1>4, <1>6 DEF PipelineInv, TypeOK, PartsInv, JobInv
  <2> QED
    BY <2>1, <2>2, <1>4 DEF PipelineInv, PartsInv, JobInv
<1>14. CountInv'
  <2>1. Cardinality(Converted') = Cardinality(Converted) + 1
    BY <1>7, ConvertedFinite, FS_AddElement DEF PipelineInv
  <2> QED
    BY <2>1, <1>4, <1>5 DEF PipelineInv, PartsInv, CountInv
<1> QED
  BY <1>9, <1>10, <1>11, <1>12, <1>13, <1>14 DEF PipelineInv, PartsInv
-----------------------------------------------------------------------------
\* Every step that does not fill the frame up keeps the inductive invariant: in a state that
\* obeys it, the discarding steps are not enabled.
LEMMA OrdinaryStep ==
  ASSUME RightSizes, PipelineInv, [Next]_vars, DecodeStore => pktIndex + 1 < MaxPackets PROVE PipelineInv'
<1>1. ~(ClearQueue \/ ClearHandles \/ DiscardFrame \/ ZeroCountLate)
  BY DEF PipelineInv, PartsInv, RunInv, ClearQueue, ClearHandles, DiscardFrame, ZeroCountLate
<1>2. ASSUME RunStep PROVE PipelineInv'
  BY <1>1, <1>2, DecodeStoreStep, QuietSteps, WaitDoneStep, ZeroCountStep, UpdateFrameStep,
     RedecodeStep DEF RunStep
<1>3. ASSUME ParserStep PROVE PipelineInv'
  BY <1>3, ParserComputeStep, ParserPopStep, ParserRouteStep DEF ParserStep
<1>4. ASSUME NEW h \in Handlers, HandlerStep(h) PROVE PipelineInv'
  BY <1>4, HandlerPopStep, ComputeEndStep DEF HandlerStep
<1>5. CASE UNCHANGED vars
  <2>1. UNCHANGED <<inline, pc, running, split, pktIndex, packetNum, lateWork>>
        /\ UNCHANGED <<raw, pts, count, dq, held, hb, rr, job>>
    BY <1>5 DEF vars, runVars, queueVars
  <2>2. TypeOK' /\ Converted' = Converted /\ FirstQueued' = FirstQueued
    BY <2>1 DEF PipelineInv, TypeOK, Converted, FirstQueued
  <2> QED
    BY <2>1, <2>2 DEF PipelineInv, PartsInv, RunInv, QueueInv, BufferInv, JobInv, CountInv
<1> QED
  BY <1>2, <1>3, <1>4, <1>5, QuietSteps DEF Next

LEMMA NextPipelineInv == ASSUME GoodInput, PipelineInv, [Next]_vars PROVE PipelineInv'
<1>1. RightSizes /\ (DecodeStore => pktIndex + 1 < MaxPackets)
  BY DEF GoodInput, RightSizes, DecodeStore
<1> QED
  BY <1>1, OrdinaryStep

LEMMA GoodIsRight == GoodInput => RightSizes
BY DEF GoodInput, RightSizes

\* On good input the inductive invariant holds: the counter is the number of
\* converted slots and every index has exactly one owner.
THEOREM PipelineInvariant == GoodInput => (Spec => []PipelineInv)
<1> SUFFICES ASSUME GoodInput PROVE Spec => []PipelineInv
  OBVIOUS
<1>1. Init => PipelineInv
  BY InitPipelineInv, GoodIsRight
<1>2. PipelineInv /\ [Next]_vars => PipelineInv'
  BY NextPipelineInv
<1> QED
  BY <1>1, <1>2, PTL DEF Spec

\* Every frame that Run() publishes holds points of its own packets only.
THEOREM PublishedFramesAreFresh == GoodInput => (Spec => []FrameFresh)
<1> SUFFICES ASSUME GoodInput PROVE Spec => []FrameFresh
  OBVIOUS
<1>1. Init => PipelineInv
  BY InitPipelineInv, GoodIsRight
<1>2. PipelineInv /\ [Next]_vars => PipelineInv'
  BY NextPipelineInv
<1>3. PipelineInv => FrameFresh
  <2> SUFFICES ASSUME PipelineInv, Delivering, NEW i \in 0..(packetNum - 1) PROVE pts[i] = "new"
    BY DEF FrameFresh
  <2>1. packetNum = pktIndex /\ Converted = 0..(pktIndex - 1)
    BY DEF PipelineInv, PartsInv, RunInv, CountInv, Delivering
  <2> QED
    BY <2>1 DEF Converted
<1> QED
  BY <1>1, <1>2, <1>3, PTL DEF Spec

\* No thread holds work while the callbacks read the frame.
THEOREM QuietDelivery == GoodInput => (Spec => []QuietWhileDelivering)
<1> SUFFICES ASSUME GoodInput PROVE Spec => []QuietWhileDelivering
  OBVIOUS
<1>1. Init => PipelineInv
  BY InitPipelineInv, GoodIsRight
<1>2. PipelineInv /\ [Next]_vars => PipelineInv'
  BY NextPipelineInv
<1>3. PipelineInv => QuietWhileDelivering
  <2> SUFFICES ASSUME PipelineInv, Delivering PROVE ~Pending
    BY DEF QuietWhileDelivering
  <2>1. Converted = 0..(pktIndex - 1)
    BY DEF PipelineInv, PartsInv, CountInv, Delivering
  <2> QED
    BY <2>1, Drained DEF PipelineInv, Pending
<1> QED
  BY <1>1, <1>2, <1>3, PTL DEF Spec

\* ParserThread never pushes an index out of a handle thread's buffer: the limit of
\* the buffer is not reached, so that each index handed over is converted.
THEOREM NoIndexDropped == GoodInput => (Spec => NothingDropped)
<1> USE PipelineAssumption
<1> DEFINE Kept == \A h \in Handlers : Len(hb'[h]) = Len(hb[h]) => hb'[h] = hb[h]
<1> SUFFICES ASSUME GoodInput PROVE Spec => [][Kept]_hb
  BY DEF NothingDropped
<1>1. Init => PipelineInv
  BY InitPipelineInv, GoodIsRight
<1>2. PipelineInv /\ [Next]_vars => PipelineInv'
  BY NextPipelineInv
<1>3. PipelineInv /\ [Next]_vars => [Kept]_hb
  <2> SUFFICES ASSUME PipelineInv, [Next]_vars PROVE [Kept]_hb
    OBVIOUS
  <2>1. hb \in [Handlers -> Seq(Slots)]
    BY DEF PipelineInv, TypeOK
  <2>2. CASE ParserRoute
    <3> DEFINE g == rr % NThreads
    <3>1. g \in Handlers /\ held \in Slots
      BY <2>2 DEF ParserRoute, PipelineInv, TypeOK, Handlers
    <3>2. hb[g] \in Seq(Slots) /\ hb' = [hb EXCEPT ![g] = Capped(Append(hb[g], held))]
      BY <2>1, <2>2, <3>1 DEF ParserRoute, NextHandler
    <3>3. Len(Append(hb[g], held)) = Len(hb[g]) + 1 /\ Len(hb[g]) + 1 <= HandleCap
      BY <3>1, <3>2, AppendFacts, BufferRoom, GoodIsRight
    <3>4. Len(hb[g]) \in Nat
      BY <3>1, BufferRoom, GoodIsRight
    <3>5. hb' = [hb EXCEPT ![g] = Append(hb[g], held)]
      <4> DEFINE q == Append(hb[g], held)
      <4>1. ~(Len(q) > HandleCap)
        BY <3>3, <3>4
      <4> HIDE DEF q
      <4>2. Capped(q) = q
        BY <4>1 DEF Capped
      <4> QED
        BY <4>2, <3>2 DEF q
    <3> HIDE DEF g
    <3>6. ASSUME NEW h \in Handlers, Len(hb'[h]) = Len(hb[h]) PROVE hb'[h] = hb[h]
      <4>1. CASE h = g
        <5>1. Len(hb'[h]) = Len(hb[h]) + 1
          BY <4>1, <3>3, <3>5, <3>1, <2>1
        <5> QED
          BY <5>1, <3>6, <4>1, <3>4
      <4>2. CASE h # g
        BY <4>2, <3>5, <2>1
      <4> QED
        BY <4>1, <4>2
    <3> QED
      BY <3>6
  <2>3. ASSUME NEW g \in Handlers, HandlerPop(g) PROVE Kept
    <3>1. hb[g] \in Seq(Slots) /\ hb[g] # <<>> /\ hb' = [hb EXCEPT ![g] = Tail(hb[g])]
      BY <2>1, <2>3 DEF HandlerPop
    <3>2. Len(hb[g]) \in Nat /\ Len(Tail(hb[g])) = Len(hb[g]) - 1
      BY <3>1, TailFacts
    <3>3. ASSUME NEW h \in Handlers, Len(hb'[h]) = Len(hb[h]) PROVE hb'[h] = hb[h]
      <4>1. CASE h = g
        <5>1. Len(hb'[h]) = Len(hb[h]) - 1
          BY <4>1, <3>1, <3>2, <2>1
        <5> QED
          BY <5>1, <3>3, <4>1, <3>2
      <4>2. CASE h # g
        BY <4>2, <3>1, <2>1
      <4> QED
        BY <4>1, <4>2
    <3> QED
      BY <3>3
  <2>4. CASE DecodeStore \/ DecodeSplit \/ WaitDone \/ ZeroCount \/ Publish \/ UpdateFrame
             \/ Redecode \/ ExitLoop \/ StopRun \/ ParserCompute \/ ParserPop \/ UNCHANGED vars
    BY <2>4 DEF DecodeStore, DecodeSplit, WaitDone, ZeroCount, Publish, UpdateFrame, Redecode,
       ExitLoop, StopRun, ParserCompute, ParserPop, vars, queueVars
  <2>5. ASSUME NEW g \in Handlers, ComputeEnd(g) PROVE UNCHANGED hb
    BY <2>5 DEF ComputeEnd, queueVars
  <2>6. ~(ClearQueue \/ ClearHandles \/ DiscardFrame \/ ZeroCountLate)
    BY DEF PipelineInv, PartsInv, RunInv, ClearQueue, ClearHandles, DiscardFrame, ZeroCountLate
  <2> HIDE DEF Kept
  <2> QED
    BY <2>2, <2>3, <2>4, <2>5, <2>6 DEF Next, RunStep, ParserStep, HandlerStep
<1> QED
  BY <1>1, <1>2, <1>3, PTL DEF Spec
-----------------------------------------------------------------------------
\* Each step of the pipeline is a step of the abstract barrier or leaves it alone.
LEMMA StepSimulation ==
  ASSUME GoodInput, PipelineInv, [Next]_vars
  PROVE  [Barrier!Next]_(Barrier!bvars)
<1> USE PipelineAssumption
<1> USE DEF Barrier!Next, Barrier!bvars, Phase
<1>1. pktIndex \in Nat /\ pktIndex < MaxPackets /\ packetNum = pktIndex
  BY DEF PipelineInv, TypeOK, PartsInv, RunInv
<1>2. CASE DecodeStore
  <2>1. /\ UNCHANGED <<inline, pc, pts, held, hb, job>> /\ pc = "recv"
        /\ dq' = Append(dq, pktIndex) /\ pktIndex' = pktIndex + 1
    BY <1>1, <1>2 DEF DecodeStore, GoodInput
  <2>2. Converted' = Converted
    BY <2>1, Enqueue
  <2> QED
    BY <2>1, <2>2, <1>1 DEF Barrier!Accept
<1>3. CASE Redecode
  <2>1. /\ UNCHANGED <<inline, pts, held, hb, job>> /\ pc = "redecode" /\ pc' = "recv"
        /\ dq' = Append(dq, pktIndex) /\ pktIndex' = pktIndex + 1
    BY <1>3 DEF Redecode
  <2>2. Converted' = Converted
    BY <2>1, Enqueue
  <2> QED
    BY <2>1, <2>2, <1>1 DEF Barrier!Accept
<1>4. CASE DecodeSplit
  BY <1>4 DEF DecodeSplit, Barrier!Close, Converted
<1>5. CASE WaitDone \/ Publish
  BY <1>5 DEF WaitDone, Publish, Converted
<1>6. CASE ZeroCount
  <2>1. Converted = 0..(pktIndex - 1)
    BY <1>6 DEF ZeroCount, PipelineInv, PartsInv, CountInv
  <2> QED
    BY <2>1, <1>6 DEF ZeroCount, Barrier!Deliver, Converted
<1>7. CASE UpdateFrame
  <2>1. pktIndex' = 0 /\ pc = "update" /\ pc' \in {"recv", "redecode"}
    BY <1>7 DEF UpdateFrame
  <2>2. Converted' = {}
    BY <2>1 DEF Converted
  <2> QED
    BY <2>1, <2>2 DEF Barrier!NewFrame
<1>8. CASE ExitLoop
  BY <1>8 DEF ExitLoop, Barrier!Finish, Converted
<1>9. CASE StopRun \/ ParserStep \/ UNCHANGED vars
  BY <1>9 DEF StopRun, ParserStep, ParserCompute, ParserPop, ParserRoute, NextHandler, vars, runVars, Converted
<1>10. ASSUME NEW h \in Handlers, HandlerPop(h) PROVE [Barrier!Next]_(Barrier!bvars)
  BY <1>10 DEF HandlerPop, runVars, Converted
<1>11. ASSUME NEW h \in Handlers, ComputeEnd(h) PROVE [Barrier!Next]_(Barrier!bvars)
  <2> DEFINE i == job[h].idx
  <2>1. /\ job[h] # NoJob /\ i \in 0..(FirstQueued - 1) /\ pts[i] = "old" /\ job[h].tag = "new"
    BY <1>11 DEF ComputeEnd, PipelineInv, PartsInv, JobInv
  <2>2. FirstQueued <= pktIndex /\ FirstQueued \in Int
    BY DEF PipelineInv, TypeOK, FirstQueued
  <2>3. i \in 0..(pktIndex - 1) /\ i \in Slots /\ raw[i] = "new"
    BY <1>1, <2>1, <2>2 DEF PipelineInv, PartsInv, RunInv, Slots
  <2>4. /\ UNCHANGED <<pc, pktIndex>> /\ pts' = [pts EXCEPT ![i] = "new"]
    BY <1>11, <2>1, <2>3 DEF ComputeEnd, runVars
  <2> HIDE DEF i
  <2>5. Converted' = Converted \cup {i} /\ i \notin Converted
    <3>1. \A j \in Slots : pts'[j] = IF j = i THEN "new" ELSE pts[j]
      BY <2>3, <2>4 DEF PipelineInv, TypeOK
    <3>2. \A j \in 0..(pktIndex - 1) : j \in Slots
      BY <1>1 DEF Slots
    <3> QED
      BY <3>1, <3>2, <2>1, <2>3, <2>4 DEF Converted, i
  <2>6. pc \notin {"publish", "update"}
    BY <2>3, <2>5 DEF PipelineInv, PartsInv, CountInv
  <2> QED
    BY <2>3, <2>4, <2>5, <2>6 DEF Barrier!Convert
<1>12. ~(ClearQueue \/ ClearHandles \/ DiscardFrame \/ ZeroCountLate)
  BY DEF PipelineInv, PartsInv, RunInv, ClearQueue, ClearHandles, DiscardFrame, ZeroCountLate
<1> HIDE DEF Barrier!Next, Barrier!bvars, Phase
<1> QED
  BY <1>2, <1>3, <1>4, <1>5, <1>6, <1>7, <1>8, <1>9, <1>10, <1>11, <1>12
  DEF Next, RunStep, HandlerStep

\* On good input the threads and queues implement the frame barrier: a frame is
\* delivered only when each packet accepted into it has been converted.
THEOREM ImplementsBarrier == GoodInput => (Spec => BarrierSpec)
<1> SUFFICES ASSUME GoodInput PROVE Spec => Barrier!Spec
  BY DEF BarrierSpec
<1>1. Init => Barrier!Init
  BY DEF Init, Barrier!Init, Phase, Converted
<1>2. Init => PipelineInv
  BY InitPipelineInv, GoodIsRight
<1>3. PipelineInv /\ [Next]_vars => PipelineInv'
  BY NextPipelineInv
<1>4. PipelineInv /\ [Next]_vars => [Barrier!Next]_(Barrier!bvars)
  BY StepSimulation
<1> QED
  BY <1>1, <1>2, <1>3, <1>4, PTL DEF Spec, Barrier!Spec
-----------------------------------------------------------------------------
(***************************************************************************)
(* Any input: the work in flight is bounded                                 *)
(***************************************************************************)
Resetting == {"clearQueue", "clearHandles", "discard", "zeroLate"}

\* The places that are taken in the handle buffers, and the threads that convert.
Items == {x \in Handlers \X Nat : x[2] \in 1..Len(hb[x[1]])}
Busy  == {h \in Handlers : job[h] # NoJob}
One(b) == IF b THEN 1 ELSE 0
InBuffers == One(held # NoIdx) + Cardinality(Items)
Work == Len(dq) + InBuffers + Cardinality(Busy)

\* Where Run() is, and what is stored.
PlaceInv ==
  /\ pc \notin Resetting => packetNum <= pktIndex /\ pktIndex < MaxPackets
  /\ pc \in Resetting \cup {"redecode"} => pktIndex = 0
  /\ pc \in {"redecode", "zeroLate"} => packetNum = 0
  /\ pc \in Resetting \ {"clearQueue"} => dq = <<>>
  /\ inline => held = NoIdx /\ Items = {}
  /\ \A h \in Handlers : job[h] # NoJob => job[h].idx \in Slots
  /\ IsFiniteSet(Items)

\* What is in flight is what the counter still lacks, and what a discarded frame left: one
\* index that ParserThread holds or has just handed over, and one in each conversion.
BoundInv ==
  /\ pc \in {"recv", "wait", "redecode", "done"} => Work + count <= pktIndex + NThreads + 1
  /\ pc = "zero" => Work <= NThreads + 1
  /\ pc \in {"publish", "update"} => Work + count <= NThreads + 1
  /\ pc = "clearQueue" => Work <= MaxPackets + NThreads + 1
  /\ pc \in {"discard", "zeroLate"} => InBuffers <= 1

WorkInv == TypeOK /\ PlaceInv /\ BoundInv

LEMMA SomeHandlers ==
  ASSUME NEW S, S \in SUBSET Handlers
  PROVE  IsFiniteSet(S) /\ Cardinality(S) \in Nat /\ Cardinality(S) <= NThreads
<1> DEFINE last == NThreads - 1
<1>1. last \in Int /\ 0 \in Int /\ NThreads \in Nat /\ NThreads >= 1
  BY PipelineAssumption
<1> HIDE DEF last
<1>2. IsFiniteSet(0..last) /\ Cardinality(0..last) = IF 0 > last THEN 0 ELSE last - 0 + 1
  BY <1>1, FS_Interval
<1>3. IsFiniteSet(Handlers) /\ Cardinality(Handlers) = NThreads
  BY <1>1, <1>2 DEF Handlers, last
<1>4. IsFiniteSet(S) /\ Cardinality(S) <= Cardinality(Handlers)
  BY <1>3, FS_Subset
<1> QED
  BY <1>3, <1>4, FS_CardinalityType

LEMMA BusyFinite ==
  IsFiniteSet(Busy) /\ Cardinality(Busy) \in Nat /\ Cardinality(Busy) <= NThreads
<1> DEFINE B == Busy
<1>1. B \in SUBSET Handlers
  BY DEF Busy
<1> HIDE DEF B
<1>2. IsFiniteSet(B) /\ Cardinality(B) \in Nat /\ Cardinality(B) <= NThreads
  BY <1>1, SomeHandlers
<1> QED
  BY <1>2 DEF B

LEMMA WorkTypes ==
  ASSUME TypeOK, IsFiniteSet(Items)
  PROVE  /\ Len(dq) \in Nat /\ Cardinality(Items) \in Nat /\ Cardinality(Busy) \in Nat
         /\ One(held # NoIdx) \in {0, 1}
         /\ InBuffers \in Nat /\ Work \in Nat /\ count \in Nat /\ pktIndex \in Nat
         /\ NThreads \in Nat /\ MaxPackets \in Nat
<1>1. Len(dq) \in Nat /\ count \in Nat /\ pktIndex \in Nat
  BY PipelineAssumption DEF TypeOK
<1>2. Cardinality(Items) \in Nat
  BY FS_CardinalityType
<1>3. Cardinality(Busy) \in Nat
  BY BusyFinite
<1>4. One(held # NoIdx) \in {0, 1}
  BY DEF One
<1> QED
  BY <1>1, <1>2, <1>3, <1>4, PipelineAssumption DEF InBuffers, Work

\* A conversion begins or ends.
LEMMA OneBegins ==
  ASSUME TypeOK, NEW h \in Handlers, NEW j \in Jobs, j # NoJob, job[h] = NoJob,
         job' = [job EXCEPT ![h] = j]
  PROVE  Cardinality(Busy)' = Cardinality(Busy) + 1
<1>1. Busy' = Busy \cup {h} /\ h \notin Busy
  BY DEF TypeOK, Busy
<1> DEFINE B == Busy
<1>2. IsFiniteSet(B)
  BY BusyFinite
<1>3. h \notin B /\ Busy' = B \cup {h}
  BY <1>1
<1> HIDE DEF B
<1>4. Cardinality(B \cup {h}) = Cardinality(B) + 1
  BY <1>2, <1>3, FS_AddElement
<1> QED
  BY <1>3, <1>4 DEF B

LEMMA OneEnds ==
  ASSUME TypeOK, NEW h \in Handlers, job[h] # NoJob, job' = [job EXCEPT ![h] = NoJob]
  PROVE  Cardinality(Busy)' = Cardinality(Busy) - 1
<1>1. Busy' = Busy \ {h} /\ h \in Busy
  BY DEF TypeOK, Busy
<1> DEFINE B == Busy
<1>2. IsFiniteSet(B)
  BY BusyFinite
<1>3. h \in B /\ Busy' = B \ {h}
  BY <1>1
<1> HIDE DEF B
<1>4. Cardinality(B \ {h}) = Cardinality(B) - 1
  BY <1>2, <1>3, FS_RemoveElement
<1> QED
  BY <1>3, <1>4 DEF B

\* A handle buffer grows by one place or keeps its length, when ParserThread hands over.
LEMMA OneHanded ==
  ASSUME TypeOK, IsFiniteSet(Items), NEW h \in Handlers, NEW i \in Slots,
         hb' = [hb EXCEPT ![h] = Capped(Append(hb[h], i))]
  PROVE  /\ hb' \in [Handlers -> Seq(Slots)]
         /\ IsFiniteSet(Items)' /\ Cardinality(Items)' <= Cardinality(Items) + 1
<1> DEFINE q == hb[h]
           r == Append(q, i)
<1>1. q \in Seq(Slots) /\ Len(q) \in Nat
  BY DEF TypeOK
<1>2. r \in Seq(Slots) /\ Len(r) = Len(q) + 1 /\ r # <<>>
  BY <1>1
<1> HIDE DEF r
<1>3. Tail(r) \in Seq(Slots) /\ Len(Tail(r)) = Len(q)
  BY <1>1, <1>2
<1> DEFINE n == Capped(r)
<1>4. n \in Seq(Slots) /\ Len(n) \in {Len(q), Len(q) + 1}
  BY <1>2, <1>3 DEF Capped
<1>5. hb' = [hb EXCEPT ![h] = n]
  BY DEF r
<1> HIDE DEF n, q
<1>6. hb' \in [Handlers -> Seq(Slots)]
  BY <1>4, <1>5 DEF TypeOK
<1> DEFINE new == <<h, Len(q) + 1>>
           S == Items
<1>7. Items' \subseteq S \cup {new}
  <2> SUFFICES ASSUME NEW g \in Handlers, NEW k \in Nat, k \in 1..Len(hb'[g]) PROVE <<g, k>> \in S \cup {new}
    BY DEF Items
  <2>1. CASE g = h
    <3>1. hb'[g] = n
      BY <2>1, <1>5 DEF TypeOK
    <3>2. k \in 1..Len(q) \/ k = Len(q) + 1
      BY <3>1, <1>1, <1>4
    <3> QED
      BY <3>2, <2>1 DEF Items, q
  <2>2. CASE g # h
    <3>1. hb'[g] = hb[g]
      BY <2>2, <1>5 DEF TypeOK
    <3> QED
      BY <3>1 DEF Items
  <2> QED
    BY <2>1, <2>2
<1>8. IsFiniteSet(S)
  OBVIOUS
<1> HIDE DEF new, S
<1>9. IsFiniteSet(S \cup {new}) /\ Cardinality(S \cup {new}) <= Cardinality(S) + 1
  <2>1. Cardinality(S) \in Nat
    BY <1>8, FS_CardinalityType
  <2>2. /\ IsFiniteSet(S \cup {new})
        /\ Cardinality(S \cup {new}) = IF new \in S THEN Cardinality(S) ELSE Cardinality(S) + 1
    BY <1>8, FS_AddElement
  <2> QED
    BY <2>1, <2>2
<1> DEFINE T == Items'
<1>10. T \in SUBSET (S \cup {new})
  BY <1>7
<1> HIDE DEF T
<1>11. IsFiniteSet(T) /\ Cardinality(T) <= Cardinality(S \cup {new})
  BY <1>9, <1>10, FS_Subset
<1>12. Cardinality(S) \in Nat /\ Cardinality(T) \in Nat /\ Cardinality(S \cup {new}) \in Nat
  BY <1>8, <1>9, <1>11, FS_CardinalityType
<1>13. Cardinality(T) <= Cardinality(S) + 1
  BY <1>9, <1>11, <1>12
<1> QED
  BY <1>6, <1>11, <1>13 DEF S, T

\* A handle thread takes an index from its buffer.
LEMMA OneTaken ==
  ASSUME TypeOK, IsFiniteSet(Items), NEW h \in Handlers, hb[h] # <<>>,
         hb' = [hb EXCEPT ![h] = Tail(hb[h])]
  PROVE  /\ hb' \in [Handlers -> Seq(Slots)]
         /\ IsFiniteSet(Items)' /\ Cardinality(Items)' = Cardinality(Items) - 1
<1> DEFINE q == hb[h]
           n == Tail(q)
<1>1. q \in Seq(Slots) /\ Len(q) \in Nat /\ q # <<>>
  BY DEF TypeOK
<1>2. n \in Seq(Slots) /\ Len(n) = Len(q) - 1 /\ Len(q) >= 1
  BY <1>1
<1>3. hb' = [hb EXCEPT ![h] = n]
  OBVIOUS
<1> HIDE DEF n
<1>4. hb' \in [Handlers -> Seq(Slots)]
  BY <1>2, <1>3 DEF TypeOK
<1> DEFINE gone == <<h, Len(q)>>
           S == Items
<1>5. gone \in S
  BY <1>1, <1>2 DEF Items
<1>6. Items' = S \ {gone}
  <2>1. ASSUME NEW g \in Handlers, NEW k \in Nat
        PROVE  k \in 1..Len(hb'[g]) <=> k \in 1..Len(hb[g]) /\ <<g, k>> # gone
    <3>1. CASE g = h
      <4>1. hb'[g] = n /\ hb[g] = q
        BY <3>1, <1>3 DEF TypeOK
      <4>2. <<g, k>> = gone <=> k = Len(q)
        BY <3>1
      <4> HIDE DEF q, gone
      <4> QED
        BY <4>1, <4>2, <1>1, <1>2
    <3>2. CASE g # h
      <4>1. hb'[g] = hb[g] /\ <<g, k>> # gone
        BY <3>2, <1>3 DEF TypeOK
      <4> QED
        BY <4>1
    <3> QED
      BY <3>1, <3>2
  <2> HIDE DEF gone
  <2> QED
    BY <2>1 DEF Items
<1>7. IsFiniteSet(S)
  OBVIOUS
<1> DEFINE T == Items'
<1>8. T = S \ {gone}
  BY <1>6
<1> HIDE DEF gone, S, T
<1>9. IsFiniteSet(T) /\ Cardinality(T) = Cardinality(S) - 1
  BY <1>5, <1>7, <1>8, FS_RemoveElement
<1> QED
  BY <1>4, <1>9 DEF S, T

LEMMA SameWork ==
  ASSUME UNCHANGED <<dq, held, hb, job>>
  PROVE  /\ Work' = Work /\ InBuffers' = InBuffers
         /\ Items' = Items
BY DEF Work, InBuffers, Items, Busy

LEMMA InitWork == Init => WorkInv
<1> SUFFICES ASSUME Init PROVE WorkInv
  OBVIOUS
<1> USE PipelineAssumption
<1>1. TypeOK
  <2>1. raw \in [Slots -> Tags] /\ pts \in [Slots -> Tags] /\ NoJob \in Jobs
    BY DEF Init, Tags, NoJob, Jobs
  <2>2. hb \in [Handlers -> Seq(Slots)] /\ job \in [Handlers -> Jobs] /\ dq \in Seq(Slots)
    BY <2>1 DEF Init
  <2>3. held \in Slots \cup {NoIdx} /\ rr \in 0..NThreads
    BY DEF Init
  <2>4. /\ pktIndex \in 0..MaxPackets /\ packetNum \in 0..MaxPackets /\ count \in Nat
        /\ pc \in RunPcs /\ split \in AllKinds
    BY DEF Init, RunPcs, AllKinds
  <2>5. inline \in BOOLEAN /\ running \in BOOLEAN /\ lateWork \in BOOLEAN
    BY DEF Init
  <2> QED
    BY <2>1, <2>2, <2>3, <2>4, <2>5 DEF TypeOK
<1>2. Items = {} /\ Busy = {} /\ Len(dq) = 0 /\ count = 0 /\ pktIndex = 0 /\ packetNum = 0 /\ pc = "recv"
      /\ held = NoIdx
  BY DEF Init, Items, Busy
<1>3. PlaceInv
  BY <1>2, FS_EmptySet DEF Init, PlaceInv, Resetting, Busy
<1>4. Work = 0
  BY <1>2, FS_EmptySet DEF Work, InBuffers, One
<1> QED
  BY <1>1, <1>2, <1>3, <1>4 DEF WorkInv, BoundInv

\* Steps of Run() that leave queues and conversions alone.
LEMMA WorkStays ==
  ASSUME WorkInv, DecodeSplit \/ WaitDone \/ ZeroCount \/ Publish \/ ZeroCountLate \/ ExitLoop
                  \/ StopRun \/ UNCHANGED vars
  PROVE  WorkInv'
<1> USE PipelineAssumption
<1>1. UNCHANGED <<inline, pktIndex, packetNum, raw, pts, dq, held, hb, rr, job>>
  BY DEF DecodeSplit, WaitDone, ZeroCount, Publish, ZeroCountLate, ExitLoop, StopRun, vars, runVars, queueVars
<1>2. TypeOK'
  <2>0. pc \in RunPcs /\ running \in BOOLEAN /\ split \in AllKinds /\ count \in Nat
    BY DEF WorkInv, TypeOK
  <2>a. pc' \in RunPcs
    BY <2>0 DEF RunPcs, DecodeSplit, WaitDone, ZeroCount, Publish, ZeroCountLate, ExitLoop, StopRun, vars, runVars
  <2>b. running' \in BOOLEAN
    BY <2>0 DEF DecodeSplit, WaitDone, ZeroCount, Publish, ZeroCountLate, ExitLoop, StopRun, vars, runVars
  <2>c. split' \in AllKinds
    BY <2>0 DEF DecodeSplit, WaitDone, ZeroCount, Publish, ZeroCountLate, ExitLoop, StopRun, vars, runVars
  <2>d. count' \in Nat
    BY <2>0 DEF DecodeSplit, WaitDone, ZeroCount, Publish, ZeroCountLate, ExitLoop, StopRun, vars
  <2>1. pc' \in RunPcs /\ running' \in BOOLEAN /\ split' \in AllKinds /\ count' \in Nat
    BY <2>a, <2>b, <2>c, <2>d
  <2>2. lateWork' \in BOOLEAN
    <3>1. (lateWork \/ Pending) \in BOOLEAN
      OBVIOUS
    <3>2. lateWork' \in {lateWork, lateWork \/ Pending}
      BY DEF DecodeSplit, WaitDone, ZeroCount, Publish, ZeroCountLate, ExitLoop, StopRun, vars, runVars
    <3>3. lateWork \in BOOLEAN
      BY DEF WorkInv, TypeOK
    <3> QED
      BY <3>1, <3>2, <3>3
  <2> QED
    BY <1>1, <2>1, <2>2 DEF WorkInv, TypeOK
<1>3. Work' = Work /\ InBuffers' = InBuffers /\ Items' = Items
  BY <1>1, SameWork
<1>4. IsFiniteSet(Items)
  BY DEF WorkInv, PlaceInv
<1>5. PlaceInv'
  <2>1. \/ pc' = pc
        \/ pc \notin Resetting /\ pc' \notin Resetting \cup {"redecode"}
        \/ pc = "zeroLate" /\ pc' = "recv" /\ packetNum = 0
    BY DEF DecodeSplit, WaitDone, ZeroCount, Publish, ZeroCountLate,
           ExitLoop, StopRun, vars, runVars, Resetting, WorkInv, PlaceInv
  <2>2. 0 < MaxPackets
    OBVIOUS
  <2> QED
    BY <2>1, <2>2, <1>1, <1>3 DEF WorkInv, PlaceInv, Resetting
<1>6. /\ Len(dq) \in Nat /\ InBuffers \in Nat /\ Work \in Nat /\ count \in Nat /\ pktIndex \in Nat
      /\ Cardinality(Busy) \in Nat
  BY <1>4, WorkTypes DEF WorkInv
<1>7. BoundInv'
  <2>1. CASE DecodeSplit
    BY <1>1, <1>3, <2>1 DEF DecodeSplit, WorkInv, BoundInv
  <2>2. CASE WaitDone
    BY <1>1, <1>3, <1>6, <2>2 DEF WaitDone, ComputeXYZIComplete, WorkInv, BoundInv
  <2>3. CASE ZeroCount
    BY <1>1, <1>3, <1>6, <2>3 DEF ZeroCount, WorkInv, BoundInv
  <2>4. CASE Publish
    BY <1>1, <1>3, <2>4 DEF Publish, WorkInv, BoundInv
  <2>5. CASE ZeroCountLate
    <3>1. InBuffers <= 1 /\ Len(dq) = 0 /\ pktIndex = 0
      BY <2>5 DEF ZeroCountLate, WorkInv, BoundInv, PlaceInv, Resetting
    <3>2. Work <= NThreads + 1
      BY <3>1, <1>6, BusyFinite DEF Work
    <3> QED
      BY <3>1, <3>2, <1>1, <1>3, <1>6, <2>5 DEF ZeroCountLate, BoundInv
  <2>6. CASE ExitLoop
    BY <1>1, <1>3, <2>6 DEF ExitLoop, WorkInv, BoundInv
  <2>7. CASE StopRun \/ UNCHANGED vars
    BY <1>1, <1>3, <2>7 DEF StopRun, vars, runVars, WorkInv, BoundInv
  <2> QED
    BY <2>1, <2>2, <2>3, <2>4, <2>5, <2>6, <2>7
<1> QED
  BY <1>2, <1>5, <1>7 DEF WorkInv

\* Update() does not take anything out of the queues.
LEMMA WorkAged ==
  ASSUME WorkInv, UpdateFrame \/ DiscardFrame
  PROVE  WorkInv'
<1> USE PipelineAssumption
<1>1. AgeFrame /\ UNCHANGED <<inline, running, split, lateWork, count, dq, held, hb, rr>> /\ pktIndex' = 0
  BY DEF UpdateFrame, DiscardFrame, queueVars, WorkInv, PlaceInv, Resetting
<1>2. \A h \in Handlers : /\ job'[h] \in Jobs
                          /\ job'[h] = NoJob <=> job[h] = NoJob
                          /\ job'[h].idx = job[h].idx
  <2> SUFFICES ASSUME NEW h \in Handlers
               PROVE  /\ job'[h] \in Jobs
                      /\ job'[h] = NoJob <=> job[h] = NoJob
                      /\ job'[h].idx = job[h].idx
    OBVIOUS
  <2>1. job[h] \in Jobs /\ job'[h] = [job[h] EXCEPT !.tag = "old"] /\ (job[h] # NoJob => job[h].idx \in Slots)
    BY <1>1 DEF AgeFrame, WorkInv, TypeOK, PlaceInv
  <2>2. job'[h] \in Jobs /\ job'[h].idx = job[h].idx
    BY <2>1 DEF Jobs, Tags
  <2>3. job[h] # NoJob => job'[h] # NoJob
    BY <2>1, <2>2 DEF NoJob, NoIdx, Slots
  <2>4. job[h] = NoJob => job'[h] = NoJob
    BY <2>1 DEF NoJob
  <2> QED
    BY <2>2, <2>3, <2>4
<1>3. job' \in [Handlers -> Jobs]
  BY <1>1, <1>2 DEF AgeFrame
<1>4. TypeOK'
  <2>1. raw' \in [Slots -> Tags] /\ pts' \in [Slots -> Tags] /\ packetNum' \in 0..MaxPackets
    BY <1>1 DEF AgeFrame, Aged, Tags
  <2>2. pc' \in RunPcs /\ pktIndex' \in 0..MaxPackets
    BY <1>1 DEF UpdateFrame, DiscardFrame, RunPcs
  <2> QED
    BY <1>1, <1>3, <2>1, <2>2 DEF WorkInv, TypeOK
<1>5. Items' = Items /\ Busy' = Busy /\ InBuffers' = InBuffers /\ Work' = Work
  BY <1>1, <1>2 DEF Items, Busy, InBuffers, Work
<1>6. PlaceInv'
  <2>1. packetNum' = 0 /\ pktIndex' = 0 /\ 0 < MaxPackets
    BY <1>1 DEF AgeFrame
  <2>2. \A h \in Handlers : job'[h] # NoJob => job'[h].idx \in Slots
    BY <1>2 DEF WorkInv, PlaceInv
  <2>3. pc' \in Resetting => pc = "discard"
    BY DEF UpdateFrame, DiscardFrame, Resetting
  <2> QED
    BY <1>1, <1>5, <2>1, <2>2, <2>3 DEF WorkInv, PlaceInv, Resetting
<1>7. BoundInv'
  <2>1. Work \in Nat /\ count \in Nat
    BY WorkTypes DEF WorkInv, PlaceInv
  <2>2. CASE UpdateFrame
    <3>1. pc = "update" /\ pc' \in {"recv", "redecode"} /\ Work + count <= NThreads + 1
      BY <2>2 DEF UpdateFrame, WorkInv, BoundInv
    <3> QED
      BY <3>1, <2>1, <1>1, <1>5 DEF BoundInv
  <2>3. CASE DiscardFrame
    BY <2>3, <1>5 DEF DiscardFrame, WorkInv, BoundInv
  <2> QED
    BY <2>2, <2>3
<1> QED
  BY <1>4, <1>6, <1>7 DEF WorkInv

\* A packet is stored or decoded again: at most one index enters the queue for each step of
\* packet_index.
LEMMA WorkQueued ==
  ASSUME WorkInv, DecodeStore \/ Redecode
  PROVE  WorkInv'
<1> USE PipelineAssumption
<1>1. /\ UNCHANGED <<inline, running, split, lateWork, pts, count, held, hb, rr, job>>
      /\ pc \in {"recv", "redecode"}
  BY DEF DecodeStore, Redecode
<1>2. /\ pktIndex \in Nat /\ packetNum \in Nat /\ packetNum <= pktIndex /\ pktIndex < MaxPackets
      /\ dq \in Seq(Slots) /\ pktIndex \in Slots
  BY <1>1 DEF WorkInv, TypeOK, PlaceInv, Resetting, Slots
<1>3. /\ Len(dq) \in Nat /\ InBuffers \in Nat /\ Work \in Nat /\ count \in Nat /\ Cardinality(Busy) \in Nat
      /\ NThreads \in Nat /\ MaxPackets \in Nat
  BY WorkTypes DEF WorkInv, PlaceInv
<1>4. Work + count <= pktIndex + NThreads + 1
  BY <1>1 DEF WorkInv, BoundInv
<1>5. Items' = Items /\ Busy' = Busy /\ InBuffers' = InBuffers
  BY <1>1 DEF Items, Busy, InBuffers
<1>6. Append(dq, pktIndex) \in Seq(Slots) /\ Len(Append(dq, pktIndex)) = Len(dq) + 1
  BY <1>2, AppendFacts
<1>7. raw' \in [Slots -> Tags]
  <2>1. "new" \in Tags /\ raw \in [Slots -> Tags]
    BY DEF WorkInv, TypeOK, Tags
  <2> QED
    BY <2>1 DEF DecodeStore, Redecode
\* What becomes of the counts.
<1>8. ASSUME NEW next \in Nat, NEW num \in Nat, num <= next, next <= MaxPackets, next <= pktIndex + 1,
             \/ dq' = Append(dq, pktIndex) /\ next = pktIndex + 1
             \/ dq' = dq /\ next >= pktIndex,
             packetNum' = num,
             \/ pc' = "recv" /\ next < MaxPackets /\ pktIndex' = next
             \/ pc' = "clearQueue" /\ pktIndex' = 0
      PROVE  WorkInv'
  <2>1. dq' \in Seq(Slots) /\ Work' <= Work + (next - pktIndex) /\ Work' \in Nat
    <3>1. CASE dq' = Append(dq, pktIndex) /\ next = pktIndex + 1
      <4>1. Work' = Len(dq) + 1 + InBuffers + Cardinality(Busy)
        BY <3>1, <1>5, <1>6 DEF Work
      <4> QED
        BY <4>1, <3>1, <1>2, <1>3, <1>6 DEF Work
    <3>2. CASE dq' = dq /\ next >= pktIndex
      <4>1. Work' = Work
        BY <3>2, <1>5 DEF Work
      <4> QED
        BY <4>1, <3>2, <1>2, <1>3, <1>8
    <3> QED
      BY <3>1, <3>2, <1>8
  <2>2. Work' + count <= next + NThreads + 1
    <3>1. next \in Nat /\ pktIndex \in Nat /\ NThreads \in Nat /\ count \in Nat
      BY <1>2, <1>3, <1>8
    <3>2. Work \in Nat /\ Work' \in Nat /\ Work' <= Work + (next - pktIndex)
      BY <2>1, <1>3
    <3>3. Work + count <= pktIndex + NThreads + 1
      BY <1>4
    <3>4. \A u, w, n, p, k, m \in Nat : u <= w + (n - p) /\ w + k <= p + m + 1 => u + k <= n + m + 1
      OBVIOUS
    <3> QED
      BY <3>1, <3>2, <3>3, <3>4, ZenonT(20)
  <2>3. TypeOK'
    <3>1. pc' \in RunPcs /\ pktIndex' \in 0..MaxPackets /\ packetNum' \in 0..MaxPackets
      BY <1>3, <1>8 DEF RunPcs
    <3> QED
      BY <3>1, <2>1, <1>1, <1>7 DEF WorkInv, TypeOK
  <2>4. PlaceInv'
    BY <1>1, <1>5, <1>8 DEF WorkInv, PlaceInv, Resetting
  <2>5. BoundInv'
    <3>1. count' = count
      BY <1>1
    <3>2. CASE pc' = "recv" /\ next < MaxPackets /\ pktIndex' = next
      BY <3>1, <3>2, <2>2 DEF BoundInv
    <3>3. CASE pc' = "clearQueue" /\ pktIndex' = 0
      <4>1. Work' <= MaxPackets + NThreads + 1
        <5>1. \A u, k, n, m, x \in Nat : u + k <= n + m + 1 /\ n <= x => u <= x + m + 1
          OBVIOUS
        <5>2. Work' \in Nat /\ count \in Nat /\ next \in Nat /\ NThreads \in Nat /\ MaxPackets \in Nat
              /\ next <= MaxPackets
          BY <2>1, <1>3, <1>8
        <5> QED
          BY <5>1, <5>2, <2>2, ZenonT(20)
      <4> QED
        BY <3>3, <4>1 DEF BoundInv
    <3> QED
      BY <3>2, <3>3, <1>8
  <2> QED
    BY <2>3, <2>4, <2>5 DEF WorkInv
<1>9. CASE DecodeStore
  <2> DEFINE queued == packetNum + 1 # pktIndex
             next == IF queued THEN pktIndex + 1 ELSE pktIndex
  <2>1. next \in Nat /\ packetNum + 1 \in Nat /\ packetNum + 1 <= next /\ next <= MaxPackets /\ next <= pktIndex + 1
    BY <1>2
  <2>2. \/ dq' = Append(dq, pktIndex) /\ next = pktIndex + 1
        \/ dq' = dq /\ next >= pktIndex
    BY <1>2, <1>9 DEF DecodeStore
  <2>3. packetNum' = packetNum + 1
    BY <1>9 DEF DecodeStore
  <2>4. \/ pc' = "recv" /\ next < MaxPackets /\ pktIndex' = next
        \/ pc' = "clearQueue" /\ pktIndex' = 0
    BY <1>9 DEF DecodeStore
  <2> HIDE DEF next
  <2> QED
    BY <2>1, <2>2, <2>3, <2>4, <1>8
<1>10. CASE Redecode
  <2>1. pktIndex = 0 /\ packetNum = 0 /\ pc' = "recv" /\ pktIndex' = 1 /\ dq' = Append(dq, pktIndex)
        /\ packetNum' \in {0, 1} /\ 1 < MaxPackets
    BY <1>10 DEF Redecode, WorkInv, PlaceInv
  <2>2. packetNum' \in Nat /\ packetNum' <= 1
    BY <2>1
  <2> QED
    BY <2>1, <2>2, <1>8
<1> QED
  BY <1>9, <1>10

\* ClearPacketBuffer empties the decoded queue ...
LEMMA WorkQueueCleared == ASSUME WorkInv, ClearQueue PROVE WorkInv'
<1>1. /\ UNCHANGED <<inline, running, split, pktIndex, packetNum, lateWork, raw, pts, count, held, hb, rr, job>>
      /\ pc' = "clearHandles" /\ pc = "clearQueue" /\ dq' = <<>>
  BY DEF ClearQueue
<1>2. <<>> \in Seq(Slots)
  OBVIOUS
<1>3. TypeOK'
  BY <1>1, <1>2 DEF WorkInv, TypeOK, RunPcs
<1>4. Items' = Items
  BY <1>1 DEF Items
<1>5. PlaceInv'
  BY <1>1, <1>4 DEF WorkInv, PlaceInv, Resetting
<1>6. BoundInv'
  BY <1>1 DEF BoundInv
<1> QED
  BY <1>3, <1>5, <1>6 DEF WorkInv

\* ... and the handle buffers.
LEMMA WorkHandlesCleared == ASSUME WorkInv, ClearHandles PROVE WorkInv'
<1>1. /\ UNCHANGED <<inline, running, split, pktIndex, packetNum, lateWork, raw, pts, count, dq, held, rr, job>>
      /\ pc = "clearHandles" /\ pc' = "discard" /\ hb' = IF inline THEN hb ELSE [h \in Handlers |-> <<>>]
  BY DEF ClearHandles
<1>2. <<>> \in Seq(Slots) /\ 1..Len(<<>>) = {}
  OBVIOUS
<1>3. hb' \in [Handlers -> Seq(Slots)]
  BY <1>1, <1>2 DEF WorkInv, TypeOK
<1>4. TypeOK'
  BY <1>1, <1>3 DEF WorkInv, TypeOK, RunPcs
<1>5. Items' = {}
  <2>1. CASE inline
    BY <2>1, <1>1 DEF WorkInv, PlaceInv, Items
  <2>2. CASE ~inline
    <3>1. \A h \in Handlers : hb'[h] = <<>>
      BY <2>2, <1>1
    <3> QED
      BY <3>1, <1>2 DEF Items
  <2> QED
    BY <2>1, <2>2
<1>6. PlaceInv'
  BY <1>1, <1>5, FS_EmptySet DEF WorkInv, PlaceInv, Resetting
<1>7. InBuffers' <= 1
  <2>1. InBuffers' = One(held # NoIdx) + 0
    BY <1>1, <1>5, FS_EmptySet DEF InBuffers
  <2> QED
    BY <2>1 DEF One
<1>8. BoundInv'
  BY <1>1, <1>7 DEF BoundInv
<1> QED
  BY <1>4, <1>6, <1>8 DEF WorkInv

\* A step of the other threads: the work moves on, or it ends and is counted.
LEMMA WorkMoves ==
  ASSUME WorkInv, UNCHANGED runVars, TypeOK', IsFiniteSet(Items)',
         inline => held' = NoIdx /\ Items' = {},
         \A h \in Handlers : job'[h] # NoJob => job'[h].idx \in Slots,
         dq = <<>> => dq' = <<>> /\ (InBuffers' <= InBuffers),
         Work' + count' <= Work + count, Work' <= Work
  PROVE  WorkInv'
<1>1. UNCHANGED <<inline, pc, running, split, pktIndex, packetNum, lateWork>>
  BY DEF runVars
<1>2. PlaceInv'
  BY <1>1 DEF WorkInv, PlaceInv, Resetting
<1>3. /\ Work \in Nat /\ InBuffers \in Nat /\ count \in Nat /\ pktIndex \in Nat /\ NThreads \in Nat
      /\ MaxPackets \in Nat
  BY WorkTypes DEF WorkInv, PlaceInv
<1>4. Work' \in Nat /\ InBuffers' \in Nat /\ count' \in Nat
  <2>1. /\ Len(dq') \in Nat /\ Cardinality(Items') \in Nat /\ count' \in Nat
    BY FS_CardinalityType DEF TypeOK
  <2>2. One(held # NoIdx)' \in Nat
    BY DEF One
  <2>3. Cardinality(Busy)' \in Nat
    <3> DEFINE B == Busy'
    <3>1. B \in SUBSET Handlers
      BY DEF Busy
    <3> HIDE DEF B
    <3>2. Cardinality(B) \in Nat
      BY <3>1, SomeHandlers
    <3> QED
      BY <3>2 DEF B
  <2> QED
    BY <2>1, <2>2, <2>3 DEF Work, InBuffers
<1>5. pc \in {"discard", "zeroLate"} => dq = <<>>
  BY DEF WorkInv, PlaceInv, Resetting
<1>6. BoundInv'
  <2>1. ASSUME pc \in {"discard", "zeroLate"} PROVE InBuffers' <= 1
    <3>1. InBuffers' <= InBuffers /\ InBuffers <= 1
      BY <2>1, <1>5 DEF WorkInv, BoundInv
    <3> QED
      BY <3>1, <1>3, <1>4
  <2>2. \A x \in Nat : /\ Work + count <= x => Work' + count' <= x
                       /\ Work <= x => Work' <= x
    <3> DEFINE u == Work'
               v == count'
               w == Work
               k == count
    <3>1. /\ u \in Nat /\ v \in Nat /\ w \in Nat /\ k \in Nat
          /\ u + v <= w + k /\ u <= w
      BY <1>3, <1>4
    <3> HIDE DEF u, v, w, k
    <3>2. \A x \in Nat : /\ w + k <= x => u + v <= x
                         /\ w <= x => u <= x
      BY <3>1
    <3> QED
      BY <3>2 DEF u, v, w, k
  <2>3. pktIndex + NThreads + 1 \in Nat /\ NThreads + 1 \in Nat /\ MaxPackets + NThreads + 1 \in Nat
    BY <1>3
  <2> QED
    BY <2>1, <2>2, <2>3, <1>1 DEF WorkInv, BoundInv
<1> QED
  BY <1>2, <1>6 DEF WorkInv

LEMMA WorkParsed == ASSUME WorkInv, ParserStep PROVE WorkInv'
<1> USE PipelineAssumption
<1>0. TypeOK /\ IsFiniteSet(Items)
  BY DEF WorkInv, PlaceInv
<1>1. /\ dq \in Seq(Slots) /\ Len(dq) \in Nat /\ Cardinality(Items) \in Nat /\ Cardinality(Busy) \in Nat
      /\ count \in Nat /\ InBuffers \in Nat
  BY <1>0, WorkTypes DEF TypeOK
<1>2. CASE ParserCompute
  <2> DEFINE j == [idx |-> Head(dq), tag |-> raw[Head(dq)]]
  <2>1. /\ inline /\ dq # <<>> /\ job[0] = NoJob /\ job' = [job EXCEPT ![0] = j] /\ dq' = Tail(dq)
        /\ UNCHANGED <<runVars, raw, pts, count, held, hb, rr>>
    BY <1>2 DEF ParserCompute, Begin
  <2>2. Head(dq) \in Slots /\ Tail(dq) \in Seq(Slots) /\ Len(Tail(dq)) = Len(dq) - 1 /\ 0 \in Handlers
    BY <2>1, <1>1, TailFacts DEF Handlers
  <2>3. j \in Jobs /\ j # NoJob /\ j.idx \in Slots
    BY <2>2, <1>0 DEF Jobs, NoJob, NoIdx, TypeOK, Slots
  <2> HIDE DEF j
  <2>4. Cardinality(Busy)' = Cardinality(Busy) + 1
    BY <2>1, <2>2, <2>3, <1>0, OneBegins
  <2>5. Items' = Items /\ InBuffers' = InBuffers
    BY <2>1 DEF Items, InBuffers
  <2>6. Work' = Work
    BY <2>1, <2>2, <2>4, <2>5, <1>1 DEF Work
  <2>7. TypeOK'
    <3>1. job' \in [Handlers -> Jobs]
      BY <2>1, <2>3, <1>0 DEF TypeOK
    <3> QED
      BY <3>1, <2>1, <2>2, <1>0 DEF TypeOK, runVars
  <2>8. \A h \in Handlers : job'[h] # NoJob => job'[h].idx \in Slots
    BY <2>1, <2>3, <1>0 DEF TypeOK, WorkInv, PlaceInv
  <2>9. inline => held' = NoIdx /\ Items' = {}
    BY <2>1, <2>5 DEF WorkInv, PlaceInv
  <2>10. Work' + count' <= Work + count /\ Work' <= Work
    <3>1. Work \in Nat /\ count' = count
      BY <2>1, <1>0, WorkTypes
    <3> QED
      BY <3>1, <2>6, <1>1
  <2> QED
    BY <2>1, <2>5, <2>7, <2>8, <2>9, <2>10, <1>0, WorkMoves
<1>3. CASE ParserPop
  <2>1. /\ ~inline /\ dq # <<>> /\ held = NoIdx /\ held' = Head(dq) /\ dq' = Tail(dq)
        /\ UNCHANGED <<runVars, raw, pts, count, hb, rr, job>>
    BY <1>3 DEF ParserPop
  <2>2. Head(dq) \in Slots /\ Tail(dq) \in Seq(Slots) /\ Len(Tail(dq)) = Len(dq) - 1
    BY <2>1, <1>1, TailFacts
  <2>3. Items' = Items /\ Busy' = Busy /\ One(held # NoIdx) = 0 /\ One(held # NoIdx)' = 1
    BY <2>1, <2>2 DEF Items, Busy, One, Slots, NoIdx
  <2>4. Work' = Work
    BY <2>1, <2>2, <2>3, <1>1 DEF Work, InBuffers
  <2>5. TypeOK'
    BY <2>1, <2>2, <1>0 DEF TypeOK, runVars
  <2>6. \A h \in Handlers : job'[h] # NoJob => job'[h].idx \in Slots
    BY <2>1 DEF WorkInv, PlaceInv
  <2>7. Work' + count' <= Work + count /\ Work' <= Work
    <3>1. Work \in Nat /\ count' = count
      BY <2>1, <1>0, WorkTypes
    <3> QED
      BY <3>1, <2>4, <1>1
  <2> QED
    BY <2>1, <2>3, <2>5, <2>6, <2>7, <1>0, WorkMoves
<1>4. CASE ParserRoute
  <2> DEFINE h == NextHandler
  <2>1. /\ held # NoIdx /\ held' = NoIdx /\ rr' = h + 1
        /\ hb' = [hb EXCEPT ![h] = Capped(Append(hb[h], held))]
        /\ UNCHANGED <<runVars, raw, pts, count, dq, job>>
    <3>1. h \in Handlers
      BY <1>0 DEF NextHandler, TypeOK, Handlers
    <3> QED
      BY <1>4, <3>1, <1>0 DEF ParserRoute, TypeOK
  <2>2. h \in Handlers /\ h + 1 \in 0..NThreads /\ held \in Slots
    BY <2>1, <1>0 DEF NextHandler, TypeOK, Handlers
  <2> HIDE DEF h
  <2>3. hb' \in [Handlers -> Seq(Slots)] /\ IsFiniteSet(Items)' /\ Cardinality(Items)' <= Cardinality(Items) + 1
    BY <2>1, <2>2, <1>0, OneHanded
  <2>4. Busy' = Busy /\ One(held # NoIdx) = 1 /\ One(held # NoIdx)' = 0
    BY <2>1 DEF Busy, One
  <2>5. Cardinality(Items)' \in Nat
    <3> DEFINE T == Items'
    <3>1. IsFiniteSet(T)
      BY <2>3
    <3> HIDE DEF T
    <3>2. Cardinality(T) \in Nat
      BY <3>1, FS_CardinalityType
    <3> QED
      BY <3>2 DEF T
  <2>6. InBuffers' <= InBuffers
    BY <2>3, <2>4, <2>5, <1>1 DEF InBuffers
  <2>7. Work' <= Work /\ Work' + count' <= Work + count
    <3>1. InBuffers' \in Nat
      BY <2>4, <2>5 DEF InBuffers
    <3>2. Work' = Len(dq) + InBuffers' + Cardinality(Busy) /\ Work = Len(dq) + InBuffers + Cardinality(Busy)
          /\ count' = count
      BY <2>1, <2>4 DEF Work
    <3> QED
      BY <3>1, <3>2, <2>6, <1>1
  <2>8. TypeOK'
    BY <2>1, <2>2, <2>3, <1>0 DEF TypeOK, runVars
  <2>9. ~inline
    BY <2>1 DEF WorkInv, PlaceInv
  <2>10. \A g \in Handlers : job'[g] # NoJob => job'[g].idx \in Slots
    BY <2>1 DEF WorkInv, PlaceInv
  <2> QED
    BY <2>1, <2>3, <2>6, <2>7, <2>8, <2>9, <2>10, <1>0, WorkMoves
<1> QED
  BY <1>2, <1>3, <1>4 DEF ParserStep

LEMMA WorkHandled == ASSUME WorkInv, NEW h \in Handlers, HandlerStep(h) PROVE WorkInv'
<1> USE PipelineAssumption
<1>0. TypeOK /\ IsFiniteSet(Items)
  BY DEF WorkInv, PlaceInv
<1>1. /\ dq \in Seq(Slots) /\ Len(dq) \in Nat /\ Cardinality(Items) \in Nat /\ Cardinality(Busy) \in Nat
      /\ count \in Nat /\ InBuffers \in Nat /\ One(held # NoIdx) \in Nat /\ Work \in Nat
  BY <1>0, WorkTypes DEF TypeOK
<1>2. CASE HandlerPop(h)
  <2> DEFINE q == hb[h]
             j == [idx |-> Head(q), tag |-> raw[Head(q)]]
  <2>1. /\ ~inline /\ q # <<>> /\ job[h] = NoJob /\ job' = [job EXCEPT ![h] = j]
        /\ hb' = [hb EXCEPT ![h] = Tail(hb[h])]
        /\ UNCHANGED <<runVars, raw, pts, count, dq, held, rr>>
    BY <1>2, <1>0 DEF HandlerPop, Begin, TypeOK
  <2>2. Head(q) \in Slots
    BY <2>1, <1>0, TailFacts DEF TypeOK
  <2>3. j \in Jobs /\ j # NoJob /\ j.idx \in Slots
    BY <2>2, <1>0 DEF Jobs, NoJob, NoIdx, TypeOK, Slots
  <2> HIDE DEF j
  <2>4. Cardinality(Busy)' = Cardinality(Busy) + 1
    BY <2>1, <2>3, <1>0, OneBegins
  <2>5. hb' \in [Handlers -> Seq(Slots)] /\ IsFiniteSet(Items)' /\ Cardinality(Items)' = Cardinality(Items) - 1
    BY <2>1, <1>0, OneTaken
  <2>6. InBuffers' = InBuffers - 1 /\ Work' = Work
    <3>1. One(held # NoIdx)' = One(held # NoIdx)
      BY <2>1 DEF One
    <3>2. InBuffers' = InBuffers - 1
      BY <3>1, <2>5, <1>1 DEF InBuffers
    <3> QED
      BY <3>2, <2>1, <2>4, <1>1 DEF Work
  <2>7. TypeOK'
    <3>1. job' \in [Handlers -> Jobs]
      BY <2>1, <2>3, <1>0 DEF TypeOK
    <3> QED
      BY <3>1, <2>1, <2>5, <1>0 DEF TypeOK, runVars
  <2>8. \A g \in Handlers : job'[g] # NoJob => job'[g].idx \in Slots
    BY <2>1, <2>3, <1>0 DEF TypeOK, WorkInv, PlaceInv
  <2>9. Work' + count' <= Work + count /\ Work' <= Work /\ InBuffers' <= InBuffers
    BY <2>1, <2>6, <1>1
  <2> QED
    BY <2>1, <2>5, <2>7, <2>8, <2>9, <1>0, WorkMoves
<1>3. CASE ComputeEnd(h)
  <2>1. /\ job[h] # NoJob /\ job' = [job EXCEPT ![h] = NoJob] /\ count' = count + 1
        /\ \E x \in {job[h].tag, raw[job[h].idx]} : pts' = [pts EXCEPT ![job[h].idx] = x]
        /\ UNCHANGED <<runVars, raw, dq, held, hb, rr>>
    BY <1>3 DEF ComputeEnd, FrameNumAdd, queueVars
  <2>2. job[h] \in Jobs /\ job[h].idx \in Slots
    BY <2>1, <1>0 DEF TypeOK, WorkInv, PlaceInv
  <2>3. pts' \in [Slots -> Tags]
    <3>1. job[h].tag \in Tags /\ raw[job[h].idx] \in Tags
      BY <2>2, <1>0 DEF Jobs, TypeOK
    <3> QED
      BY <3>1, <2>1, <1>0 DEF TypeOK
  <2>4. Cardinality(Busy)' = Cardinality(Busy) - 1
    BY <2>1, <1>0, OneEnds
  <2>5. Items' = Items /\ InBuffers' = InBuffers
    BY <2>1 DEF Items, InBuffers
  <2>6. Work' = Work - 1
    BY <2>1, <2>4, <2>5, <1>1 DEF Work
  <2>7. TypeOK'
    <3>1. job' \in [Handlers -> Jobs]
      BY <2>1, <1>0 DEF TypeOK, NoJob, Jobs, Tags
    <3>2. count' \in Nat
      BY <2>1, <1>1
    <3> QED
      BY <3>1, <3>2, <2>1, <2>3, <1>0 DEF TypeOK, runVars
  <2>8. \A g \in Handlers : job'[g] # NoJob => job'[g].idx \in Slots
    BY <2>1, <1>0 DEF TypeOK, WorkInv, PlaceInv
  <2>9. Work' + count' <= Work + count /\ Work' <= Work /\ InBuffers' <= InBuffers
    BY <2>1, <2>5, <2>6, <1>1
  <2>10. inline => held' = NoIdx /\ Items' = {}
    BY <2>1, <2>5 DEF WorkInv, PlaceInv
  <2> QED
    BY <2>1, <2>5, <2>7, <2>8, <2>9, <2>10, <1>0, WorkMoves
<1> QED
  BY <1>2, <1>3 DEF HandlerStep

LEMMA NextWork == ASSUME WorkInv, [Next]_vars PROVE WorkInv'
BY WorkStays, WorkAged, WorkQueued, WorkQueueCleared, WorkHandlesCleared, WorkParsed, WorkHandled
   DEF Next, RunStep

LEMMA WorkInvHolds == Spec => []WorkInv
<1>1. WorkInv /\ [Next]_vars => WorkInv'
  BY NextWork
<1> QED
  BY <1>1, InitWork, PTL DEF Spec

\* Type correctness for every input, with frames that are discarded and packets of another
\* size: no slot index leaves the frame, in no queue and in no conversion.
THEOREM TypeCorrect == Spec => []TypeOK
<1>1. WorkInv => TypeOK
  BY DEF WorkInv
<1> QED
  BY <1>1, WorkInvHolds, PTL

\* For every input the decoded queue holds at most one frame and what was in flight when a
\* frame was discarded: a ring with room for that never makes Run() wait in its push.
THEOREM QueueIsBounded == Spec => []DecodedQueueBounded
<1>1. WorkInv => DecodedQueueBounded
  <2> SUFFICES ASSUME WorkInv PROVE DecodedQueueBounded
    OBVIOUS
  <2>1. /\ Len(dq) \in Nat /\ Cardinality(Busy) \in Nat /\ InBuffers \in Nat /\ Work \in Nat /\ count \in Nat
        /\ NThreads \in Nat /\ MaxPackets \in Nat /\ pktIndex \in Nat
    BY WorkTypes DEF WorkInv, PlaceInv
  <2>2. Len(dq) <= Work
    BY <2>1 DEF Work
  <2>3. pc \in RunPcs
    BY DEF WorkInv, TypeOK
  <2>4. CASE pc \in {"recv", "wait", "redecode", "done"}
    <3>1. Work + count <= pktIndex + NThreads + 1
      BY <2>4 DEF WorkInv, BoundInv
    <3>2. pktIndex < MaxPackets
      BY <2>4 DEF WorkInv, PlaceInv, Resetting
    <3> QED
      BY <3>1, <3>2, <2>1, <2>2 DEF DecodedQueueBounded
  <2>5. CASE pc = "zero"
    <3>1. Work <= NThreads + 1
      BY <2>5 DEF WorkInv, BoundInv
    <3> QED
      BY <3>1, <2>1, <2>2 DEF DecodedQueueBounded
  <2>6. CASE pc \in {"publish", "update"}
    <3>1. Work + count <= NThreads + 1
      BY <2>6 DEF WorkInv, BoundInv
    <3> QED
      BY <3>1, <2>1, <2>2 DEF DecodedQueueBounded
  <2>7. CASE pc = "clearQueue"
    <3>1. Work <= MaxPackets + NThreads + 1
      BY <2>7 DEF WorkInv, BoundInv
    <3> QED
      BY <3>1, <2>1, <2>2 DEF DecodedQueueBounded
  <2>8. CASE pc \in Resetting \ {"clearQueue"}
    <3>1. Len(dq) = 0
      BY <2>8 DEF WorkInv, PlaceInv
    <3> QED
      BY <3>1, <2>1 DEF DecodedQueueBounded
  <2> QED
    BY <2>3, <2>4, <2>5, <2>6, <2>7, <2>8 DEF RunPcs, Resetting
<1> QED
  BY <1>1, WorkInvHolds, PTL

(***************************************************************************)
(* Frames that overflow, packets of one size                                *)
(***************************************************************************)
\* The frame as Update() leaves it: nothing in it, and what is being converted is old.
Blank == /\ packetNum = 0
         /\ \A i \in Slots : raw[i] = "old" /\ pts[i] = "old"
         /\ \A h \in Handlers : job[h].tag = "old"

\* As long as each discarded frame had drained, the pipeline is either in a frame that
\* obeys PartsInv or on its way through a reset that makes the frame blank.
OverflowInv == /\ WorkInv
               /\ split # "splitBadSize"
               /\ ~lateWork /\ pc \notin Resetting => PartsInv
               /\ ~lateWork /\ pc = "zeroLate" => Blank

LEMMA InitOverflow == ASSUME RightSizes, Init PROVE OverflowInv
BY InitPipelineInv, InitWork DEF OverflowInv, PipelineInv, PartsInv, RunInv, Init

\* A step outside a reset keeps PartsInv, or the frame is full and a reset begins.
LEMMA FrameGoesOn ==
  ASSUME RightSizes, OverflowInv, [Next]_vars, ~lateWork, pc \notin Resetting
  PROVE  pc' = "clearQueue" \/ PipelineInv'
<1>1. PipelineInv
  BY DEF OverflowInv, WorkInv, PipelineInv
<1>2. CASE DecodeStore /\ ~(pktIndex + 1 < MaxPackets)
  <2>1. packetNum + 1 # pktIndex
    BY <1>1, PipelineAssumption DEF PipelineInv, TypeOK, PartsInv, RunInv
  <2> QED
    BY <1>2, <2>1 DEF DecodeStore
<1>3. CASE DecodeStore => pktIndex + 1 < MaxPackets
  BY <1>1, <1>3, OrdinaryStep
<1> QED
  BY <1>2, <1>3

\* The counter is zeroed when nothing is left of the discarded frame: a new frame begins.
LEMMA FrameStartsClean ==
  ASSUME RightSizes, OverflowInv, ZeroCountLate, ~lateWork'
  PROVE  PartsInv'
<1> USE PipelineAssumption
<1>1. /\ UNCHANGED <<inline, running, split, pktIndex, packetNum, raw, pts, dq, held, hb, rr, job>>
      /\ pc = "zeroLate" /\ pc' = "recv" /\ count' = 0 /\ ~Pending /\ ~lateWork
  BY DEF ZeroCountLate, queueVars
<1>2. Blank /\ pktIndex = 0 /\ split # "splitBadSize"
  BY <1>1 DEF OverflowInv, WorkInv, PlaceInv, Resetting
<1>3. /\ Len(dq) = 0 /\ dq = <<>> /\ held = NoIdx
      /\ \A h \in Handlers : Len(hb[h]) = 0 /\ job[h] = NoJob
  BY <1>1 DEF Pending
<1>4. FirstQueued' = 0
  BY <1>1, <1>2, <1>3 DEF FirstQueued
<1>5. RunInv'
  BY <1>1, <1>2 DEF RunInv, Blank
<1>6. QueueInv'
  BY <1>1, <1>2, <1>3, <1>4 DEF QueueInv, Blank
<1>7. BufferInv' /\ JobInv'
  <2>1. \A h \in Handlers : 1..Len(hb'[h]) = {} /\ job'[h] = NoJob
    BY <1>1, <1>3
  <2> QED
    BY <2>1 DEF BufferInv, JobInv
<1>8. CountInv'
  <2>1. Converted' = {}
    BY <1>1, <1>2 DEF Converted
  <2> QED
    BY <2>1, <1>1, FS_EmptySet DEF CountInv
<1> QED
  BY <1>5, <1>6, <1>7, <1>8 DEF PartsInv

\* The other threads take a step, or nobody does.
Converting == \/ ParserStep
              \/ \E h \in Handlers : HandlerStep(h)
              \/ UNCHANGED <<raw, pts, job>>

\* Conversions that began before the reset write old points, and no others begin.
LEMMA BlankStays ==
  ASSUME OverflowInv, Blank, UNCHANGED runVars, Converting
  PROVE  Blank'
<1>0. /\ TypeOK /\ packetNum' = packetNum
      /\ \A h \in Handlers : job[h] # NoJob => job[h].idx \in Slots
  BY DEF OverflowInv, WorkInv, PlaceInv, runVars
<1>1. ASSUME NEW h \in Handlers, NEW q \in Seq(Slots), q # <<>>, Begin(h, Head(q)), UNCHANGED <<raw, pts>>
      PROVE  Blank'
  <2>1. Head(q) \in Slots
    BY <1>1, TailFacts
  <2>2. raw[Head(q)] = "old"
    BY <2>1 DEF Blank
  <2> QED
    BY <1>0, <1>1, <2>2 DEF Blank, Begin, TypeOK
<1>2. CASE ParserCompute
  <2>1. 0 \in Handlers
    BY PipelineAssumption DEF Handlers
  <2> QED
    BY <1>0, <1>1, <1>2, <2>1 DEF ParserCompute, TypeOK
<1>3. CASE ParserPop \/ ParserRoute \/ UNCHANGED <<raw, pts, job>>
  BY <1>0, <1>3 DEF ParserPop, ParserRoute, Blank
<1>4. ASSUME NEW h \in Handlers, HandlerPop(h) PROVE Blank'
  <2>1. hb[h] \in Seq(Slots)
    BY <1>0 DEF TypeOK
  <2> QED
    BY <1>1, <1>4, <2>1 DEF HandlerPop
<1>5. ASSUME NEW h \in Handlers, ComputeEnd(h) PROVE Blank'
  <2>1. job[h] # NoJob /\ job[h].idx \in Slots
    BY <1>0, <1>5 DEF ComputeEnd
  <2>2. job[h].tag = "old" /\ raw[job[h].idx] = "old"
    BY <2>1 DEF Blank
  <2>3. pts' = [pts EXCEPT ![job[h].idx] = "old"] /\ raw' = raw /\ job' = [job EXCEPT ![h] = NoJob]
    BY <1>5, <2>2 DEF ComputeEnd
  <2> QED
    BY <1>0, <2>3 DEF Blank, NoJob, TypeOK
<1> QED
  BY <1>2, <1>3, <1>4, <1>5 DEF Converting, ParserStep, HandlerStep

LEMMA NextOverflow == ASSUME RightSizes, OverflowInv, [Next]_vars PROVE OverflowInv'
<1>1. WorkInv'
  BY NextWork DEF OverflowInv
<1>2. split' # "splitBadSize"
  <2>1. split' = split \/ split' \in PacketKinds
    BY DEF Next, RunStep, DecodeStore, DecodeSplit, WaitDone, ZeroCount, Publish, UpdateFrame, Redecode,
           ClearQueue, ClearHandles, DiscardFrame, ZeroCountLate, ExitLoop, StopRun, ParserStep,
           ParserCompute, ParserPop, ParserRoute, HandlerStep, HandlerPop, ComputeEnd, runVars, vars
  <2> QED
    BY <2>1 DEF OverflowInv, RightSizes
<1>3. ASSUME ~lateWork' PROVE ~lateWork
  BY <1>3 DEF Next, RunStep, DecodeStore, DecodeSplit, WaitDone, ZeroCount, Publish, UpdateFrame, Redecode,
           ClearQueue, ClearHandles, DiscardFrame, ZeroCountLate, ExitLoop, StopRun, ParserStep,
           ParserCompute, ParserPop, ParserRoute, HandlerStep, HandlerPop, ComputeEnd, runVars, vars
<1>4. ASSUME ~lateWork', pc \notin Resetting
      PROVE  pc' = "clearQueue" \/ (PartsInv' /\ pc' \notin Resetting)
  <2>1. pc' = "clearQueue" \/ PipelineInv'
    BY <1>3, <1>4, FrameGoesOn
  <2> QED
    BY <2>1 DEF PipelineInv, PartsInv, RunInv, Resetting
<1>5. ASSUME ~lateWork', pc \in Resetting
      PROVE  /\ pc' \notin Resetting => PartsInv'
             /\ pc' = "zeroLate" => Blank'
  <2>1. \/ ClearQueue \/ ClearHandles \/ DiscardFrame \/ ZeroCountLate
        \/ UNCHANGED runVars /\ Converting
        \/ StopRun
    <3>1. CASE RunStep
      BY <1>5, <3>1 DEF RunStep, DecodeStore, DecodeSplit, WaitDone, ZeroCount, Publish, UpdateFrame,
             Redecode, ExitLoop, Resetting
    <3>2. CASE ParserStep
      BY <3>2 DEF Converting, ParserStep, ParserCompute, ParserPop, ParserRoute
    <3>3. ASSUME NEW h \in Handlers, HandlerStep(h) PROVE UNCHANGED runVars /\ Converting
      BY <3>3 DEF Converting, HandlerStep, HandlerPop, ComputeEnd
    <3>4. CASE UNCHANGED vars
      BY <3>4 DEF Converting, vars
    <3> QED
      BY <3>1, <3>2, <3>3, <3>4 DEF Next
  <2>2. CASE ClearQueue \/ ClearHandles
    BY <2>2 DEF ClearQueue, ClearHandles, Resetting
  <2>3. CASE DiscardFrame
    <3>1. TypeOK
      BY DEF OverflowInv, WorkInv
    <3>2. AgeFrame /\ pc' = "zeroLate"
      BY <2>3 DEF DiscardFrame
    <3>3. \A h \in Handlers : job'[h].tag = "old"
      <4>1. \A h \in Handlers : job[h] \in Jobs
        BY <3>1 DEF TypeOK
      <4> QED
        BY <3>2, <4>1 DEF AgeFrame, Jobs
    <3> QED
      BY <3>2, <3>3 DEF AgeFrame, Aged, Blank, Resetting
  <2>4. CASE ZeroCountLate
    BY <1>5, <2>4, FrameStartsClean DEF ZeroCountLate
  <2>5. CASE UNCHANGED runVars /\ Converting
    <3>1. pc' = pc
      BY <2>5 DEF runVars
    <3>2. pc = "zeroLate" => Blank
      BY <1>3, <1>5 DEF OverflowInv
    <3> QED
      BY <1>5, <2>5, <3>1, <3>2, BlankStays
  <2>6. CASE StopRun
    <3>1. pc' = pc /\ UNCHANGED <<packetNum, raw, pts, job>>
      BY <2>6 DEF StopRun
    <3>2. pc = "zeroLate" => Blank
      BY <1>3, <1>5 DEF OverflowInv
    <3> QED
      BY <1>5, <3>1, <3>2 DEF Blank
  <2> QED
    BY <2>1, <2>2, <2>3, <2>4, <2>5, <2>6
<1> QED
  BY <1>1, <1>2, <1>4, <1>5 DEF OverflowInv, Resetting

\* When packets have one size and the handle buffers hold a frame, a published frame has
\* stale points only if a conversion outlived a discarded frame: when every discarded frame
\* had drained before the counter was zeroed, each frame is fresh, however many overflow.
THEOREM StaleNeedsLateWork == RightSizes => (Spec => []StaleOnlyByLateWork)
<1> SUFFICES ASSUME RightSizes PROVE Spec => []StaleOnlyByLateWork
  OBVIOUS
<1>1. Init => OverflowInv
  BY InitOverflow
<1>2. OverflowInv /\ [Next]_vars => OverflowInv'
  BY NextOverflow
<1>3. OverflowInv => StaleOnlyByLateWork
  <2> SUFFICES ASSUME OverflowInv, ~lateWork, Delivering, NEW i \in 0..(packetNum - 1) PROVE pts[i] = "new"
    BY DEF StaleOnlyByLateWork, FrameFresh
  <2>1. PartsInv
    BY DEF OverflowInv, Delivering, Resetting
  <2>2. packetNum = pktIndex /\ Converted = 0..(pktIndex - 1)
    BY <2>1 DEF PartsInv, RunInv, CountInv, Delivering
  <2> QED
    BY <2>2 DEF Converted
<1> QED
  BY <1>1, <1>2, <1>3, PTL DEF Spec
=============================================================================
