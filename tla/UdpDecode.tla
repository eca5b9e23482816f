------------------------------ MODULE UdpDecode ------------------------------
(***************************************************************************)
(* From packets to frames: DecodePacket and ComputeXYZI of the eleven UDP   *)
(* parsers, and what Run() makes of their results (hesai_lidar_sdk.hpp).    *)
(*                                                                         *)
(* The parsers are one program with stages that some of them leave out or   *)
(* do in their own way; each is written as the sequence of its stages, run  *)
(* until one of them returns.  Conversion to points happens at once here:   *)
(* FramePipeline has the threads that do it later.  Geometry is left out: a *)
(* point is the scan, the column, the block and the channel it comes from.  *)
(*                                                                         *)
(* The lidar sends scan after scan, PerScan packets each, with a running    *)
(* number.  Packets may be lost, come in a layout the frame does not have,  *)
(* or carry no points at all, and the receive thread reports a timeout.     *)
(***************************************************************************)
EXTENDS AzimuthSplit, Sequences, SequencesExt, FiniteSets

CONSTANTS
  Configurations,  \* the parsers and their settings, see ConfigurationAssumption
  PerScan,         \* packets of a scan
  FirstColumns,    \* where the lidar may be in its scan when the program starts
  MaxPackets,      \* maxPacketPerFrame
  SeqModulus,      \* max_sequence + 1
  MaxLost          \* bound on the packets that never reach the loss counter

HeaderParsers == {"p64", "1_4", "3_1", "3_2", "6_1"}   \* turning, the header names the layout
FixedParsers  == {"p40", "1_8"}                        \* turning, one layout only
Turning       == HeaderParsers \cup FixedParsers
OneBlock      == {"1_8", "7_2", "7_3"}
AllParsers    == Turning \cup {"4_3", "4_7", "7_2", "7_3"}
Layouts       == {"normal", "other", "large", "longer"}

\* A fixed parser reads no layout from the header.  FT V3 knows two, normal and zoomed, and the
\* header gives the size of its packets, which have no other blocks.
ASSUME ConfigurationAssumption ==
  /\ \A c \in Configurations :
       /\ c.parser \in FixedParsers => c.layouts \subseteq {"normal", "longer"}
       /\ c.parser = "7_3" => c.layouts \subseteq {"normal", "other"}
  /\ Configurations \subseteq
       [parser  : AllParsers,
        start   : 0..(PerScan - 1),       \* frame_start_azimuth, where column 0 lies
        echo    : 0..2,                   \* echo_mode_filter
        shown   : SUBSET {1, 2},          \* display: the channels that are shown
        fov     : SUBSET (0..(PerScan - 1)),   \* columns inside the field of view
        remake  : BOOLEAN,                \* remake_config.flag
        seq     : BOOLEAN,                \* packets carry a number
        given   : BOOLEAN,                \* lidar_type is configured: the parser exists at once
        layouts : SUBSET Layouts]         \* the layouts the lidar sends

\* setRemakeDefaultConfig makes the frame large enough for the grid.
ASSUME BoundAssumption == /\ PerScan \in Nat \ {0} /\ MaxPackets \in Nat \ {0, 1}
                          /\ \A c \in Configurations : c.remake => PerScan <= MaxPackets
                          /\ FirstColumns \subseteq 0..(PerScan - 1)
                          /\ SeqModulus \in Nat /\ MaxLost \in Nat
                          /\ MaxLost + 1 < SeqModulus

VARIABLES
  conf,      \* the configuration
  lidar,     \* scan (its parity), column and number of the packet the lidar sends next
  f,         \* frame_, the parser's fields and its loss message
  index,     \* packet_index of Run()
  pc,        \* "take" a packet, or "deliver" a finished frame
  packet,    \* the packet that finished it
  quiet,     \* is_timeout_ of the receive thread: a timeout has been reported
  received,  \* history: the packets that belong into the frame
  left,      \* history: with remake, the places of the grid where frames given up have left points
  trusted,   \* history: the frame was opened by a split, with the direction settled
  stalled,   \* history: the frame was opened by a timeout before its scan was over
  astray,    \* history: packets went into the frame uncounted, or were counted and refused
  seen,      \* history: packets whose azimuth was looked at, up to SettledAfter
  uncounted, \* history: packets sent since the last that reached the loss counter
  lost       \* history: the gaps between the packets that reached it

vars == <<conf, lidar, f, index, pc, packet, quiet, received, left, trusted, stalled, astray,
          seen, uncounted, lost>>

None == "none"
NoPacket == [kind |-> None]     \* zeroed memory, or no packet yet
OldPacket == [kind |-> "old"]   \* what earlier frames left behind
NoPoint == <<None>>
OldPoint == <<"old">>
NoTime == <<>>
SettledAfter == 4       \* see FrameSplit: the split of the fourth packet is the first to trust
AziScans == IF conf.parser = "7_3" THEN PerScan ELSE PerScan - 1   \* max_azi_scan

\* The blocks and channels of a packet, in the order of the loops.
Cells(layout) == CASE conf.parser \in OneBlock /\ layout = "other" -> <<<<1, 1>>>>
                   [] conf.parser \in OneBlock /\ layout # "other" -> <<<<1, 1>>, <<1, 2>>>>
                   [] conf.parser \notin OneBlock /\ layout = "other" -> <<<<1, 1>>, <<1, 2>>>>
                   [] OTHER -> <<<<1, 1>>, <<1, 2>>, <<2, 1>>, <<2, 2>>>>
PerPoints(layout) == Len(Cells(layout))
PointIndices == 0..(4 * MaxPackets - 1)
Slots == 0..(MaxPackets - 1)

\* A "longer" packet has the layout of a normal one and more bytes, of a block that the
\* header announces (functional safety, a number).
Header(layout) == IF layout = "longer" THEN "normal" ELSE layout
Size(layout) == layout

Init ==
  /\ conf \in Configurations
  /\ \E column \in FirstColumns : lidar = [scan |-> 0, column |-> column, seq |-> 0]
  /\ f = [created |-> conf.given, init |-> FALSE, layout |-> None, packetNum |-> 0,
          start |-> NoTime, end |-> NoTime, complete |-> FALSE, raw |-> FALSE, size |-> None,
          lastMax |-> 0, slots |-> [i \in Slots |-> NoPacket],
          points |-> [k \in PointIndices |-> NoPoint], valid |-> [i \in Slots |-> 0], pointsNum |-> 0,
          last |-> 0, lastLast |-> 0, rotationFlag |-> 0, lastId |-> -1, useAngle |-> TRUE,
          seqInit |-> FALSE, lastSeq |-> 0, totalLoss |-> 0, ret |-> "go"]
  /\ index = 0 /\ pc = "take" /\ packet = NoPacket /\ quiet = FALSE
  /\ received = <<>> /\ left = {} /\ trusted = FALSE /\ stalled = FALSE /\ astray = FALSE /\ seen = 0
  /\ uncounted = 0 /\ lost = 0
-----------------------------------------------------------------------------
(***************************************************************************)
(* Stages of DecodePacket: from frame and packet to the frame after.        *)
(***************************************************************************)
Return(g, ret) == [g EXCEPT !.ret = ret]      \* "done" is 0, "refused" -1, "imu" 1

Id(p) == <<p.scan, p.column>>
Azimuth(p) == (conf.start + p.column) % PerScan

\* The mirror fields of the AT128, well apart.
FieldStart(scan) == 20 * scan + 3
JumpTolerance == 5       \* AT_AZIMUTH_TOLERANCE
AcceptanceAngle == 2     \* AT_ACCEPTANCE_ANGLE

CheckMagic(g, p) == IF p.kind \in {"alien", "timeout"} THEN Return(g, "refused")
                    ELSE [g EXCEPT !.complete = FALSE]
CheckCrc(g, p) == IF p.kind = "corrupt" THEN Return(g, "refused") ELSE g
TakeImu(g, p) == IF p.kind = "imu" THEN Return(g, "imu") ELSE g

\* Without frame_init_ the packet sets the layout, unless it has too many points.
SetLayout(g, p) ==
  LET h == [g EXCEPT !.layout = Header(p.layout)] IN
  IF g.init THEN g
  ELSE IF p.layout = "large" THEN Return(h, "refused") ELSE [h EXCEPT !.init = TRUE]

SameLayout(g, p) == IF Header(p.layout) = g.layout THEN g ELSE Return(g, "refused")

\* FT V3: a packet with another layout starts the frame's buffer anew.
Relayout(g, p) ==
  LET h == [g EXCEPT !.layout = Header(p.layout)] IN
  IF ~g.init THEN SetLayout(g, p)
  ELSE IF Header(p.layout) = g.layout THEN g
  ELSE IF p.layout = "large" THEN Return(h, "refused")
  ELSE [h EXCEPT !.packetNum = 0, !.start = NoTime, !.raw = FALSE, !.size = None, !.lastMax = 0]

SplitByAzimuth(g, p) ==
  LET a == Azimuth(p) IN
  [g EXCEPT !.complete = IsNeedFrameSplit(conf.start, g.rotationFlag, a, g.last, g.lastLast),
            !.rotationFlag = RotationAfter(g.rotationFlag, a, g.last, g.lastLast),
            !.lastLast = IF a # g.last THEN g.last ELSE g.lastLast,
            !.last = a]

\* AT128: the azimuth jumps to the next mirror field.  After a timeout that has split the
\* frame already, the jump only restores use_angle_.
SplitByJump(g, p) ==
  LET a == FieldStart(p.scan) + p.column
      jump == g.last # 0 /\ Abs(a - g.last) > JumpTolerance
  IN [g EXCEPT !.complete = jump /\ g.useAngle,
               !.useAngle = g.useAngle \/ jump,
               !.last = a]

\* AT128: a timeout near either end of a field splits the frame.
SplitByTimeout(g, p) ==
  IF /\ p.kind = "timeout"
     /\ \E scan \in {0, 1}, column \in {0, PerScan - 1} :
          Abs(FieldStart(scan) + column - g.last) < AcceptanceAngle
  THEN Return([g EXCEPT !.useAngle = FALSE, !.complete = TRUE], "done")
  ELSE g

SplitByIdForgetful(g, p) ==       \* mutant: the return comes before the assignment
  IF g.lastId # -1 /\ g.lastId # p.scan THEN [g EXCEPT !.complete = TRUE]
  ELSE [g EXCEPT !.lastId = p.scan]
\* ATX and FT V3 number their frames; of the ATX's number the last bit is compared.
SplitById(g, p) == [g EXCEPT !.complete = g.lastId # -1 /\ g.lastId # p.scan,
                             !.lastId = p.scan]

SplitByColumn(g, p) == [g EXCEPT !.complete = p.column < g.lastId, !.lastId = p.column]

ReturnIfComplete(g, p) == IF g.complete THEN Return(g, "done") ELSE g

\* CalPktLoss: a number below the last is taken for a wrap.
DiffWrapOff(seq, last) ==         \* mutant
  IF seq >= last THEN seq - last ELSE (SeqModulus - 1 - last) + seq
Diff(seq, last) ==
  IF seq >= last THEN seq - last ELSE (SeqModulus - 1 - last) + seq + 1
CalPktLoss(g, p) ==
  IF ~conf.seq THEN g
  ELSE LET diff == Diff(p.seq, g.lastSeq) IN
       [g EXCEPT !.seqInit = TRUE, !.lastSeq = p.seq,
                 !.totalLoss = IF g.seqInit /\ diff > 1 THEN @ + diff - 1 ELSE @]

Stamps(g, p) == [g EXCEPT !.start = IF @ = NoTime THEN Id(p) ELSE @, !.end = Id(p)]

FilterPacket(g, p) == IF conf.echo # 0 /\ conf.echo # p.echo THEN Return(g, "refused") ELSE g

\* The raw buffer is allocated when the number of packets per frame is a new one, for
\* packets of this size.
StoreCountsFirst(g, p) ==         \* mutant: a packet of another size is counted and not stored
  LET h == IF g.lastMax = MaxPackets THEN g
           ELSE [g EXCEPT !.lastMax = MaxPackets, !.size = Size(p.layout), !.raw = TRUE,
                          !.slots = [i \in Slots |-> NoPacket]]
  IN IF h.size # Size(p.layout) THEN Return([h EXCEPT !.packetNum = @ + 1], "refused")
     ELSE Return([h EXCEPT !.slots[h.packetNum] = p, !.packetNum = @ + 1], "done")
Store(g, p) ==
  LET h == IF g.lastMax = MaxPackets THEN g
           ELSE [g EXCEPT !.lastMax = MaxPackets, !.size = Size(p.layout), !.raw = TRUE,
                          !.slots = [i \in Slots |-> NoPacket]]
  IN IF h.size # Size(p.layout) THEN Return(h, "refused")
     ELSE Return([h EXCEPT !.slots[h.packetNum] = p, !.packetNum = @ + 1], "done")

Stage(name, g, p) ==
  CASE name = "timeout" -> SplitByTimeout(g, p)
    [] name = "magic"   -> CheckMagic(g, p)
    [] name = "crc"     -> CheckCrc(g, p)
    [] name = "imu"     -> TakeImu(g, p)
    [] name = "layout"  -> SetLayout(g, p)
    [] name = "same"    -> SameLayout(g, p)
    [] name = "relayout"-> Relayout(g, p)
    [] name = "azimuth" -> SplitByAzimuth(g, p)
    [] name = "jump"    -> SplitByJump(g, p)
    [] name = "id"      -> SplitById(g, p)
    [] name = "column"  -> SplitByColumn(g, p)
    [] name = "split"   -> ReturnIfComplete(g, p)
    [] name = "loss"    -> CalPktLoss(g, p)
    [] name = "stamps"  -> Stamps(g, p)
    [] name = "filter"  -> FilterPacket(g, p)
    [] name = "store"   -> Store(g, p)

DecodeP40 == <<"magic", "layout", "azimuth", "split", "loss", "stamps", "store">>
DecodeP64 == <<"magic", "layout", "same", "azimuth", "split", "loss", "stamps", "store">>
Decode1_4 == <<"magic", "layout", "same", "azimuth", "split", "loss", "stamps", "store">>
Decode1_8 == <<"magic", "crc", "imu", "layout", "azimuth", "split", "loss", "stamps", "store">>
Decode3_1 == <<"magic", "layout", "same", "azimuth", "split", "loss", "stamps", "store">>
Decode3_2 == <<"magic", "layout", "same", "azimuth", "split", "loss", "stamps", "store">>
Decode4_3 == <<"timeout", "magic", "layout", "same", "jump", "split", "loss", "stamps", "store">>
Decode4_7 == <<"magic", "layout", "same", "id", "split", "loss", "stamps", "store">>
Decode6_1 == <<"magic", "layout", "same", "azimuth", "split", "loss", "stamps", "store">>
Decode7_2 == <<"magic", "layout", "same", "column", "split", "loss", "stamps", "store">>
Decode7_3 == <<"magic", "imu", "relayout", "id", "split", "loss", "stamps", "filter", "store">>

Stages ==
  [parser \in AllParsers |->
     CASE parser = "p40" -> DecodeP40
       [] parser = "p64" -> DecodeP64
       [] parser = "1_4" -> Decode1_4
       [] parser = "1_8" -> Decode1_8
       [] parser = "3_1" -> Decode3_1
       [] parser = "3_2" -> Decode3_2
       [] parser = "4_3" -> Decode4_3
       [] parser = "4_7" -> Decode4_7
       [] parser = "6_1" -> Decode6_1
       [] parser = "7_2" -> Decode7_2
       [] parser = "7_3" -> Decode7_3]

\* DecodePacket of the parser.
Then(h, name, p) == IF h.ret = "go" THEN Stage(name, h, p) ELSE h
DecodePacket(g, p) ==
  LET names == Stages[conf.parser]
      after[n \in 0..Len(names)] ==
        IF n = 0 THEN g ELSE LET h == after[n - 1] IN Then(h, names[n], p)
  IN after[Len(names)]

\* UdpParser::DecodePacket: the first packet of an unknown lidar creates the parser and
\* is not decoded; a packet beyond the frame is refused.
CreatGeneralParser(g, p) ==
  Return([g EXCEPT !.created = p.kind \notin {"alien", "timeout"}], "done")
Decode(g, p) == IF ~g.created THEN CreatGeneralParser(g, p)
                ELSE IF g.packetNum >= MaxPackets THEN Return(g, "refused")
                ELSE DecodePacket(g, p)
-----------------------------------------------------------------------------
(***************************************************************************)
(* ComputeXYZI: what is left of the points of the packet in slot i, and     *)
(* where they go.  The loops of the parsers leave points out in stages.     *)
(***************************************************************************)
Leaves(name, p, cell) ==
  CASE name = "grid"    -> p.kind # "misplaced"
    [] name = "echo"    -> conf.echo = 0 \/ conf.echo = cell[1]
    [] name = "display" -> cell[2] \in conf.shown
    [] name = "fov"     -> p.column \in conf.fov

LoopP40 == <<"echo", "display", "fov">>
LoopP64 == <<"echo", "display", "fov">>
Loop1_4 == <<"echo", "display", "fov">>
Loop1_8 == <<"display", "fov">>
Loop3_1 == <<"echo", "display", "fov">>
Loop3_2 == <<"echo", "display", "fov">>
Loop4_3 == <<"echo", "display", "fov">>
Loop4_7 == <<"echo", "display", "fov">>
Loop6_1 == <<"echo", "display", "fov">>
Loop7_2 == <<"display", "fov">>
Loop7_3 == <<"grid", "display", "fov">>

Loops ==
  [parser \in AllParsers |->
     CASE parser = "p40" -> LoopP40
       [] parser = "p64" -> LoopP64
       [] parser = "1_4" -> Loop1_4
       [] parser = "1_8" -> Loop1_8
       [] parser = "3_1" -> Loop3_1
       [] parser = "3_2" -> Loop3_2
       [] parser = "4_3" -> Loop4_3
       [] parser = "4_7" -> Loop4_7
       [] parser = "6_1" -> Loop6_1
       [] parser = "7_2" -> Loop7_2
       [] parser = "7_3" -> Loop7_3]

IsVisible(p, cell) == \A s \in ToSet(Loops[conf.parser]) : Leaves(s, p, cell)
Visible(p) ==
  LET cells == Cells(p.layout)
      kept[n \in 0..Len(cells)] ==
        IF n = 0 THEN <<>>
        ELSE IF IsVisible(p, cells[n]) THEN Append(kept[n - 1], cells[n]) ELSE kept[n - 1]
  IN kept[Len(cells)]
Point(p, cell) == <<p.scan, p.column, cell[1], cell[2]>>

\* DoRemake: the place in a grid of columns and channels, or none outside of it.
Grid(p, cell) == IF p.column < AziScans THEN p.column * 2 + cell[2] - 1 ELSE -1
\* The visible cells of the packet that belong into place k, by their numbers.
Hits(p, k) == {n \in 1..Len(Visible(p)) : Grid(p, Visible(p)[n]) = k}
LastHit(p, k) == CHOOSE n \in Hits(p, k) : \A m \in Hits(p, k) : m <= n

\* An unset slot of the raw buffer is zeroed: its header announces no points.
ComputeXYZI(g, i) ==
  IF i >= MaxPackets \/ ~g.raw THEN g
  ELSE LET p == g.slots[i] IN
  IF p.kind = None THEN [g EXCEPT !.valid[i] = 0]
  ELSE IF p.kind = "old"
  THEN [g EXCEPT !.valid[i] = PerPoints(g.layout),
                 !.points = [k \in PointIndices |->
                    IF k \div PerPoints(g.layout) = i THEN OldPoint ELSE g.points[k]]]
  ELSE IF conf.remake
  THEN [g EXCEPT !.valid[i] = Len(Visible(p)) - Cardinality(Hits(p, -1)),
                 !.points = [k \in PointIndices |->
                    IF Hits(p, k) # {} THEN Point(p, Visible(p)[LastHit(p, k)]) ELSE g.points[k]]]
  ELSE LET first == i * PerPoints(g.layout) IN
       [g EXCEPT !.valid[i] = Len(Visible(p)),
                 !.points = [k \in PointIndices |->
                    IF first <= k /\ k < first + Len(Visible(p))
                    THEN Point(p, Visible(p)[k - first + 1]) ELSE g.points[k]]]
-----------------------------------------------------------------------------
(***************************************************************************)
(* Run()                                                                   *)
(***************************************************************************)
CompactWithoutGaps(g) ==          \* mutant: the destination is not moved on
  LET Move(acc, i) ==
        [pts |-> [k \in PointIndices |->
                    IF acc.n <= k /\ k < acc.n + g.valid[i]
                    THEN acc.pts[i * PerPoints(g.layout) + k - acc.n] ELSE acc.pts[k]],
         n |-> i * PerPoints(g.layout) + g.valid[i]]
      moved[j \in 0..g.packetNum] ==
        IF j = 0 THEN [pts |-> g.points, n |-> 0] ELSE LET acc == moved[j - 1] IN Move(acc, j - 1)
  IN [g EXCEPT !.points = moved[g.packetNum].pts, !.pointsNum = moved[g.packetNum].n]
\* The points of each packet are moved down behind those of the packet before.  memcpy is
\* called on ranges that may overlap; the copy of the C library moves towards lower
\* addresses in order.
Compact(g) ==
  LET Move(acc, i) ==
        [pts |-> [k \in PointIndices |->
                    IF acc.n <= k /\ k < acc.n + g.valid[i]
                    THEN acc.pts[i * PerPoints(g.layout) + k - acc.n] ELSE acc.pts[k]],
         n |-> acc.n + g.valid[i]]
      moved[j \in 0..g.packetNum] ==
        IF j = 0 THEN [pts |-> g.points, n |-> 0] ELSE LET acc == moved[j - 1] IN Move(acc, j - 1)
  IN [g EXCEPT !.points = moved[g.packetNum].pts, !.pointsNum = moved[g.packetNum].n]

\* Every conversion is done: the points are counted, moved together, or taken as a grid.
Collect(g) == IF conf.remake THEN [g EXCEPT !.pointsNum = AziScans * 2] ELSE Compact(g)

\* Update(): a new frame.  The points of the last one stay, as do the raw packets, and are only
\* "old" from now on.
Update(g) == [g EXCEPT !.packetNum = 0, !.pointsNum = 0, !.start = NoTime, !.end = NoTime,
                       !.complete = FALSE,
                       !.slots = [i \in Slots |-> IF @[i].kind = None THEN NoPacket ELSE OldPacket],
                       !.points = [k \in PointIndices |->
                                      IF g.points[k] = NoPoint THEN NoPoint ELSE OldPoint]]

ClearPointsNever(g) == g           \* mutant
\* After a frame that was delivered the grid is cleared, after one that was given up it is not.
ClearPoints(g) == IF conf.remake THEN [g EXCEPT !.points = [k \in PointIndices |-> NoPoint]] ELSE g

Go(g) == [g EXCEPT !.ret = "go"]

\* A packet that the frame should hold, by what the lidar sends and what is configured.
Belongs(g, p) == /\ p.kind \in {"points", "misplaced"} /\ p.layout = g.layout /\ g.init
                 /\ conf.parser = "7_3" /\ conf.echo # 0 => p.echo = conf.echo

\* A packet whose number reaches the loss counter.
Counted(g, p) == p.kind \in {"points", "misplaced"} /\ Header(p.layout) = g.layout /\ g.init

Count(g, p) == IF Counted(g, p)
               THEN /\ lost' = IF f.seqInit /\ conf.seq THEN lost + uncounted ELSE lost
                    /\ uncounted' = 0
               ELSE /\ uncounted' = IF p.kind \in {"points", "misplaced"} THEN uncounted + 1
                                    ELSE uncounted
                    /\ UNCHANGED lost

\* FT V3 has begun a frame's buffer anew and Run() goes on counting.
Strays(g) == astray' = (astray \/ (f.init /\ g.layout # f.layout))

\* DecodePacket refused the packet, or took IMU values from it, or created the parser.
Skips(p) ==
  /\ Decode(f, p).ret \in {"refused", "imu"} \/ ~f.created
  /\ f' = Go(Decode(f, p))
  /\ received' = IF f.created /\ Belongs(f', p) THEN Append(received, p) ELSE received
  /\ IF f.created THEN Count(f', p) ELSE UNCHANGED <<lost, uncounted>>
  /\ Strays(f')
  /\ UNCHANGED <<index, pc, packet, left, trusted, stalled>>

\* The frame is full and did not split: it is given up.
Discards(g) == index + 1 >= MaxPackets /\ g.packetNum # index

\* With remake, the places of the grid that hold points.
Occupied(g) == {k \in PointIndices : conf.remake /\ g.points[k] # NoPoint}

\* The packet goes into the frame.
Stores(p) ==
  LET g == Go(Decode(f, p))
      h == IF g.packetNum # index THEN ComputeXYZI(g, index) ELSE g
  IN
  /\ f.created /\ Decode(f, p).ret = "done" /\ ~g.complete
  /\ IF Discards(g)
     THEN /\ f' = Update(h) /\ index' = 0 /\ received' = <<>> /\ left' = Occupied(h)
          /\ trusted' = FALSE /\ astray' = FALSE
     ELSE /\ f' = h /\ index' = IF g.packetNum # index THEN index + 1 ELSE index
          /\ received' = IF Belongs(g, p) THEN Append(received, p) ELSE received
          /\ Strays(g) /\ UNCHANGED <<left, trusted>>
  /\ Count(g, p)
  /\ UNCHANGED <<pc, packet, stalled>>

\* The packet, or a timeout, ends the scan.
Splits(p) ==
  /\ f.created /\ Decode(f, p).ret = "done" /\ Decode(f, p).complete
  /\ f' = Collect(Go(Decode(f, p)))
  /\ pc' = "deliver" /\ packet' = p
  /\ Strays(Decode(f, p))
  /\ UNCHANGED <<index, received, left, trusted, stalled, uncounted, lost>>

\* After the callbacks: a new frame, whose first packet is the one that split.
Delivered ==
  LET u == ClearPoints(Update(f))
      g == Go(Decode(u, packet))     \* the result is not looked at
      timeout == packet.kind = "timeout"
  IN
  /\ pc = "deliver"
  /\ f' = IF timeout THEN u ELSE ComputeXYZI(g, 0)
  /\ index' = IF timeout THEN 0 ELSE 1
  /\ pc' = "take" /\ packet' = NoPacket
  /\ received' = IF ~timeout /\ Belongs(g, packet) THEN <<packet>> ELSE <<>>
  /\ left' = {}
  /\ trusted' = (seen = SettledAfter)
  /\ stalled' = (timeout /\ lidar.column # 0)
  /\ astray' = (~timeout /\ g.packetNum # 1)
  /\ IF timeout THEN UNCHANGED <<lost, uncounted>> ELSE Count(g, packet)
  /\ UNCHANGED <<conf, lidar, quiet, seen>>
-----------------------------------------------------------------------------
\* The lidar's packet in one of its layouts, the echo alternating from packet to packet.
LidarPacket(kind, layout) ==
  [kind |-> kind, layout |-> layout, scan |-> lidar.scan, column |-> lidar.column,
   seq |-> lidar.seq, echo |-> (lidar.seq % 2) + 1]

MovesOn == lidar' = [scan |-> IF lidar.column = PerScan - 1 THEN 1 - lidar.scan ELSE lidar.scan,
                     column |-> (lidar.column + 1) % PerScan,
                     seq |-> (lidar.seq + 1) % SeqModulus]

\* The lidar starts in a layout it keeps, or in one that no frame can take.  FT V3 packets
\* may name a row that does not exist; here the second of a scan does.  Other layouts
\* come at the start of a scan or in its midst.
Sends == \E kind \in {"points", "misplaced"}, layout \in conf.layouts :
  LET p == LidarPacket(kind, layout) IN
  /\ pc = "take"
  /\ kind = "misplaced" => conf.parser = "7_3" /\ lidar.column = 1
  /\ ~f.init => layout \in {"normal", "large"}
  /\ layout \in {"other", "longer"} => lidar.column \in {0, 3}
  /\ layout \in {"other", "large"} => lost + uncounted < MaxLost
  /\ Skips(p) \/ Stores(p) \/ Splits(p)
  /\ seen' = IF seen < SettledAfter /\ Counted(f', p) THEN seen + 1 ELSE seen
  /\ quiet' = FALSE
  /\ MovesOn /\ UNCHANGED conf

\* Something else comes: IMU values, another sender's packet, a corrupted copy.
SendsOther == \E kind \in {"imu", "alien", "corrupt"} :
  LET p == LidarPacket(kind, "normal") IN
  /\ pc = "take"
  /\ kind = "imu" => conf.parser \in {"1_8", "7_3"}
  /\ kind = "corrupt" => conf.parser = "1_8"
  /\ Skips(p)
  /\ quiet' = FALSE
  /\ UNCHANGED <<conf, lidar, seen>>

\* The receive thread reports a timeout, once until the next packet.
Timeout ==
  LET p == LidarPacket("timeout", "normal") IN
  /\ pc = "take" /\ ~quiet
  /\ Skips(p) \/ Splits(p)
  /\ quiet' = TRUE
  /\ UNCHANGED <<conf, lidar, seen>>

\* A packet is lost on the way.
Loses == /\ pc = "take" /\ lost + uncounted < MaxLost
         /\ uncounted' = uncounted + 1
         /\ MovesOn
         /\ UNCHANGED <<conf, f, index, pc, packet, quiet, received, left, trusted, stalled, astray,
                       seen, lost>>

Next == Sends \/ SendsOther \/ Timeout \/ Loses \/ Delivered

Spec == Init /\ [][Next]_vars
-----------------------------------------------------------------------------
(***************************************************************************)
(* Properties                                                              *)
(***************************************************************************)
TypeOK ==
  /\ conf \in Configurations
  /\ lidar \in [scan : {0, 1}, column : 0..(PerScan - 1), seq : 0..(SeqModulus - 1)]
  /\ f.packetNum \in 0..MaxPackets /\ f.pointsNum \in 0..(4 * MaxPackets)
  /\ f.rotationFlag \in -(FlagLimit + 1)..(FlagLimit + 1)
  /\ f.ret = "go" /\ f.totalLoss \in 0..MaxLost
  /\ index \in 0..MaxPackets
  /\ pc \in {"take", "deliver"} /\ (pc = "deliver" <=> packet # NoPacket)
  /\ seen \in 0..SettledAfter /\ uncounted \in 0..MaxLost /\ lost \in 0..MaxLost

PointsOf(p) == LET kept == Visible(p) IN [n \in 1..Len(kept) |-> Point(p, kept[n])]

\* What a frame of these packets should hold: their visible points one after another, or
\* with remake a grid with the point that came last in each place, or what was there before.
ListOf(packets) == FlattenSeq([i \in 1..Len(packets) |-> PointsOf(packets[i])])
Before(places, k) == IF k \in places THEN OldPoint ELSE NoPoint
IsLast(pt, old, packets, k) ==
  \/ pt = old /\ \A i \in 1..Len(packets) : Hits(packets[i], k) = {}
  \/ \E i \in 1..Len(packets) :
       /\ \E n \in Hits(packets[i], k) :
            /\ pt = PointsOf(packets[i])[n]
            /\ \A m \in Hits(packets[i], k) : m <= n
       /\ \A j \in (i + 1)..Len(packets) : Hits(packets[j], k) = {}
HoldsPoints(packets) ==
  IF conf.remake
  THEN /\ f.pointsNum = AziScans * 2
       /\ \A k \in 0..(AziScans * 2 - 1) : IsLast(f.points[k], Before(left, k), packets, k)
  ELSE [k \in 1..f.pointsNum |-> f.points[k - 1]] = ListOf(packets)

\* A packet refused for its echo or its size has left its times in the frame already.
StampedAreStored == /\ "longer" \notin conf.layouts
                    /\ conf.parser = "7_3" => conf.echo = 0

\* A frame given to the callbacks consists of the visible points of exactly the packets
\* that came for it, in their order, and its start and end are those of its first and last
\* packet: whatever the parser refused, lost or took for IMU values in between, and however
\* many points of a packet are filtered.  Nothing is left from frames that were delivered.
\* Of frames given up since, for want of a split, nothing is left in a list; a grid still has
\* their points where no packet of this frame has put one, since Update() clears none.
\* Frames that lose count of their packets are excused, see IndexCountsStored.
FrameIsItsPackets ==
  pc = "deliver" /\ ~astray =>
    /\ HoldsPoints(received)
    /\ received # <<>> /\ StampedAreStored =>
         f.start = Id(Head(received)) /\ f.end = Id(Last(received))

\* Once the direction of rotation is settled, scans and frames are the same: a frame has
\* packets of one scan, and it ends with that scan, as long as fewer packets are lost
\* than a scan has.  Excused is the frame that a timeout opens before the scan is over: the
\* jump that would have split it only restores use_angle_.  What decides, with the counters,
\* stays in its range (TypeOK).
FramesAreScans ==
  /\ TypeOK
  /\ pc = "deliver" /\ trusted /\ ~stalled =>
       \A i \in 1..Len(received) :
         /\ received[i].scan = Head(received).scan
         /\ packet.kind # "timeout" => received[i].scan # packet.scan

\* total_loss_count is the number of packets missing between those that were counted,
\* with numbers that wrap, split packets decoded twice and packets refused.
LossCounted == f.totalLoss = IF conf.seq THEN lost ELSE 0

\* Run() counts in packet_index exactly the packets that DecodePacket has stored.  It loses
\* count for the rest of a frame in two ways only: the packet that split is refused by its
\* second decode, whose result is not looked at (an echo filter, another size), or FT V3
\* has begun the frame's buffer anew.
IndexCountsStored == pc = "take" /\ ~astray => index = f.packetNum
=============================================================================
