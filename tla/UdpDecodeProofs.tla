--------------------------- MODULE UdpDecodeProofs ---------------------------
(***************************************************************************)
(* Proofs about UdpDecode for any parsers and settings, any length of a scan *)
(* and of a frame, and any loss below one turn of the numbers: Run() counts  *)
(* what DecodePacket stores, losses are counted once, and a frame consists   *)
(* of the visible points of its packets.                                    *)
(***************************************************************************)
EXTENDS UdpDecode, WellFoundedInduction, SequenceTheorems, TLAPS

(* Induction over the natural numbers, in the form of sets *)

LEMMA LeastElement ==
  ASSUME NEW T \in SUBSET Nat, T # {}
  PROVE  \E x \in T : \A y \in T : x <= y
<1> DEFINE R == OpToRel(<, Nat)
<1>1. IsWellFoundedOn(R, Nat)
  BY NatLessThanWellFounded
<1> HIDE DEF R
<1>2. PICK x \in T : \A y \in T : ~(<<y, x>> \in R)
  BY <1>1, WFMin
<1>3. ASSUME NEW y \in T PROVE x <= y
  <2>1. <<y, x>> \in R <=> y < x
    BY DEF R, OpToRel
  <2>2. ~(y < x) /\ x \in Nat /\ y \in Nat
    BY <1>2, <2>1
  <2> QED
    BY <2>2
<1> QED
  BY <1>3

\* A set that has 0 and with each number below n the next one has all up to n.
LEMMA UpTo ==
  ASSUME NEW n \in Nat, NEW S, 0 \in S,
         \A i \in 1..n : i - 1 \in S => i \in S
  PROVE  \A i \in 0..n : i \in S
<1> DEFINE Outside == {i \in Nat : i <= n /\ ~(i \in S)}
<1> SUFFICES ASSUME Outside # {} PROVE FALSE
  <2>1. ASSUME NEW i \in 0..n PROVE i \in S
    <3>1. ~(i \in Outside)
      OBVIOUS
    <3> QED
      BY <3>1
  <2> QED
    BY <2>1
<1> HIDE DEF Outside
<1>1. Outside \in SUBSET Nat
  BY DEF Outside
<1>2. PICK x \in Outside : \A y \in Outside : x <= y
  BY <1>1, LeastElement
<1>3. x \in Nat /\ x <= n /\ ~(x \in S) /\ x # 0
  BY <1>2 DEF Outside
<1>4. x \in 1..n /\ x - 1 \in Nat /\ x - 1 <= n
  BY <1>3
<1>5. ~(x - 1 \in S)
  BY <1>3, <1>4
<1>6. x - 1 \in Outside
  BY <1>4, <1>5 DEF Outside
<1>7. x <= x - 1
  BY <1>2, <1>6
<1> QED
  BY <1>3, <1>7
-----------------------------------------------------------------------------
(***************************************************************************)
(* The stages of DecodePacket, one after another                            *)
(***************************************************************************)
\* f has the frame after each of the first n stages.
IsDecoding(d, n, g, names, p) ==
  d = [i \in 0..n |-> IF i = 0 THEN g ELSE Then(d[i - 1], names[i], p)]

LEMMA DecodingExists ==
  ASSUME NEW g, NEW names, Len(names) \in Nat, NEW p
  PROVE  \E d : IsDecoding(d, Len(names), g, names, p)
<1> DEFINE S == {n \in Nat : \E d : IsDecoding(d, n, g, names, p)}
<1>1. 0 \in S
  <2> DEFINE d == [i \in 0..0 |-> g]
  <2>1. d = [i \in 0..0 |-> IF i = 0 THEN g ELSE Then(d[i - 1], names[i], p)]
    OBVIOUS
  <2> QED
    BY <2>1 DEF IsDecoding
<1>2. ASSUME NEW n \in 1..Len(names), n - 1 \in S PROVE n \in S
  <2>1. PICK d : IsDecoding(d, n - 1, g, names, p)
    BY <1>2
  <2> DEFINE next == Then(d[n - 1], names[n], p)
             h    == [i \in 0..n |-> IF i = n THEN next ELSE d[i]]
             k    == [i \in 0..n |-> IF i = 0 THEN g ELSE Then(h[i - 1], names[i], p)]
  <2>2. ASSUME NEW i \in 0..n PROVE h[i] = k[i]
    <3>1. CASE i = n
      <4>1. h[i] = next /\ n # 0 /\ n - 1 \in 0..n /\ n - 1 # n
        BY <3>1
      <4>2. h[n - 1] = d[n - 1]
        BY <4>1
      <4>3. k[i] = Then(h[n - 1], names[n], p)
        BY <3>1, <4>1
      <4> QED
        BY <4>1, <4>2, <4>3
    <3>2. CASE i # n
      <4>1. i \in 0..(n - 1) /\ h[i] = d[i]
        BY <3>2
      <4>2. d[i] = IF i = 0 THEN g ELSE Then(d[i - 1], names[i], p)
        BY <2>1, <4>1 DEF IsDecoding
      <4>3. i # 0 => i - 1 \in 0..n /\ i - 1 # n /\ h[i - 1] = d[i - 1]
        BY <4>1
      <4>4. k[i] = IF i = 0 THEN g ELSE Then(h[i - 1], names[i], p)
        OBVIOUS
      <4> QED
        BY <4>1, <4>2, <4>3, <4>4
    <3> QED
      BY <3>1, <3>2
  <2> HIDE DEF next
  <2>3. h = k
    BY <2>2
  <2>4. IsDecoding(h, n, g, names, p)
    BY <2>3 DEF IsDecoding
  <2> QED
    BY <2>4
<1> HIDE DEF S
<1>3. \A i \in 0..Len(names) : i \in S
  BY <1>1, <1>2, UpTo
<1>4. Len(names) \in S
  BY <1>3
<1> QED
  BY <1>4 DEF S

\* The frames after the stages, one by one.
Decodes(d, g, p) ==
  /\ d[0] = g
  /\ \A i \in 1..Len(Stages[conf.parser]) : d[i] = Then(d[i - 1], Stages[conf.parser][i], p)
  /\ DecodePacket(g, p) = d[Len(Stages[conf.parser])]

LEMMA DecodePacketIsStages ==
  ASSUME NEW g, NEW p, Len(Stages[conf.parser]) \in Nat
  PROVE  \E d : Decodes(d, g, p)
<1> DEFINE names == Stages[conf.parser]
<1> DEFINE d == CHOOSE a : a = [i \in 0..Len(names) |-> IF i = 0 THEN g ELSE Then(a[i - 1], names[i], p)]
<1>1. d = [i \in 0..Len(names) |-> IF i = 0 THEN g ELSE Then(d[i - 1], names[i], p)]
  <2>1. PICK h : IsDecoding(h, Len(names), g, names, p)
    BY DecodingExists
  <2>2. h = [i \in 0..Len(names) |-> IF i = 0 THEN g ELSE Then(h[i - 1], names[i], p)]
    BY <2>1 DEF IsDecoding
  <2> QED
    BY <2>2, Zenon
<1>2. DecodePacket(g, p) = d[Len(names)]
  BY DEF DecodePacket
<1> HIDE DEF d
<1>3. d[0] = g
  BY <1>1
<1>4. ASSUME NEW i \in 1..Len(names) PROVE d[i] = Then(d[i - 1], names[i], p)
  BY <1>1
<1> QED
  BY <1>2, <1>3, <1>4 DEF Decodes

LEMMA StageIs ==
  ASSUME NEW g, NEW p
  PROVE  /\ Stage("timeout", g, p) = SplitByTimeout(g, p) /\ Stage("magic", g, p) = CheckMagic(g, p)
         /\ Stage("crc", g, p) = CheckCrc(g, p) /\ Stage("imu", g, p) = TakeImu(g, p)
         /\ Stage("layout", g, p) = SetLayout(g, p) /\ Stage("same", g, p) = SameLayout(g, p)
         /\ Stage("relayout", g, p) = Relayout(g, p) /\ Stage("azimuth", g, p) = SplitByAzimuth(g, p)
         /\ Stage("jump", g, p) = SplitByJump(g, p) /\ Stage("id", g, p) = SplitById(g, p)
         /\ Stage("column", g, p) = SplitByColumn(g, p) /\ Stage("split", g, p) = ReturnIfComplete(g, p)
         /\ Stage("loss", g, p) = CalPktLoss(g, p) /\ Stage("stamps", g, p) = Stamps(g, p)
         /\ Stage("filter", g, p) = FilterPacket(g, p) /\ Stage("store", g, p) = Store(g, p)
BY DEF Stage

\* The stage that decides whether the packet opens a new scan.
SplitStage == CASE conf.parser \in Turning -> "azimuth"
                [] conf.parser = "4_3" -> "jump"
                [] conf.parser \in {"4_7", "7_3"} -> "id"
                [] conf.parser = "7_2" -> "column"

LEMMA StagesOfParser ==
  ASSUME conf.parser \in AllParsers
  PROVE  LET names == Stages[conf.parser] IN
         \/ /\ conf.parser \in AllParsers \ {"p40", "1_8", "4_3", "7_3"}
            /\ SplitStage \in {"azimuth", "id", "column"}
            /\ names = <<"magic", "layout", "same", SplitStage, "split", "loss", "stamps", "store">>
         \/ /\ conf.parser = "p40" /\ SplitStage = "azimuth"
            /\ names = <<"magic", "layout", "azimuth", "split", "loss", "stamps", "store">>
         \/ /\ conf.parser = "1_8" /\ SplitStage = "azimuth"
            /\ names = <<"magic", "crc", "imu", "layout", "azimuth", "split", "loss", "stamps", "store">>
         \/ /\ conf.parser = "4_3" /\ SplitStage = "jump"
            /\ names = <<"timeout", "magic", "layout", "same", "jump", "split", "loss", "stamps", "store">>
         \/ /\ conf.parser = "7_3" /\ SplitStage = "id"
            /\ names = <<"magic", "imu", "relayout", "id", "split", "loss", "stamps", "filter", "store">>
<1> USE DEF AllParsers, Turning, HeaderParsers, FixedParsers, Stages, SplitStage
<1>1. CASE conf.parser \in {"p64", "1_4", "3_1"}
  BY <1>1 DEF DecodeP64, Decode1_4, Decode3_1
<1>2. CASE conf.parser \in {"3_2", "6_1", "4_7", "7_2"}
  BY <1>2 DEF Decode3_2, Decode6_1, Decode4_7, Decode7_2
<1>3. CASE conf.parser \in {"p40", "1_8"}
  BY <1>3 DEF DecodeP40, Decode1_8
<1>4. CASE conf.parser \in {"4_3", "7_3"}
  BY <1>4 DEF Decode4_3, Decode7_3
<1> QED
  BY <1>1, <1>2, <1>3, <1>4

LEMMA FirstStages ==
  ASSUME conf.parser \in AllParsers
  PROVE  LET names == Stages[conf.parser] IN
         /\ Len(names) \in Nat /\ Len(names) > 2
         /\ conf.parser # "4_3" => names[1] = "magic"
         /\ conf.parser = "1_8" => names[2] = "crc" /\ names[3] = "imu"
         /\ conf.parser = "7_3" => names[2] = "imu"
         /\ conf.parser = "4_3" => names[1] = "timeout" /\ names[2] = "magic"
<1> DEFINE names == Stages[conf.parser]
<1>0. \/ conf.parser \in AllParsers \ {"p40", "1_8", "4_3", "7_3"}
         /\ names = <<"magic", "layout", "same", SplitStage, "split", "loss", "stamps", "store">>
      \/ conf.parser = "p40" 
         /\ names = <<"magic", "layout", "azimuth", "split", "loss", "stamps", "store">>
      \/ conf.parser = "1_8"
         /\ names = <<"magic", "crc", "imu", "layout", "azimuth", "split", "loss", "stamps", "store">>
      \/ conf.parser = "4_3"
         /\ names = <<"timeout", "magic", "layout", "same", "jump", "split", "loss", "stamps", "store">>
      \/ conf.parser = "7_3"
         /\ names = <<"magic", "imu", "relayout", "id", "split", "loss", "stamps", "filter", "store">>
  BY StagesOfParser
<1> HIDE DEF names
<1> SUFFICES /\ Len(names) \in Nat /\ Len(names) > 2
             /\ conf.parser # "4_3" => names[1] = "magic"
             /\ conf.parser = "1_8" => names[2] = "crc" /\ names[3] = "imu"
             /\ conf.parser = "7_3" => names[2] = "imu"
             /\ conf.parser = "4_3" => names[1] = "timeout" /\ names[2] = "magic"
  BY DEF names
<1>1. CASE conf.parser \in AllParsers \ {"p40", "1_8", "4_3", "7_3"}
  BY <1>0, <1>1
<1>2. CASE conf.parser = "p40"
  BY <1>0, <1>2
<1>3. CASE conf.parser = "1_8"
  <2>1. names = <<"magic", "crc", "imu", "layout", "azimuth", "split", "loss", "stamps", "store">>
    BY <1>0, <1>3
  <2>2. Len(names) = 9
    BY <2>1
  <2>3. names[1] = "magic" /\ names[2] = "crc" /\ names[3] = "imu"
    BY <2>1
  <2> QED
    BY <1>3, <2>2, <2>3
<1>4. CASE conf.parser = "4_3"
  BY <1>0, <1>4, SMTT(30)
<1>5. CASE conf.parser = "7_3"
  BY <1>0, <1>5
<1> QED
  BY <1>0, <1>1, <1>2, <1>3, <1>4, <1>5

Fields == {"created", "init", "layout", "packetNum", "start", "end", "complete", "raw", "size",
           "lastMax", "slots", "points", "valid", "pointsNum", "last", "lastLast", "rotationFlag",
           "lastId", "useAngle", "seqInit", "lastSeq", "totalLoss", "ret"}

\* h is the frame g but for these fields.
Same(g, h, fields) == DOMAIN h = Fields /\ \A x \in Fields \ fields : h[x] = g[x]

PointKinds == {"points", "misplaced"}
SplitFields == {"complete", "last", "lastLast", "rotationFlag", "lastId", "useAngle"}
LayoutFields == {"complete", "init", "layout", "packetNum", "start", "raw", "size", "lastMax", "ret"}

\* A packet of points until it is known which scan it belongs to.
Opened(g, p) == IF conf.parser = "7_3" THEN Relayout(CheckMagic(g, p), p)
                ELSE SetLayout(CheckMagic(g, p), p)
LayoutRefused(g, p) == IF g.init THEN conf.parser # "7_3" /\ Header(p.layout) # g.layout
                       ELSE p.layout = "large"

LEMMA OpenedDoes ==
  ASSUME NEW g, DOMAIN g = Fields, g.ret = "go", g.init \in BOOLEAN, NEW p, p.kind \in PointKinds
  PROVE  LET h == Opened(g, p) IN
         /\ Same(g, h, LayoutFields) /\ h.complete = FALSE
         /\ ~g.init /\ p.layout = "large" => 
              h.ret = "refused" /\ Same(g, h, {"complete", "layout", "ret"}) /\ h.layout = "large"
         /\ ~g.init /\ p.layout # "large" =>
              h.ret = "go" /\ Same(g, h, {"complete", "layout", "init"}) /\ h.init /\ h.layout = Header(p.layout)
         /\ g.init /\ (conf.parser # "7_3" \/ Header(p.layout) = g.layout) => 
              h.ret = "go" /\ Same(g, h, {"complete"})
         /\ g.init /\ conf.parser = "7_3" /\ Header(p.layout) # g.layout /\ p.layout # "large" =>
              /\ h.ret = "go" /\ Same(g, h, LayoutFields \ {"init", "ret"}) /\ h.layout = Header(p.layout)
              /\ h.packetNum = 0 /\ h.start = NoTime /\ h.raw = FALSE /\ h.size = None /\ h.lastMax = 0
<1> DEFINE m == CheckMagic(g, p)
<1>1. Same(g, m, {"complete"}) /\ m.complete = FALSE
  BY DEF CheckMagic, PointKinds, Same, Fields
<1> HIDE DEF m
<1>2. m.ret = "go" /\ m.init = g.init /\ m.layout = g.layout
  BY <1>1 DEF Same, Fields
<1>3. CASE ~g.init
  <2>1. Opened(g, p) = SetLayout(m, p) /\ m.init = FALSE
    BY <1>2, <1>3 DEF Opened, Relayout, m
  <2> DEFINE l == [m EXCEPT !.layout = Header(p.layout)]
  <2>2. Same(g, l, {"complete", "layout"}) /\ l.layout = Header(p.layout) /\ l.complete = FALSE /\ l.ret = "go"
    BY <1>1, <1>2 DEF Same, Fields
  <2>3. Opened(g, p) = IF p.layout = "large" THEN [l EXCEPT !.ret = "refused"] ELSE [l EXCEPT !.init = TRUE]
    BY <2>1 DEF SetLayout, Return
  <2> HIDE DEF l
  <2>4. CASE p.layout = "large"
    BY <1>3, <2>2, <2>3, <2>4 DEF Same, Fields, LayoutFields, Header
  <2>5. CASE p.layout # "large"
    BY <1>3, <2>2, <2>3, <2>5 DEF Same, Fields, LayoutFields
  <2> QED
    BY <2>4, <2>5
<1>4. CASE g.init /\ (conf.parser # "7_3" \/ Header(p.layout) = g.layout)
  BY <1>1, <1>2, <1>4 DEF Opened, SetLayout, Relayout, Same, Fields, LayoutFields, Return, m
<1>5. CASE g.init /\ conf.parser = "7_3" /\ Header(p.layout) # g.layout
  BY <1>1, <1>2, <1>5 DEF Opened, SetLayout, Relayout, Same, Fields, LayoutFields, Return, m
<1> QED
  BY <1>3, <1>4, <1>5

\* The packet that opened the scan: a second look at it finds nothing new.
Settled(g, p) ==
  /\ conf.parser \in Turning => g.last = Azimuth(p)
  /\ conf.parser = "4_3" => g.last = FieldStart(p.scan) + p.column
  /\ conf.parser \in {"4_7", "7_3"} => g.lastId = p.scan
  /\ conf.parser = "7_2" => g.lastId = p.column

Unturned(g) == g.last = 0 /\ g.lastLast = 0 /\ g.lastId = -1

\* The fields that the split looks at.
SplitTypes(g) == g.last \in Nat /\ g.lastLast \in Nat /\ g.lastId \in Int /\ g.complete \in BOOLEAN
                 /\ g.useAngle \in BOOLEAN

\* Where a packet lies.
PlaceTypes(p) == p.scan \in {0, 1} /\ p.column \in 0..(PerScan - 1)

LEMMA AzimuthSplitDoes ==
  ASSUME NEW start \in Int, NEW flag, NEW a \in Nat, NEW last \in Nat, NEW lastLast \in Nat
  PROVE  /\ a = last \/ last = lastLast => ~IsNeedFrameSplit(start, flag, a, last, lastLast)
         /\ IsNeedFrameSplit(start, flag, a, last, lastLast) \in BOOLEAN
<1>1. a = last \/ last = lastLast => Division(a, last, lastLast) = 0
  BY DEF Division, Abs
<1> QED
  BY <1>1 DEF IsNeedFrameSplit

LEMMA ConfigurationTypes ==
  ASSUME conf \in Configurations
  PROVE  /\ conf.parser \in AllParsers /\ conf.start \in 0..(PerScan - 1) /\ conf.echo \in 0..2
         /\ conf.remake \in BOOLEAN /\ conf.seq \in BOOLEAN /\ conf.given \in BOOLEAN
         /\ conf.layouts \subseteq Layouts
         /\ conf.parser \in FixedParsers => conf.layouts \subseteq {"normal", "longer"}
         /\ conf.parser = "7_3" => conf.layouts \subseteq {"normal", "other"}
         /\ conf.remake => PerScan <= MaxPackets
BY ConfigurationAssumption, BoundAssumption

LEMMA SplitDoes ==
  ASSUME conf \in Configurations, NEW g, DOMAIN g = Fields, SplitTypes(g), ~g.complete,
         NEW p, PlaceTypes(p)
  PROVE  LET h == Stage(SplitStage, g, p) IN
         /\ Same(g, h, SplitFields) /\ SplitTypes(h) /\ Settled(h, p)
         /\ Settled(g, p) \/ Unturned(g) => ~h.complete
<1> DEFINE h == Stage(SplitStage, g, p)
<1>0. conf.parser \in AllParsers /\ conf.start \in Nat /\ PerScan \in Nat \ {0} /\ p.column \in Nat
  BY ConfigurationTypes, BoundAssumption DEF PlaceTypes
<1>a. Azimuth(p) \in Nat
  BY <1>0 DEF Azimuth
<1> SUFFICES /\ Same(g, h, SplitFields) /\ SplitTypes(h) /\ Settled(h, p)
             /\ Settled(g, p) \/ Unturned(g) => ~h.complete
  OBVIOUS
<1>1. CASE conf.parser \in Turning
  <2> DEFINE c == IsNeedFrameSplit(conf.start, g.rotationFlag, Azimuth(p), g.last, g.lastLast)
             r == RotationAfter(g.rotationFlag, Azimuth(p), g.last, g.lastLast)
             l == IF Azimuth(p) # g.last THEN g.last ELSE g.lastLast
  <2>1. c \in BOOLEAN /\ (Azimuth(p) = g.last \/ g.last = g.lastLast => ~c)
    BY <1>0, <1>a, AzimuthSplitDoes DEF SplitTypes
  <2>2. h = [g EXCEPT !.complete = c, !.rotationFlag = r, !.lastLast = l, !.last = Azimuth(p)]
    <3>1. SplitStage = "azimuth"
      BY <1>1 DEF SplitStage, Turning, HeaderParsers, FixedParsers
    <3>2. h = SplitByAzimuth(g, p)
      BY <3>1, StageIs
    <3> QED
      BY <3>2 DEF SplitByAzimuth
  <2>3. l \in Nat
    BY <1>a DEF SplitTypes
  <2> HIDE DEF c, r, l, h
  <2>4. Same(g, h, SplitFields) /\ h.complete = c /\ h.last = Azimuth(p) /\ h.lastLast = l
    BY <2>2 DEF Same, Fields, SplitFields
  <2>5. h.lastId = g.lastId /\ h.useAngle = g.useAngle
    BY <2>2 DEF Fields
  <2>6. SplitTypes(h)
    BY <2>1, <2>3, <2>4, <2>5, <1>a DEF SplitTypes
  <2>7. Settled(h, p)
    BY <1>1, <2>4 DEF Settled, Turning, HeaderParsers, FixedParsers
  <2>8. Settled(g, p) \/ Unturned(g) => ~c
    BY <1>1, <2>1 DEF Settled, Unturned
  <2> QED
    BY <2>4, <2>6, <2>7, <2>8
<1>2. CASE conf.parser = "4_3"
  <2> DEFINE a == FieldStart(p.scan) + p.column
             jump == g.last # 0 /\ Abs(a - g.last) > JumpTolerance
  <2>1. h = [g EXCEPT !.complete = jump /\ g.useAngle, !.useAngle = g.useAngle \/ jump, !.last = a]
    BY <1>2, StageIs DEF SplitStage, SplitByJump, Turning, HeaderParsers, FixedParsers
  <2>2. a \in Nat
    BY <1>0 DEF FieldStart, PlaceTypes
  <2>3. g.last = 0 \/ a = g.last => ~jump
    BY <2>2 DEF Abs, JumpTolerance
  <2>4. jump \in BOOLEAN
    OBVIOUS
  <2> HIDE DEF a, jump, h
  <2>5. Same(g, h, SplitFields) /\ h.complete = (jump /\ g.useAngle) /\ h.last = a
        /\ h.lastLast = g.lastLast /\ h.lastId = g.lastId /\ h.useAngle = (g.useAngle \/ jump)
    BY <2>1 DEF Same, Fields, SplitFields
  <2>6. SplitTypes(h)
    BY <2>2, <2>5 DEF SplitTypes
  <2>7. Settled(h, p)
    BY <1>2, <2>5 DEF Settled, Turning, HeaderParsers, FixedParsers, a
  <2>8. Settled(g, p) \/ Unturned(g) => ~jump
    BY <1>2, <2>3 DEF Settled, Unturned, a
  <2> QED
    BY <2>5, <2>6, <2>7, <2>8
<1>3. CASE conf.parser \in {"4_7", "7_3"}
  <2> DEFINE c == g.lastId # -1 /\ g.lastId # p.scan
  <2>1. h = [g EXCEPT !.complete = c, !.lastId = p.scan]
    BY <1>3, StageIs DEF SplitStage, SplitById, Turning, HeaderParsers, FixedParsers
  <2>2. c \in BOOLEAN
    OBVIOUS
  <2> HIDE DEF h
  <2>3. Same(g, h, SplitFields) /\ h.complete = c /\ h.lastId = p.scan
        /\ h.last = g.last /\ h.lastLast = g.lastLast /\ h.useAngle = g.useAngle
    BY <2>1 DEF Same, Fields, SplitFields
  <2>4. SplitTypes(h)
    BY <2>2, <2>3 DEF SplitTypes, PlaceTypes
  <2>5. Settled(h, p)
    BY <1>3, <2>3 DEF Settled, Turning, HeaderParsers, FixedParsers
  <2>6. Settled(g, p) \/ Unturned(g) => ~c
    BY <1>3 DEF Settled, Unturned
  <2> QED
    BY <2>3, <2>4, <2>5, <2>6
<1>4. CASE conf.parser = "7_2"
  <2> DEFINE c == p.column < g.lastId
  <2>1. h = [g EXCEPT !.complete = c, !.lastId = p.column]
    BY <1>4, StageIs DEF SplitStage, SplitByColumn, Turning, HeaderParsers, FixedParsers
  <2>2. c \in BOOLEAN
    BY <1>0 DEF SplitTypes
  <2> HIDE DEF h
  <2>3. Same(g, h, SplitFields) /\ h.complete = c /\ h.lastId = p.column
        /\ h.last = g.last /\ h.lastLast = g.lastLast /\ h.useAngle = g.useAngle
    BY <2>1 DEF Same, Fields, SplitFields
  <2>4. SplitTypes(h)
    BY <1>0, <2>2, <2>3 DEF SplitTypes
  <2>5. Settled(h, p)
    BY <1>4, <2>3 DEF Settled, Turning, HeaderParsers, FixedParsers
  <2>6. Settled(g, p) \/ Unturned(g) => ~c
    BY <1>0, <1>4 DEF Settled, Unturned
  <2> QED
    BY <2>3, <2>4, <2>5, <2>6
<1> QED
  BY <1>0, <1>1, <1>2, <1>3, <1>4 DEF AllParsers, Turning, HeaderParsers, FixedParsers

\* The stages after the split, for a packet that does not end the scan.
Filtered(p) == conf.parser = "7_3" /\ conf.echo # 0 /\ conf.echo # p.echo
KeepStages(g, p) ==
  LET s == Stamps(CalPktLoss(g, p), p) IN IF Filtered(p) THEN Return(s, "refused") ELSE Store(s, p)
KeepFields == {"seqInit", "lastSeq", "totalLoss", "start", "end", "ret", "lastMax", "size", "raw",
               "slots", "packetNum"}
StoreFields == {"lastMax", "size", "raw", "slots", "packetNum"}

\* What the loss counter and the times of the frame are after the packet.
Accounted(g, h, p) ==
  /\ IF conf.seq
     THEN /\ h.seqInit = TRUE /\ h.lastSeq = p.seq
          /\ h.totalLoss = IF g.seqInit /\ Diff(p.seq, g.lastSeq) > 1
                           THEN g.totalLoss + Diff(p.seq, g.lastSeq) - 1 ELSE g.totalLoss
     ELSE h.seqInit = g.seqInit /\ h.lastSeq = g.lastSeq /\ h.totalLoss = g.totalLoss
  /\ h.start = (IF g.start = NoTime THEN Id(p) ELSE g.start) /\ h.end = Id(p)

LEMMA KeepDoes ==
  ASSUME NEW g, DOMAIN g = Fields, g.ret = "go", NEW p
  PROVE  LET h == KeepStages(g, p) IN
         /\ Same(g, h, KeepFields) /\ Accounted(g, h, p)
         /\ Filtered(p) => h.ret = "refused" /\ Same(g, h, KeepFields \ StoreFields)
         /\ ~Filtered(p) =>
              /\ h.lastMax = MaxPackets
              /\ IF g.lastMax = MaxPackets THEN h.size = g.size /\ h.raw = g.raw
                 ELSE h.size = p.layout /\ h.raw = TRUE
              /\ h.size # p.layout => /\ h.ret = "refused" /\ h.packetNum = g.packetNum
                                      /\ h.slots = g.slots
              /\ h.size = p.layout =>
                   /\ h.ret = "done" /\ h.packetNum = g.packetNum + 1
                   /\ h.slots = IF g.lastMax = MaxPackets THEN [g.slots EXCEPT ![g.packetNum] = p]
                                ELSE [[i \in Slots |-> NoPacket] EXCEPT ![g.packetNum] = p]
<1> DEFINE l == CalPktLoss(g, p)
           s == Stamps(l, p)
           h == KeepStages(g, p)
<1>1. Same(g, l, {"seqInit", "lastSeq", "totalLoss"})
      /\ (IF conf.seq
          THEN /\ l.seqInit = TRUE /\ l.lastSeq = p.seq
               /\ l.totalLoss = IF g.seqInit /\ Diff(p.seq, g.lastSeq) > 1
                                THEN g.totalLoss + Diff(p.seq, g.lastSeq) - 1 ELSE g.totalLoss
          ELSE l.seqInit = g.seqInit /\ l.lastSeq = g.lastSeq /\ l.totalLoss = g.totalLoss)
  BY DEF CalPktLoss, Same, Fields
<1> HIDE DEF l
<1>2. Same(l, s, {"start", "end"})
      /\ s.start = (IF l.start = NoTime THEN Id(p) ELSE l.start) /\ s.end = Id(p)
  BY <1>1 DEF Stamps, Same, Fields
<1> HIDE DEF s
<1>3. Same(g, s, KeepFields \ (StoreFields \cup {"ret"})) /\ Accounted(g, s, p) /\ s.ret = "go"
  BY <1>1, <1>2 DEF Same, Accounted, KeepFields, StoreFields, Fields
<1>4. h = IF Filtered(p) THEN Return(s, "refused") ELSE Store(s, p)
  BY DEF KeepStages, s, l
<1> HIDE DEF h
<1>5. CASE Filtered(p)
  <2>1. Same(s, h, {"ret"}) /\ h.ret = "refused"
    BY <1>3, <1>4, <1>5 DEF Return, Same, Fields
  <2>2. Same(g, h, KeepFields \ StoreFields) /\ Same(g, h, KeepFields) /\ Accounted(g, h, p)
    BY <1>3, <2>1 DEF Same, Accounted, KeepFields, StoreFields, Fields
  <2> QED
    BY <1>5, <2>1, <2>2 DEF h
<1>6. CASE ~Filtered(p)
  <2> DEFINE k == IF s.lastMax = MaxPackets THEN s
                  ELSE [s EXCEPT !.lastMax = MaxPackets, !.size = Size(p.layout), !.raw = TRUE,
                                 !.slots = [i \in Slots |-> NoPacket]]
  <2>1. /\ Same(s, k, StoreFields \ {"packetNum"}) /\ k.lastMax = MaxPackets
        /\ IF g.lastMax = MaxPackets THEN k.size = g.size /\ k.raw = g.raw /\ k.slots = g.slots
           ELSE k.size = p.layout /\ k.raw = TRUE /\ k.slots = [i \in Slots |-> NoPacket]
    BY <1>3 DEF Same, Size, KeepFields, StoreFields, Fields
  <2>2. h = IF k.size # p.layout THEN Return(k, "refused")
            ELSE Return([k EXCEPT !.slots[k.packetNum] = p, !.packetNum = @ + 1], "done")
    BY <1>4, <1>6 DEF Store, Size
  <2> HIDE DEF k
  <2>3. k.packetNum = g.packetNum /\ DOMAIN k = Fields
    BY <1>3, <2>1 DEF Same, KeepFields, StoreFields, Fields
  <2>4. CASE k.size # p.layout
    <3>1. Same(k, h, {"ret"}) /\ h.ret = "refused"
      BY <2>2, <2>3, <2>4 DEF Return, Same, Fields
    <3>2. Same(g, h, KeepFields) /\ Accounted(g, h, p)
      BY <1>3, <2>1, <3>1 DEF Same, Accounted, KeepFields, StoreFields, Fields
    <3>3. h.lastMax = k.lastMax /\ h.size = k.size /\ h.raw = k.raw /\ h.slots = k.slots
          /\ h.packetNum = k.packetNum
      BY <3>1 DEF Same, Fields
    <3>4. g.lastMax = MaxPackets
      BY <2>1, <2>4
    <3> QED
      BY <1>6, <2>1, <2>3, <2>4, <3>1, <3>2, <3>3, <3>4 DEF h
  <2>5. CASE k.size = p.layout
    <3> DEFINE put == [k.slots EXCEPT ![k.packetNum] = p]
    <3>1. h = [[k EXCEPT !.slots = put, !.packetNum = k.packetNum + 1] EXCEPT !.ret = "done"]
      BY <2>2, <2>5, <2>3 DEF Return, Fields
    <3> HIDE DEF put
    <3>2. Same(k, h, {"slots", "packetNum", "ret"}) /\ h.slots = put /\ h.packetNum = k.packetNum + 1
          /\ h.ret = "done"
      BY <2>3, <3>1 DEF Same, Fields
    <3>3. Same(g, h, KeepFields) /\ Accounted(g, h, p)
      BY <1>3, <2>1, <3>2 DEF Same, Accounted, KeepFields, StoreFields, Fields
    <3>4. h.lastMax = k.lastMax /\ h.size = k.size /\ h.raw = k.raw
      BY <3>2 DEF Same, Fields
    <3>5. h.slots = IF g.lastMax = MaxPackets THEN [g.slots EXCEPT ![g.packetNum] = p]
                    ELSE [[i \in Slots |-> NoPacket] EXCEPT ![g.packetNum] = p]
      BY <2>1, <2>3, <3>2 DEF put
    <3> QED
      BY <1>6, <2>1, <2>3, <2>5, <3>2, <3>3, <3>4, <3>5 DEF h
  <2> QED
    BY <2>4, <2>5
<1> QED
  BY <1>5, <1>6

\* What becomes of a packet that the frame does not refuse for its layout.
Placed(g, p) ==
  LET h == Stage(SplitStage, Opened(g, p), p) IN
  IF h.complete THEN Return(h, "done") ELSE KeepStages(h, p)

\* The stages from the split on.
LEMMA StagesFromSplit ==
  ASSUME NEW s, s.ret = "go", DOMAIN s = Fields, s.complete \in BOOLEAN, NEW p
  PROVE  LET c == Then(s, "split", p)
             l == Then(c, "loss", p)
             t == Then(l, "stamps", p)
             e == Then(t, "filter", p)
         IN /\ s.complete => /\ Then(t, "store", p) = Return(s, "done")
                             /\ Then(e, "store", p) = Return(s, "done")
            /\ ~s.complete /\ conf.parser # "7_3" => Then(t, "store", p) = KeepStages(s, p)
            /\ ~s.complete /\ conf.parser = "7_3" => Then(e, "store", p) = KeepStages(s, p)
<1> DEFINE c == Then(s, "split", p)
           l == Then(c, "loss", p)
           t == Then(l, "stamps", p)
           e == Then(t, "filter", p)
<1>1. c = ReturnIfComplete(s, p)
  BY StageIs DEF Then
<1>2. CASE s.complete
  <2>1. c = Return(s, "done") /\ c.ret = "done"
    BY <1>1, <1>2 DEF ReturnIfComplete, Return, Fields
  <2> HIDE DEF c
  <2>2. l = c /\ t = c /\ e = c
    BY <2>1 DEF Then
  <2>3. Then(c, "store", p) = c
    BY <2>1 DEF Then
  <2> QED
    BY <1>2, <2>1, <2>2, <2>3 DEF c
<1>3. CASE ~s.complete
  <2>1. c = s
    BY <1>1, <1>3 DEF ReturnIfComplete
  <2>2. l = CalPktLoss(s, p)
    BY <2>1, StageIs DEF Then
  <2>3. Same(s, CalPktLoss(s, p), {"seqInit", "lastSeq", "totalLoss"})
    BY DEF CalPktLoss, Same, Fields
  <2>4. l.ret = "go" /\ DOMAIN l = Fields
    BY <2>2, <2>3 DEF Same, Fields
  <2> HIDE DEF l
  <2>5. t = Stamps(l, p)
    BY <2>4, StageIs DEF Then
  <2>6. t.ret = "go"
    BY <2>4, <2>5 DEF Stamps, Fields
  <2> HIDE DEF t
  <2>7. Then(t, "store", p) = Store(t, p)
    BY <2>6, StageIs DEF Then
  <2>8. CASE conf.parser # "7_3"
    BY <1>3, <2>2, <2>5, <2>7, <2>8 DEF KeepStages, Filtered, t, l, c
  <2>9. CASE conf.parser = "7_3"
    <3>1. e = FilterPacket(t, p)
      BY <2>6, StageIs DEF Then
    <3> HIDE DEF e
    <3>2. CASE Filtered(p)
      <4>1. e = Return(t, "refused") /\ e.ret = "refused"
        <5>1. DOMAIN t = Fields
          BY <2>4, <2>5 DEF Stamps
        <5> QED
          BY <3>1, <3>2, <5>1 DEF FilterPacket, Filtered, Return, Fields
      <4>2. Then(e, "store", p) = e
        BY <4>1 DEF Then
      <4> QED
        BY <1>3, <2>2, <2>5, <2>9, <3>2, <4>1, <4>2 DEF KeepStages, e, t, l, c
    <3>3. CASE ~Filtered(p)
      <4>1. e = t
        BY <2>9, <3>1, <3>3 DEF FilterPacket, Filtered
      <4>2. Then(e, "store", p) = Store(t, p)
        BY <4>1, <2>7
      <4> QED
        BY <1>3, <2>2, <2>5, <2>9, <3>3, <4>2 DEF KeepStages, e, t, l, c
    <3> QED
      BY <3>2, <3>3
  <2> QED
    BY <2>8, <2>9
<1> QED
  BY <1>2, <1>3

\* Once a stage has returned the others do nothing.
LEMMA Returned ==
  ASSUME NEW h, h.ret # "go", NEW name, NEW p
  PROVE  Then(h, name, p) = h
BY DEF Then

\* A packet of points is refused for its layout, ends the scan, or is kept.
LEMMA DecodePoints ==
  ASSUME conf \in Configurations, NEW g, DOMAIN g = Fields, g.ret = "go", g.init \in BOOLEAN,
         SplitTypes(g), NEW p, PlaceTypes(p), p.kind \in PointKinds,
         conf.parser \in FixedParsers /\ g.init => Header(p.layout) = g.layout,
         conf.parser = "7_3" => p.layout # "large"
  PROVE  LET h == DecodePacket(g, p) IN
         /\ LayoutRefused(g, p) =>
              /\ h.ret = "refused" /\ Same(g, h, {"complete", "layout", "ret"}) /\ ~h.complete
              /\ h.layout = IF g.init THEN g.layout ELSE "large"
         /\ ~LayoutRefused(g, p) => h = Placed(g, p)
<1> DEFINE h == DecodePacket(g, p)
           o == Opened(g, p)
           m == CheckMagic(g, p)
           s == Stage(SplitStage, o, p)
<1>0. conf.parser \in AllParsers
  BY ConfigurationTypes
<1>1. /\ Same(g, o, LayoutFields) /\ o.complete = FALSE
      /\ ~g.init /\ p.layout = "large" =>
           o.ret = "refused" /\ Same(g, o, {"complete", "layout", "ret"}) /\ o.layout = "large"
      /\ ~g.init /\ p.layout # "large" => o.ret = "go" /\ o.layout = Header(p.layout)
      /\ g.init /\ (conf.parser # "7_3" \/ Header(p.layout) = g.layout) =>
           o.ret = "go" /\ Same(g, o, {"complete"})
      /\ g.init /\ conf.parser = "7_3" /\ Header(p.layout) # g.layout => o.ret = "go"
  <2> HIDE DEF o
  <2> QED
    BY OpenedDoes DEF o
<1>2. Same(g, m, {"complete"}) /\ m.complete = FALSE /\ m.ret = "go"
  BY DEF CheckMagic, PointKinds, Same, Fields
<1>3. Then(g, "magic", p) = m /\ Then(g, "timeout", p) = g /\ Then(m, "crc", p) = m /\ Then(m, "imu", p) = m
  BY <1>2, StageIs DEF Then, SplitByTimeout, CheckCrc, TakeImu, PointKinds
<1>4. /\ conf.parser # "7_3" => Then(m, "layout", p) = o
      /\ conf.parser = "7_3" => Then(m, "relayout", p) = o
  BY <1>2, StageIs DEF Then, Opened
<1> HIDE DEF m, o
<1>5. o.ret = "go" => Then(o, SplitStage, p) = s
  BY DEF Then
<1>6. o.ret = "go" => s.ret = "go" /\ DOMAIN s = Fields /\ s.complete \in BOOLEAN
  <2>1. SplitTypes(o)
    BY <1>1 DEF SplitTypes, Same, Fields, LayoutFields
  <2>2. Same(o, s, SplitFields) /\ SplitTypes(s)
    BY <1>1, <2>1, SplitDoes DEF Same
  <2> HIDE DEF s
  <2> QED
    BY <2>2 DEF SplitTypes, Same, Fields, SplitFields
<1> HIDE DEF s
<1>7. o.ret = "go" =>
        LET c == Then(s, "split", p)
            l == Then(c, "loss", p)
            t == Then(l, "stamps", p)
            e == Then(t, "filter", p)
        IN /\ conf.parser # "7_3" => Then(t, "store", p) = Placed(g, p)
           /\ conf.parser = "7_3" => Then(e, "store", p) = Placed(g, p)
  <2> SUFFICES ASSUME o.ret = "go" PROVE
        LET c == Then(s, "split", p)
            l == Then(c, "loss", p)
            t == Then(l, "stamps", p)
            e == Then(t, "filter", p)
        IN /\ conf.parser # "7_3" => Then(t, "store", p) = Placed(g, p)
           /\ conf.parser = "7_3" => Then(e, "store", p) = Placed(g, p)
    OBVIOUS
  <2>1. Placed(g, p) = IF s.complete THEN Return(s, "done") ELSE KeepStages(s, p)
    BY DEF Placed, s, o
  <2> QED
    BY <1>6, <2>1, StagesFromSplit
<1>8. LayoutRefused(g, p) => /\ o.ret # "go" \/ (conf.parser \notin {"p40", "1_8", "7_3"} /\ o.ret = "go" /\ Header(p.layout) # o.layout)
      
  BY <1>1 DEF LayoutRefused, FixedParsers, Same, Fields
<1>9. ~LayoutRefused(g, p) => /\ o.ret = "go"
                              /\ conf.parser \notin {"p40", "1_8", "7_3"} => Header(p.layout) = o.layout
  BY <1>1 DEF LayoutRefused, Same, Fields
<1> DEFINE w == SameLayout(o, p)
<1>10. o.ret = "go" => Then(o, "same", p) = w
  BY StageIs DEF Then
<1>11. /\ ~LayoutRefused(g, p) /\ conf.parser \notin {"p40", "1_8", "7_3"} => w = o
       /\ LayoutRefused(g, p) /\ o.ret = "go" =>
            w.ret = "refused" /\ Same(g, w, {"complete", "layout", "ret"}) /\ ~w.complete /\ w.layout = g.layout /\ g.init
  <2>1. ~LayoutRefused(g, p) /\ conf.parser \notin {"p40", "1_8", "7_3"} => w = o
    BY <1>9 DEF SameLayout
  <2>2. ASSUME LayoutRefused(g, p), o.ret = "go"
        PROVE  w.ret = "refused" /\ Same(g, w, {"complete", "layout", "ret"}) /\ ~w.complete /\ w.layout = g.layout /\ g.init
    <3>1. g.init /\ conf.parser # "7_3"
      BY <1>1, <2>2 DEF LayoutRefused
    <3>2. Same(g, o, {"complete"}) /\ w = Return(o, "refused")
      BY <1>1, <1>8, <2>2, <3>1 DEF SameLayout
    <3> HIDE DEF w
    <3> QED
      BY <1>1, <3>1, <3>2 DEF Return, Same, Fields
  <2> QED
    BY <2>1, <2>2
<1> HIDE DEF w
<1>12. o.ret # "go" => LayoutRefused(g, p) /\ ~g.init
  BY <1>1 DEF LayoutRefused
<1> SUFFICES h = IF LayoutRefused(g, p) THEN IF o.ret # "go" THEN o ELSE w ELSE Placed(g, p)
  BY <1>1, <1>11, <1>12
<1>13. ASSUME conf.parser \in AllParsers \ {"p40", "1_8", "4_3", "7_3"}, Stages[conf.parser] = <<"magic", "layout", "same", SplitStage, "split", "loss", "stamps", "store">>
      PROVE  h = IF LayoutRefused(g, p) THEN IF o.ret # "go" THEN o ELSE w ELSE Placed(g, p)
  <2>1. PICK d : Decodes(d, g, p)
    BY <1>13, DecodePacketIsStages
  <2>2. /\ d[0] = g
        /\ d[1] = Then(d[0], "magic", p)
        /\ d[2] = Then(d[1], "layout", p)
        /\ d[3] = Then(d[2], "same", p)
        /\ d[4] = Then(d[3], SplitStage, p)
        /\ d[5] = Then(d[4], "split", p)
        /\ d[6] = Then(d[5], "loss", p)
        /\ d[7] = Then(d[6], "stamps", p)
        /\ d[8] = Then(d[7], "store", p)
        /\ h = d[8]
    BY <1>13, <2>1 DEF Decodes
  <2>3. d[2] = o
    BY <1>13, <1>3, <1>4, <2>2
  <2>4. CASE o.ret # "go"
    <3>1. d[3] = o /\ d[4] = o /\ d[5] = o /\ d[6] = o /\ d[7] = o /\ d[8] = o
      BY <2>2, <2>3, <2>4, Returned
    <3> QED
      BY <1>12, <2>2, <2>4, <3>1
  <2>5. CASE o.ret = "go" /\ LayoutRefused(g, p)
    <3>1. d[3] = w /\ w.ret # "go"
      BY <1>10, <1>11, <2>2, <2>3, <2>5
    <3>2. d[4] = w /\ d[5] = w /\ d[6] = w /\ d[7] = w /\ d[8] = w
      BY <2>2, <3>1, Returned
    <3> QED
      BY <2>2, <2>5, <3>2
  <2>6. CASE ~LayoutRefused(g, p)
    <3>1. d[3] = o /\ o.ret = "go"
      BY <1>13, <1>9, <1>10, <1>11, <2>2, <2>3, <2>6 DEF AllParsers
    <3>2. d[4] = s
      BY <1>5, <2>2, <3>1
    <3> QED
      BY <1>13, <1>7, <2>2, <2>6, <3>1, <3>2
  <2> QED
    BY <2>4, <2>5, <2>6
<1>14. ASSUME conf.parser = "p40", Stages[conf.parser] = <<"magic", "layout", SplitStage, "split", "loss", "stamps", "store">>
      PROVE  h = IF LayoutRefused(g, p) THEN IF o.ret # "go" THEN o ELSE w ELSE Placed(g, p)
  <2>1. PICK d : Decodes(d, g, p)
    BY <1>14, DecodePacketIsStages
  <2>2. /\ d[0] = g
        /\ d[1] = Then(d[0], "magic", p)
        /\ d[2] = Then(d[1], "layout", p)
        /\ d[3] = Then(d[2], SplitStage, p)
        /\ d[4] = Then(d[3], "split", p)
        /\ d[5] = Then(d[4], "loss", p)
        /\ d[6] = Then(d[5], "stamps", p)
        /\ d[7] = Then(d[6], "store", p)
        /\ h = d[7]
    BY <1>14, <2>1 DEF Decodes
  <2>3. d[2] = o
    BY <1>14, <1>3, <1>4, <2>2
  <2>4. CASE o.ret # "go"
    <3>1. d[3] = o /\ d[4] = o /\ d[5] = o /\ d[6] = o /\ d[7] = o
      BY <2>2, <2>3, <2>4, Returned
    <3> QED
      BY <1>12, <2>2, <2>4, <3>1
  <2>5. CASE o.ret = "go" /\ LayoutRefused(g, p)
    BY <1>14, <1>8, <2>5
  <2>6. CASE ~LayoutRefused(g, p)
    <3>1. d[2] = o /\ o.ret = "go"
      BY <1>14, <1>9, <1>10, <1>11, <2>2, <2>3, <2>6 DEF AllParsers
    <3>2. d[3] = s
      BY <1>5, <2>2, <3>1
    <3> QED
      BY <1>14, <1>7, <2>2, <2>6, <3>1, <3>2
  <2> QED
    BY <2>4, <2>5, <2>6
<1>15. ASSUME conf.parser = "1_8", Stages[conf.parser] = <<"magic", "crc", "imu", "layout", SplitStage, "split", "loss", "stamps", "store">>
      PROVE  h = IF LayoutRefused(g, p) THEN IF o.ret # "go" THEN o ELSE w ELSE Placed(g, p)
  <2>1. PICK d : Decodes(d, g, p)
    BY <1>15, DecodePacketIsStages
  <2>2. /\ d[0] = g
        /\ d[1] = Then(d[0], "magic", p)
        /\ d[2] = Then(d[1], "crc", p)
        /\ d[3] = Then(d[2], "imu", p)
        /\ d[4] = Then(d[3], "layout", p)
        /\ d[5] = Then(d[4], SplitStage, p)
        /\ d[6] = Then(d[5], "split", p)
        /\ d[7] = Then(d[6], "loss", p)
        /\ d[8] = Then(d[7], "stamps", p)
        /\ d[9] = Then(d[8], "store", p)
        /\ h = d[9]
    BY <1>15, <2>1 DEF Decodes
  <2>3. d[4] = o
    BY <1>15, <1>3, <1>4, <2>2
  <2>4. CASE o.ret # "go"
    <3>1. d[5] = o /\ d[6] = o /\ d[7] = o /\ d[8] = o /\ d[9] = o
      BY <2>2, <2>3, <2>4, Returned
    <3> QED
      BY <1>12, <2>2, <2>4, <3>1
  <2>5. CASE o.ret = "go" /\ LayoutRefused(g, p)
    BY <1>15, <1>8, <2>5
  <2>6. CASE ~LayoutRefused(g, p)
    <3>1. d[4] = o /\ o.ret = "go"
      BY <1>15, <1>9, <1>10, <1>11, <2>2, <2>3, <2>6 DEF AllParsers
    <3>2. d[5] = s
      BY <1>5, <2>2, <3>1
    <3> QED
      BY <1>15, <1>7, <2>2, <2>6, <3>1, <3>2
  <2> QED
    BY <2>4, <2>5, <2>6
<1>16. ASSUME conf.parser = "4_3", Stages[conf.parser] = <<"timeout", "magic", "layout", "same", SplitStage, "split", "loss", "stamps", "store">>
      PROVE  h = IF LayoutRefused(g, p) THEN IF o.ret # "go" THEN o ELSE w ELSE Placed(g, p)
  <2>1. PICK d : Decodes(d, g, p)
    BY <1>16, DecodePacketIsStages
  <2>2. /\ d[0] = g
        /\ d[1] = Then(d[0], "timeout", p)
        /\ d[2] = Then(d[1], "magic", p)
        /\ d[3] = Then(d[2], "layout", p)
        /\ d[4] = Then(d[3], "same", p)
        /\ d[5] = Then(d[4], SplitStage, p)
        /\ d[6] = Then(d[5], "split", p)
        /\ d[7] = Then(d[6], "loss", p)
        /\ d[8] = Then(d[7], "stamps", p)
        /\ d[9] = Then(d[8], "store", p)
        /\ h = d[9]
    BY <1>16, <2>1 DEF Decodes
  <2>3. d[3] = o
    BY <1>16, <1>3, <1>4, <2>2
  <2>4. CASE o.ret # "go"
    <3>1. d[4] = o /\ d[5] = o /\ d[6] = o /\ d[7] = o /\ d[8] = o /\ d[9] = o
      BY <2>2, <2>3, <2>4, Returned
    <3> QED
      BY <1>12, <2>2, <2>4, <3>1
  <2>5. CASE o.ret = "go" /\ LayoutRefused(g, p)
    <3>1. d[4] = w /\ w.ret # "go"
      BY <1>10, <1>11, <2>2, <2>3, <2>5
    <3>2. d[5] = w /\ d[6] = w /\ d[7] = w /\ d[8] = w /\ d[9] = w
      BY <2>2, <3>1, Returned
    <3> QED
      BY <2>2, <2>5, <3>2
  <2>6. CASE ~LayoutRefused(g, p)
    <3>1. d[4] = o /\ o.ret = "go"
      BY <1>16, <1>9, <1>10, <1>11, <2>2, <2>3, <2>6 DEF AllParsers
    <3>2. d[5] = s
      BY <1>5, <2>2, <3>1
    <3> QED
      BY <1>16, <1>7, <2>2, <2>6, <3>1, <3>2
  <2> QED
    BY <2>4, <2>5, <2>6
<1>17. ASSUME conf.parser = "7_3", Stages[conf.parser] = <<"magic", "imu", "relayout", SplitStage, "split", "loss", "stamps", "filter", "store">>
      PROVE  h = IF LayoutRefused(g, p) THEN IF o.ret # "go" THEN o ELSE w ELSE Placed(g, p)
  <2>1. PICK d : Decodes(d, g, p)
    BY <1>17, DecodePacketIsStages
  <2>2. /\ d[0] = g
        /\ d[1] = Then(d[0], "magic", p)
        /\ d[2] = Then(d[1], "imu", p)
        /\ d[3] = Then(d[2], "relayout", p)
        /\ d[4] = Then(d[3], SplitStage, p)
        /\ d[5] = Then(d[4], "split", p)
        /\ d[6] = Then(d[5], "loss", p)
        /\ d[7] = Then(d[6], "stamps", p)
        /\ d[8] = Then(d[7], "filter", p)
        /\ d[9] = Then(d[8], "store", p)
        /\ h = d[9]
    BY <1>17, <2>1 DEF Decodes
  <2>3. d[3] = o
    BY <1>17, <1>3, <1>4, <2>2
  <2>4. CASE o.ret # "go"
    <3>1. d[4] = o /\ d[5] = o /\ d[6] = o /\ d[7] = o /\ d[8] = o /\ d[9] = o
      BY <2>2, <2>3, <2>4, Returned
    <3> QED
      BY <1>12, <2>2, <2>4, <3>1
  <2>5. CASE o.ret = "go" /\ LayoutRefused(g, p)
    BY <1>17, <1>8, <2>5
  <2>6. CASE ~LayoutRefused(g, p)
    <3>1. d[3] = o /\ o.ret = "go"
      BY <1>17, <1>9, <1>10, <1>11, <2>2, <2>3, <2>6 DEF AllParsers
    <3>2. d[4] = s
      BY <1>5, <2>2, <3>1
    <3> QED
      BY <1>17, <1>7, <2>2, <2>6, <3>1, <3>2
  <2> QED
    BY <2>4, <2>5, <2>6
<1> QED
  BY <1>0, StagesOfParser, <1>13, <1>14, <1>15, <1>16, <1>17

\* Once a stage of the decoding has returned, that is the result.
LEMMA ReturnedEarly ==
  ASSUME conf \in Configurations, NEW d, NEW g, NEW p, Decodes(d, g, p),
         NEW i \in 1..Len(Stages[conf.parser]), d[i].ret # "go", Len(Stages[conf.parser]) \in Nat
  PROVE  DecodePacket(g, p) = d[i]
<1> DEFINE S == {n \in Nat : n >= i /\ n <= Len(Stages[conf.parser]) => d[n] = d[i]}
<1>1. 0 \in S
  OBVIOUS
<1>2. ASSUME NEW n \in 1..Len(Stages[conf.parser]), n - 1 \in S PROVE n \in S
  <2>1. CASE n <= i
    BY <2>1
  <2>2. CASE n > i
    <3>1. d[n - 1] = d[i]
      BY <1>2, <2>2
    <3>2. d[n] = Then(d[n - 1], Stages[conf.parser][n], p)
      BY DEF Decodes
    <3> QED
      BY <3>1, <3>2, Returned
  <2> QED
    BY <2>1, <2>2
<1> HIDE DEF S
<1>3. \A n \in 0..Len(Stages[conf.parser]) : n \in S
  BY <1>1, <1>2, UpTo
<1>4. Len(Stages[conf.parser]) \in S
  BY <1>3
<1>5. d[Len(Stages[conf.parser])] = d[i]
  BY <1>4 DEF S
<1> QED
  BY <1>5 DEF Decodes

\* Anything else leaves the frame as it is; a timeout may end the AT128's.
OtherKinds == {"imu", "alien", "corrupt", "timeout"}
OtherOutcome(g, h, p) ==
  \/ h.ret \in {"refused", "imu"} /\ Same(g, h, {"complete", "ret"}) /\ h.complete \in {FALSE, g.complete}
  \/ /\ p.kind = "timeout" /\ conf.parser = "4_3" /\ h.ret = "done" /\ h.complete = TRUE
     /\ h.useAngle = FALSE /\ Same(g, h, {"complete", "useAngle", "ret"})

LEMMA DecodeOthers ==
  ASSUME conf \in Configurations, NEW g, DOMAIN g = Fields, g.ret = "go", g.complete \in BOOLEAN,
         NEW p, p.kind \in OtherKinds,
         p.kind = "imu" => conf.parser \in {"1_8", "7_3"}, p.kind = "corrupt" => conf.parser = "1_8"
  PROVE  OtherOutcome(g, DecodePacket(g, p), p)
<1> DEFINE m == CheckMagic(g, p)
<1>0. conf.parser \in AllParsers
  BY ConfigurationTypes
<1>1. p.kind \in {"alien", "timeout"} => m.ret = "refused" /\ Same(g, m, {"ret"}) /\ m.complete = g.complete
  BY DEF CheckMagic, Return, Same, Fields
<1>2. p.kind \in {"imu", "corrupt"} => m.ret = "go" /\ Same(g, m, {"complete"}) /\ m.complete = FALSE
  BY DEF CheckMagic, Same, Fields
<1>3. /\ Then(g, "magic", p) = m
      /\ p.kind # "timeout" => Then(g, "timeout", p) = g
  BY StageIs DEF Then, SplitByTimeout
<1> HIDE DEF m
<1>4. p.kind \in {"alien", "timeout"} => OtherOutcome(g, m, p)
  BY <1>1 DEF OtherOutcome, Same, Fields
<1>5. ASSUME p.kind \in {"imu", "corrupt"}, NEW e, e = Return(m, "refused") \/ e = Return(m, "imu")
      PROVE  e.ret # "go" /\ OtherOutcome(g, e, p)
  <2>1. e.ret \in {"refused", "imu"} /\ Same(g, e, {"complete", "ret"}) /\ e.complete = FALSE
    BY <1>2, <1>5 DEF Return, Same, Fields
  <2> QED
    BY <2>1 DEF OtherOutcome
<1>6. CASE conf.parser # "4_3"
  <2>1. Len(Stages[conf.parser]) \in Nat /\ Len(Stages[conf.parser]) > 2 /\ Stages[conf.parser][1] = "magic"
    BY <1>0, <1>6, FirstStages
  <2>2. PICK d : Decodes(d, g, p)
    BY <2>1, DecodePacketIsStages
  <2>3. d[1] = m
    <3>1. 1 \in 1..Len(Stages[conf.parser]) /\ 1 - 1 = 0
      BY <2>1
    <3>2. d[1] = Then(d[1 - 1], Stages[conf.parser][1], p)
      BY <2>2, <3>1 DEF Decodes
    <3> QED
      BY <1>3, <2>1, <2>2, <3>1, <3>2 DEF Decodes
  <2>4. CASE p.kind \in {"alien", "timeout"}
    <3>1. 1 \in 1..Len(Stages[conf.parser])
      BY <2>1
    <3>2. DecodePacket(g, p) = d[1]
      BY <1>1, <2>1, <2>2, <2>3, <2>4, <3>1, ReturnedEarly
    <3> QED
      BY <1>4, <2>3, <2>4, <3>2
  <2>5. CASE p.kind = "corrupt"
    <3>1. Stages[conf.parser][2] = "crc" /\ 2 \in 1..Len(Stages[conf.parser]) /\ 2 - 1 = 1
      BY <1>0, <2>1, <2>5, FirstStages
    <3>2. d[2] = Then(d[2 - 1], Stages[conf.parser][2], p)
      BY <2>2, <3>1 DEF Decodes
    <3>3. d[2] = Return(m, "refused")
      BY <1>2, <2>3, <2>5, <3>1, <3>2, StageIs DEF Then, CheckCrc
    <3>4. d[2].ret # "go" /\ OtherOutcome(g, d[2], p)
      BY <1>5, <2>5, <3>3
    <3>5. DecodePacket(g, p) = d[2]
      BY <2>1, <2>2, <3>1, <3>4, ReturnedEarly
    <3> QED
      BY <3>4, <3>5
  <2>6. CASE p.kind = "imu" /\ conf.parser = "1_8"
    <3>1. Stages[conf.parser][2] = "crc" /\ Stages[conf.parser][3] = "imu"
          /\ 2 \in 1..Len(Stages[conf.parser]) /\ 3 \in 1..Len(Stages[conf.parser]) /\ 2 - 1 = 1 /\ 3 - 1 = 2
      BY <1>0, <2>1, <2>6, FirstStages
    <3>2. d[2] = Then(d[2 - 1], Stages[conf.parser][2], p) /\ d[3] = Then(d[3 - 1], Stages[conf.parser][3], p)
      BY <2>2, <3>1 DEF Decodes
    <3>3. d[2] = m
      BY <1>2, <2>3, <2>6, <3>1, <3>2, StageIs DEF Then, CheckCrc
    <3>4. d[3] = Return(m, "imu")
      BY <1>2, <2>6, <3>1, <3>2, <3>3, StageIs DEF Then, TakeImu
    <3>5. d[3].ret # "go" /\ OtherOutcome(g, d[3], p)
      BY <1>5, <2>6, <3>4
    <3>6. DecodePacket(g, p) = d[3]
      BY <2>1, <2>2, <3>1, <3>5, ReturnedEarly
    <3> QED
      BY <3>5, <3>6
  <2>7. CASE p.kind = "imu" /\ conf.parser = "7_3"
    <3>1. Stages[conf.parser][2] = "imu" /\ 2 \in 1..Len(Stages[conf.parser]) /\ 2 - 1 = 1
      BY <1>0, <2>1, <2>7, FirstStages
    <3>2. d[2] = Then(d[2 - 1], Stages[conf.parser][2], p)
      BY <2>2, <3>1 DEF Decodes
    <3>3. d[2] = Return(m, "imu")
      BY <1>2, <2>3, <2>7, <3>1, <3>2, StageIs DEF Then, TakeImu
    <3>4. d[2].ret # "go" /\ OtherOutcome(g, d[2], p)
      BY <1>5, <2>7, <3>3
    <3>5. DecodePacket(g, p) = d[2]
      BY <2>1, <2>2, <3>1, <3>4, ReturnedEarly
    <3> QED
      BY <3>4, <3>5
  <2> QED
    BY <2>4, <2>5, <2>6, <2>7 DEF OtherKinds
<1>7. CASE conf.parser = "4_3"
  <2> DEFINE names == Stages[conf.parser]
  <2>1. names[1] = "timeout" /\ names[2] = "magic" /\ 1 \in 1..Len(names) /\ 2 \in 1..Len(names)
        /\ 1 - 1 = 0 /\ 2 - 1 = 1 /\ Len(names) \in Nat
    BY <1>0, <1>7, FirstStages
  <2>2. PICK d : Decodes(d, g, p)
    BY <2>1, DecodePacketIsStages
  <2>3. d[0] = g /\ d[1] = Then(g, "timeout", p) /\ d[2] = Then(d[1], "magic", p)
    <3>1. d[1] = Then(d[1 - 1], names[1], p) /\ d[2] = Then(d[2 - 1], names[2], p) /\ d[0] = g
      BY <2>1, <2>2 DEF Decodes
    <3> QED
      BY <2>1, <3>1
  <2>4. p.kind \in {"alien", "timeout"}
    BY <1>7 DEF OtherKinds
  <2>5. CASE d[1] = g
    <3>1. d[2] = m /\ m.ret # "go"
      BY <1>1, <1>3, <2>3, <2>4, <2>5
    <3>2. DecodePacket(g, p) = d[2]
      BY <2>1, <2>2, <3>1, ReturnedEarly
    <3> QED
      BY <1>4, <2>4, <3>1, <3>2
  <2>6. CASE d[1] # g
    <3> DEFINE e == Return([g EXCEPT !.useAngle = FALSE, !.complete = TRUE], "done")
    <3>1. d[1] = e /\ p.kind = "timeout"
      <4>1. Then(g, "timeout", p) = SplitByTimeout(g, p)
        BY StageIs DEF Then
      <4>2. SplitByTimeout(g, p) = g \/ SplitByTimeout(g, p) = e
        BY DEF SplitByTimeout
      <4>3. p.kind = "timeout"
        BY <1>3, <2>3, <2>4, <2>6
      <4> QED
        BY <2>3, <2>6, <4>1, <4>2, <4>3
    <3>2. e.ret = "done" /\ e.complete = TRUE /\ e.useAngle = FALSE /\ Same(g, e, {"complete", "useAngle", "ret"})
      BY DEF Return, Same, Fields
    <3> HIDE DEF e
    <3>3. DecodePacket(g, p) = d[1]
      BY <2>1, <2>2, <3>1, <3>2, ReturnedEarly
    <3> QED
      BY <1>7, <3>1, <3>2, <3>3 DEF OtherOutcome
  <2> QED
    BY <2>5, <2>6
<1> QED
  BY <1>6, <1>7
-----------------------------------------------------------------------------
(***************************************************************************)
(* What DecodePacket makes of a packet of points, field by field            *)
(***************************************************************************)
\* FT V3 begins the frame's buffer anew.
Relaid(g, p) == g.init /\ Header(p.layout) # g.layout

RefusedForLayout(g, h, p) ==
  /\ LayoutRefused(g, p) /\ Same(g, h, {"complete", "layout"}) /\ h.complete = FALSE
  /\ h.layout = IF g.init THEN g.layout ELSE "large"

\* The frame has the packet's layout, and the split has looked at it.
Entered(g, h, p) ==
  /\ ~LayoutRefused(g, p)
  /\ Relaid(g, p) => conf.parser = "7_3"
  /\ h.init = TRUE /\ h.layout = Header(p.layout) /\ SplitTypes(h) /\ Settled(h, p) /\ h.ret = "go"

EndsScan(g, h, p) ==
  /\ Entered(g, h, p) /\ h.complete = TRUE /\ ~Settled(g, p) /\ ~Unturned(g)
  /\ Same(g, h, (LayoutFields \cup SplitFields) \ {"ret"})
  /\ ~Relaid(g, p) => h.packetNum = g.packetNum /\ h.start = g.start /\ h.raw = g.raw
                      /\ h.size = g.size /\ h.lastMax = g.lastMax
  /\ Relaid(g, p) => h.packetNum = 0 /\ h.start = NoTime /\ h.raw = FALSE /\ h.lastMax = 0

\* The buffer that a packet finds.
MaxFor(g, p)  == IF Relaid(g, p) THEN 0 ELSE g.lastMax
RoomFor(g, p) == IF Relaid(g, p) THEN 0 ELSE g.packetNum

KeptIn(g, h, p, ret) ==
  /\ Entered(g, h, p) /\ h.complete = FALSE
  /\ Same(g, h, (LayoutFields \cup SplitFields \cup KeepFields) \ {"ret"})
  /\ IF conf.seq
     THEN /\ h.seqInit = TRUE /\ h.lastSeq = p.seq
          /\ h.totalLoss = IF g.seqInit /\ Diff(p.seq, g.lastSeq) > 1
                           THEN g.totalLoss + Diff(p.seq, g.lastSeq) - 1 ELSE g.totalLoss
     ELSE h.seqInit = g.seqInit /\ h.lastSeq = g.lastSeq /\ h.totalLoss = g.totalLoss
  /\ h.start = (IF Relaid(g, p) \/ g.start = NoTime THEN Id(p) ELSE g.start) /\ h.end = Id(p)
  /\ Filtered(p) => /\ ret = "refused" /\ h.packetNum = RoomFor(g, p) /\ h.lastMax = MaxFor(g, p)
                    /\ h.slots = g.slots
                    /\ ~Relaid(g, p) => h.raw = g.raw /\ h.size = g.size
  /\ ~Filtered(p) =>
       /\ h.lastMax = MaxPackets
       /\ IF MaxFor(g, p) = MaxPackets THEN h.size = g.size /\ h.raw = g.raw
          ELSE h.size = p.layout /\ h.raw = TRUE
       /\ h.size # p.layout => /\ ret = "refused" /\ h.packetNum = RoomFor(g, p)
                               /\ h.slots = g.slots
       /\ h.size = p.layout =>
            /\ ret = "done" /\ h.packetNum = RoomFor(g, p) + 1
            /\ h.slots = IF MaxFor(g, p) = MaxPackets THEN [g.slots EXCEPT ![RoomFor(g, p)] = p]
                         ELSE [[i \in Slots |-> NoPacket] EXCEPT ![RoomFor(g, p)] = p]

LEMMA GoDoes ==
  ASSUME NEW g, DOMAIN g = Fields
  PROVE  Same(g, Go(g), {"ret"}) /\ Go(g).ret = "go"
BY DEF Go, Same, Fields

\* What the layout and the split leave of the frame.
LEMMA EnteredFrame ==
  ASSUME conf \in Configurations, NEW g, DOMAIN g = Fields, g.ret = "go", g.init \in BOOLEAN,
         SplitTypes(g), NEW p, PlaceTypes(p), p.kind \in PointKinds, ~LayoutRefused(g, p),
         conf.parser \in FixedParsers /\ g.init => Header(p.layout) = g.layout,
         conf.parser = "7_3" => p.layout # "large"
  PROVE  LET s == Stage(SplitStage, Opened(g, p), p) IN
         /\ Entered(g, s, p) /\ Same(g, s, (LayoutFields \cup SplitFields) \ {"ret"})
         /\ ~Relaid(g, p) => s.packetNum = g.packetNum /\ s.start = g.start /\ s.raw = g.raw
                             /\ s.size = g.size /\ s.lastMax = g.lastMax
         /\ Relaid(g, p) => s.packetNum = 0 /\ s.start = NoTime /\ s.raw = FALSE /\ s.lastMax = 0
         /\ Settled(g, p) \/ Unturned(g) => s.complete = FALSE
<1> DEFINE o == Opened(g, p)
           s == Stage(SplitStage, o, p)
<1>1. /\ Same(g, o, LayoutFields) /\ o.complete = FALSE
      /\ ~g.init /\ p.layout # "large" =>
           o.ret = "go" /\ Same(g, o, {"complete", "layout", "init"}) /\ o.init /\ o.layout = Header(p.layout)
      /\ g.init /\ (conf.parser # "7_3" \/ Header(p.layout) = g.layout) =>
           o.ret = "go" /\ Same(g, o, {"complete"})
      /\ g.init /\ conf.parser = "7_3" /\ Header(p.layout) # g.layout /\ p.layout # "large" =>
              /\ o.ret = "go" /\ Same(g, o, LayoutFields \ {"init", "ret"}) /\ o.layout = Header(p.layout)
              /\ o.packetNum = 0 /\ o.start = NoTime /\ o.raw = FALSE /\ o.size = None /\ o.lastMax = 0
  <2> HIDE DEF o
  <2> QED
    BY OpenedDoes DEF o
<1> HIDE DEF o
<1>2. SplitTypes(o)
  BY <1>1 DEF SplitTypes, Same, Fields, LayoutFields
<1>3. /\ Same(o, s, SplitFields) /\ SplitTypes(s) /\ Settled(s, p)
      /\ Settled(o, p) \/ Unturned(o) => ~s.complete
  <2> HIDE DEF s
  <2> QED
    BY <1>1, <1>2, SplitDoes DEF Same, s
<1>4. (Settled(g, p) => Settled(o, p)) /\ (Unturned(g) => Unturned(o))
  BY <1>1 DEF Settled, Unturned, Same, Fields, LayoutFields
<1> SUFFICES
         /\ Entered(g, s, p) /\ Same(g, s, (LayoutFields \cup SplitFields) \ {"ret"})
         /\ ~Relaid(g, p) => s.packetNum = g.packetNum /\ s.start = g.start /\ s.raw = g.raw
                             /\ s.size = g.size /\ s.lastMax = g.lastMax
         /\ Relaid(g, p) => s.packetNum = 0 /\ s.start = NoTime /\ s.raw = FALSE /\ s.lastMax = 0
         /\ Settled(g, p) \/ Unturned(g) => s.complete = FALSE
  BY DEF o
<1> HIDE DEF s
<1>5. Settled(g, p) \/ Unturned(g) => s.complete = FALSE
  BY <1>3, <1>4 DEF SplitTypes
<1>6. CASE ~g.init
  <2>1. p.layout # "large" /\ ~Relaid(g, p)
    BY <1>6 DEF LayoutRefused, Relaid
  <2>2. s.ret = "go" /\ Same(g, s, (LayoutFields \cup SplitFields) \ {"ret"}) /\ s.init = TRUE
        /\ s.layout = Header(p.layout)
        /\ s.packetNum = g.packetNum /\ s.start = g.start /\ s.raw = g.raw
        /\ s.size = g.size /\ s.lastMax = g.lastMax
    BY <1>1, <1>3, <1>6, <2>1 DEF Same, Fields, LayoutFields, SplitFields
  <2> QED
    BY <1>3, <1>5, <2>1, <2>2 DEF Entered
<1>7. CASE g.init /\ ~Relaid(g, p)
  <2>1. Header(p.layout) = g.layout
    BY <1>7 DEF LayoutRefused, Relaid
  <2>2. s.ret = "go" /\ Same(g, s, (LayoutFields \cup SplitFields) \ {"ret"}) /\ s.init = TRUE
        /\ s.layout = Header(p.layout)
        /\ s.packetNum = g.packetNum /\ s.start = g.start /\ s.raw = g.raw
        /\ s.size = g.size /\ s.lastMax = g.lastMax
    BY <1>1, <1>3, <1>7, <2>1 DEF Same, Fields, LayoutFields, SplitFields
  <2> QED
    BY <1>3, <1>5, <1>7, <2>2 DEF Entered
<1>8. CASE g.init /\ Relaid(g, p)
  <2>1. conf.parser = "7_3" /\ Header(p.layout) # g.layout /\ p.layout # "large"
    BY <1>8 DEF LayoutRefused, Relaid
  <2>2. s.ret = "go" /\ Same(g, s, (LayoutFields \cup SplitFields) \ {"ret"}) /\ s.init = TRUE
        /\ s.layout = Header(p.layout)
        /\ s.packetNum = 0 /\ s.start = NoTime /\ s.raw = FALSE /\ s.lastMax = 0
    BY <1>1, <1>3, <1>8, <2>1 DEF Same, Fields, LayoutFields, SplitFields
  <2> QED
    BY <1>3, <1>5, <1>8, <2>1, <2>2 DEF Entered
<1> QED
  BY <1>6, <1>7, <1>8

LEMMA PointsOutcome ==
  ASSUME conf \in Configurations, NEW g, DOMAIN g = Fields, g.ret = "go", g.init \in BOOLEAN,
         SplitTypes(g), NEW p, PlaceTypes(p), p.kind \in PointKinds,
         conf.parser \in FixedParsers /\ g.init => Header(p.layout) = g.layout,
         conf.parser = "7_3" => p.layout # "large"
  PROVE  LET r == DecodePacket(g, p) IN
         \/ RefusedForLayout(g, Go(r), p) /\ r.ret = "refused" /\ r.complete = FALSE
         \/ EndsScan(g, Go(r), p) /\ r.ret = "done" /\ r.complete = TRUE
         \/ KeptIn(g, Go(r), p, r.ret) /\ r.complete = FALSE
<1> DEFINE r == DecodePacket(g, p)
           h == Go(r)
<1>1. /\ LayoutRefused(g, p) =>
           /\ r.ret = "refused" /\ Same(g, r, {"complete", "layout", "ret"}) /\ ~r.complete
           /\ r.layout = IF g.init THEN g.layout ELSE "large"
      /\ ~LayoutRefused(g, p) => r = Placed(g, p)
  BY DecodePoints
<1> SUFFICES \/ RefusedForLayout(g, h, p) /\ r.ret = "refused" /\ r.complete = FALSE
             \/ EndsScan(g, h, p) /\ r.ret = "done" /\ r.complete = TRUE
             \/ KeptIn(g, h, p, r.ret) /\ r.complete = FALSE
  OBVIOUS
<1> HIDE DEF r
<1>2. DOMAIN r = Fields => Same(r, h, {"ret"}) /\ h.ret = "go"
  BY GoDoes
<1> HIDE DEF h
<1>3. CASE LayoutRefused(g, p)
  <2>1. DOMAIN r = Fields
    BY <1>1, <1>3 DEF Same
  <2>2. Same(g, h, {"complete", "layout"})
    BY <1>1, <1>2, <1>3, <2>1 DEF Same, Fields
  <2>3. h.layout = r.layout /\ h.complete = r.complete /\ r.complete = FALSE
    BY <1>1, <1>2, <1>3, <2>1 DEF Same, Fields
  <2> QED
    BY <1>1, <1>3, <2>2, <2>3 DEF RefusedForLayout
<1>4. CASE ~LayoutRefused(g, p)
  <2> DEFINE s == Stage(SplitStage, Opened(g, p), p)
  <2>1. /\ Entered(g, s, p) /\ Same(g, s, (LayoutFields \cup SplitFields) \ {"ret"})
        /\ ~Relaid(g, p) => s.packetNum = g.packetNum /\ s.start = g.start /\ s.raw = g.raw
                            /\ s.size = g.size /\ s.lastMax = g.lastMax
        /\ Relaid(g, p) => s.packetNum = 0 /\ s.start = NoTime /\ s.raw = FALSE /\ s.lastMax = 0
        /\ Settled(g, p) \/ Unturned(g) => s.complete = FALSE
    BY <1>4, EnteredFrame
  <2>2. r = IF s.complete THEN Return(s, "done") ELSE KeepStages(s, p)
    BY <1>1, <1>4 DEF Placed
  <2> HIDE DEF s
  <2>3. s.complete \in BOOLEAN /\ s.ret = "go" /\ DOMAIN s = Fields
    BY <2>1 DEF Entered, SplitTypes, Same
  <2>4. CASE s.complete
    <3>1. Same(s, r, {"ret"}) /\ r.ret = "done"
      BY <2>2, <2>3, <2>4 DEF Return, Same, Fields
    <3>2. Same(s, h, {"ret"}) /\ h.ret = s.ret
      BY <1>2, <2>3, <3>1 DEF Same, Fields
    <3>3. r.complete = TRUE /\ h.complete = TRUE
      BY <2>3, <2>4, <3>1, <3>2 DEF Same, Fields
    <3>4. Entered(g, h, p)
      BY <2>1, <3>2 DEF Entered, Same, Fields, SplitTypes, Settled
    <3>5. Same(g, h, (LayoutFields \cup SplitFields) \ {"ret"})
      BY <2>1, <2>3, <3>2 DEF Same, Fields, LayoutFields, SplitFields, Entered
    <3>6. h.packetNum = s.packetNum /\ h.start = s.start /\ h.raw = s.raw /\ h.size = s.size
          /\ h.lastMax = s.lastMax
      BY <3>2 DEF Same, Fields
    <3> QED
      BY <2>1, <2>4, <3>1, <3>3, <3>4, <3>5, <3>6 DEF EndsScan
  <2>5. CASE ~s.complete
    <3>1. r = KeepStages(s, p)
      BY <2>2, <2>5
    <3>2. /\ Same(s, r, KeepFields) /\ Accounted(s, r, p)
          /\ Filtered(p) => r.ret = "refused" /\ Same(s, r, KeepFields \ StoreFields)
          /\ ~Filtered(p) =>
               /\ r.lastMax = MaxPackets
               /\ IF s.lastMax = MaxPackets THEN r.size = s.size /\ r.raw = s.raw
                  ELSE r.size = p.layout /\ r.raw = TRUE
               /\ r.size # p.layout => /\ r.ret = "refused" /\ r.packetNum = s.packetNum
                                       /\ r.slots = s.slots
               /\ r.size = p.layout =>
                    /\ r.ret = "done" /\ r.packetNum = s.packetNum + 1
                    /\ r.slots = IF s.lastMax = MaxPackets THEN [s.slots EXCEPT ![s.packetNum] = p]
                                 ELSE [[i \in Slots |-> NoPacket] EXCEPT ![s.packetNum] = p]
      <4> DEFINE k == KeepStages(s, p)
      <4>1. /\ Same(s, k, KeepFields) /\ Accounted(s, k, p)
            /\ Filtered(p) => k.ret = "refused" /\ Same(s, k, KeepFields \ StoreFields)
            /\ ~Filtered(p) =>
                 /\ k.lastMax = MaxPackets
                 /\ IF s.lastMax = MaxPackets THEN k.size = s.size /\ k.raw = s.raw
                    ELSE k.size = p.layout /\ k.raw = TRUE
                 /\ k.size # p.layout => /\ k.ret = "refused" /\ k.packetNum = s.packetNum
                                         /\ k.slots = s.slots
                 /\ k.size = p.layout =>
                      /\ k.ret = "done" /\ k.packetNum = s.packetNum + 1
                      /\ k.slots = IF s.lastMax = MaxPackets THEN [s.slots EXCEPT ![s.packetNum] = p]
                                   ELSE [[i \in Slots |-> NoPacket] EXCEPT ![s.packetNum] = p]
        BY <2>3, KeepDoes
      <4> HIDE DEF k
      <4>2. r = k
        BY <3>1 DEF k
      <4> QED
        BY <4>1, <4>2
    <3>3. Same(r, h, {"ret"}) /\ h.ret = "go"
      BY <1>2, <3>2 DEF Same
    <3>4. Entered(g, h, p) /\ h.complete = FALSE /\ r.complete = FALSE
      <4>1. h.init = s.init /\ h.layout = s.layout /\ h.last = s.last /\ h.lastLast = s.lastLast
            /\ h.lastId = s.lastId /\ h.complete = s.complete /\ h.useAngle = s.useAngle
            /\ r.complete = s.complete /\ h.ret = s.ret
        BY <2>3, <3>2, <3>3 DEF Same, Fields, KeepFields
      <4> QED
        BY <2>1, <2>3, <2>5, <4>1 DEF Entered, SplitTypes, Settled
    <3>5. Same(g, h, (LayoutFields \cup SplitFields \cup KeepFields) \ {"ret"})
      <4>1. \A x \in Fields \ (LayoutFields \cup SplitFields \cup KeepFields) : h[x] = g[x]
        BY <2>1, <3>2, <3>3 DEF Same, KeepFields
      <4> QED
        BY <3>3, <4>1 DEF Same, KeepFields, Entered
    <3>6. s.seqInit = g.seqInit /\ s.lastSeq = g.lastSeq /\ s.totalLoss = g.totalLoss
          /\ s.slots = g.slots
      BY <2>1 DEF Same, Fields, LayoutFields, SplitFields
    <3>7. h.seqInit = r.seqInit /\ h.lastSeq = r.lastSeq /\ h.totalLoss = r.totalLoss
          /\ h.start = r.start /\ h.end = r.end /\ h.lastMax = r.lastMax /\ h.size = r.size
          /\ h.raw = r.raw /\ h.slots = r.slots /\ h.packetNum = r.packetNum
      BY <3>3 DEF Same, Fields
    <3>8. s.lastMax = MaxFor(g, p) /\ s.packetNum = RoomFor(g, p)
          /\ (~Relaid(g, p) => s.size = g.size /\ s.raw = g.raw)
      BY <2>1 DEF MaxFor, RoomFor
    <3>9. Filtered(p) => /\ r.lastMax = s.lastMax /\ r.size = s.size /\ r.raw = s.raw
                         /\ r.slots = s.slots /\ r.packetNum = s.packetNum
      BY <3>2 DEF Same, Fields, KeepFields, StoreFields
    <3>10. MaxFor(g, p) = MaxPackets => ~Relaid(g, p)
      BY BoundAssumption DEF MaxFor
    <3>11. h.start = (IF Relaid(g, p) \/ g.start = NoTime THEN Id(p) ELSE g.start) /\ h.end = Id(p)
      BY <2>1, <3>2, <3>7 DEF Accounted
    <3>12. IF conf.seq
           THEN /\ h.seqInit = TRUE /\ h.lastSeq = p.seq
                /\ h.totalLoss = IF g.seqInit /\ Diff(p.seq, g.lastSeq) > 1
                                 THEN g.totalLoss + Diff(p.seq, g.lastSeq) - 1 ELSE g.totalLoss
           ELSE h.seqInit = g.seqInit /\ h.lastSeq = g.lastSeq /\ h.totalLoss = g.totalLoss
      BY <3>2, <3>6, <3>7 DEF Accounted
    <3>13. Filtered(p) => /\ r.ret = "refused" /\ h.packetNum = RoomFor(g, p) /\ h.lastMax = MaxFor(g, p)
                          /\ h.slots = g.slots
                          /\ ~Relaid(g, p) => h.raw = g.raw /\ h.size = g.size
      BY <3>2, <3>6, <3>7, <3>8, <3>9
    <3>14. ~Filtered(p) =>
             /\ h.lastMax = MaxPackets
             /\ IF MaxFor(g, p) = MaxPackets THEN h.size = g.size /\ h.raw = g.raw
                ELSE h.size = p.layout /\ h.raw = TRUE
             /\ h.size # p.layout => /\ r.ret = "refused" /\ h.packetNum = RoomFor(g, p)
                                     /\ h.slots = g.slots
             /\ h.size = p.layout =>
                  /\ r.ret = "done" /\ h.packetNum = RoomFor(g, p) + 1
                  /\ h.slots = IF MaxFor(g, p) = MaxPackets THEN [g.slots EXCEPT ![RoomFor(g, p)] = p]
                               ELSE [[i \in Slots |-> NoPacket] EXCEPT ![RoomFor(g, p)] = p]
      BY <3>2, <3>6, <3>7, <3>8, <3>10
    <3> QED
      BY <3>4, <3>5, <3>11, <3>12, <3>13, <3>14 DEF KeptIn
  <2> QED
    BY <2>3, <2>4, <2>5
<1> QED
  BY <1>3, <1>4
-----------------------------------------------------------------------------
(***************************************************************************)
(* The steps of Run()                                                      *)
(***************************************************************************)
\* A packet of points that the lidar sends.
PacketTypes(p) ==
  /\ p.kind \in PointKinds /\ (p.kind = "misplaced" => conf.parser = "7_3")
  /\ p.layout \in conf.layouts /\ PlaceTypes(p) /\ p.seq \in 0..(SeqModulus - 1) /\ p.echo \in {1, 2}

FrameTypes(g) == /\ DOMAIN g = Fields /\ g.ret = "go" /\ g.created \in BOOLEAN /\ g.init \in BOOLEAN
                 /\ SplitTypes(g)

\* Before a packet has set the layout nothing is known of the scan; afterwards only FT V3
\* changes it.
LayoutInv(g) ==
  /\ ~g.created => ~g.init
  /\ ~g.init => Unturned(g)
  /\ g.init => g.layout \in {"normal", "other"} /\ (conf.parser # "7_3" => g.layout = "normal")

\* Between the packet that has split and its second decode.
DeliverInv ==
  /\ f.created
  /\ packet.kind # "timeout" => /\ PacketTypes(packet) /\ f.init /\ Header(packet.layout) = f.layout
                                /\ Settled(f, packet)

BaseInv ==
  /\ conf \in Configurations
  /\ lidar.scan \in {0, 1} /\ lidar.column \in 0..(PerScan - 1) /\ lidar.seq \in 0..(SeqModulus - 1)
  /\ astray \in BOOLEAN /\ FrameTypes(f) /\ LayoutInv(f) /\ pc \in {"take", "deliver"}
  /\ pc = "take" => f.complete = FALSE /\ index \in 0..(MaxPackets - 1) /\ f.packetNum \in 0..index
  /\ pc = "deliver" => DeliverInv

\* What comes changes nothing but, perhaps, that the parser exists.
Idles == /\ Same(f, f', {"created", "complete"}) /\ f'.created \in BOOLEAN /\ f'.complete = FALSE
         /\ f.created => f'.created
         /\ UNCHANGED <<index, pc, packet, received, left, trusted, stalled, astray, lost, uncounted>>

Refuses(p) == /\ f.created /\ RefusedForLayout(f, f', p) /\ uncounted' = uncounted + 1
              /\ UNCHANGED <<index, pc, packet, received, left, trusted, stalled, astray, lost>>

CountsPacket == /\ lost' = IF f.seqInit /\ conf.seq THEN lost + uncounted ELSE lost
                /\ uncounted' = 0

Drops(p) == /\ f.created /\ KeptIn(f, f', p, "refused") /\ CountsPacket
            /\ received' = (IF Belongs(f', p) THEN Append(received, p) ELSE received)
            /\ astray' = (astray \/ Relaid(f, p))
            /\ UNCHANGED <<index, pc, packet, left, trusted, stalled>>

\* g is the frame that DecodePacket has left.
Adds(g, p) ==
  LET h == IF g.packetNum # index THEN ComputeXYZI(g, index) ELSE g IN
  /\ f.created /\ KeptIn(f, g, p, "done") /\ CountsPacket
  /\ IF Discards(g)
     THEN /\ f' = Update(h) /\ index' = 0 /\ received' = <<>> /\ left' = Occupied(h)
          /\ trusted' = FALSE /\ astray' = FALSE
     ELSE /\ f' = h /\ index' = (IF g.packetNum # index THEN index + 1 ELSE index)
          /\ received' = (IF Belongs(g, p) THEN Append(received, p) ELSE received)
          /\ astray' = (astray \/ Relaid(f, p)) /\ UNCHANGED <<left, trusted>>
  /\ UNCHANGED <<pc, packet, stalled>>

EndsFrame(g, p) ==
  /\ f.created /\ f' = Collect(g) /\ pc' = "deliver" /\ packet' = p
  /\ \/ PacketTypes(p) /\ EndsScan(f, g, p) /\ astray' = (astray \/ Relaid(f, p))
     \/ /\ p.kind = "timeout" /\ Same(f, g, {"complete", "useAngle"}) /\ g.complete = TRUE
        /\ g.useAngle = FALSE /\ astray' = astray
  /\ UNCHANGED <<index, received, left, trusted, stalled, uncounted, lost>>

\* The guards of Sends.
Coming(p) == /\ p = [kind |-> p.kind, layout |-> p.layout, scan |-> lidar.scan,
                     column |-> lidar.column, seq |-> lidar.seq, echo |-> (lidar.seq % 2) + 1]
             /\ PacketTypes(p)
             /\ ~f.init => p.layout \in {"normal", "large"}
             /\ p.layout \in {"other", "large"} => lost + uncounted < MaxLost

LEMMA HeaderFacts ==
  ASSUME conf \in Configurations, NEW p, PacketTypes(p), NEW g, LayoutInv(g)
  PROVE  /\ conf.parser \in FixedParsers /\ g.init => Header(p.layout) = g.layout
         /\ conf.parser = "7_3" => p.layout # "large"
         /\ Header(p.layout) \in {"normal", "other", "large"}
         /\ LayoutRefused(g, p) => p.layout \in {"other", "large"}
<1>1. conf.layouts \subseteq Layouts
      /\ (conf.parser \in FixedParsers => conf.layouts \subseteq {"normal", "longer"})
      /\ (conf.parser = "7_3" => conf.layouts \subseteq {"normal", "other"})
  BY ConfigurationTypes
<1>2. p.layout \in conf.layouts /\ p.layout \in {"normal", "other", "large", "longer"}
  BY <1>1 DEF PacketTypes, Layouts
<1> QED
  BY <1>1, <1>2 DEF Header, LayoutInv, LayoutRefused, FixedParsers

LEMMA SendsDoes ==
  ASSUME BaseInv, Sends
  PROVE  /\ pc = "take" /\ conf' = conf /\ MovesOn
         /\ \E p : /\ Coming(p)
                   /\ (Idles /\ ~f.created) \/ Refuses(p) \/ Drops(p) \/ (\E g : Adds(g, p)) \/ (\E g : EndsFrame(g, p))
<1>1. PICK kind \in {"points", "misplaced"}, layout \in conf.layouts :
        /\ pc = "take"
        /\ kind = "misplaced" => conf.parser = "7_3" /\ lidar.column = 1
        /\ ~f.init => layout \in {"normal", "large"}
        /\ layout \in {"other", "longer"} => lidar.column \in {0, 3}
        /\ layout \in {"other", "large"} => lost + uncounted < MaxLost
        /\ Skips(LidarPacket(kind, layout)) \/ Stores(LidarPacket(kind, layout)) \/ Splits(LidarPacket(kind, layout))
        /\ MovesOn /\ UNCHANGED conf
  BY DEF Sends
<1> DEFINE p == LidarPacket(kind, layout)
<1>2. Coming(p)
  <2>1. /\ p.kind = kind /\ p.layout = layout /\ p.scan = lidar.scan /\ p.column = lidar.column
        /\ p.seq = lidar.seq /\ p.echo = (lidar.seq % 2) + 1
    BY DEF LidarPacket
  <2>2. p = [kind |-> p.kind, layout |-> p.layout, scan |-> lidar.scan,
             column |-> lidar.column, seq |-> lidar.seq, echo |-> (lidar.seq % 2) + 1]
    BY <2>1 DEF LidarPacket
  <2>3. p.echo \in {1, 2}
    BY <2>1, BoundAssumption DEF BaseInv
  <2> HIDE DEF p
  <2>4. PacketTypes(p)
    BY <1>1, <2>1, <2>3 DEF PacketTypes, PointKinds, PlaceTypes, BaseInv
  <2> QED
    BY <1>1, <2>1, <2>2, <2>4 DEF Coming
<1>3. Skips(p) \/ Stores(p) \/ Splits(p)
  BY <1>1
<1> HIDE DEF p
<1>4. PacketTypes(p) /\ PlaceTypes(p) /\ p.kind \in PointKinds
  BY <1>2 DEF Coming, PacketTypes
<1> DEFINE done == (Idles /\ ~f.created) \/ Refuses(p) \/ Drops(p) \/ (\E g : Adds(g, p)) \/ (\E g : EndsFrame(g, p))
<1> SUFFICES done
  BY <1>1, <1>2
<1>5. FrameTypes(f) /\ LayoutInv(f) /\ f.complete = FALSE /\ f.packetNum < MaxPackets /\ ~(f.packetNum >= MaxPackets)
  BY <1>1, BoundAssumption DEF BaseInv
<1>6. CASE ~f.created
  <2>1. Skips(p)
    BY <1>3, <1>6 DEF Stores, Splits
  <2> DEFINE c == p.kind \notin {"alien", "timeout"}
             h == Return([f EXCEPT !.created = c], "done")
  <2>2. Decode(f, p) = h
    BY <1>6 DEF Decode, CreatGeneralParser
  <2>3. Same(f, h, {"created", "ret"}) /\ h.created = c /\ c \in BOOLEAN
    BY <1>5 DEF Return, Same, Fields, FrameTypes
  <2>4. f' = Go(h)
    BY <2>1, <2>2 DEF Skips
  <2> HIDE DEF c, h
  <2>5. Same(h, f', {"ret"}) /\ f'.ret = "go"
    BY <2>3, <2>4, GoDoes DEF Same
  <2>6. Same(f, f', {"created", "complete"}) /\ f'.created \in BOOLEAN /\ f'.complete = FALSE
        /\ f'.init = f.init /\ f.init = FALSE
    BY <1>5, <1>6, <2>3, <2>5 DEF Same, Fields, FrameTypes, LayoutInv
  <2>7. UNCHANGED <<index, pc, packet, received, left, trusted, stalled, lost, uncounted>>
    BY <1>6, <2>1 DEF Skips
  <2>8. astray' = (astray \/ (f.init /\ f'.layout # f.layout))
    BY <2>1 DEF Skips, Strays
  <2>9. f'.layout = f.layout
    BY <2>6 DEF Same, Fields
  <2>10. astray' = astray
    BY <2>8, <2>9 DEF BaseInv
  <2> QED
    BY <1>6, <2>6, <2>7, <2>10 DEF Idles
<1>7. CASE f.created
  <2> DEFINE r == Decode(f, p)
             g == Go(r)
  <2>1. r = DecodePacket(f, p)
    BY <1>5, <1>7 DEF Decode
  <2>2. /\ conf.parser \in FixedParsers /\ f.init => Header(p.layout) = f.layout
        /\ conf.parser = "7_3" => p.layout # "large"
        /\ Header(p.layout) \in {"normal", "other", "large"}
    BY <1>4, <1>5, HeaderFacts DEF BaseInv
  <2>3. \/ RefusedForLayout(f, g, p) /\ r.ret = "refused" /\ r.complete = FALSE
        \/ EndsScan(f, g, p) /\ r.ret = "done" /\ r.complete = TRUE
        \/ KeptIn(f, g, p, r.ret) /\ r.complete = FALSE
    <3> DEFINE d == DecodePacket(f, p)
               e == Go(d)
    <3>1. \/ RefusedForLayout(f, e, p) /\ d.ret = "refused" /\ d.complete = FALSE
          \/ EndsScan(f, e, p) /\ d.ret = "done" /\ d.complete = TRUE
          \/ KeptIn(f, e, p, d.ret) /\ d.complete = FALSE
      BY <1>4, <1>5, <2>2, PointsOutcome DEF FrameTypes, BaseInv
    <3> QED
      BY <2>1, <3>1
  <2>4. /\ Skips(p) => /\ r.ret \in {"refused", "imu"} /\ f' = g /\ Count(f', p) /\ Strays(f')
                       /\ received' = (IF Belongs(f', p) THEN Append(received, p) ELSE received)
                       /\ UNCHANGED <<index, pc, packet, left, trusted, stalled>>
    BY <1>7 DEF Skips
  <2>5. /\ Splits(p) => /\ r.ret = "done" /\ r.complete /\ f' = Collect(g) /\ Strays(r)
                        /\ pc' = "deliver" /\ packet' = p
                        /\ UNCHANGED <<index, received, left, trusted, stalled, uncounted, lost>>
    BY DEF Splits
  <2>6. Stores(p) =>
          LET h == IF g.packetNum # index THEN ComputeXYZI(g, index) ELSE g IN
          /\ r.ret = "done" /\ ~g.complete /\ Count(g, p)
          /\ IF Discards(g)
             THEN /\ f' = Update(h) /\ index' = 0 /\ received' = <<>> /\ left' = Occupied(h)
                  /\ trusted' = FALSE /\ astray' = FALSE
             ELSE /\ f' = h /\ index' = (IF g.packetNum # index THEN index + 1 ELSE index)
                  /\ received' = (IF Belongs(g, p) THEN Append(received, p) ELSE received)
                  /\ Strays(g) /\ UNCHANGED <<left, trusted>>
          /\ UNCHANGED <<pc, packet, stalled>>
    BY DEF Stores
  <2>7. DOMAIN r = DOMAIN g /\ (DOMAIN r = Fields => Same(r, g, {"ret"}))
    <3>1. DOMAIN r = DOMAIN g
      BY DEF Go
    <3>2. ASSUME DOMAIN r = Fields PROVE Same(r, g, {"ret"})
      <4> HIDE DEF r
      <4> QED
        BY <3>2, GoDoes
    <3> QED
      BY <3>1, <3>2
  <2> HIDE DEF r, g
  <2>8. CASE RefusedForLayout(f, g, p) /\ r.ret = "refused" /\ r.complete = FALSE
    <3>1. Skips(p)
      BY <1>3, <2>5, <2>6, <2>8
    <3>2. Same(f, g, {"complete", "layout"}) /\ g.init = f.init
          /\ LayoutRefused(f, p) /\ g.layout = IF f.init THEN f.layout ELSE "large"
      BY <2>8 DEF RefusedForLayout, Same, Fields
    <3>3. g.init => Header(p.layout) # g.layout
      BY <3>2 DEF LayoutRefused
    <3>4. ~Counted(g, p) /\ ~Belongs(g, p)
      <4>1. g.layout \in {"normal", "other"} \/ ~g.init
        BY <3>2, <1>5 DEF LayoutInv
      <4> QED
        BY <3>3, <4>1 DEF Counted, Belongs, Header
    <3>5. p.kind \in {"points", "misplaced"}
      BY <1>4 DEF PointKinds
    <3>6. uncounted' = uncounted + 1 /\ lost' = lost
      BY <2>4, <3>1, <3>4, <3>5 DEF Count
    <3>7. astray' = astray
      <4>1. astray' = (astray \/ (f.init /\ g.layout # f.layout))
        BY <2>4, <3>1 DEF Strays
      <4>2. astray \in BOOLEAN
        BY DEF BaseInv
      <4> QED
        BY <3>2, <4>1, <4>2
    <3> QED
      BY <1>7, <2>4, <2>8, <3>1, <3>4, <3>6, <3>7 DEF Refuses
  <2>9. CASE EndsScan(f, g, p) /\ r.ret = "done" /\ r.complete = TRUE
    <3>1. g.complete = TRUE /\ g.layout = Header(p.layout)
      BY <2>9 DEF EndsScan, Entered
    <3>2. Splits(p)
      BY <1>3, <2>4, <2>6, <2>9, <3>1
    <3>3. r.layout = g.layout
      <4>1. DOMAIN g = Fields
        BY <2>9 DEF EndsScan, Same
      <4> QED
        BY <2>7, <4>1 DEF Same, Fields
    <3>4. astray' = (astray \/ Relaid(f, p))
      <4>1. astray' = (astray \/ (f.init /\ r.layout # f.layout))
        BY <2>5, <3>2 DEF Strays
      <4>2. r.layout = Header(p.layout)
        BY <3>1, <3>3
      <4> QED
        BY <4>1, <4>2 DEF Relaid
    <3>5. EndsFrame(g, p)
      BY <1>4, <1>7, <2>5, <2>9, <3>2, <3>4 DEF EndsFrame
    <3> QED
      BY <3>5
  <2>10. CASE KeptIn(f, g, p, r.ret) /\ r.complete = FALSE
    <3>1. g.complete = FALSE /\ g.layout = Header(p.layout) /\ g.init = TRUE
      BY <2>10 DEF KeptIn, Entered
    <3>2. ~Splits(p)
      BY <2>5, <2>10
    <3>3. Counted(g, p)
      BY <1>4, <3>1 DEF Counted, PointKinds
    <3>4. (f.init /\ g.layout # f.layout) <=> Relaid(f, p)
      BY <3>1 DEF Relaid
    <3>5. CASE Skips(p)
      <4>1. f' = g /\ Count(f', p) /\ Strays(f') /\ r.ret \in {"refused", "imu"}
            /\ received' = (IF Belongs(f', p) THEN Append(received, p) ELSE received)
            /\ UNCHANGED <<index, pc, packet, left, trusted, stalled>>
        BY <2>4, <3>5
      <4>2. r.ret = "refused"
        <5>1. r.ret \in {"refused", "done"}
          BY <2>10 DEF KeptIn
        <5> QED
          BY <4>1, <5>1
      <4>3. astray' = (astray \/ Relaid(f, p))
        <5>1. astray' = (astray \/ (f.init /\ g.layout # f.layout))
          BY <4>1 DEF Strays
        <5> QED
          BY <3>4, <5>1
      <4>4. CountsPacket
        BY <3>3, <4>1 DEF Count, CountsPacket
      <4>5. KeptIn(f, f', p, "refused")
        BY <2>10, <4>1, <4>2
      <4>6. Drops(p)
        BY <1>7, <4>1, <4>3, <4>4, <4>5 DEF Drops
      <4> QED
        BY <4>6
    <3>6. CASE Stores(p)
      <4>1. KeptIn(f, g, p, "done")
        BY <2>6, <2>10, <3>6
      <4>2. CountsPacket
        BY <2>6, <3>3, <3>6 DEF Count, CountsPacket
      <4>3. Strays(g) => astray' = (astray \/ Relaid(f, p))
        <5>1. Strays(g) => astray' = (astray \/ (f.init /\ g.layout # f.layout))
          BY DEF Strays
        <5> QED
          BY <3>4, <5>1
      <4>4. Adds(g, p)
        BY <1>7, <2>6, <3>6, <4>1, <4>2, <4>3 DEF Adds
      <4> QED
        BY <4>4
    <3> QED
      BY <1>3, <3>2, <3>5, <3>6
  <2> QED
    BY <2>3, <2>8, <2>9, <2>10
<1> QED
  BY <1>6, <1>7

LEMMA OthersDo ==
  ASSUME BaseInv, pc = "take", NEW p, p.kind \in OtherKinds, Skips(p) \/ Splits(p),
         p.kind = "imu" => conf.parser \in {"1_8", "7_3"}, p.kind = "corrupt" => conf.parser = "1_8"
  PROVE  Idles \/ (p.kind = "timeout" /\ \E g : EndsFrame(g, p))
<1>1. FrameTypes(f) /\ LayoutInv(f) /\ f.complete = FALSE /\ ~(f.packetNum >= MaxPackets) /\ astray \in BOOLEAN
  BY BoundAssumption DEF BaseInv
<1>2. p.kind \notin {"points", "misplaced"}
  BY DEF OtherKinds
<1> DEFINE r == Decode(f, p)
           h == Go(r)
<1>3. CASE ~f.created
  <2> DEFINE c == p.kind \notin {"alien", "timeout"}
  <2>1. r = Return([f EXCEPT !.created = c], "done") /\ Skips(p)
    BY <1>3 DEF Decode, CreatGeneralParser, Splits
  <2> HIDE DEF c
  <2>2. Same(f, r, {"created", "ret"}) /\ r.created \in BOOLEAN
    <3>1. c \in BOOLEAN
      BY DEF c
    <3> QED
      BY <1>1, <2>1, <3>1 DEF Return, Same, Fields, FrameTypes
  <2>3. f' = h /\ Strays(h) /\ UNCHANGED <<index, pc, packet, received, left, trusted, stalled, lost, uncounted>>
    BY <1>3, <2>1 DEF Skips
  <2> HIDE DEF r
  <2>4. Same(r, h, {"ret"}) /\ h.ret = "go"
    BY <2>2, GoDoes DEF Same
  <2> HIDE DEF h
  <2>5. Same(f, h, {"created"}) /\ h.created \in BOOLEAN /\ h.complete = FALSE /\ h.layout = f.layout
    BY <1>1, <2>2, <2>4 DEF Same, Fields, FrameTypes
  <2>6. astray' = astray
    BY <1>1, <2>3, <2>5 DEF Strays
  <2> QED
    BY <1>3, <2>3, <2>5, <2>6 DEF Idles, Same
<1>4. CASE f.created
  <2>1. r = DecodePacket(f, p)
    BY <1>1, <1>4 DEF Decode
  <2>2. OtherOutcome(f, r, p)
    <3>1. OtherOutcome(f, DecodePacket(f, p), p)
      BY <1>1, DecodeOthers DEF FrameTypes, BaseInv
    <3> QED
      BY <2>1, <3>1
  <2>3. Skips(p) => /\ r.ret \in {"refused", "imu"} /\ f' = h /\ Count(f', p) /\ Strays(f')
                    /\ received' = (IF Belongs(f', p) THEN Append(received, p) ELSE received)
                    /\ UNCHANGED <<index, pc, packet, left, trusted, stalled>>
    BY <1>4 DEF Skips
  <2>4. Splits(p) => /\ r.ret = "done" /\ r.complete /\ f' = Collect(h) /\ Strays(r)
                     /\ pc' = "deliver" /\ packet' = p
                     /\ UNCHANGED <<index, received, left, trusted, stalled, uncounted, lost>>
    BY DEF Splits
  <2>5. DOMAIN r = Fields
    BY <2>2 DEF OtherOutcome, Same
  <2> HIDE DEF r
  <2>6. Same(r, h, {"ret"}) /\ h.ret = "go"
    BY <2>5, GoDoes
  <2> HIDE DEF h
  <2>7. CASE r.ret \in {"refused", "imu"} /\ Same(f, r, {"complete", "ret"}) /\ r.complete \in {FALSE, f.complete}
    <3>1. Skips(p)
      BY <2>4, <2>7
    <3>2. Same(f, h, {"complete"}) /\ h.complete = FALSE /\ h.layout = f.layout /\ h.created = f.created
      BY <1>1, <2>6, <2>7, ZenonT(30) DEF Same, Fields, FrameTypes
    <3>3. UNCHANGED <<lost, uncounted>>
      BY <1>2, <2>3, <3>1 DEF Count, Counted
    <3>4. received' = received
      BY <1>2, <2>3, <3>1 DEF Belongs
    <3>5. astray' = astray
      BY <1>1, <2>3, <3>1, <3>2 DEF Strays
    <3> QED
      BY <1>4, <2>3, <3>1, <3>2, <3>3, <3>4, <3>5 DEF Idles, Same
  <2>8. CASE /\ p.kind = "timeout" /\ conf.parser = "4_3" /\ r.ret = "done" /\ r.complete = TRUE
             /\ r.useAngle = FALSE /\ Same(f, r, {"complete", "useAngle", "ret"})
    <3>1. Splits(p)
      BY <2>3, <2>8
    <3>2. Same(f, h, {"complete", "useAngle"}) /\ h.complete = TRUE /\ h.useAngle = FALSE
      BY <1>1, <2>6, <2>8 DEF Same, Fields, FrameTypes
    <3>3. r.layout = f.layout
      BY <2>8 DEF Same, Fields
    <3>4. astray' = astray
      BY <1>1, <2>4, <3>1, <3>3 DEF Strays
    <3> QED
      BY <1>4, <2>4, <2>8, <3>1, <3>2, <3>4 DEF EndsFrame
  <2> QED
    BY <2>2, <2>7, <2>8 DEF OtherOutcome
<1> QED
  BY <1>3, <1>4

\* What Run() does to a frame besides decoding leaves the layout, the split, the loss counter
\* and the buffer's size alone.
RunFields == {"packetNum", "pointsNum", "start", "end", "complete", "slots", "points", "valid"}
Steady(g, h) == Same(g, h, RunFields) /\ h.complete \in {FALSE, g.complete}

LEMMA UpdateDoes ==
  ASSUME NEW g, DOMAIN g = Fields
  PROVE  /\ Same(g, Update(g), RunFields \ {"valid"})
         /\ Update(g).packetNum = 0 /\ Update(g).pointsNum = 0 /\ Update(g).start = NoTime
         /\ Update(g).end = NoTime /\ Update(g).complete = FALSE
BY DEF Update, Same, Fields, RunFields

\* After the callbacks the points are cleared as well.
Renewed(g) == ClearPoints(Update(g))

LEMMA RenewedDoes ==
  ASSUME NEW g, DOMAIN g = Fields
  PROVE  /\ Same(g, Renewed(g), RunFields \ {"valid"})
         /\ Renewed(g).packetNum = 0 /\ Renewed(g).pointsNum = 0 /\ Renewed(g).start = NoTime
         /\ Renewed(g).end = NoTime /\ Renewed(g).complete = FALSE
         /\ Renewed(g).slots = Update(g).slots
         /\ Renewed(g).points = IF conf.remake THEN [k \in PointIndices |-> NoPoint] ELSE Update(g).points
<1> DEFINE u == Update(g)
<1>1. /\ Same(g, u, RunFields \ {"valid"}) /\ u.packetNum = 0 /\ u.pointsNum = 0 /\ u.start = NoTime
      /\ u.end = NoTime /\ u.complete = FALSE
  BY UpdateDoes
<1>2. Renewed(g) = IF conf.remake THEN [u EXCEPT !.points = [k \in PointIndices |-> NoPoint]] ELSE u
  BY DEF Renewed, ClearPoints
<1> HIDE DEF u
<1>3. /\ DOMAIN u = Fields /\ DOMAIN Renewed(g) = Fields
      /\ \A x \in Fields \ {"points"} : Renewed(g)[x] = u[x]
      /\ Renewed(g).points = IF conf.remake THEN [k \in PointIndices |-> NoPoint] ELSE u.points
  BY <1>1, <1>2 DEF Same, Fields
<1> QED
  BY <1>1, <1>3 DEF Same, Fields, RunFields, u

LEMMA ComputeDoes ==
  ASSUME NEW g, NEW i, DOMAIN g = Fields
  PROVE  Same(g, ComputeXYZI(g, i), {"valid", "points"})
<1>1. ASSUME NEW v PROVE Same(g, [g EXCEPT !.valid[i] = v], {"valid", "points"})
  BY DEF Same, Fields
<1>2. ASSUME NEW v, NEW pts PROVE Same(g, [g EXCEPT !.valid[i] = v, !.points = pts], {"valid", "points"})
  BY DEF Same, Fields
<1>3. Same(g, g, {"valid", "points"})
  BY DEF Same
<1> QED
  BY <1>1, <1>2, <1>3, Zenon DEF ComputeXYZI

LEMMA CollectDoes ==
  ASSUME NEW g, DOMAIN g = Fields
  PROVE  Same(g, Collect(g), {"points", "pointsNum"})
<1>1. ASSUME NEW pts, NEW n PROVE Same(g, [g EXCEPT !.points = pts, !.pointsNum = n], {"points", "pointsNum"})
  BY DEF Same, Fields
<1>2. ASSUME NEW n PROVE Same(g, [g EXCEPT !.pointsNum = n], {"points", "pointsNum"})
  BY DEF Same, Fields
<1>3. Same(g, Compact(g), {"points", "pointsNum"})
  BY <1>1, Zenon DEF Compact
<1> QED
  BY <1>2, <1>3, Zenon DEF Collect

LEMMA SteadyFrame ==
  ASSUME NEW g, NEW h, Steady(g, h), FrameTypes(g), LayoutInv(g)
  PROVE  FrameTypes(h) /\ LayoutInv(h) /\ \A p : Settled(g, p) => Settled(h, p)
BY DEF Steady, Same, Fields, RunFields, FrameTypes, LayoutInv, Settled, SplitTypes, Unturned

\* After the callbacks the packet that split is the first of the new frame.
Reopens(g, p) ==
  /\ f' = ComputeXYZI(g, 0) /\ index' = 1 /\ CountsPacket
  /\ received' = (IF Belongs(g, p) THEN <<p>> ELSE <<>>)
  /\ left' = {} /\ astray' = (g.packetNum # 1)

Begins == /\ f' = Renewed(f) /\ index' = 0 /\ received' = <<>> /\ left' = {} /\ astray' = FALSE
          /\ UNCHANGED <<lost, uncounted>>

LEMMA DeliveredDoes ==
  ASSUME BaseInv, Delivered
  PROVE  /\ pc = "deliver" /\ pc' = "take" /\ UNCHANGED <<conf, lidar>>
         /\ packet.kind = "timeout" => Begins
         /\ packet.kind # "timeout" =>
              \E g, ret : KeptIn(Renewed(f), g, packet, ret) /\ Reopens(g, packet)
<1>1. pc = "deliver" /\ pc' = "take" /\ UNCHANGED <<conf, lidar>>
  BY DEF Delivered
<1>2. FrameTypes(f) /\ LayoutInv(f) /\ DeliverInv
  BY <1>1 DEF BaseInv
<1>3. packet.kind = "timeout" => Begins
  BY DEF Delivered, Begins, Renewed
<1>4. CASE packet.kind # "timeout"
  <2> DEFINE u == Renewed(f)
             r == Decode(u, packet)
             g == Go(r)
  <2>1. /\ f' = ComputeXYZI(g, 0) /\ index' = 1 /\ Count(g, packet)
        /\ received' = (IF Belongs(g, packet) THEN <<packet>> ELSE <<>>)
        /\ left' = {} /\ astray' = (g.packetNum # 1)
    BY <1>4 DEF Delivered, Renewed
  <2>2. /\ Same(f, u, RunFields \ {"valid"}) /\ u.packetNum = 0 /\ u.complete = FALSE
    BY <1>2, RenewedDoes DEF FrameTypes
  <2> HIDE DEF u
  <2>3. FrameTypes(u) /\ LayoutInv(u) /\ Settled(u, packet)
    <3>1. Steady(f, u)
      BY <2>2 DEF Steady, Same
    <3> QED
      BY <1>2, <1>4, <3>1, SteadyFrame DEF DeliverInv
  <2>4. u.created /\ u.init /\ u.layout = f.layout /\ u.seqInit = f.seqInit /\ DOMAIN u = Fields
    BY <1>2, <1>4, <2>2 DEF DeliverInv, Same, Fields, RunFields
  <2>5. PacketTypes(packet) /\ PlaceTypes(packet) /\ packet.kind \in PointKinds
        /\ Header(packet.layout) = u.layout
    BY <1>2, <1>4, <2>4 DEF DeliverInv, PacketTypes
  <2>6. r = DecodePacket(u, packet)
    <3>1. ~(u.packetNum >= MaxPackets)
      BY <2>2, BoundAssumption
    <3> QED
      BY <2>4, <3>1 DEF Decode
  <2>7. conf.parser = "7_3" => packet.layout # "large"
    BY <2>3, <2>5, HeaderFacts DEF BaseInv
  <2>8. \/ RefusedForLayout(u, g, packet) \/ EndsScan(u, g, packet) \/ KeptIn(u, g, packet, r.ret)
    <3> DEFINE d == DecodePacket(u, packet)
               e == Go(d)
    <3>1. \/ RefusedForLayout(u, e, packet) /\ d.ret = "refused" /\ d.complete = FALSE
          \/ EndsScan(u, e, packet) /\ d.ret = "done" /\ d.complete = TRUE
          \/ KeptIn(u, e, packet, d.ret) /\ d.complete = FALSE
      BY <2>3, <2>5, <2>7, PointsOutcome DEF FrameTypes, BaseInv
    <3> QED
      BY <2>6, <3>1
  <2> HIDE DEF r, g
  <2>9. ~RefusedForLayout(u, g, packet) /\ ~EndsScan(u, g, packet)
    BY <2>3, <2>4, <2>5 DEF RefusedForLayout, EndsScan, LayoutRefused
  <2>10. KeptIn(u, g, packet, r.ret)
    BY <2>8, <2>9
  <2>11. Counted(g, packet)
    BY <2>5, <2>10 DEF KeptIn, Entered, Counted, PointKinds
  <2>12. Reopens(g, packet)
    BY <2>1, <2>11 DEF Reopens, Count, CountsPacket
  <2>13. KeptIn(Renewed(f), g, packet, r.ret) /\ Reopens(g, packet)
    BY <2>10, <2>12 DEF u
  <2>14. \E s, ret : KeptIn(Renewed(f), s, packet, ret) /\ Reopens(s, packet)
    BY <2>13
  <2> QED
    BY <1>1, <1>4, <2>14
<1> QED
  BY <1>1, <1>3, <1>4

\* Every step, by what it does to the frame.
Comes == /\ pc = "take" /\ conf' = conf /\ MovesOn
         /\ \E p : Coming(p) /\ ((Idles /\ ~f.created) \/ Refuses(p) \/ Drops(p) \/ (\E g : Adds(g, p))
                                 \/ (\E g : EndsFrame(g, p)))
OthersCome == /\ pc = "take" /\ UNCHANGED <<conf, lidar>>
              /\ Idles \/ \E p, g : p.kind = "timeout" /\ EndsFrame(g, p)
Follows == /\ pc = "deliver" /\ pc' = "take" /\ UNCHANGED <<conf, lidar>>
           /\ \/ packet.kind = "timeout" /\ Begins
              \/ /\ packet.kind # "timeout"
                 /\ \E g, ret : KeptIn(Renewed(f), g, packet, ret) /\ Reopens(g, packet)

LEMMA NextDoes ==
  ASSUME BaseInv, [Next]_vars
  PROVE  Comes \/ OthersCome \/ Loses \/ Follows \/ UNCHANGED vars
<1>1. CASE Sends
  BY <1>1, SendsDoes DEF Comes
<1>2. CASE SendsOther
  <2>1. PICK kind \in {"imu", "alien", "corrupt"} :
          /\ pc = "take" /\ Skips(LidarPacket(kind, "normal"))
          /\ kind = "imu" => conf.parser \in {"1_8", "7_3"}
          /\ kind = "corrupt" => conf.parser = "1_8"
          /\ UNCHANGED <<conf, lidar>>
    BY <1>2 DEF SendsOther
  <2>2. LidarPacket(kind, "normal").kind = kind
    BY DEF LidarPacket
  <2>3. Idles
    BY <2>1, <2>2, OthersDo DEF OtherKinds
  <2> QED
    BY <2>1, <2>3 DEF OthersCome
<1>3. CASE Timeout
  <2> DEFINE p == LidarPacket("timeout", "normal")
  <2>1. p.kind = "timeout" /\ pc = "take" /\ (Skips(p) \/ Splits(p)) /\ UNCHANGED <<conf, lidar>>
    BY <1>3 DEF Timeout, LidarPacket
  <2> HIDE DEF p
  <2> QED
    BY <2>1, OthersDo DEF OtherKinds, OthersCome
<1>4. CASE Delivered
  BY <1>4, DeliveredDoes DEF Follows
<1> QED
  BY <1>1, <1>2, <1>3, <1>4 DEF Next

\* What a packet leaves of a frame, decoded for the first or the second time.
LEMMA KeptFrame ==
  ASSUME conf \in Configurations, NEW g, FrameTypes(g), LayoutInv(g), g.created,
         NEW p, PacketTypes(p), ~g.init => p.layout \in {"normal", "large"},
         NEW h, Entered(g, h, p),
         \E fields \in SUBSET Fields : "created" \notin fields /\ Same(g, h, fields)
  PROVE  FrameTypes(h) /\ LayoutInv(h) /\ h.created /\ h.init /\ Settled(h, p)
         /\ Header(p.layout) = h.layout
<1>1. h.created = g.created /\ DOMAIN h = Fields
  BY DEF Same, Fields
<1>2. /\ ~LayoutRefused(g, p)
      /\ Relaid(g, p) => conf.parser = "7_3"
      /\ h.init = TRUE /\ h.layout = Header(p.layout) /\ SplitTypes(h) /\ Settled(h, p) /\ h.ret = "go"
  BY DEF Entered
<1>3. h.layout \in {"normal", "other"} /\ (conf.parser # "7_3" => h.layout = "normal")
  <2>1. CASE ~g.init
    BY <1>2, <2>1 DEF LayoutRefused, Header
  <2>2. CASE g.init /\ ~Relaid(g, p)
    BY <1>2, <2>2 DEF Relaid, LayoutInv
  <2>3. CASE g.init /\ Relaid(g, p)
    <3>1. /\ Header(p.layout) \in {"normal", "other", "large"}
          /\ conf.parser = "7_3" => p.layout # "large"
      BY HeaderFacts
    <3> QED
      BY <1>2, <2>3, <3>1 DEF Header
  <2> QED
    BY <2>1, <2>2, <2>3 DEF FrameTypes
<1> QED
  BY <1>1, <1>2, <1>3 DEF FrameTypes, LayoutInv

LEMMA MovesOnTypes ==
  ASSUME lidar.scan \in {0, 1}, lidar.column \in 0..(PerScan - 1), lidar.seq \in 0..(SeqModulus - 1),
         MovesOn
  PROVE  lidar'.scan \in {0, 1} /\ lidar'.column \in 0..(PerScan - 1)
         /\ lidar'.seq = (lidar.seq + 1) % SeqModulus /\ lidar'.seq \in 0..(SeqModulus - 1)
BY BoundAssumption DEF MovesOn

LEMMA BaseInit == Init => BaseInv
<1> SUFFICES ASSUME Init PROVE BaseInv
  OBVIOUS
<1>1. conf \in Configurations /\ conf.given \in BOOLEAN
  BY ConfigurationTypes, ConfigurationAssumption DEF Init
<1>2. /\ FirstColumns \subseteq 0..(PerScan - 1) /\ SeqModulus \in Nat /\ SeqModulus > 0
      /\ MaxPackets \in Nat /\ MaxPackets > 1
  BY BoundAssumption
<1>3. lidar.scan \in {0, 1} /\ lidar.column \in 0..(PerScan - 1) /\ lidar.seq \in 0..(SeqModulus - 1)
  BY <1>2 DEF Init
<1>4. /\ DOMAIN f = Fields /\ f.ret = "go" /\ f.created = conf.given /\ f.init = FALSE
      /\ f.last = 0 /\ f.lastLast = 0 /\ f.lastId = -1 /\ f.complete = FALSE /\ f.packetNum = 0
      /\ f.useAngle = TRUE
  BY DEF Init, Fields
<1>5. FrameTypes(f) /\ LayoutInv(f)
  <2>1. SplitTypes(f)
    <3>1. f.last \in Nat /\ f.lastLast \in Nat /\ f.lastId \in Int
      BY <1>4
    <3>2. f.complete \in BOOLEAN /\ f.useAngle \in BOOLEAN
      BY <1>4
    <3> QED
      BY <3>1, <3>2 DEF SplitTypes
  <2>2. LayoutInv(f)
    BY <1>1, <1>4 DEF LayoutInv, Unturned
  <2> QED
    BY <1>1, <1>4, <2>1, <2>2 DEF FrameTypes
<1>6. index = 0 /\ pc = "take" /\ astray = FALSE
  BY DEF Init
<1>7. index \in 0..(MaxPackets - 1) /\ f.packetNum \in 0..index
  BY <1>2, <1>4, <1>6
<1> QED
  BY <1>1, <1>3, <1>4, <1>5, <1>6, <1>7 DEF BaseInv

LEMMA KeptTypes ==
  ASSUME conf \in Configurations, NEW g, FrameTypes(g), LayoutInv(g), g.created,
         NEW p, PacketTypes(p), ~g.init => p.layout \in {"normal", "large"},
         NEW h, NEW ret, KeptIn(g, h, p, ret)
  PROVE  FrameTypes(h) /\ LayoutInv(h) /\ h.complete = FALSE
         /\ h.packetNum \in {RoomFor(g, p), RoomFor(g, p) + 1}
<1> DEFINE fields == (LayoutFields \cup SplitFields \cup KeepFields) \ {"ret"}
<1>1. Entered(g, h, p) /\ h.complete = FALSE /\ Same(g, h, fields)
      /\ h.packetNum \in {RoomFor(g, p), RoomFor(g, p) + 1}
  BY DEF KeptIn
<1>2. fields \in SUBSET Fields /\ "created" \notin fields
  BY DEF Fields, LayoutFields, SplitFields, KeepFields
<1> HIDE DEF fields
<1> QED
  BY <1>1, <1>2, KeptFrame

LEMMA IdlesTakes ==
  ASSUME Idles, conf' = conf, FrameTypes(f), LayoutInv(f), pc = "take", astray \in BOOLEAN,
         index \in 0..(MaxPackets - 1), f.packetNum \in 0..index
  PROVE  /\ FrameTypes(f') /\ LayoutInv(f)' /\ pc' = "take" /\ f'.complete = FALSE
         /\ index' \in 0..(MaxPackets - 1) /\ f'.packetNum \in 0..index' /\ astray' \in BOOLEAN
BY DEF Idles, Same, Fields, FrameTypes, LayoutInv, SplitTypes, Unturned

LEMMA EndsFrameTypes ==
  ASSUME conf \in Configurations, conf' = conf, FrameTypes(f), LayoutInv(f), astray \in BOOLEAN,
         NEW g, NEW p, EndsFrame(g, p), p.kind # "timeout" /\ ~f.init => p.layout \in {"normal", "large"}
  PROVE  FrameTypes(f') /\ LayoutInv(f)' /\ pc' = "deliver" /\ DeliverInv' /\ astray' \in BOOLEAN
<1> DEFINE c == Collect(g)
<1>1. f.created /\ f' = c /\ pc' = "deliver" /\ packet' = p
  BY DEF EndsFrame
<1>2. DOMAIN g = Fields => Same(g, c, {"points", "pointsNum"})
  BY CollectDoes
<1> HIDE DEF c
<1>3. CASE PacketTypes(p) /\ EndsScan(f, g, p) /\ astray' = (astray \/ Relaid(f, p))
  <2> DEFINE fields == (LayoutFields \cup SplitFields) \ {"ret"}
  <2>1. Entered(f, g, p) /\ Same(f, g, fields)
    BY <1>3 DEF EndsScan
  <2>2. fields \in SUBSET Fields /\ "created" \notin fields
    BY DEF Fields, LayoutFields, SplitFields
  <2> HIDE DEF fields
  <2>3. p.kind # "timeout"
    BY <1>3 DEF PacketTypes, PointKinds
  <2>4. FrameTypes(g) /\ LayoutInv(g) /\ g.created /\ g.init /\ Settled(g, p)
        /\ Header(p.layout) = g.layout
    BY <1>1, <1>3, <2>1, <2>2, <2>3, KeptFrame
  <2>5. Steady(g, c) /\ c.created = g.created /\ c.init = g.init /\ c.layout = g.layout
    BY <1>2, <2>4 DEF Steady, Same, Fields, RunFields, FrameTypes
  <2>6. FrameTypes(c) /\ LayoutInv(c) /\ Settled(c, p)
    BY <2>4, <2>5, SteadyFrame
  <2>7. LayoutInv(f)'
    BY <1>1, <2>6 DEF LayoutInv, Unturned
  <2>8. DeliverInv'
    BY <1>1, <1>3, <2>4, <2>5, <2>6 DEF DeliverInv, PacketTypes, Settled, Azimuth, PlaceTypes
  <2> QED
    BY <1>1, <1>3, <2>6, <2>7, <2>8
<1>4. CASE /\ p.kind = "timeout" /\ Same(f, g, {"complete", "useAngle"}) /\ g.complete = TRUE
           /\ g.useAngle = FALSE /\ astray' = astray
  <2>1. FrameTypes(g) /\ LayoutInv(g) /\ g.created
    BY <1>1, <1>4 DEF Same, Fields, FrameTypes, LayoutInv, SplitTypes, Unturned
  <2>2. Steady(g, c) /\ c.created = g.created
    BY <1>2, <2>1 DEF Steady, Same, Fields, RunFields, FrameTypes
  <2>3. FrameTypes(c) /\ LayoutInv(c)
    BY <2>1, <2>2, SteadyFrame
  <2>4. LayoutInv(f)'
    BY <1>1, <2>3 DEF LayoutInv, Unturned
  <2>5. DeliverInv'
    BY <1>1, <1>4, <2>1, <2>2 DEF DeliverInv
  <2> QED
    BY <1>1, <1>4, <2>3, <2>4, <2>5
<1> QED
  BY <1>3, <1>4 DEF EndsFrame

LEMMA BaseStep == BaseInv /\ [Next]_vars => BaseInv'
<1> SUFFICES ASSUME BaseInv, [Next]_vars PROVE BaseInv'
  OBVIOUS
<1>1. Comes \/ OthersCome \/ Loses \/ Follows \/ UNCHANGED vars
  BY NextDoes
<1>2. FrameTypes(f) /\ LayoutInv(f) /\ MaxPackets \in Nat /\ MaxPackets > 1 /\ conf \in Configurations
      /\ astray \in BOOLEAN
  BY BoundAssumption DEF BaseInv
<1> DEFINE Around == /\ conf' \in Configurations
                     /\ lidar'.scan \in {0, 1} /\ lidar'.column \in 0..(PerScan - 1)
                     /\ lidar'.seq \in 0..(SeqModulus - 1)
           Taking == /\ FrameTypes(f') /\ LayoutInv(f)' /\ pc' = "take" /\ f'.complete = FALSE
                     /\ index' \in 0..(MaxPackets - 1) /\ f'.packetNum \in 0..index'
                     /\ astray' \in BOOLEAN
           Ending == /\ FrameTypes(f') /\ LayoutInv(f)' /\ pc' = "deliver" /\ DeliverInv'
                     /\ astray' \in BOOLEAN
<1>3. Around /\ (Taking \/ Ending) => BaseInv'
  BY DEF BaseInv, FrameTypes, SplitTypes
<1> HIDE DEF Around
<1>4. CASE Comes
  <2>1. Around /\ conf' = conf
    BY <1>2, <1>4, MovesOnTypes DEF Comes, BaseInv, Around
  <2>2. PICK p : Coming(p) /\ ((Idles /\ ~f.created) \/ Refuses(p) \/ Drops(p) \/ (\E g : Adds(g, p))
                               \/ (\E g : EndsFrame(g, p)))
    BY <1>4 DEF Comes
  <2>3. /\ pc = "take" /\ f.complete = FALSE /\ index \in 0..(MaxPackets - 1) /\ f.packetNum \in 0..index
    BY <1>4 DEF Comes, BaseInv
  <2>4. PacketTypes(p) /\ (~f.init => p.layout \in {"normal", "large"})
    BY <2>2 DEF Coming
  <2>5. CASE Idles
    <3>1. Taking
      BY <1>2, <2>1, <2>3, <2>5, IdlesTakes
    <3> QED
      BY <1>3, <2>1, <3>1
  <2>6. CASE Refuses(p)
    <3>1. /\ Same(f, f', {"complete", "layout"}) /\ f'.complete = FALSE
          /\ f'.layout = IF f.init THEN f.layout ELSE "large"
      BY <2>6 DEF Refuses, RefusedForLayout
    <3>2. FrameTypes(f') /\ LayoutInv(f)' /\ f'.packetNum = f.packetNum
      BY <1>2, <2>1, <3>1 DEF Same, Fields, FrameTypes, LayoutInv, SplitTypes, Unturned
    <3> QED
      BY <1>2, <1>3, <2>1, <2>3, <2>6, <3>1, <3>2 DEF Refuses
  <2>7. CASE Drops(p)
    <3>1. f.created /\ KeptIn(f, f', p, "refused")
      BY <2>7 DEF Drops
    <3>2. FrameTypes(f') /\ LayoutInv(f') /\ f'.complete = FALSE
          /\ f'.packetNum \in {RoomFor(f, p), RoomFor(f, p) + 1}
      BY <1>2, <2>4, <3>1, KeptTypes
    <3>3. f'.packetNum = RoomFor(f, p)
      BY <3>1 DEF KeptIn
    <3>4. f'.packetNum \in 0..index
      BY <2>3, <3>3 DEF RoomFor
    <3>5. astray' \in BOOLEAN /\ pc' = pc /\ index' = index
      BY <2>7 DEF Drops
    <3>6. LayoutInv(f)'
      BY <2>1, <3>2 DEF LayoutInv, Unturned
    <3> QED
      BY <1>3, <2>1, <2>3, <3>2, <3>4, <3>5, <3>6
  <2>8. ASSUME NEW g, Adds(g, p) PROVE Taking
    <3> DEFINE h == IF g.packetNum # index THEN ComputeXYZI(g, index) ELSE g
    <3>1. f.created /\ KeptIn(f, g, p, "done")
      BY <2>8 DEF Adds
    <3>2. FrameTypes(g) /\ LayoutInv(g) /\ g.complete = FALSE
          /\ g.packetNum \in {RoomFor(f, p), RoomFor(f, p) + 1}
      BY <1>2, <2>4, <3>1, KeptTypes
    <3>3. g.packetNum \in 0..(index + 1)
      BY <2>3, <3>2 DEF RoomFor
    <3>4. Same(g, h, {"valid", "points"})
      <4>1. Same(g, ComputeXYZI(g, index), {"valid", "points"}) /\ Same(g, g, {"valid", "points"})
        BY <3>2, ComputeDoes DEF FrameTypes, Same
      <4> QED
        BY <4>1
    <3>5. IF Discards(g)
          THEN f' = Update(h) /\ index' = 0 /\ astray' = FALSE
          ELSE /\ f' = h /\ index' = (IF g.packetNum # index THEN index + 1 ELSE index)
               /\ astray' = (astray \/ Relaid(f, p))
      BY <2>8 DEF Adds
    <3>6. pc' = "take"
      BY <2>3, <2>8 DEF Adds
    <3> HIDE DEF h
    <3>7. FrameTypes(h) /\ LayoutInv(h) /\ h.complete = FALSE /\ h.packetNum = g.packetNum
          /\ DOMAIN h = Fields
      BY <3>2, <3>4, SteadyFrame DEF Same, Fields, Steady, RunFields
    <3>8. CASE Discards(g)
      <4> DEFINE u == Update(h)
      <4>1. Steady(h, u) /\ u.packetNum = 0 /\ u.complete = FALSE
        BY <3>7, UpdateDoes DEF Steady, Same
      <4> HIDE DEF u
      <4>2. FrameTypes(u) /\ LayoutInv(u)
        BY <3>7, <4>1, SteadyFrame
      <4>3. f' = u /\ index' = 0 /\ astray' = FALSE
        BY <3>5, <3>8 DEF u
      <4>4. LayoutInv(f)'
        BY <2>1, <4>2, <4>3 DEF LayoutInv, Unturned
      <4>5. 0 \in 0..(MaxPackets - 1) /\ 0 \in 0..0 /\ f'.packetNum = 0 /\ f'.complete = FALSE
        BY <1>2, <4>1, <4>3
      <4> QED
        BY <3>6, <4>2, <4>3, <4>4, <4>5
    <3>9. CASE ~Discards(g)
      <4>1. f' = h /\ index' = (IF g.packetNum # index THEN index + 1 ELSE index)
            /\ astray' \in BOOLEAN
        BY <3>5, <3>9
      <4>2. index' \in 0..(MaxPackets - 1) /\ g.packetNum \in 0..index'
        BY <1>2, <2>3, <3>3, <3>9, <4>1 DEF Discards
      <4>3. LayoutInv(f)'
        BY <2>1, <3>7, <4>1 DEF LayoutInv, Unturned
      <4> QED
        BY <3>6, <3>7, <4>1, <4>2, <4>3
    <3> QED
      BY <3>8, <3>9
  <2>9. ASSUME NEW g, EndsFrame(g, p) PROVE Ending
    BY <1>2, <2>1, <2>3, <2>4, <2>9, EndsFrameTypes
  <2> QED
    BY <1>3, <2>1, <2>2, <2>5, <2>6, <2>7, <2>8, <2>9
<1>5. CASE OthersCome
  <2>1. Around /\ conf' = conf /\ pc = "take"
    BY <1>5 DEF OthersCome, BaseInv, Around
  <2>2. f.complete = FALSE /\ index \in 0..(MaxPackets - 1) /\ f.packetNum \in 0..index
    BY <2>1 DEF BaseInv
  <2>3. CASE Idles
    BY <1>2, <1>3, <2>1, <2>2, <2>3, IdlesTakes
  <2>4. CASE ~Idles
    <3>1. PICK p, g : p.kind = "timeout" /\ EndsFrame(g, p)
      BY <1>5, <2>4 DEF OthersCome
    <3>2. Ending
      BY <1>2, <2>1, <2>2, <3>1, EndsFrameTypes
    <3> QED
      BY <1>3, <2>1, <3>2
  <2> QED
    BY <2>3, <2>4
<1>6. CASE Loses
  <2>1. Around /\ pc = "take" /\ UNCHANGED <<conf, f, index, pc, astray>>
    BY <1>6, MovesOnTypes DEF Loses, BaseInv, Around
  <2>2. Taking
    BY <1>2, <2>1 DEF BaseInv, LayoutInv, Unturned
  <2> QED
    BY <1>3, <2>1, <2>2
<1>7. CASE Follows
  <2>1. Around /\ conf' = conf /\ pc = "deliver" /\ pc' = "take" /\ DeliverInv
    BY <1>7 DEF Follows, BaseInv, Around
  <2> DEFINE u == Renewed(f)
  <2>2. Steady(f, u) /\ u.packetNum = 0 /\ u.complete = FALSE /\ Same(f, u, RunFields)
    BY <1>2, RenewedDoes DEF Steady, Same, FrameTypes
  <2>3. (packet.kind = "timeout" => Begins)
        /\ (packet.kind # "timeout" =>
              \E g, ret : KeptIn(u, g, packet, ret) /\ Reopens(g, packet))
    BY <1>7 DEF Follows
  <2>4. Begins => f' = u /\ index' = 0 /\ astray' = FALSE
    BY DEF Begins
  <2> HIDE DEF u
  <2>5. FrameTypes(u) /\ LayoutInv(u) /\ u.created
    BY <1>2, <2>1, <2>2, SteadyFrame DEF DeliverInv, Same, Fields, RunFields
  <2>6. CASE packet.kind = "timeout"
    <3>1. LayoutInv(f)'
      BY <2>1, <2>3, <2>4, <2>5, <2>6 DEF LayoutInv, Unturned
    <3>2. f' = u /\ index' = 0 /\ astray' = FALSE
      BY <2>3, <2>4, <2>6
    <3>3. 0 \in 0..(MaxPackets - 1) /\ 0 \in 0..0 /\ f'.packetNum = 0 /\ f'.complete = FALSE
      BY <1>2, <2>2, <3>2
    <3>4. Taking
      BY <2>1, <2>5, <3>1, <3>2, <3>3
    <3> QED
      BY <1>3, <2>1, <3>4
  <2>7. CASE packet.kind # "timeout"
    <3>1. PICK g, ret : KeptIn(u, g, packet, ret) /\ Reopens(g, packet)
      BY <2>3, <2>7
    <3>2. PacketTypes(packet) /\ f.init /\ u.init
      BY <2>1, <2>2, <2>7 DEF DeliverInv, Same, Fields, RunFields
    <3>3. FrameTypes(g) /\ LayoutInv(g) /\ g.complete = FALSE
          /\ g.packetNum \in {RoomFor(u, packet), RoomFor(u, packet) + 1}
      BY <1>2, <2>5, <3>1, <3>2, KeptTypes
    <3>4. g.packetNum \in {0, 1}
      BY <2>2, <3>3 DEF RoomFor
    <3> DEFINE c == ComputeXYZI(g, 0)
    <3>5. f' = c /\ index' = 1 /\ astray' \in BOOLEAN /\ Same(g, c, {"valid", "points"})
      BY <3>1, <3>3, ComputeDoes DEF Reopens, FrameTypes
    <3> HIDE DEF c
    <3>6. Steady(g, c) /\ c.packetNum = g.packetNum /\ c.complete = FALSE
      BY <3>3, <3>5 DEF Steady, Same, Fields, RunFields
    <3>7. FrameTypes(c) /\ LayoutInv(c)
      BY <3>3, <3>6, SteadyFrame
    <3>8. LayoutInv(f)'
      BY <2>1, <3>5, <3>7 DEF LayoutInv, Unturned
    <3>9. Taking
      BY <1>2, <2>1, <3>4, <3>5, <3>6, <3>7, <3>8
    <3> QED
      BY <1>3, <2>1, <3>9
  <2> QED
    BY <2>6, <2>7
<1>8. CASE UNCHANGED vars
  BY <1>8 DEF vars, BaseInv, FrameTypes, SplitTypes, LayoutInv, Unturned, DeliverInv, PacketTypes,
             PlaceTypes, Settled, Azimuth
<1> QED
  BY <1>1, <1>4, <1>5, <1>6, <1>7, <1>8

(***************************************************************************)
(* packet_index counts what is stored                                      *)
(***************************************************************************)
IndexInv == BaseInv /\ IndexCountsStored

LEMMA IndexInit == Init => IndexInv
BY BaseInit DEF IndexInv, IndexCountsStored, Init

LEMMA IndexStep == IndexInv /\ [Next]_vars => IndexInv'
<1> SUFFICES ASSUME IndexInv, [Next]_vars PROVE IndexInv'
  OBVIOUS
<1>1. BaseInv /\ BaseInv' /\ IndexCountsStored
  BY BaseStep DEF IndexInv
<1>2. Comes \/ OthersCome \/ Loses \/ Follows \/ UNCHANGED vars
  BY <1>1, NextDoes
<1>3. MaxPackets \in Nat /\ MaxPackets > 1 /\ DOMAIN f = Fields /\ astray \in BOOLEAN
  BY <1>1, BoundAssumption DEF BaseInv, FrameTypes
<1> SUFFICES IndexCountsStored'
  BY <1>1 DEF IndexInv
<1>4. Idles => IndexCountsStored'
  BY <1>1 DEF Idles, Same, Fields, IndexCountsStored
<1>5. ASSUME NEW p, NEW g, EndsFrame(g, p) PROVE IndexCountsStored'
  BY <1>5 DEF EndsFrame, IndexCountsStored
<1>6. CASE Comes
  <2>1. PICK p : Coming(p) /\ ((Idles /\ ~f.created) \/ Refuses(p) \/ Drops(p) \/ (\E g : Adds(g, p))
                               \/ (\E g : EndsFrame(g, p)))
    BY <1>6 DEF Comes
  <2>2. pc = "take" /\ index \in Nat
    BY <1>1, <1>6 DEF Comes, BaseInv
  <2>3. CASE Refuses(p)
    BY <1>1, <2>3 DEF Refuses, RefusedForLayout, Same, Fields, IndexCountsStored
  <2>4. CASE Drops(p)
    <3>1. f'.packetNum = RoomFor(f, p) /\ index' = index /\ astray' = (astray \/ Relaid(f, p)) /\ pc' = pc
      BY <2>4 DEF Drops, KeptIn
    <3> QED
      BY <1>1, <1>3, <3>1 DEF RoomFor, IndexCountsStored
  <2>5. ASSUME NEW g, Adds(g, p) PROVE IndexCountsStored'
    <3> DEFINE h == IF g.packetNum # index THEN ComputeXYZI(g, index) ELSE g
               u == Update(h)
    <3>1. /\ KeptIn(f, g, p, "done")
          /\ IF Discards(g)
             THEN f' = u /\ index' = 0 /\ astray' = FALSE
             ELSE /\ f' = h /\ index' = (IF g.packetNum # index THEN index + 1 ELSE index)
                  /\ astray' = (astray \/ Relaid(f, p))
      BY <2>5 DEF Adds
    <3>2. g.packetNum = RoomFor(f, p) + 1 /\ DOMAIN g = Fields
      BY <3>1 DEF KeptIn, Same
    <3>3. Same(g, h, {"valid", "points"})
      <4>1. Same(g, ComputeXYZI(g, index), {"valid", "points"}) /\ Same(g, g, {"valid", "points"})
        BY <3>2, ComputeDoes DEF Same
      <4> QED
        BY <4>1
    <3>4. u.packetNum = 0
      BY <3>3, UpdateDoes DEF Same
    <3> HIDE DEF h, u
    <3>5. h.packetNum = g.packetNum
      BY <3>3 DEF Same, Fields
    <3>6. CASE Discards(g)
      BY <3>1, <3>4, <3>6 DEF IndexCountsStored
    <3>7. CASE ~Discards(g)
      <4>1. ~astray' => ~astray /\ ~Relaid(f, p)
        BY <1>3, <3>1, <3>7
      <4>2. ~astray' => index = f.packetNum
        BY <1>1, <2>2, <4>1 DEF IndexCountsStored
      <4>3. ~astray' => f'.packetNum = index + 1 /\ index' = index + 1
        BY <2>2, <3>1, <3>2, <3>5, <3>7, <4>1, <4>2 DEF RoomFor
      <4> QED
        BY <4>3 DEF IndexCountsStored
    <3> QED
      BY <3>6, <3>7
  <2> QED
    BY <1>4, <1>5, <2>1, <2>3, <2>4, <2>5
<1>7. CASE OthersCome
  BY <1>4, <1>5, <1>7 DEF OthersCome
<1>8. CASE Follows
  <2>1. CASE packet.kind = "timeout"
    BY <1>3, <1>8, <2>1, RenewedDoes DEF Follows, Begins, IndexCountsStored
  <2>2. CASE packet.kind # "timeout"
    <3>1. PICK g, ret : KeptIn(Renewed(f), g, packet, ret) /\ Reopens(g, packet)
      BY <1>8, <2>2 DEF Follows
    <3> DEFINE c == ComputeXYZI(g, 0)
    <3>2. f' = c /\ index' = 1 /\ astray' = (g.packetNum # 1) /\ Same(g, c, {"valid", "points"})
      BY <3>1, ComputeDoes DEF KeptIn, Same, Reopens
    <3> HIDE DEF c
    <3>3. c.packetNum = g.packetNum
      BY <3>2 DEF Same, Fields
    <3> QED
      BY <3>2, <3>3 DEF IndexCountsStored
  <2> QED
    BY <2>1, <2>2
<1>9. Loses \/ UNCHANGED vars => IndexCountsStored'
  BY <1>1 DEF Loses, vars, IndexCountsStored
<1> QED
  BY <1>2, <1>6, <1>7, <1>8, <1>9

\* As long as no frame's buffer was begun anew and no second decode refused, packet_index is
\* the number of packets that the parser has stored.
THEOREM IndexCountsStoredHolds == Spec => []IndexCountsStored
<1>1. IndexInv => IndexCountsStored
  BY DEF IndexInv
<1> QED
  BY IndexInit, IndexStep, <1>1, PTL DEF Spec

(***************************************************************************)
(* The loss counter                                                        *)
(***************************************************************************)
LEMMA SmallRest ==
  ASSUME NEW m \in Nat, NEW x \in 0..(m - 1)
  PROVE  x % m = x
OBVIOUS

LEMMA LargeRest ==
  ASSUME NEW m \in Nat, m > 0, NEW x \in m..(2 * m - 1)
  PROVE  x % m = x - m
OBVIOUS

LEMMA NextRest ==
  ASSUME NEW m \in Nat, m > 0, NEW x \in 0..(2 * m - 1)
  PROVE  ((x % m) + 1) % m = (x + 1) % m
OBVIOUS

LEMMA GapIsDiff ==
  ASSUME SeqModulus \in Nat, NEW last \in 0..(SeqModulus - 1), NEW u \in Nat, u + 1 < SeqModulus
  PROVE  Diff((last + 1 + u) % SeqModulus, last) = 1 + u
<1>1. CASE last + 1 + u < SeqModulus
  BY <1>1 DEF Diff
<1>2. CASE last + 1 + u >= SeqModulus
  <2>1. (last + 1 + u) % SeqModulus = last + 1 + u - SeqModulus
    BY <1>2, LargeRest
  <2> QED
    BY <1>2, <2>1 DEF Diff
<1> QED
  BY <1>1, <1>2

\* The number of the packet that comes next, as the loss counter would expect it.
IsNext(seq) == conf.seq /\ f.seqInit => seq = (f.lastSeq + 1 + uncounted) % SeqModulus

LossTypes == /\ lost \in Nat /\ uncounted \in Nat /\ lost + uncounted <= MaxLost
             /\ f.lastSeq \in 0..(SeqModulus - 1) /\ f.seqInit \in BOOLEAN
             /\ ~f.created => ~f.seqInit

LossInv ==
  /\ BaseInv /\ LossTypes /\ LossCounted
  /\ pc = "take" => IsNext(lidar.seq)
  /\ pc = "deliver" => IF packet.kind = "timeout" THEN IsNext(lidar.seq)
                       ELSE IsNext(packet.seq) /\ lidar.seq = (packet.seq + 1) % SeqModulus

LEMMA LossInit == Init => LossInv
<1> SUFFICES ASSUME Init PROVE LossInv
  OBVIOUS
<1>1. BaseInv
  BY BaseInit
<1>2. f.lastSeq = 0 /\ f.seqInit = FALSE /\ f.totalLoss = 0
  BY DEF Init
<1>3. LossTypes
  BY <1>2, BoundAssumption DEF LossTypes, Init
<1> QED
  BY <1>1, <1>2, <1>3 DEF LossInv, LossCounted, IsNext, Init

\* The fields of the loss counter.
LossFields == {"seqInit", "lastSeq", "totalLoss"}
KeepsLoss == f'.seqInit = f.seqInit /\ f'.lastSeq = f.lastSeq /\ f'.totalLoss = f.totalLoss

\* A packet whose number reaches the counter, decoded from frame u to frame g.
LEMMA CountsLoss ==
  ASSUME LossTypes, LossCounted, conf \in Configurations, conf' = conf,
         NEW u, u.seqInit = f.seqInit, u.lastSeq = f.lastSeq, u.totalLoss = f.totalLoss,
         NEW p, PacketTypes(p), IsNext(p.seq),
         NEW g, NEW ret, KeptIn(u, g, p, ret), CountsPacket,
         f'.seqInit = g.seqInit, f'.lastSeq = g.lastSeq, f'.totalLoss = g.totalLoss,
         f'.created
  PROVE  /\ LossTypes' /\ LossCounted'
         /\ conf.seq => f'.seqInit /\ f'.lastSeq = p.seq
         /\ uncounted' = 0
<1>1. IF conf.seq
      THEN /\ g.seqInit = TRUE /\ g.lastSeq = p.seq
           /\ g.totalLoss = IF u.seqInit /\ Diff(p.seq, u.lastSeq) > 1
                            THEN u.totalLoss + Diff(p.seq, u.lastSeq) - 1 ELSE u.totalLoss
      ELSE g.seqInit = u.seqInit /\ g.lastSeq = u.lastSeq /\ g.totalLoss = u.totalLoss
  BY DEF KeptIn
<1>2. uncounted' = 0 /\ lost' = IF f.seqInit /\ conf.seq THEN lost + uncounted ELSE lost
  BY DEF CountsPacket
<1>3. /\ p.seq \in 0..(SeqModulus - 1) /\ SeqModulus \in Nat /\ MaxLost \in Nat /\ MaxLost + 1 < SeqModulus
      /\ lost \in Nat /\ uncounted \in Nat /\ lost + uncounted <= MaxLost
      /\ f.lastSeq \in 0..(SeqModulus - 1) /\ f.seqInit \in BOOLEAN
  BY BoundAssumption DEF PacketTypes, LossTypes
<1>4. LossTypes'
  <2>1. lost' \in Nat /\ uncounted' \in Nat /\ lost' + uncounted' <= MaxLost
    BY <1>2, <1>3
  <2>2. f'.lastSeq \in 0..(SeqModulus - 1) /\ f'.seqInit \in BOOLEAN
    BY <1>1, <1>3
  <2> QED
    BY <2>1, <2>2 DEF LossTypes
<1>5. f.totalLoss = IF conf.seq THEN lost ELSE 0
  BY DEF LossCounted
<1>6. f'.totalLoss = IF conf.seq THEN lost' ELSE 0
  <2>1. CASE conf.seq /\ f.seqInit
    <3>1. Diff(p.seq, f.lastSeq) = 1 + uncounted
      <4>1. p.seq = (f.lastSeq + 1 + uncounted) % SeqModulus /\ uncounted + 1 < SeqModulus
        BY <1>3, <2>1 DEF IsNext
      <4> QED
        BY <1>3, <4>1, GapIsDiff
    <3>2. g.totalLoss = IF 1 + uncounted > 1 THEN f.totalLoss + (1 + uncounted) - 1 ELSE f.totalLoss
      BY <1>1, <2>1, <3>1
    <3> QED
      BY <1>2, <1>3, <1>5, <2>1, <3>2
  <2>2. CASE conf.seq /\ ~f.seqInit
    BY <1>1, <1>2, <1>5, <2>2
  <2>3. CASE ~conf.seq
    BY <1>1, <1>5, <2>3
  <2> QED
    BY <2>1, <2>2, <2>3
<1>7. LossCounted'
  BY <1>6 DEF LossCounted
<1> QED
  BY <1>1, <1>2, <1>4, <1>7

LEMMA LossStep == LossInv /\ [Next]_vars => LossInv'
<1> SUFFICES ASSUME LossInv, [Next]_vars PROVE LossInv'
  OBVIOUS
<1>1. /\ BaseInv /\ BaseInv' /\ LossTypes /\ LossCounted
      /\ pc = "take" => IsNext(lidar.seq)
      /\ pc = "deliver" => IF packet.kind = "timeout" THEN IsNext(lidar.seq)
                           ELSE IsNext(packet.seq) /\ lidar.seq = (packet.seq + 1) % SeqModulus
  BY BaseStep DEF LossInv
<1>2. Comes \/ OthersCome \/ Loses \/ Follows \/ UNCHANGED vars
  BY <1>1, NextDoes
<1>3. /\ DOMAIN f = Fields /\ conf \in Configurations /\ SeqModulus \in Nat /\ SeqModulus > 0
      /\ lidar.seq \in 0..(SeqModulus - 1) /\ MaxLost + 1 < SeqModulus /\ MaxLost \in Nat
      /\ lidar.scan \in {0, 1} /\ lidar.column \in 0..(PerScan - 1)
  BY <1>1, BoundAssumption DEF BaseInv, FrameTypes
<1>4. /\ lost \in Nat /\ uncounted \in Nat /\ lost + uncounted <= MaxLost
      /\ f.lastSeq \in 0..(SeqModulus - 1) /\ f.seqInit \in BOOLEAN /\ (~f.created => ~f.seqInit)
  BY <1>1 DEF LossTypes
<1> SUFFICES /\ LossTypes' /\ LossCounted'
             /\ pc' = "take" => IsNext(lidar.seq)'
             /\ pc' = "deliver" =>
                  IF packet'.kind = "timeout" THEN IsNext(lidar.seq)'
                  ELSE IsNext(packet.seq)' /\ lidar'.seq = (packet'.seq + 1) % SeqModulus
  BY <1>1 DEF LossInv
\* One more number goes by that the counter does not see.
<1>5. ASSUME IsNext(lidar.seq), MovesOn, conf' = conf, KeepsLoss, lost' = lost,
             uncounted' = uncounted + 1, lost + uncounted < MaxLost, f'.created = f.created
      PROVE  LossTypes' /\ LossCounted' /\ IsNext(lidar.seq)'
  <2>1. lidar'.seq = (lidar.seq + 1) % SeqModulus
    BY <1>3, <1>5, MovesOnTypes
  <2>2. LossTypes'
    BY <1>3, <1>4, <1>5 DEF KeepsLoss, LossTypes
  <2>3. LossCounted'
    BY <1>1, <1>5 DEF KeepsLoss, LossCounted
  <2>4. f.lastSeq + 1 + uncounted \in 0..(2 * SeqModulus - 1)
    BY <1>3, <1>4
  <2>5. (((f.lastSeq + 1 + uncounted) % SeqModulus) + 1) % SeqModulus
          = (f.lastSeq + 1 + (uncounted + 1)) % SeqModulus
    <3>1. f.lastSeq + 1 + (uncounted + 1) = (f.lastSeq + 1 + uncounted) + 1
      BY <1>3, <1>4
    <3> QED
      BY <1>3, <2>4, <3>1, NextRest
  <2>6. IsNext(lidar.seq)'
    BY <1>5, <2>1, <2>5 DEF IsNext, KeepsLoss
  <2> QED
    BY <2>2, <2>3, <2>6
\* Nothing that counts.
<1>6. ASSUME KeepsLoss, conf' = conf, UNCHANGED <<lost, uncounted>>, f.created => f'.created,
             f'.created \in BOOLEAN
      PROVE  LossTypes' /\ LossCounted' /\ \A s : IsNext(s) => IsNext(s)'
  <2>1. LossTypes' /\ LossCounted'
    BY <1>1, <1>4, <1>6 DEF KeepsLoss, LossTypes, LossCounted
  <2>2. ASSUME NEW s, IsNext(s) PROVE IsNext(s)'
    BY <1>6, <2>2 DEF KeepsLoss, IsNext
  <2> QED
    BY <2>1, <2>2
\* What ends a frame leaves the counter alone.
<1>12. ASSUME NEW p, NEW g, EndsFrame(g, p) PROVE KeepsLoss /\ f'.created = f.created
  <2>1. f' = Collect(g) /\ DOMAIN g = Fields /\ g.seqInit = f.seqInit /\ g.lastSeq = f.lastSeq
        /\ g.totalLoss = f.totalLoss /\ g.created = f.created
    BY <1>12 DEF EndsFrame, EndsScan, Same, Fields, LayoutFields, SplitFields
  <2> DEFINE c == Collect(g)
  <2>2. Same(g, c, {"points", "pointsNum"}) /\ f' = c
    BY <2>1, CollectDoes
  <2> HIDE DEF c
  <2> QED
    BY <2>1, <2>2 DEF Same, Fields, KeepsLoss
<1>7. CASE Comes
  <2>1. PICK p : Coming(p) /\ ((Idles /\ ~f.created) \/ Refuses(p) \/ Drops(p) \/ (\E g : Adds(g, p))
                               \/ (\E g : EndsFrame(g, p)))
    BY <1>7 DEF Comes
  <2>2. pc = "take" /\ conf' = conf /\ MovesOn /\ IsNext(lidar.seq)
    BY <1>1, <1>7 DEF Comes
  <2>3. PacketTypes(p) /\ p.seq = lidar.seq /\ (p.layout \in {"other", "large"} => lost + uncounted < MaxLost)
    BY <2>1 DEF Coming
  <2>4. lidar'.seq = (lidar.seq + 1) % SeqModulus
    BY <1>3, <2>2, MovesOnTypes
  <2>5. CASE Idles /\ ~f.created
    <3>1. KeepsLoss /\ UNCHANGED <<lost, uncounted, pc>> /\ f'.created \in BOOLEAN /\ ~f.seqInit
      BY <1>4, <2>5 DEF Idles, KeepsLoss, Same, Fields
    <3> QED
      BY <1>6, <2>2, <2>5, <3>1 DEF KeepsLoss, IsNext
  <2>6. CASE Refuses(p)
    <3>1. KeepsLoss /\ lost' = lost /\ uncounted' = uncounted + 1 /\ pc' = pc /\ f'.created = f.created
      BY <2>6 DEF Refuses, RefusedForLayout, KeepsLoss, Same, Fields
    <3>2. p.layout \in {"other", "large"}
      BY <1>1, <1>3, <2>3, <2>6, HeaderFacts DEF Refuses, RefusedForLayout, BaseInv
    <3> QED
      BY <1>5, <2>2, <2>3, <3>1, <3>2
  <2>7. ASSUME NEW g, NEW ret, KeptIn(f, g, p, ret), CountsPacket, pc' = "take",
               f'.seqInit = g.seqInit, f'.lastSeq = g.lastSeq, f'.totalLoss = g.totalLoss, f'.created
        PROVE  LossTypes' /\ LossCounted' /\ IsNext(lidar.seq)'
    <3>1. /\ LossTypes' /\ LossCounted' /\ (conf.seq => f'.seqInit /\ f'.lastSeq = p.seq)
          /\ uncounted' = 0
      BY <1>1, <1>3, <2>2, <2>3, <2>7, CountsLoss
    <3>2. IsNext(lidar.seq)'
      BY <1>3, <2>2, <2>3, <2>4, <3>1 DEF IsNext
    <3> QED
      BY <3>1, <3>2
  <2>8. CASE Drops(p)
    <3>1. KeptIn(f, f', p, "refused") /\ CountsPacket /\ pc' = "take" /\ f.created
      BY <2>2, <2>8 DEF Drops
    <3>2. f'.created
      BY <3>1 DEF KeptIn, Same, Fields, LayoutFields, SplitFields, KeepFields
    <3> QED
      BY <2>7, <3>1, <3>2
  <2>9. ASSUME NEW g, Adds(g, p) PROVE LossTypes' /\ LossCounted' /\ IsNext(lidar.seq)' /\ pc' = "take"
    <3> DEFINE h == IF g.packetNum # index THEN ComputeXYZI(g, index) ELSE g
               u == Update(h)
    <3>1. KeptIn(f, g, p, "done") /\ CountsPacket /\ pc' = "take" /\ f.created /\ f' \in {h, u}
      BY <2>2, <2>9 DEF Adds
    <3>2. DOMAIN g = Fields /\ g.created
      BY <3>1 DEF KeptIn, Same, Fields, LayoutFields, SplitFields, KeepFields
    <3>3. Same(g, h, {"valid", "points"})
      <4>1. Same(g, ComputeXYZI(g, index), {"valid", "points"}) /\ Same(g, g, {"valid", "points"})
        BY <3>2, ComputeDoes DEF Same
      <4> QED
        BY <4>1
    <3>4. Same(h, u, RunFields)
      BY <3>3, UpdateDoes DEF Same
    <3> HIDE DEF h, u
    <3>5. f'.seqInit = g.seqInit /\ f'.lastSeq = g.lastSeq /\ f'.totalLoss = g.totalLoss
          /\ f'.created = g.created
      BY <3>1, <3>3, <3>4 DEF Same, Fields, RunFields
    <3> QED
      BY <2>7, <3>1, <3>2, <3>5
  <2>10. ASSUME NEW g, EndsFrame(g, p)
         PROVE  /\ LossTypes' /\ LossCounted' /\ pc' = "deliver" /\ packet'.kind # "timeout"
                /\ IsNext(packet.seq)' /\ lidar'.seq = (packet'.seq + 1) % SeqModulus
    <3>1. KeepsLoss /\ f'.created = f.created /\ f.created /\ UNCHANGED <<lost, uncounted>>
          /\ pc' = "deliver" /\ packet' = p
      BY <1>12, <2>10 DEF EndsFrame
    <3>2. LossTypes' /\ LossCounted'
      BY <1>6, <2>2, <3>1
    <3>3. packet'.seq = lidar.seq /\ packet'.kind # "timeout"
      BY <2>3, <3>1 DEF PacketTypes, PointKinds
    <3>4. IsNext(packet.seq)'
      BY <2>2, <3>1, <3>3 DEF IsNext, KeepsLoss
    <3> QED
      BY <2>4, <3>1, <3>2, <3>3, <3>4
  <2>11. pc' = "take" \/ pc' = "deliver"
    BY <1>1 DEF BaseInv
  <2> QED
    BY <2>1, <2>5, <2>6, <2>7, <2>8, <2>9, <2>10
<1>8. CASE OthersCome
  <2>1. pc = "take" /\ UNCHANGED <<conf, lidar>> /\ IsNext(lidar.seq)
    BY <1>1, <1>8 DEF OthersCome
  <2>2. CASE Idles
    <3>1. KeepsLoss /\ UNCHANGED <<lost, uncounted, pc>> /\ f'.created \in BOOLEAN
          /\ (f.created => f'.created)
      BY <2>2 DEF Idles, KeepsLoss, Same, Fields
    <3>2. LossTypes' /\ LossCounted'
      BY <1>6, <2>1, <3>1
    <3>3. IsNext(lidar.seq)'
      BY <2>1, <3>1 DEF IsNext, KeepsLoss
    <3> QED
      BY <2>1, <3>1, <3>2, <3>3
  <2>3. CASE ~Idles
    <3>1. PICK p, g : p.kind = "timeout" /\ EndsFrame(g, p)
      BY <1>8, <2>3 DEF OthersCome
    <3>2. KeepsLoss /\ f'.created = f.created /\ f.created /\ UNCHANGED <<lost, uncounted>>
          /\ pc' = "deliver" /\ packet' = p
      BY <1>12, <3>1 DEF EndsFrame
    <3>3. LossTypes' /\ LossCounted'
      BY <1>6, <2>1, <3>2
    <3>4. IsNext(lidar.seq)'
      BY <2>1, <3>2 DEF IsNext, KeepsLoss
    <3> QED
      BY <3>1, <3>2, <3>3, <3>4
  <2> QED
    BY <2>2, <2>3
<1>9. CASE Loses
  BY <1>1, <1>5, <1>9 DEF Loses, KeepsLoss
<1>10. CASE Follows
  <2>1. pc = "deliver" /\ pc' = "take" /\ UNCHANGED <<conf, lidar>> /\ DeliverInv
    BY <1>1, <1>10 DEF Follows, BaseInv
  <2> DEFINE u == Renewed(f)
  <2>2. Same(f, u, RunFields)
    BY <1>3, RenewedDoes DEF Same
  <2>3. (packet.kind = "timeout" => f' = u /\ UNCHANGED <<lost, uncounted>>)
        /\ (packet.kind # "timeout" =>
              \E g, ret : KeptIn(u, g, packet, ret) /\ Reopens(g, packet))
    BY <1>10 DEF Follows, Begins
  <2> HIDE DEF u
  <2>4. u.seqInit = f.seqInit /\ u.lastSeq = f.lastSeq /\ u.totalLoss = f.totalLoss
        /\ u.created = f.created /\ f.created
    BY <2>1, <2>2 DEF DeliverInv, Same, Fields, RunFields
  <2>5. CASE packet.kind = "timeout"
    <3>1. KeepsLoss /\ UNCHANGED <<lost, uncounted>> /\ f'.created = f.created
      BY <2>3, <2>4, <2>5 DEF KeepsLoss
    <3>2. LossTypes' /\ LossCounted'
      BY <1>6, <2>1, <2>4, <3>1
    <3>3. IsNext(lidar.seq)'
      BY <1>1, <2>1, <2>5, <3>1 DEF IsNext, KeepsLoss
    <3> QED
      BY <2>1, <3>2, <3>3
  <2>6. CASE packet.kind # "timeout"
    <3>1. PICK g, ret : KeptIn(u, g, packet, ret) /\ Reopens(g, packet)
      BY <2>3, <2>6
    <3>2. DOMAIN g = Fields /\ g.created
      <4>1. f.created = TRUE
        BY <1>1, <2>4 DEF BaseInv, FrameTypes
      <4>2. DOMAIN g = Fields /\ g.created = u.created
        BY <3>1 DEF KeptIn, Same, Fields, LayoutFields, SplitFields, KeepFields
      <4> QED
        BY <2>4, <4>1, <4>2
    <3> DEFINE c == ComputeXYZI(g, 0)
    <3>3. f' = c /\ CountsPacket /\ Same(g, c, {"valid", "points"})
      BY <3>1, <3>2, ComputeDoes DEF Reopens
    <3> HIDE DEF c
    <3>4. f'.seqInit = g.seqInit /\ f'.lastSeq = g.lastSeq /\ f'.totalLoss = g.totalLoss /\ f'.created
      BY <3>2, <3>3 DEF Same, Fields
    <3>5. PacketTypes(packet) /\ IsNext(packet.seq) /\ lidar.seq = (packet.seq + 1) % SeqModulus
      BY <1>1, <2>1, <2>6 DEF DeliverInv
    <3>6. /\ LossTypes' /\ LossCounted' /\ (conf.seq => f'.seqInit /\ f'.lastSeq = packet.seq)
          /\ uncounted' = 0
      BY <1>1, <1>3, <2>1, <2>4, <3>1, <3>3, <3>4, <3>5, CountsLoss
    <3>7. packet.seq + 1 + 0 = packet.seq + 1
      BY <1>3, <3>5 DEF PacketTypes
    <3>8. IsNext(lidar.seq)'
      BY <2>1, <3>5, <3>6, <3>7 DEF IsNext
    <3> QED
      BY <2>1, <3>6, <3>8
  <2> QED
    BY <2>5, <2>6
<1>11. CASE UNCHANGED vars
  BY <1>1, <1>11 DEF vars, LossTypes, LossCounted, IsNext
<1> QED
  BY <1>2, <1>7, <1>8, <1>9, <1>10, <1>11

\* total_loss_count is the number of packets between those that reached the counter, whatever
\* their numbers wrapped to and however often a packet was decoded or refused, for any loss
\* of less than one turn of the numbers.
THEOREM LossCountedHolds == Spec => []LossCounted
<1>1. LossInv => LossCounted
  BY DEF LossInv
<1> QED
  BY LossInit, LossStep, <1>1, PTL DEF Spec
-----------------------------------------------------------------------------
(***************************************************************************)
(* The visible points of a packet                                          *)
(***************************************************************************)
CellSet == {1, 2} \X {1, 2}
Packets == [kind : PointKinds, layout : Layouts, scan : {0, 1}, column : 0..(PerScan - 1),
            seq : 0..(SeqModulus - 1), echo : {1, 2}]
Pts == {0, 1} \X (0..(PerScan - 1)) \X {1, 2} \X {1, 2}

LEMMA CellsAre ==
  ASSUME NEW layout
  PROVE  /\ Cells(layout) \in Seq(CellSet) /\ PerPoints(layout) \in 1..4
         /\ \A i \in 1..PerPoints(layout) : Cells(layout)[i] \in CellSet
<1>1. \/ Cells(layout) = <<<<1, 1>>>>
      \/ Cells(layout) = <<<<1, 1>>, <<1, 2>>>>
      \/ Cells(layout) = <<<<1, 1>>, <<1, 2>>, <<2, 1>>, <<2, 2>>>>
  BY DEF Cells
<1>2. <<1, 1>> \in CellSet /\ <<1, 2>> \in CellSet /\ <<2, 1>> \in CellSet /\ <<2, 2>> \in CellSet
  BY DEF CellSet
<1>3. CASE Cells(layout) = <<<<1, 1>>>>
  BY <1>2, <1>3 DEF PerPoints
<1>4. CASE Cells(layout) = <<<<1, 1>>, <<1, 2>>>>
  BY <1>2, <1>4 DEF PerPoints
<1>5. CASE Cells(layout) = <<<<1, 1>>, <<1, 2>>, <<2, 1>>, <<2, 2>>>>
  BY <1>2, <1>5 DEF PerPoints
<1> QED
  BY <1>1, <1>3, <1>4, <1>5

\* What is kept of the first i cells.
KeptNext(s, i, p) == IF IsVisible(p, Cells(p.layout)[i]) THEN Append(s, Cells(p.layout)[i]) ELSE s
IsKeeping(d, n, p) == d = [i \in 0..n |-> IF i = 0 THEN <<>> ELSE KeptNext(d[i - 1], i, p)]

LEMMA KeepingExists ==
  ASSUME NEW p, NEW len \in Nat
  PROVE  \E d : IsKeeping(d, len, p)
<1> DEFINE S == {n \in Nat : \E d : IsKeeping(d, n, p)}
<1>1. 0 \in S
  <2> DEFINE d == [i \in 0..0 |-> <<>>]
  <2>1. d = [i \in 0..0 |-> IF i = 0 THEN <<>> ELSE KeptNext(d[i - 1], i, p)]
    OBVIOUS
  <2> QED
    BY <2>1 DEF IsKeeping
<1>2. ASSUME NEW n \in 1..len, n - 1 \in S PROVE n \in S
  <2>1. PICK d : IsKeeping(d, n - 1, p)
    BY <1>2
  <2> DEFINE next == KeptNext(d[n - 1], n, p)
             h    == [i \in 0..n |-> IF i = n THEN next ELSE d[i]]
             k    == [i \in 0..n |-> IF i = 0 THEN <<>> ELSE KeptNext(h[i - 1], i, p)]
  <2>2. ASSUME NEW i \in 0..n PROVE h[i] = k[i]
    <3>1. CASE i = n
      <4>1. h[i] = next /\ n # 0 /\ n - 1 \in 0..n /\ n - 1 # n
        BY <3>1
      <4>2. h[n - 1] = d[n - 1]
        BY <4>1
      <4>3. k[i] = KeptNext(h[n - 1], n, p)
        BY <3>1, <4>1
      <4> QED
        BY <4>1, <4>2, <4>3
    <3>2. CASE i # n
      <4>1. i \in 0..(n - 1) /\ h[i] = d[i]
        BY <3>2
      <4>2. d[i] = IF i = 0 THEN <<>> ELSE KeptNext(d[i - 1], i, p)
        BY <2>1, <4>1 DEF IsKeeping
      <4>3. i # 0 => i - 1 \in 0..n /\ i - 1 # n /\ h[i - 1] = d[i - 1]
        BY <4>1
      <4>4. k[i] = IF i = 0 THEN <<>> ELSE KeptNext(h[i - 1], i, p)
        OBVIOUS
      <4> QED
        BY <4>1, <4>2, <4>3, <4>4
    <3> QED
      BY <3>1, <3>2
  <2> HIDE DEF next
  <2>3. h = k
    BY <2>2
  <2>4. IsKeeping(h, n, p)
    BY <2>3 DEF IsKeeping
  <2> QED
    BY <2>4
<1> HIDE DEF S
<1>3. \A i \in 0..len : i \in S
  BY <1>1, <1>2, UpTo
<1>4. len \in S
  BY <1>3
<1> QED
  BY <1>4 DEF S

LEMMA VisibleAre ==
  ASSUME NEW p
  PROVE  Visible(p) \in Seq(CellSet) /\ Len(Visible(p)) \in 0..PerPoints(p.layout)
<1> DEFINE cells == Cells(p.layout)
           d == CHOOSE a : a = [i \in 0..Len(cells) |->
                                  IF i = 0 THEN <<>>
                                  ELSE IF IsVisible(p, cells[i]) THEN Append(a[i - 1], cells[i])
                                       ELSE a[i - 1]]
<1>1. d = [i \in 0..Len(cells) |-> IF i = 0 THEN <<>>
                                   ELSE IF IsVisible(p, cells[i]) THEN Append(d[i - 1], cells[i])
                                        ELSE d[i - 1]]
  <2>0. Len(cells) \in Nat
    BY CellsAre DEF PerPoints
  <2> HIDE DEF cells
  <2>1. PICK h : IsKeeping(h, Len(cells), p)
    BY <2>0, KeepingExists
  <2>2. h = [i \in 0..Len(cells) |-> IF i = 0 THEN <<>>
                                     ELSE IF IsVisible(p, cells[i]) THEN Append(h[i - 1], cells[i])
                                          ELSE h[i - 1]]
    BY <2>1 DEF IsKeeping, KeptNext, cells
  <2> QED
    BY <2>2, Zenon
<1>2. Visible(p) = d[Len(cells)]
  BY DEF Visible
<1>3. Len(cells) \in 1..4 /\ \A i \in 1..Len(cells) : cells[i] \in CellSet
  BY CellsAre DEF PerPoints
<1>4. PerPoints(p.layout) = Len(cells)
  BY DEF PerPoints
<1> HIDE DEF d, cells
<1> DEFINE S == {i \in 0..Len(cells) : d[i] \in Seq(CellSet) /\ Len(d[i]) \in 0..i}
<1>5. 0 \in S
  BY <1>1, <1>3
<1>6. ASSUME NEW i \in 1..Len(cells), i - 1 \in S PROVE i \in S
  <2>1. d[i - 1] \in Seq(CellSet) /\ Len(d[i - 1]) \in 0..(i - 1) /\ cells[i] \in CellSet
    BY <1>3, <1>6
  <2>2. d[i] = IF IsVisible(p, cells[i]) THEN Append(d[i - 1], cells[i]) ELSE d[i - 1]
    <3>1. i \in 0..Len(cells) /\ i # 0
      BY <1>3
    <3>2. d[i] = IF i = 0 THEN <<>>
                 ELSE IF IsVisible(p, cells[i]) THEN Append(d[i - 1], cells[i]) ELSE d[i - 1]
      BY <1>1, <3>1, Zenon
    <3> QED
      BY <3>1, <3>2
  <2>3. Append(d[i - 1], cells[i]) \in Seq(CellSet) /\ Len(Append(d[i - 1], cells[i])) = Len(d[i - 1]) + 1
    BY <2>1, AppendProperties
  <2>4. d[i] \in Seq(CellSet) /\ Len(d[i]) \in 0..i /\ i \in 0..Len(cells)
    BY <1>3, <2>1, <2>2, <2>3
  <2> QED
    BY <2>4
<1> HIDE DEF S
<1>7. \A i \in 0..Len(cells) : i \in S
  BY <1>3, <1>5, <1>6, UpTo
<1>8. Len(cells) \in S
  BY <1>3, <1>7
<1> QED
  BY <1>2, <1>4, <1>8 DEF S

LEMMA PointsAre ==
  ASSUME NEW p \in Packets
  PROVE  /\ PointsOf(p) \in Seq(Pts) /\ Len(PointsOf(p)) = Len(Visible(p))
         /\ Len(Visible(p)) \in 0..PerPoints(p.layout) /\ PerPoints(p.layout) \in 1..4
         /\ \A n \in 1..Len(Visible(p)) : PointsOf(p)[n] = Point(p, Visible(p)[n])
<1>1. Visible(p) \in Seq(CellSet) /\ Len(Visible(p)) \in 0..PerPoints(p.layout)
      /\ PerPoints(p.layout) \in 1..4
  BY VisibleAre, CellsAre
<1>2. Len(Visible(p)) \in Nat
  BY <1>1
<1>3. ASSUME NEW n \in 1..Len(Visible(p)) PROVE Point(p, Visible(p)[n]) \in Pts
  <2>1. Visible(p)[n] \in CellSet
    BY <1>1, <1>3, ElementOfSeq
  <2>2. Visible(p)[n][1] \in {1, 2} /\ Visible(p)[n][2] \in {1, 2}
    BY <2>1 DEF CellSet
  <2>3. p.scan \in {0, 1} /\ p.column \in 0..(PerScan - 1)
    BY DEF Packets
  <2> QED
    BY <2>2, <2>3 DEF Point, Pts
<1>4. PointsOf(p) = [n \in 1..Len(Visible(p)) |-> Point(p, Visible(p)[n])]
  BY DEF PointsOf
<1>5. PointsOf(p) \in Seq(Pts) /\ Len(PointsOf(p)) = Len(Visible(p))
  BY <1>2, <1>3, <1>4, IsASeq
<1> QED
  BY <1>1, <1>4, <1>5
-----------------------------------------------------------------------------
(***************************************************************************)
(* Compact leaves the points of the packets one after another              *)
(***************************************************************************)
\* f is the values of FlattenSeq up to the n-th sequence.
IsFlattening(a, n, parts) ==
  a = [i \in 1..n |-> IF i = 1 THEN parts[i] ELSE a[i - 1] \o parts[i]]

LEMMA FlatteningExists ==
  ASSUME NEW parts, NEW len \in Nat
  PROVE  \E a : IsFlattening(a, len, parts)
<1> DEFINE S == {n \in Nat : \E a : IsFlattening(a, n, parts)}
<1>1. 0 \in S
  <2> DEFINE a == [i \in 1..0 |-> i]
  <2>1. a = [i \in 1..0 |-> IF i = 1 THEN parts[i] ELSE a[i - 1] \o parts[i]]
    OBVIOUS
  <2> QED
    BY <2>1 DEF IsFlattening
<1>2. ASSUME NEW n \in 1..len, n - 1 \in S PROVE n \in S
  <2>1. PICK a : IsFlattening(a, n - 1, parts)
    BY <1>2
  <2> DEFINE next == IF n = 1 THEN parts[n] ELSE a[n - 1] \o parts[n]
             h    == [i \in 1..n |-> IF i = n THEN next ELSE a[i]]
             k    == [i \in 1..n |-> IF i = 1 THEN parts[i] ELSE h[i - 1] \o parts[i]]
  <2>2. ASSUME NEW i \in 1..n PROVE h[i] = k[i]
    <3>1. CASE i = n
      <4>1. n # 1 => n - 1 \in 1..n /\ n - 1 # n
        OBVIOUS
      <4>2. n # 1 => h[n - 1] = a[n - 1]
        BY <4>1
      <4>3. k[i] = IF n = 1 THEN parts[n] ELSE h[n - 1] \o parts[n]
        BY <3>1
      <4>4. h[i] = next
        BY <3>1
      <4> QED
        BY <4>2, <4>3, <4>4
    <3>2. CASE i # n
      <4>1. i \in 1..(n - 1) /\ h[i] = a[i]
        BY <3>2
      <4>2. a[i] = IF i = 1 THEN parts[i] ELSE a[i - 1] \o parts[i]
        BY <2>1, <4>1 DEF IsFlattening
      <4>3. i # 1 => i - 1 \in 1..n /\ i - 1 # n /\ h[i - 1] = a[i - 1]
        BY <4>1
      <4>4. k[i] = IF i = 1 THEN parts[i] ELSE h[i - 1] \o parts[i]
        OBVIOUS
      <4> QED
        BY <4>1, <4>2, <4>3, <4>4
    <3> QED
      BY <3>1, <3>2
  <2> HIDE DEF next
  <2>3. h = k
    BY <2>2
  <2>4. IsFlattening(h, n, parts)
    BY <2>3 DEF IsFlattening
  <2> QED
    BY <2>4
<1> HIDE DEF S
<1>3. \A i \in 0..len : i \in S
  BY <1>1, <1>2, UpTo
<1>4. len \in S
  BY <1>3
<1> QED
  BY <1>4 DEF S

\* The first i parts, one after another.
Flattens(h, parts) ==
  /\ h[0] = <<>> /\ \A i \in 0..Len(parts) : h[i] \in Seq(Pts)
  /\ \A i \in 1..Len(parts) : h[i] = h[i - 1] \o parts[i]
  /\ FlattenSeq(parts) = h[Len(parts)]

LEMMA FlattenIsFlattening ==
  ASSUME NEW parts \in Seq(Seq(Pts))
  PROVE  \E h : Flattens(h, parts)
<1> DEFINE n == Len(parts)
<1>1. n \in Nat /\ \A i \in 1..n : parts[i] \in Seq(Pts)
  BY LenProperties, ElementOfSeq
<1>2. CASE n = 0
  <2> DEFINE h == [i \in 0..0 |-> <<>>]
  <2>1. FlattenSeq(parts) = <<>>
    <3>1. parts = <<>>
      BY <1>2, EmptySeq
    <3> QED
      BY <1>2, <3>1 DEF FlattenSeq
  <2>2. Flattens(h, parts)
    BY <1>2, <2>1 DEF Flattens
  <2> QED
    BY <2>2
<1>3. CASE n # 0
  <2> DEFINE a == CHOOSE b : b = [i \in 1..n |-> IF i = 1 THEN parts[i] ELSE b[i - 1] \o parts[i]]
             h == [i \in 0..n |-> IF i = 0 THEN <<>> ELSE a[i]]
  <2>1. a = [i \in 1..n |-> IF i = 1 THEN parts[i] ELSE a[i - 1] \o parts[i]]
    <3> HIDE DEF n
    <3>1. PICK b : IsFlattening(b, n, parts)
      BY <1>1, FlatteningExists
    <3>2. b = [i \in 1..n |-> IF i = 1 THEN parts[i] ELSE b[i - 1] \o parts[i]]
      BY <3>1 DEF IsFlattening
    <3> QED
      BY <3>2, Zenon
  <2>2. FlattenSeq(parts) = a[n]
    BY <1>3 DEF FlattenSeq
  <2> HIDE DEF a
  <2>3. h[0] = <<>> /\ (\A i \in 1..n : h[i] = a[i]) /\ n \in 1..n
    BY <1>1, <1>3
  <2>4. ASSUME NEW i \in 1..n PROVE h[i] = h[i - 1] \o parts[i]
    <3>1. a[i] = IF i = 1 THEN parts[i] ELSE a[i - 1] \o parts[i]
      BY <2>1, Zenon
    <3>2. CASE i = 1
      <4>1. h[i - 1] = <<>> /\ parts[i] \in Seq(Pts)
        BY <1>1, <2>3, <3>2
      <4>2. <<>> \o parts[i] = parts[i]
        BY <4>1, ConcatEmptySeq
      <4> QED
        BY <2>3, <3>1, <3>2, <4>1, <4>2
    <3>3. CASE i # 1
      <4>1. i - 1 \in 1..n
        BY <1>1, <3>3
      <4> QED
        BY <2>3, <3>1, <3>3, <4>1
    <3> QED
      BY <3>2, <3>3
  <2> HIDE DEF h
  <2> DEFINE S == {i \in 0..n : h[i] \in Seq(Pts)}
  <2>5. 0 \in S
    <3>1. <<>> \in Seq(Pts) /\ 0 \in 0..n
      BY <1>1, EmptySeq
    <3> QED
      BY <2>3, <3>1
  <2>6. ASSUME NEW i \in 1..n, i - 1 \in S PROVE i \in S
    <3>1. h[i - 1] \in Seq(Pts) /\ parts[i] \in Seq(Pts) /\ i \in 0..n
      BY <1>1, <2>6
    <3>2. h[i - 1] \o parts[i] \in Seq(Pts)
      BY <3>1, ConcatProperties
    <3> QED
      BY <2>4, <3>1, <3>2
  <2> HIDE DEF S
  <2>7. \A i \in 0..n : i \in S
    BY <1>1, <2>5, <2>6, UpTo
  <2>8. \A i \in 0..n : h[i] \in Seq(Pts)
    BY <2>7 DEF S
  <2>9. FlattenSeq(parts) = h[n]
    BY <2>2, <2>3
  <2>10. Flattens(h, parts)
    BY <2>3, <2>4, <2>8, <2>9 DEF Flattens
  <2> QED
    BY <2>10
<1> QED
  BY <1>2, <1>3

\* One turn of the loop that moves the points together.
Moved(acc, i, g) ==
  [pts |-> [k \in PointIndices |->
              IF acc.n <= k /\ k < acc.n + g.valid[i]
              THEN acc.pts[i * PerPoints(g.layout) + k - acc.n] ELSE acc.pts[k]],
   n |-> acc.n + g.valid[i]]
NotMoved(g) == [pts |-> g.points, n |-> 0]
IsMoving(d, n, g) == d = [j \in 0..n |-> IF j = 0 THEN NotMoved(g) ELSE Moved(d[j - 1], j - 1, g)]

LEMMA MovingExists ==
  ASSUME NEW g, NEW len \in Nat
  PROVE  \E d : IsMoving(d, len, g)
<1> DEFINE S == {n \in Nat : \E d : IsMoving(d, n, g)}
<1>1. 0 \in S
  <2> DEFINE d == [i \in 0..0 |-> NotMoved(g)]
  <2>1. d = [i \in 0..0 |-> IF i = 0 THEN NotMoved(g) ELSE Moved(d[i - 1], i - 1, g)]
    OBVIOUS
  <2> QED
    BY <2>1 DEF IsMoving
<1>2. ASSUME NEW n \in 1..len, n - 1 \in S PROVE n \in S
  <2>1. PICK d : IsMoving(d, n - 1, g)
    BY <1>2
  <2> DEFINE next == Moved(d[n - 1], n - 1, g)
             h    == [i \in 0..n |-> IF i = n THEN next ELSE d[i]]
             k    == [i \in 0..n |-> IF i = 0 THEN NotMoved(g) ELSE Moved(h[i - 1], i - 1, g)]
  <2>2. ASSUME NEW i \in 0..n PROVE h[i] = k[i]
    <3>1. CASE i = n
      <4>1. h[i] = next /\ n # 0 /\ n - 1 \in 0..n /\ n - 1 # n
        BY <3>1
      <4>2. h[n - 1] = d[n - 1]
        BY <4>1
      <4>3. k[i] = Moved(h[n - 1], n - 1, g)
        BY <3>1, <4>1
      <4> QED
        BY <4>1, <4>2, <4>3
    <3>2. CASE i # n
      <4>1. i \in 0..(n - 1) /\ h[i] = d[i]
        BY <3>2
      <4>2. d[i] = IF i = 0 THEN NotMoved(g) ELSE Moved(d[i - 1], i - 1, g)
        BY <2>1, <4>1 DEF IsMoving
      <4>3. i # 0 => i - 1 \in 0..n /\ i - 1 # n /\ h[i - 1] = d[i - 1]
        BY <4>1
      <4>4. k[i] = IF i = 0 THEN NotMoved(g) ELSE Moved(h[i - 1], i - 1, g)
        OBVIOUS
      <4> QED
        BY <4>1, <4>2, <4>3, <4>4
    <3> QED
      BY <3>1, <3>2
  <2> HIDE DEF next
  <2>3. h = k
    BY <2>2
  <2>4. IsMoving(h, n, g)
    BY <2>3 DEF IsMoving
  <2> QED
    BY <2>4
<1> HIDE DEF S
<1>3. \A i \in 0..len : i \in S
  BY <1>1, <1>2, UpTo
<1>4. len \in S
  BY <1>3
<1> QED
  BY <1>4 DEF S

\* The moves, one by one.
Moves(d, g) ==
  /\ d[0] = NotMoved(g)
  /\ \A j \in 1..g.packetNum : d[j] = Moved(d[j - 1], j - 1, g)
  /\ Compact(g) = [g EXCEPT !.points = d[g.packetNum].pts, !.pointsNum = d[g.packetNum].n]

LEMMA CompactMoves ==
  ASSUME NEW g, g.packetNum \in Nat
  PROVE  \E d : Moves(d, g)
<1> DEFINE d == CHOOSE a : a = [j \in 0..g.packetNum |->
                                  IF j = 0 THEN [pts |-> g.points, n |-> 0]
                                  ELSE LET acc == a[j - 1] IN Moved(acc, j - 1, g)]
<1>1. d = [j \in 0..g.packetNum |-> IF j = 0 THEN NotMoved(g) ELSE Moved(d[j - 1], j - 1, g)]
  <2>1. PICK h : IsMoving(h, g.packetNum, g)
    BY MovingExists
  <2>2. h = [j \in 0..g.packetNum |-> IF j = 0 THEN [pts |-> g.points, n |-> 0]
                                      ELSE LET acc == h[j - 1] IN Moved(acc, j - 1, g)]
    BY <2>1 DEF IsMoving, NotMoved
  <2>3. d = [j \in 0..g.packetNum |-> IF j = 0 THEN [pts |-> g.points, n |-> 0]
                                      ELSE LET acc == d[j - 1] IN Moved(acc, j - 1, g)]
    BY <2>2, Zenon
  <2> HIDE DEF d
  <2> QED
    BY <2>3 DEF NotMoved
<1>2. Compact(g) = [g EXCEPT !.points = d[g.packetNum].pts, !.pointsNum = d[g.packetNum].n]
  BY DEF Compact, Moved
<1> HIDE DEF d
<1>3. d[0] = NotMoved(g)
  BY <1>1
<1>4. ASSUME NEW j \in 1..g.packetNum PROVE d[j] = Moved(d[j - 1], j - 1, g)
  <2>1. j \in 0..g.packetNum /\ j # 0
    OBVIOUS
  <2>2. d[j] = IF j = 0 THEN NotMoved(g) ELSE Moved(d[j - 1], j - 1, g)
    BY <1>1, <2>1, Zenon
  <2> QED
    BY <2>1, <2>2
<1> QED
  BY <1>2, <1>3, <1>4 DEF Moves

\* The points of the packets lie in the frame, each packet's from the start of its slot.
Lie(g, parts) ==
  /\ Len(parts) = g.packetNum
  /\ \A i \in 1..Len(parts) :
       /\ g.valid[i - 1] = Len(parts[i]) /\ Len(parts[i]) <= PerPoints(g.layout)
       /\ \A j \in 1..Len(parts[i]) : g.points[(i - 1) * PerPoints(g.layout) + j - 1] = parts[i][j]

LEMMA CompactList ==
  ASSUME NEW parts \in Seq(Seq(Pts)), NEW g, DOMAIN g = Fields, g.packetNum \in 0..MaxPackets,
         Lie(g, parts)
  PROVE  [k \in 1..Compact(g).pointsNum |-> Compact(g).points[k - 1]] = FlattenSeq(parts)
<1> DEFINE size == PerPoints(g.layout)
           n == g.packetNum
<1>1. /\ size \in 1..4 /\ n \in Nat /\ n <= MaxPackets /\ MaxPackets \in Nat /\ Len(parts) = n
      /\ \A i \in 1..n :
           /\ parts[i] \in Seq(Pts) /\ Len(parts[i]) \in Nat
           /\ g.valid[i - 1] = Len(parts[i]) /\ Len(parts[i]) <= size
           /\ \A j \in 1..Len(parts[i]) : g.points[(i - 1) * size + j - 1] = parts[i][j]
  BY CellsAre, BoundAssumption, ElementOfSeq, LenProperties DEF Lie
<1>2. PICK d : Moves(d, g)
  BY <1>1, CompactMoves
<1>3. PICK h : Flattens(h, parts)
  BY FlattenIsFlattening
<1>4. /\ h[0] = <<>> /\ \A i \in 0..n : h[i] \in Seq(Pts)
      /\ \A i \in 1..n : h[i] = h[i - 1] \o parts[i]
      /\ FlattenSeq(parts) = h[n]
  BY <1>1, <1>3 DEF Flattens
<1>5. /\ d[0].pts = g.points /\ d[0].n = 0
      /\ \A j \in 1..n : d[j] = Moved(d[j - 1], j - 1, g)
      /\ Compact(g) = [g EXCEPT !.points = d[n].pts, !.pointsNum = d[n].n]
  BY <1>2 DEF Moves, NotMoved
<1> DEFINE c == Compact(g)
<1>6. c.points = d[n].pts /\ c.pointsNum = d[n].n
  BY <1>5 DEF Fields
<1> HIDE DEF size, n, c
<1>7. n * size <= 4 * MaxPackets
  BY <1>1
\* After j moves the first j parts lie together, and the slots from j on are untouched.
<1> DEFINE Good(j) ==
             /\ d[j].n = Len(h[j]) /\ d[j].n <= j * size
             /\ \A k \in 0..(Len(h[j]) - 1) : d[j].pts[k] = h[j][k + 1]
             /\ \A k \in PointIndices : k >= j * size => d[j].pts[k] = g.points[k]
           S == {j \in 0..n : Good(j)}
<1>8. 0 \in S
  <2>1. Len(h[0]) = 0 /\ 0 * size = 0 /\ 0 \in 0..n
    BY <1>1, <1>4
  <2>2. \A k \in 0..(0 - 1) : d[0].pts[k] = h[0][k + 1]
    OBVIOUS
  <2>3. \A k \in PointIndices : d[0].pts[k] = g.points[k]
    BY <1>5
  <2>4. d[0].n = Len(h[0]) /\ d[0].n <= 0 * size
    BY <1>5, <2>1
  <2> QED
    BY <2>1, <2>2, <2>3, <2>4
<1>9. ASSUME NEW j \in 1..n, j - 1 \in S PROVE j \in S
  <2> DEFINE base == (j - 1) * size
             acc == d[j - 1]
             len == Len(parts[j])
  <2>1. /\ acc.n = Len(h[j - 1]) /\ acc.n <= base
        /\ \A k \in 0..(Len(h[j - 1]) - 1) : acc.pts[k] = h[j - 1][k + 1]
        /\ \A k \in PointIndices : k >= base => acc.pts[k] = g.points[k]
    BY <1>9
  <2> HIDE DEF S
  <2>2. /\ base \in Nat /\ j * size = base + size /\ base + size <= 4 * MaxPackets
        /\ len \in Nat /\ len <= size /\ size \in Nat
        /\ g.valid[j - 1] = len
        /\ \A i \in 1..len : g.points[base + i - 1] = parts[j][i]
    <3>1. j - 1 \in Nat /\ j \in Nat /\ j <= n
      BY <1>1
    <3>2. base \in Nat /\ j * size = base + size
      BY <1>1, <3>1
    <3>3. j * size <= n * size /\ j * size \in Nat /\ n * size \in Nat
      BY <1>1, <3>1
    <3>4. base + size <= 4 * MaxPackets
      <4> HIDE DEF base
      <4> QED
        BY <1>1, <1>7, <3>2, <3>3
    <3>5. parts[j] \in Seq(Pts) /\ len \in Nat /\ g.valid[j - 1] = len /\ len <= size
      BY <1>1
    <3>6. \A i \in 1..len : g.points[base + i - 1] = parts[j][i]
      BY <1>1
    <3> QED
      BY <1>1, <3>2, <3>4, <3>5, <3>6
  <2>3. /\ h[j] = h[j - 1] \o parts[j] /\ h[j - 1] \in Seq(Pts) /\ h[j] \in Seq(Pts)
        /\ parts[j] \in Seq(Pts)
    <3>1. j - 1 \in 0..n /\ j \in 0..n
      BY <1>1
    <3> QED
      BY <1>1, <1>4, <3>1
  <2> DEFINE N == Len(h[j - 1])
  <2>4. /\ N \in Nat /\ Len(h[j]) = N + len
        /\ \A k \in 1..(N + len) : h[j][k] = IF k <= N THEN h[j - 1][k] ELSE parts[j][k - N]
    <3> DEFINE s == h[j - 1]
               t == parts[j]
    <3>1. s \in Seq(Pts) /\ t \in Seq(Pts) /\ h[j] = s \o t
      BY <2>3
    <3> HIDE DEF s, t
    <3>2. /\ Len(s) \in Nat /\ Len(t) \in Nat /\ Len(s \o t) = Len(s) + Len(t)
          /\ \A k \in 1..(Len(s) + Len(t)) : (s \o t)[k] = IF k <= Len(s) THEN s[k] ELSE t[k - Len(s)]
      BY <3>1, ConcatProperties, LenProperties
    <3> QED
      BY <3>1, <3>2 DEF s, t
  <2>5. /\ d[j].n = acc.n + len
        /\ d[j].pts = [k \in PointIndices |->
                         IF acc.n <= k /\ k < acc.n + len THEN acc.pts[base + k - acc.n] ELSE acc.pts[k]]
    <3>1. d[j] = Moved(acc, j - 1, g) /\ g.valid[j - 1] = len /\ (j - 1) * PerPoints(g.layout) = base
      BY <1>5, <2>2 DEF size
    <3> HIDE DEF base, acc, len
    <3> QED
      BY <3>1 DEF Moved
  <2> HIDE DEF base, acc, len, N
  <2>6. acc.n = N /\ N <= base /\ N + len <= base + size
    BY <2>1, <2>2, <2>4 DEF N
  <2>7. d[j].n = Len(h[j]) /\ d[j].n <= j * size
    BY <2>2, <2>4, <2>5, <2>6
  <2>8. ASSUME NEW k \in 0..(Len(h[j]) - 1) PROVE d[j].pts[k] = h[j][k + 1]
    <3>1. k \in PointIndices /\ k \in 0..(N + len - 1) /\ k + 1 \in 1..(N + len)
      BY <1>1, <2>2, <2>4, <2>6, <2>8 DEF PointIndices
    <3>2. h[j][k + 1] = IF k + 1 <= N THEN h[j - 1][k + 1] ELSE parts[j][k + 1 - N]
      BY <2>4, <3>1
    <3>3. d[j].pts[k] = IF acc.n <= k /\ k < acc.n + len THEN acc.pts[base + k - acc.n] ELSE acc.pts[k]
      BY <2>5, <3>1
    <3>4. CASE k < N
      <4>1. d[j].pts[k] = acc.pts[k] /\ k \in 0..(N - 1)
        BY <2>4, <2>6, <3>1, <3>3, <3>4
      <4>2. acc.pts[k] = h[j - 1][k + 1]
        BY <2>1, <4>1 DEF N
      <4>3. h[j][k + 1] = h[j - 1][k + 1]
        BY <2>4, <3>1, <3>2, <3>4
      <4> QED
        BY <4>1, <4>2, <4>3
    <3>5. CASE k >= N
      <4>1. d[j].pts[k] = acc.pts[base + k - N]
        BY <2>2, <2>4, <2>6, <3>1, <3>3, <3>5
      <4>2. base + k - N \in PointIndices /\ base + k - N >= base /\ k + 1 - N \in 1..len
        BY <1>1, <2>2, <2>4, <2>6, <3>1, <3>5 DEF PointIndices
      <4>3. acc.pts[base + k - N] = g.points[base + k - N]
        BY <2>1, <4>2
      <4>4. g.points[base + (k + 1 - N) - 1] = parts[j][k + 1 - N]
        BY <2>2, <4>2
      <4>5. base + (k + 1 - N) - 1 = base + k - N
        BY <2>2, <2>4, <3>1
      <4>6. h[j][k + 1] = parts[j][k + 1 - N]
        BY <2>4, <3>1, <3>2, <3>5
      <4> QED
        BY <4>1, <4>3, <4>4, <4>5, <4>6
    <3> QED
      BY <2>4, <3>1, <3>4, <3>5
  <2>9. ASSUME NEW k \in PointIndices, k >= j * size PROVE d[j].pts[k] = g.points[k]
    <3>1. k \in Nat
      BY <1>1 DEF PointIndices
    <3>2. ~(k < acc.n + len) /\ k >= base
      BY <2>2, <2>4, <2>6, <2>9, <3>1
    <3> QED
      BY <2>1, <2>5, <3>2
  <2> QED
    BY <1>1, <2>7, <2>8, <2>9 DEF S
<1> HIDE DEF S
<1>10. \A j \in 0..n : j \in S
  BY <1>1, <1>8, <1>9, UpTo
<1>11. n \in S
  BY <1>1, <1>10
<1>12. d[n].n = Len(h[n]) /\ \A k \in 0..(Len(h[n]) - 1) : d[n].pts[k] = h[n][k + 1]
  BY <1>11 DEF S
<1>13. h[n] \in Seq(Pts) /\ Len(h[n]) \in Nat
  BY <1>1, <1>4, LenProperties
<1>14. h[n] = [k \in 1..Len(h[n]) |-> h[n][k]]
  BY <1>13, LenProperties
<1>15. [k \in 1..c.pointsNum |-> c.points[k - 1]] = [k \in 1..Len(h[n]) |-> h[n][k]]
  <2>1. c.pointsNum = Len(h[n])
    BY <1>6, <1>12
  <2>2. ASSUME NEW k \in 1..Len(h[n]) PROVE c.points[k - 1] = h[n][k]
    <3>1. k - 1 \in 0..(Len(h[n]) - 1) /\ (k - 1) + 1 = k
      BY <1>13
    <3> QED
      BY <1>6, <1>12, <3>1
  <2> QED
    BY <2>1, <2>2
<1> QED
  BY <1>4, <1>14, <1>15 DEF c, n
-----------------------------------------------------------------------------
(***************************************************************************)
(* What a frame holds while it is filled                                   *)
(***************************************************************************)
\* The raw buffer is there for packets of the frame's layout, or nothing is in it.
BufferInv(g) ==
  /\ DOMAIN g.slots = Slots /\ DOMAIN g.valid = Slots
  /\ IF g.lastMax = MaxPackets THEN g.init /\ g.raw = TRUE /\ g.size = g.layout
     ELSE g.packetNum = 0 /\ (g.init => conf.parser = "7_3")

Stamped(g, packets) == IF packets = <<>> THEN g.start = NoTime
                       ELSE g.start = Id(Head(packets)) /\ g.end = Id(Last(packets))

\* The packets are in the frame, in their order, and their points where ComputeXYZI puts them.
Filled(g, packets, places) ==
  /\ packets \in Seq(Packets) /\ Len(packets) = g.packetNum /\ DOMAIN g.points = PointIndices
  /\ \A i \in 1..Len(packets) : packets[i].layout = g.layout
  /\ IF conf.remake
     THEN \A k \in 0..(AziScans * 2 - 1) : IsLast(g.points[k], Before(places, k), packets, k)
     ELSE \A i \in 1..Len(packets) :
            /\ g.valid[i - 1] = Len(Visible(packets[i]))
            /\ \A j \in 1..Len(Visible(packets[i])) :
                 g.points[(i - 1) * PerPoints(g.layout) + j - 1] = PointsOf(packets[i])[j]
  /\ StampedAreStored => Stamped(g, packets)

LEMMA LastHitIs ==
  ASSUME NEW p, NEW k, Hits(p, k) # {}
  PROVE  LastHit(p, k) \in Hits(p, k) /\ \A m \in Hits(p, k) : m <= LastHit(p, k)
<1> DEFINE len == Len(Visible(p))
           H == Hits(p, k)
           T == {n \in Nat : \E m \in H : n = len - m}
<1>1. len \in Nat /\ \A m \in H : m \in 1..len
  BY VisibleAre, CellsAre DEF Hits
<1> HIDE DEF len, H
<1>2. T \in SUBSET Nat /\ T # {}
  <2>1. PICK m \in H : TRUE
    BY DEF H
  <2>2. len - m \in Nat
    BY <1>1
  <2> QED
    BY <2>2
<1>3. PICK x \in T : \A y \in T : x <= y
  BY <1>2, LeastElement
<1>4. PICK n \in H : x = len - n
  BY <1>3
<1>5. ASSUME NEW m \in H PROVE m <= n
  <2>1. len - m \in T /\ n \in 1..len /\ m \in 1..len
    BY <1>1
  <2>2. len - n <= len - m
    BY <1>3, <1>4, <2>1
  <2> QED
    BY <1>1, <2>1, <2>2
<1>6. \E a \in H : \A m \in H : m <= a
  BY <1>5
<1> QED
  BY <1>6 DEF LastHit, H

\* c is frame h with the packet of slot i converted.
Converted(h, c, i, p) ==
  /\ DOMAIN c.points = PointIndices
  /\ conf.remake =>
       \A k \in PointIndices :
         c.points[k] = IF Hits(p, k) # {} THEN Point(p, Visible(p)[LastHit(p, k)]) ELSE h.points[k]
  /\ ~conf.remake =>
       /\ c.valid = [h.valid EXCEPT ![i] = Len(Visible(p))]
       /\ \A k \in PointIndices :
            c.points[k] = IF /\ i * PerPoints(h.layout) <= k
                             /\ k < i * PerPoints(h.layout) + Len(Visible(p))
                          THEN Point(p, Visible(p)[k - i * PerPoints(h.layout) + 1]) ELSE h.points[k]

LEMMA ComputePoints ==
  ASSUME NEW h, DOMAIN h = Fields, DOMAIN h.valid = Slots, NEW i \in Slots, h.raw = TRUE,
         NEW p, h.slots[i] = p, p.kind \in PointKinds
  PROVE  Converted(h, ComputeXYZI(h, i), i, p)
<1>1. ~(i >= MaxPackets) /\ p.kind # None /\ p.kind # "old"
  BY BoundAssumption DEF Slots, PointKinds, None
<1> DEFINE first == i * PerPoints(h.layout)
           c == ComputeXYZI(h, i)
           gridded == [k \in PointIndices |->
                    IF Hits(p, k) # {} THEN Point(p, Visible(p)[LastHit(p, k)]) ELSE h.points[k]]
           listed == [k \in PointIndices |->
                    IF first <= k /\ k < first + Len(Visible(p))
                    THEN Point(p, Visible(p)[k - first + 1]) ELSE h.points[k]]
           filled == Len(Visible(p))
           placed == Len(Visible(p)) - Cardinality(Hits(p, -1))
<1>2. c = IF conf.remake THEN [h EXCEPT !.valid[i] = placed, !.points = gridded]
          ELSE [h EXCEPT !.valid[i] = filled, !.points = listed]
  BY <1>1 DEF ComputeXYZI
<1>3. /\ DOMAIN gridded = PointIndices /\ DOMAIN listed = PointIndices
      /\ \A k \in PointIndices :
           /\ gridded[k] = IF Hits(p, k) # {} THEN Point(p, Visible(p)[LastHit(p, k)]) ELSE h.points[k]
           /\ listed[k] = IF first <= k /\ k < first + Len(Visible(p))
                          THEN Point(p, Visible(p)[k - first + 1]) ELSE h.points[k]
  OBVIOUS
<1> HIDE DEF c, gridded, listed, filled, placed
<1>4. conf.remake => c.points = gridded
  BY <1>2 DEF Fields
<1>5. ~conf.remake => c.points = listed /\ c.valid = [h.valid EXCEPT ![i] = filled]
  BY <1>2 DEF Fields
<1> QED
  BY <1>3, <1>4, <1>5 DEF c, filled, Converted

LEMMA BufferKept ==
  ASSUME NEW g, BufferInv(g), DOMAIN g = Fields, g.init \in BOOLEAN, NEW p, NEW h, NEW ret,
         KeptIn(g, h, p, ret), conf.parser = "7_3" \/ ~g.init => p.layout # "longer"
  PROVE  BufferInv(h) /\ h.init /\ (h.size = p.layout /\ ~Filtered(p) => p.layout = h.layout)
<1>1. /\ ~LayoutRefused(g, p) /\ (Relaid(g, p) => conf.parser = "7_3")
      /\ h.init = TRUE /\ h.layout = Header(p.layout) /\ DOMAIN h = Fields /\ h.valid = g.valid
  BY DEF KeptIn, Entered, Same, Fields, LayoutFields, SplitFields, KeepFields
<1>2. 0 # MaxPackets
  BY BoundAssumption
<1>3. DOMAIN h.slots = Slots /\ DOMAIN h.valid = Slots
  <2>1. \/ h.slots = g.slots
        \/ h.slots = [g.slots EXCEPT ![RoomFor(g, p)] = p]
        \/ h.slots = [[i \in Slots |-> NoPacket] EXCEPT ![RoomFor(g, p)] = p]
    BY DEF KeptIn
  <2> QED
    BY <1>1, <2>1 DEF BufferInv
<1>4. g.lastMax = MaxPackets => g.init /\ g.raw = TRUE /\ g.size = g.layout
  BY DEF BufferInv
<1>5. g.lastMax # MaxPackets => g.packetNum = 0 /\ (g.init => conf.parser = "7_3")
  BY DEF BufferInv
<1>6. MaxFor(g, p) = MaxPackets => g.init /\ g.raw = TRUE /\ g.size = g.layout /\ ~Relaid(g, p) /\ h.layout = g.layout
  BY <1>1, <1>2, <1>4 DEF MaxFor, Relaid
<1>7. MaxFor(g, p) # MaxPackets => /\ RoomFor(g, p) = 0
                                   /\ conf.parser = "7_3" \/ ~g.init
                                   /\ h.layout = p.layout
  <2>1. MaxFor(g, p) # MaxPackets => RoomFor(g, p) = 0 /\ (conf.parser = "7_3" \/ ~g.init)
    BY <1>1, <1>5 DEF MaxFor, RoomFor
  <2> QED
    BY <1>1, <2>1 DEF Header
<1>8. CASE Filtered(p)
  <2>1. conf.parser = "7_3" /\ h.packetNum = RoomFor(g, p) /\ h.lastMax = MaxFor(g, p)
        /\ (~Relaid(g, p) => h.raw = g.raw /\ h.size = g.size)
    BY <1>8 DEF KeptIn, Filtered
  <2> QED
    BY <1>1, <1>3, <1>6, <1>7, <1>8, <2>1 DEF BufferInv
<1>9. CASE ~Filtered(p)
  <2>1. /\ h.lastMax = MaxPackets
        /\ IF MaxFor(g, p) = MaxPackets THEN h.size = g.size /\ h.raw = g.raw
           ELSE h.size = p.layout /\ h.raw = TRUE
    BY <1>9 DEF KeptIn
  <2>2. h.raw = TRUE /\ h.size = h.layout
    BY <1>6, <1>7, <2>1
  <2> QED
    BY <1>1, <1>3, <2>1, <2>2 DEF BufferInv
<1> QED
  BY <1>8, <1>9

LEMMA GridFits ==
  ASSUME conf \in Configurations, conf.remake, NEW k \in 0..(AziScans * 2 - 1)
  PROVE  k \in PointIndices
<1>1. PerScan \in Nat /\ MaxPackets \in Nat /\ PerScan <= MaxPackets
  BY BoundAssumption
<1>2. AziScans \in Int /\ AziScans <= PerScan
  BY <1>1 DEF AziScans
<1> QED
  BY <1>1, <1>2 DEF PointIndices

\* A packet stored is one that belongs into the frame, and one refused is not.
LEMMA StoredBelongs ==
  ASSUME NEW g, BufferInv(g), DOMAIN g = Fields, g.init \in BOOLEAN,
         NEW p, PacketTypes(p), NEW h, NEW ret,
         KeptIn(g, h, p, ret), conf.parser = "7_3" \/ ~g.init => p.layout # "longer"
  PROVE  /\ ret = "done" <=> Belongs(h, p)
         /\ ret = "done" => /\ h.packetNum = RoomFor(g, p) + 1 /\ h.layout = p.layout
                            /\ RoomFor(g, p) \in Slots => h.slots[RoomFor(g, p)] = p
         /\ ret # "done" => h.packetNum = RoomFor(g, p)
         /\ StampedAreStored => ret = "done"
<1>1. BufferInv(h) /\ h.init /\ (h.size = p.layout /\ ~Filtered(p) => p.layout = h.layout)
  BY BufferKept
<1>2. p.kind \in {"points", "misplaced"} /\ p.layout \in conf.layouts
  BY DEF PacketTypes, PointKinds
<1>3. h.layout = Header(p.layout)
  BY DEF KeptIn, Entered
<1>4. CASE Filtered(p)
  <2>1. ret = "refused" /\ h.packetNum = RoomFor(g, p)
    BY <1>4 DEF KeptIn
  <2>2. ~Belongs(h, p) /\ ~StampedAreStored
    BY <1>4 DEF Filtered, Belongs, StampedAreStored
  <2> QED
    BY <2>1, <2>2
<1>5. CASE ~Filtered(p)
  <2>1. /\ h.lastMax = MaxPackets
        /\ h.size # p.layout => ret = "refused" /\ h.packetNum = RoomFor(g, p)
        /\ h.size = p.layout =>
             /\ ret = "done" /\ h.packetNum = RoomFor(g, p) + 1
             /\ \/ h.slots = [g.slots EXCEPT ![RoomFor(g, p)] = p]
                \/ h.slots = [[i \in Slots |-> NoPacket] EXCEPT ![RoomFor(g, p)] = p]
    BY <1>5 DEF KeptIn
  <2>2. h.size = h.layout
    BY <1>1, <2>1 DEF BufferInv
  <2>3. ret = "done" <=> p.layout = h.layout
    BY <2>1, <2>2
  <2>4. Belongs(h, p) <=> p.layout = h.layout
    BY <1>1, <1>2, <1>5 DEF Belongs, Filtered
  <2>5. ret = "done" /\ RoomFor(g, p) \in Slots => h.slots[RoomFor(g, p)] = p
    BY <2>1, <2>2, <2>3 DEF BufferInv
  <2>6. StampedAreStored => p.layout = h.layout
    BY <1>2, <1>3 DEF StampedAreStored, Header
  <2> QED
    BY <2>1, <2>2, <2>3, <2>4, <2>5, <2>6
<1> QED
  BY <1>4, <1>5

LEMMA AppendPackets ==
  ASSUME NEW packets \in Seq(Packets), NEW p \in Packets
  PROVE  /\ Append(packets, p) \in Seq(Packets) /\ Len(packets) \in Nat
         /\ Len(Append(packets, p)) = Len(packets) + 1 /\ Append(packets, p) # <<>>
         /\ \A i \in 1..Len(packets) : Append(packets, p)[i] = packets[i]
         /\ Append(packets, p)[Len(packets) + 1] = p /\ Last(Append(packets, p)) = p
         /\ Head(Append(packets, p)) = IF packets = <<>> THEN p ELSE Head(packets)
<1> DEFINE all == Append(packets, p)
<1>1. /\ all \in Seq(Packets) /\ Len(packets) \in Nat /\ Len(all) = Len(packets) + 1
      /\ \A i \in 1..Len(packets) : all[i] = packets[i]
      /\ all[Len(packets) + 1] = p
  BY AppendProperties, LenProperties
<1> HIDE DEF all
<1>2. all # <<>> /\ Last(all) = p
  BY <1>1, EmptySeq DEF Last
<1>3. Head(all) = all[1]
  BY <1>1, <1>2, HeadTailProperties
<1>4. packets = <<>> => Len(packets) = 0
  OBVIOUS
<1>5. packets # <<>> => Head(packets) = packets[1] /\ 1 \in 1..Len(packets)
  BY <1>1, EmptySeq, HeadTailProperties
<1> QED
  BY <1>1, <1>2, <1>3, <1>4, <1>5 DEF all

\* The next packet comes last.
LEMMA LastOfAppend ==
  ASSUME NEW packets \in Seq(Packets), NEW p \in Packets, NEW k, NEW old, NEW pt, NEW before,
         IsLast(old, before, packets, k),
         pt = IF Hits(p, k) # {} THEN Point(p, Visible(p)[LastHit(p, k)]) ELSE old
  PROVE  IsLast(pt, before, Append(packets, p), k)
<1> DEFINE all == Append(packets, p)
           n == Len(packets)
<1>1. /\ n \in Nat /\ Len(all) = n + 1 /\ all[n + 1] = p
      /\ \A i \in 1..n : all[i] = packets[i]
  BY AppendPackets
<1> HIDE DEF all, n
<1>2. CASE Hits(p, k) # {}
  <2> DEFINE m == LastHit(p, k)
  <2>1. m \in Hits(p, k) /\ \A j \in Hits(p, k) : j <= m
    BY <1>2, LastHitIs
  <2>2. m \in 1..Len(Visible(p))
    BY <2>1 DEF Hits
  <2>3. pt = PointsOf(p)[m]
    BY <1>2, <2>2, PointsAre
  <2> HIDE DEF m
  <2>4. n + 1 \in 1..Len(all) /\ \A j \in (n + 1 + 1)..Len(all) : Hits(all[j], k) = {}
    BY <1>1
  <2> QED
    BY <1>1, <2>1, <2>3, <2>4 DEF IsLast, all
<1>3. CASE Hits(p, k) = {}
  <2>1. pt = old
    BY <1>3
  <2>2. ASSUME old = before, \A i \in 1..n : Hits(packets[i], k) = {} PROVE IsLast(pt, before, all, k)
    <3>1. \A i \in 1..Len(all) : Hits(all[i], k) = {}
      BY <1>1, <1>3, <2>2
    <3> QED
      BY <2>1, <2>2, <3>1 DEF IsLast
  <2>3. ASSUME NEW i \in 1..n,
               \E m \in Hits(packets[i], k) :
                 old = PointsOf(packets[i])[m] /\ \A j \in Hits(packets[i], k) : j <= m,
               \A j \in (i + 1)..n : Hits(packets[j], k) = {}
        PROVE  IsLast(pt, before, all, k)
    <3>1. all[i] = packets[i] /\ i \in 1..Len(all)
      BY <1>1
    <3>2. ASSUME NEW j \in (i + 1)..Len(all) PROVE Hits(all[j], k) = {}
      <4>1. j = n + 1 \/ (j \in (i + 1)..n /\ j \in 1..n)
        BY <1>1
      <4> QED
        BY <1>1, <1>3, <2>3, <4>1
    <3> QED
      BY <2>1, <2>3, <3>1, <3>2 DEF IsLast
  <2> QED
    BY <2>2, <2>3 DEF IsLast, all, n
<1> QED
  BY <1>2, <1>3

\* A packet stored in the next slot and converted is in the frame.
LEMMA AddedPacket ==
  ASSUME conf \in Configurations, NEW g, BufferInv(g), DOMAIN g = Fields, g.init \in BOOLEAN,
         NEW packets, NEW places, Filled(g, packets, places), g.packetNum \in Slots,
         NEW p \in Packets, PacketTypes(p), ~Relaid(g, p), NEW h, NEW ret, KeptIn(g, h, p, ret),
         ret = "done", conf.parser = "7_3" \/ ~g.init => p.layout # "longer"
  PROVE  Filled(ComputeXYZI(h, g.packetNum), Append(packets, p), places)
<1> DEFINE n == g.packetNum
           c == ComputeXYZI(h, n)
           all == Append(packets, p)
           first == n * PerPoints(h.layout)
<1>1. /\ packets \in Seq(Packets) /\ Len(packets) = n /\ DOMAIN g.points = PointIndices
      /\ \A i \in 1..Len(packets) : packets[i].layout = g.layout
      /\ conf.remake => \A k \in 0..(AziScans * 2 - 1) : IsLast(g.points[k], Before(places, k), packets, k)
      /\ ~conf.remake =>
           \A i \in 1..Len(packets) :
             /\ g.valid[i - 1] = Len(Visible(packets[i]))
             /\ \A j \in 1..Len(Visible(packets[i])) :
                  g.points[(i - 1) * PerPoints(g.layout) + j - 1] = PointsOf(packets[i])[j]
      /\ StampedAreStored => Stamped(g, packets)
  BY DEF Filled
<1>2. /\ all \in Seq(Packets) /\ n \in Nat /\ Len(all) = n + 1 /\ all # <<>>
      /\ \A i \in 1..n : all[i] = packets[i]
      /\ all[n + 1] = p /\ Last(all) = p /\ Head(all) = IF packets = <<>> THEN p ELSE Head(packets)
  BY <1>1, AppendPackets
<1>3. RoomFor(g, p) = n /\ n \in Slots /\ p.kind \in PointKinds
  BY DEF RoomFor, PacketTypes
<1>4. h.packetNum = n + 1 /\ h.layout = p.layout /\ h.slots[n] = p
  BY <1>3, StoredBelongs
<1>5. BufferInv(h)
  BY BufferKept
<1>6. /\ DOMAIN h = Fields /\ h.valid = g.valid /\ h.points = g.points /\ DOMAIN h.valid = Slots
      /\ h.raw = TRUE
      /\ h.start = (IF g.start = NoTime THEN Id(p) ELSE g.start) /\ h.end = Id(p)
  <2>1. Same(g, h, (LayoutFields \cup SplitFields \cup KeepFields) \ {"ret"})
    BY DEF KeptIn
  <2>2. h.start = (IF g.start = NoTime THEN Id(p) ELSE g.start) /\ h.end = Id(p)
    BY DEF KeptIn
  <2>3. h.raw = TRUE
    <3>1. h.lastMax = MaxPackets
      <4>1. ~Filtered(p)
        BY DEF KeptIn
      <4> QED
        BY <4>1 DEF KeptIn
    <3> QED
      BY <1>5, <3>1 DEF BufferInv
  <2>4. DOMAIN h = Fields /\ h.valid = g.valid /\ h.points = g.points
    BY <2>1 DEF Same, Fields, LayoutFields, SplitFields, KeepFields
  <2> QED
    BY <1>5, <2>2, <2>3, <2>4 DEF BufferInv
<1>7. n # 0 => g.layout = h.layout
  <2>1. n # 0 => g.init
    BY DEF BufferInv
  <2>2. g.init => h.layout = g.layout
    BY DEF Relaid, KeptIn, Entered
  <2> QED
    BY <2>1, <2>2
<1>8. /\ Same(h, c, {"valid", "points"}) /\ DOMAIN c.points = PointIndices
      /\ conf.remake =>
           \A k \in PointIndices :
             c.points[k] = IF Hits(p, k) # {} THEN Point(p, Visible(p)[LastHit(p, k)]) ELSE h.points[k]
      /\ ~conf.remake =>
           /\ c.valid = [h.valid EXCEPT ![n] = Len(Visible(p))]
           /\ \A k \in PointIndices :
                c.points[k] = IF first <= k /\ k < first + Len(Visible(p))
                              THEN Point(p, Visible(p)[k - first + 1]) ELSE h.points[k]
  <2>1. Same(h, c, {"valid", "points"})
    BY <1>6, ComputeDoes
  <2> HIDE DEF n
  <2>2. /\ DOMAIN c.points = PointIndices
        /\ conf.remake =>
             \A k \in PointIndices :
               c.points[k] = IF Hits(p, k) # {} THEN Point(p, Visible(p)[LastHit(p, k)]) ELSE h.points[k]
        /\ ~conf.remake =>
             /\ c.valid = [h.valid EXCEPT ![n] = Len(Visible(p))]
             /\ \A k \in PointIndices :
                  c.points[k] = IF first <= k /\ k < first + Len(Visible(p))
                                THEN Point(p, Visible(p)[k - first + 1]) ELSE h.points[k]
    <3>1. DOMAIN h = Fields /\ DOMAIN h.valid = Slots /\ n \in Slots /\ h.raw = TRUE
          /\ h.slots[n] = p /\ p.kind \in PointKinds
      BY <1>3, <1>4, <1>6
    <3>2. Converted(h, c, n, p)
      BY <3>1, ComputePoints
    <3> HIDE DEF c
    <3> QED
      BY <3>2 DEF Converted
  <2> HIDE DEF c
  <2> QED
    BY <2>1, <2>2
<1>9. c.packetNum = n + 1 /\ c.layout = h.layout /\ c.start = h.start /\ c.end = h.end
  BY <1>4, <1>8 DEF Same, Fields
<1> HIDE DEF c, all, n
<1>10. \A i \in 1..Len(all) : all[i].layout = c.layout
  <2>1. ASSUME NEW i \in 1..n PROVE all[i].layout = c.layout
    BY <1>1, <1>2, <1>7, <1>9
  <2> QED
    BY <1>2, <1>4, <1>9, <2>1
<1>11. StampedAreStored => Stamped(c, all)
  <2>1. CASE packets = <<>>
    BY <1>1, <1>2, <1>6, <1>9, <2>1 DEF Stamped
  <2>2. CASE packets # <<>>
    <3>1. Id(Head(packets)) # NoTime
      BY DEF Id, NoTime
    <3> QED
      BY <1>1, <1>2, <1>6, <1>9, <2>2, <3>1 DEF Stamped
  <2> QED
    BY <2>1, <2>2
<1>12. ASSUME conf.remake, NEW k \in 0..(AziScans * 2 - 1) PROVE IsLast(c.points[k], Before(places, k), all, k)
  <2>1. k \in PointIndices
    BY <1>12, GridFits
  <2>2. IsLast(g.points[k], Before(places, k), packets, k)
    BY <1>1, <1>12
  <2>3. c.points[k] = IF Hits(p, k) # {} THEN Point(p, Visible(p)[LastHit(p, k)]) ELSE g.points[k]
    BY <1>6, <1>8, <1>12, <2>1
  <2> QED
    BY <1>1, <2>2, <2>3, LastOfAppend DEF all
<1>13. ASSUME ~conf.remake, NEW i \in 1..Len(all)
       PROVE  /\ c.valid[i - 1] = Len(Visible(all[i]))
              /\ \A j \in 1..Len(Visible(all[i])) :
                   c.points[(i - 1) * PerPoints(c.layout) + j - 1] = PointsOf(all[i])[j]
  <2> DEFINE size == PerPoints(h.layout)
             len == Len(Visible(p))
  <2>1. /\ n \in Nat /\ n + 1 <= MaxPackets /\ MaxPackets \in Nat /\ size \in 1..4
        /\ len \in 0..size /\ c.layout = h.layout
        /\ \A j \in 1..len : PointsOf(p)[j] = Point(p, Visible(p)[j])
    BY <1>2, <1>3, <1>4, <1>9, PointsAre, BoundAssumption DEF Slots
  <2>2. first = n * size
    OBVIOUS
  <2> HIDE DEF size, len, first
  <2>3. first \in Nat /\ first + size <= 4 * MaxPackets
    BY <2>1, <2>2
  <2>4. /\ c.valid = [h.valid EXCEPT ![n] = len]
        /\ \A k \in PointIndices :
             c.points[k] = IF first <= k /\ k < first + len THEN Point(p, Visible(p)[k - first + 1])
                           ELSE g.points[k]
    BY <1>6, <1>8, <1>13 DEF len
  <2>5. CASE i = n + 1
    <3>1. c.valid[n] = len
      BY <1>3, <1>6, <2>4
    <3>2. ASSUME NEW j \in 1..len PROVE c.points[n * size + j - 1] = PointsOf(p)[j]
      <4>1. first + j - 1 \in PointIndices /\ first <= first + j - 1 /\ first + j - 1 < first + len
            /\ (first + j - 1) - first + 1 = j
        BY <2>1, <2>3 DEF PointIndices
      <4> QED
        BY <2>1, <2>2, <2>4, <4>1
    <3>3. i - 1 = n /\ all[i] = p
      BY <1>2, <2>1, <2>5
    <3> QED
      BY <2>1, <3>1, <3>2, <3>3 DEF size, len
  <2>6. CASE i # n + 1
    <3>1. i \in 1..n /\ all[i] = packets[i] /\ n # 0 /\ g.layout = h.layout
      BY <1>2, <1>7, <2>1, <2>6
    <3> DEFINE q == packets[i]
    <3>2. q \in Packets /\ q.layout = h.layout
      BY <1>1, <3>1, ElementOfSeq
    <3>3. Len(Visible(q)) \in 0..size
      BY <3>2, PointsAre DEF size
    <3>4. g.valid[i - 1] = Len(Visible(q))
          /\ \A j \in 1..Len(Visible(q)) : g.points[(i - 1) * size + j - 1] = PointsOf(q)[j]
      BY <1>1, <1>13, <3>1 DEF size
    <3> HIDE DEF q
    <3>5. c.valid[i - 1] = Len(Visible(q))
      <4>1. i - 1 \in Slots /\ i - 1 # n
        BY <2>1, <3>1 DEF Slots
      <4> QED
        BY <1>6, <2>4, <3>4, <4>1
    <3>6. ASSUME NEW j \in 1..Len(Visible(q)) PROVE c.points[(i - 1) * size + j - 1] = PointsOf(q)[j]
      <4>1. (i - 1) * size \in Nat /\ (i - 1) * size + size <= first
        <5>1. i - 1 \in Nat /\ i <= n /\ i \in Nat
          BY <2>1, <3>1
        <5>2. (i - 1) * size \in Nat /\ i * size = (i - 1) * size + size
          BY <2>1, <5>1
        <5>3. i * size <= n * size
          BY <2>1, <5>1
        <5> QED
          BY <2>2, <5>2, <5>3
      <4> DEFINE k == (i - 1) * size + j - 1
      <4>2. k \in PointIndices /\ ~(first <= k)
        <5> DEFINE base == (i - 1) * size
        <5>1. base \in Nat /\ base + size <= first /\ k = base + j - 1
          BY <4>1
        <5>2. j \in 1..size
          BY <2>1, <3>3
        <5> HIDE DEF base, k
        <5> QED
          <6>1. size \in 1..4 /\ MaxPackets \in Nat /\ base + size <= first /\ first + size <= 4 * MaxPackets
            BY <2>1, <2>3, <5>1
          <6>2. k \in 0..(4 * MaxPackets - 1) /\ k < first /\ first \in Nat /\ k \in Nat
            BY <2>3, <5>1, <5>2, <6>1
          <6> QED
            BY <6>2 DEF PointIndices
      <4>3. c.points[k] = g.points[k]
        BY <2>4, <4>2
      <4> QED
        BY <3>4, <4>3
    <3> QED
      BY <2>1, <3>1, <3>5, <3>6 DEF q, size
  <2> QED
    BY <2>5, <2>6
<1>14. Filled(c, all, places)
  BY <1>2, <1>8, <1>9, <1>10, <1>11, <1>12, <1>13 DEF Filled
<1> QED
  BY <1>14 DEF c, all, n

\* A packet refused leaves what is there.
LEMMA DroppedPacket ==
  ASSUME NEW g, BufferInv(g), DOMAIN g = Fields, g.init \in BOOLEAN,
         NEW packets, NEW places, Filled(g, packets, places), NEW p, PacketTypes(p), ~Relaid(g, p),
         NEW h, NEW ret, KeptIn(g, h, p, ret), ret # "done",
         conf.parser = "7_3" \/ ~g.init => p.layout # "longer"
  PROVE  Filled(h, packets, places)
<1>1. h.packetNum = g.packetNum /\ ~StampedAreStored
  BY StoredBelongs DEF RoomFor
<1>2. h.valid = g.valid /\ h.points = g.points
  <2>1. Same(g, h, (LayoutFields \cup SplitFields \cup KeepFields) \ {"ret"})
    BY DEF KeptIn
  <2> QED
    BY <2>1 DEF Same, Fields, LayoutFields, SplitFields, KeepFields
<1>3. g.init => h.layout = g.layout
  BY DEF Relaid, KeptIn, Entered
<1>4. ~g.init => Len(packets) = 0
  BY DEF BufferInv, Filled
<1>5. CASE g.init
  BY <1>1, <1>2, <1>3, <1>5 DEF Filled
<1>6. CASE ~g.init
  BY <1>1, <1>2, <1>4, <1>6 DEF Filled
<1> QED
  BY <1>5, <1>6

\* A new frame is empty, but for the places of the grid that hold points of the one given up.
LEMMA EmptyFrame ==
  ASSUME conf \in Configurations, NEW g, BufferInv(g), NEW u, Same(g, u, RunFields \ {"valid"}),
         u.packetNum = 0, u.start = NoTime, DOMAIN u.slots = Slots, DOMAIN u.points = PointIndices,
         DOMAIN g = Fields, NEW places,
         conf.remake => \A k \in PointIndices : u.points[k] = Before(places, k)
  PROVE  BufferInv(u) /\ Filled(u, <<>>, places)
<1>1. u.lastMax = g.lastMax /\ u.init = g.init /\ u.raw = g.raw /\ u.size = g.size
      /\ u.layout = g.layout /\ u.valid = g.valid
  BY DEF Same, Fields, RunFields
<1>2. BufferInv(u)
  BY <1>1 DEF BufferInv
<1>3. <<>> \in Seq(Packets) /\ Len(<<>>) = 0
  BY EmptySeq
<1>4. ASSUME conf.remake, NEW k \in 0..(AziScans * 2 - 1)
      PROVE  IsLast(u.points[k], Before(places, k), <<>>, k)
  <2>1. u.points[k] = Before(places, k)
    BY <1>4, GridFits
  <2> QED
    BY <1>3, <2>1 DEF IsLast
<1>5. StampedAreStored => Stamped(u, <<>>)
  BY DEF Stamped
<1>6. Filled(u, <<>>, places)
  BY <1>3, <1>4, <1>5 DEF Filled
<1> QED
  BY <1>2, <1>6

LEMMA UpdatedFrame ==
  ASSUME conf \in Configurations, NEW g, DOMAIN g = Fields, BufferInv(g)
  PROVE  BufferInv(Update(g)) /\ Filled(Update(g), <<>>, Occupied(g))
<1> DEFINE u == Update(g)
           fresh == [i \in Slots |-> IF g.slots[i].kind = None THEN NoPacket ELSE OldPacket]
           kept == [k \in PointIndices |-> IF g.points[k] = NoPoint THEN NoPoint ELSE OldPoint]
<1>1. Same(g, u, RunFields \ {"valid"}) /\ u.packetNum = 0 /\ u.start = NoTime
  BY UpdateDoes
<1>2. u.slots = fresh /\ u.points = kept
  BY DEF Update, Fields
<1>3. DOMAIN fresh = Slots /\ DOMAIN kept = PointIndices
  OBVIOUS
<1>4. conf.remake => \A k \in PointIndices : kept[k] = Before(Occupied(g), k)
  BY DEF Before, Occupied
<1> HIDE DEF u, fresh, kept
<1> QED
  BY <1>1, <1>2, <1>3, <1>4, EmptyFrame DEF u

LEMMA RenewedFrame ==
  ASSUME conf \in Configurations, NEW g, DOMAIN g = Fields, BufferInv(g)
  PROVE  BufferInv(Renewed(g)) /\ Filled(Renewed(g), <<>>, {})
<1> DEFINE u == Renewed(g)
           w == Update(g)
<1>1. /\ Same(g, u, RunFields \ {"valid"}) /\ u.packetNum = 0 /\ u.start = NoTime /\ u.slots = w.slots
      /\ u.points = IF conf.remake THEN [k \in PointIndices |-> NoPoint] ELSE w.points
  BY RenewedDoes
<1>2. DOMAIN w.slots = Slots /\ DOMAIN w.points = PointIndices
  BY DEF Update, Fields
<1> HIDE DEF u, w
<1>3. DOMAIN u.slots = Slots /\ DOMAIN u.points = PointIndices
  BY <1>1, <1>2
<1>4. conf.remake => \A k \in PointIndices : u.points[k] = Before({}, k)
  BY <1>1 DEF Before
<1> QED
  BY <1>1, <1>3, <1>4, EmptyFrame DEF u

\* What Collect makes of the packets in a frame.
Holds(c, packets, places) ==
  /\ IF conf.remake
     THEN /\ c.pointsNum = AziScans * 2
          /\ \A k \in 0..(AziScans * 2 - 1) : IsLast(c.points[k], Before(places, k), packets, k)
     ELSE [k \in 1..c.pointsNum |-> c.points[k - 1]] = ListOf(packets)
  /\ packets # <<>> /\ StampedAreStored => c.start = Id(Head(packets)) /\ c.end = Id(Last(packets))

LEMMA CollectedFrame ==
  ASSUME NEW g, DOMAIN g = Fields, g.packetNum \in 0..MaxPackets,
         NEW packets, NEW places, Filled(g, packets, places)
  PROVE  Holds(Collect(g), packets, places)
<1> DEFINE c == Collect(g)
<1>1. Same(g, c, {"points", "pointsNum"})
  BY CollectDoes
<1>2. conf.remake => c.points = g.points /\ c.pointsNum = AziScans * 2
  BY DEF Collect, Fields
<1>3. ~conf.remake => c = Compact(g)
  BY DEF Collect
<1> SUFFICES Holds(c, packets, places)
  OBVIOUS
<1> HIDE DEF c
<1>4. packets # <<>> /\ StampedAreStored => c.start = Id(Head(packets)) /\ c.end = Id(Last(packets))
  BY <1>1 DEF Filled, Stamped, Same, Fields
<1>5. CASE conf.remake
  BY <1>2, <1>4, <1>5 DEF Filled, Holds
<1>6. CASE ~conf.remake
  <2> DEFINE parts == [i \in 1..Len(packets) |-> PointsOf(packets[i])]
  <2>1. /\ packets \in Seq(Packets) /\ Len(packets) = g.packetNum /\ Len(packets) \in Nat
        /\ \A i \in 1..Len(packets) : packets[i] \in Packets /\ packets[i].layout = g.layout
        /\ \A i \in 1..Len(packets) :
             /\ g.valid[i - 1] = Len(Visible(packets[i]))
             /\ \A j \in 1..Len(Visible(packets[i])) :
                  g.points[(i - 1) * PerPoints(g.layout) + j - 1] = PointsOf(packets[i])[j]
    BY <1>6, ElementOfSeq, LenProperties DEF Filled
  <2>2. \A i \in 1..Len(packets) :
          /\ PointsOf(packets[i]) \in Seq(Pts) /\ Len(PointsOf(packets[i])) = Len(Visible(packets[i]))
          /\ Len(Visible(packets[i])) \in 0..PerPoints(g.layout) /\ PerPoints(g.layout) \in 1..4
    BY <2>1, PointsAre
  <2>3. parts \in Seq(Seq(Pts)) /\ Len(parts) = Len(packets)
    <3>1. parts \in [1..Len(packets) -> Seq(Pts)] /\ DOMAIN parts = 1..Len(packets)
      BY <2>2
    <3> DEFINE Q == Seq(Pts)
    <3> HIDE DEF parts, Q
    <3>2. parts \in [1..Len(packets) -> Q] /\ Len(packets) \in Nat
      BY <2>1, <3>1 DEF Q
    <3>3. parts \in Seq(Q) /\ Len(parts) = Len(packets)
      BY <3>2
    <3> QED
      BY <3>3 DEF Q
  <2>4. \A i \in 1..Len(packets) : parts[i] = PointsOf(packets[i])
    OBVIOUS
  <2> HIDE DEF parts
  <2>5. Lie(g, parts)
    BY <2>1, <2>2, <2>3, <2>4 DEF Lie
  <2>6. [k \in 1..c.pointsNum |-> c.points[k - 1]] = FlattenSeq(parts)
    BY <1>3, <1>6, <2>3, <2>5, CompactList
  <2>7. FlattenSeq(parts) = ListOf(packets)
    BY DEF ListOf, parts
  <2> QED
    BY <1>4, <1>6, <2>6, <2>7 DEF Holds
<1> QED
  BY <1>5, <1>6

\* The configuration stays, and with it the meaning of what depends on it.
LEMMA SameVisible ==
  ASSUME conf' = conf, NEW p
  PROVE  Visible(p)' = Visible(p)
BY SMT DEF Visible, IsVisible, Cells, Loops, Leaves

LEMMA SameMeaning ==
  ASSUME conf' = conf
  PROVE  /\ AziScans' = AziScans /\ (StampedAreStored' <=> StampedAreStored)
         /\ \A layout : PerPoints(layout)' = PerPoints(layout)
         /\ \A p : Visible(p)' = Visible(p) /\ PointsOf(p)' = PointsOf(p)
         /\ \A p, k : Hits(p, k)' = Hits(p, k)
         /\ \A pt, old, packets, k : IsLast(pt, old, packets, k)' <=> IsLast(pt, old, packets, k)
         /\ \A packets : ListOf(packets)' = ListOf(packets)
<1>1. AziScans' = AziScans /\ (StampedAreStored' <=> StampedAreStored)
  BY DEF AziScans, StampedAreStored
<1>2. \A layout : PerPoints(layout)' = PerPoints(layout)
  BY SMT DEF PerPoints, Cells
<1>3. \A p : Visible(p)' = Visible(p)
  BY SameVisible
<1>4. \A p : PointsOf(p)' = PointsOf(p)
  BY <1>3, SMT DEF PointsOf, Point
<1>5. \A p, k : Hits(p, k)' = Hits(p, k)
  BY <1>1, <1>3, SMT DEF Hits, Grid
<1>6. \A pt, old, packets, k : IsLast(pt, old, packets, k)' <=> IsLast(pt, old, packets, k)
  <2>1. ASSUME NEW pt, NEW old, NEW packets, NEW k
        PROVE  IsLast(pt, old, packets, k)' <=> IsLast(pt, old, packets, k)
    <3> DEFINE Miss(i) == Hits(packets[i], k) = {}
               Hit(i)  == \E n \in Hits(packets[i], k) :
                            /\ pt = PointsOf(packets[i])[n]
                            /\ \A m \in Hits(packets[i], k) : m <= n
    <3>1. \A i : (Miss(i))' <=> Miss(i)
      BY <1>5
    <3>2. \A i : (Hit(i))' <=> Hit(i)
      BY <1>4, <1>5
    <3> QED
      BY <3>1, <3>2 DEF IsLast
  <2> QED
    BY <2>1
<1>7. \A packets : ListOf(packets)' = ListOf(packets)
  BY <1>4, SMT DEF ListOf
<1> QED
  BY <1>1, <1>2, <1>3, <1>4, <1>5, <1>6, <1>7

\* The same of the packets of the frame that a step leaves.
LEMMA SamePackets ==
  ASSUME conf' = conf, NEW packets, received' = packets
  PROVE  /\ \A i : Visible(received[i])' = Visible(packets[i])
         /\ \A i : PointsOf(received[i])' = PointsOf(packets[i])
         /\ \A i, k : Hits(received[i], k)' = Hits(packets[i], k)
<1>1. \A i : Visible(received[i])' = Visible(packets[i])
  BY SMT DEF Visible, IsVisible, Cells, Loops, Leaves
<1>2. \A i : PointsOf(received[i])' = PointsOf(packets[i])
  BY <1>1, SMT DEF PointsOf, Point
<1>3. \A i, k : Hits(received[i], k)' = Hits(packets[i], k)
  BY <1>1, SMT DEF Hits, Grid, AziScans
<1> QED
  BY <1>1, <1>2, <1>3

LEMMA SameLast ==
  ASSUME conf' = conf, NEW packets, received' = packets, NEW places, left' = places, NEW g, f' = g, NEW k
  PROVE  IsLast(f.points[k], Before(left, k), received, k)' <=> IsLast(g.points[k], Before(places, k), packets, k)
<1> DEFINE MissNow(i) == Hits(packets[i], k) = {}
           MissThen(i) == Hits(received[i], k) = {}
           HitNow(i)  == \E n \in Hits(packets[i], k) :
                           /\ g.points[k] = PointsOf(packets[i])[n]
                           /\ \A m \in Hits(packets[i], k) : m <= n
           HitThen(i) == \E n \in Hits(received[i], k) :
                           /\ f.points[k] = PointsOf(received[i])[n]
                           /\ \A m \in Hits(received[i], k) : m <= n
<1>1. \A i : MissThen(i)' <=> MissNow(i)
  BY SamePackets
<1>2. \A i : HitThen(i)' <=> HitNow(i)
  BY SamePackets
<1> QED
  BY <1>1, <1>2, ZenonT(30) DEF IsLast

LEMMA FilledNext ==
  ASSUME conf' = conf, NEW g, f' = g, NEW packets, received' = packets, NEW places, left' = places,
         Filled(g, packets, places)
  PROVE  Filled(f, received, left)'
BY SamePackets, SameLast, SameMeaning DEF Filled, Stamped, Id

LEMMA HoldsNext ==
  ASSUME conf' = conf, NEW g, f' = g, NEW packets, received' = packets, NEW places, left' = places,
         Holds(g, packets, places)
  PROVE  FrameIsItsPackets'
BY SamePackets, SameLast, SameMeaning DEF FrameIsItsPackets, HoldsPoints, Holds, Id, ListOf

LEMMA BufferNext ==
  ASSUME conf' = conf, NEW g, f' = g, BufferInv(g)
  PROVE  BufferInv(f)'
BY DEF BufferInv
-----------------------------------------------------------------------------
(***************************************************************************)
(* A frame is its packets                                                  *)
(***************************************************************************)
\* The frame that is filled holds what was received for it, and so does the one delivered.
FrameParts ==
  /\ BufferInv(f)
  /\ pc = "deliver" /\ packet.kind # "timeout" => packet \in Packets
  /\ pc = "take" /\ ~astray => Filled(f, received, left)
  /\ FrameIsItsPackets

FrameInv == IndexInv /\ FrameParts

LEMMA TakenNext ==
  ASSUME conf' = conf, pc' = "take", NEW g, f' = g, BufferInv(g),
         NEW packets, received' = packets, NEW places, left' = places, ~astray' => Filled(g, packets, places)
  PROVE  FrameParts'
<1>1. BufferInv(f)' /\ (~astray' => Filled(f, received, left)')
  BY BufferNext, FilledNext
<1> QED
  BY <1>1 DEF FrameParts, FrameIsItsPackets

LEMMA EndedNext ==
  ASSUME conf' = conf, pc' = "deliver", packet'.kind # "timeout" => packet' \in Packets,
         NEW g, f' = g, BufferInv(g), NEW packets, received' = packets, NEW places, left' = places,
         ~astray' => Holds(g, packets, places)
  PROVE  FrameParts'
<1>1. BufferInv(f)'
  BY BufferNext
<1>2. CASE ~astray'
  <2>1. FrameIsItsPackets'
    BY <1>2, HoldsNext
  <2> QED
    BY <1>1, <2>1 DEF FrameParts
<1>3. CASE astray'
  BY <1>1, <1>3 DEF FrameParts, FrameIsItsPackets
<1> QED
  BY <1>2, <1>3

\* What the lidar sends.
LEMMA ComingFacts ==
  ASSUME BaseInv, NEW p, Coming(p)
  PROVE  p \in Packets /\ PacketTypes(p) /\ (conf.parser = "7_3" \/ ~f.init => p.layout # "longer")
<1>1. PacketTypes(p) /\ conf \in Configurations /\ lidar.scan \in {0, 1}
      /\ lidar.column \in 0..(PerScan - 1) /\ lidar.seq \in 0..(SeqModulus - 1)
  BY DEF Coming, BaseInv
<1>2. p.kind \in PointKinds /\ p.layout \in Layouts /\ (conf.parser = "7_3" => p.layout # "longer")
  BY <1>1, ConfigurationTypes DEF PacketTypes
<1>3. (lidar.seq % 2) + 1 \in {1, 2}
  BY <1>1
<1>4. p \in Packets
  BY <1>1, <1>2, <1>3 DEF Coming, Packets
<1> QED
  BY <1>1, <1>2, <1>4 DEF Coming

LEMMA ComputeBuffer ==
  ASSUME NEW g, BufferInv(g), DOMAIN g = Fields, NEW i
  PROVE  BufferInv(ComputeXYZI(g, i))
<1> DEFINE c == ComputeXYZI(g, i)
<1>1. Same(g, c, {"valid", "points"})
  BY ComputeDoes
<1>2. DOMAIN c.valid = Slots
  BY DEF ComputeXYZI, BufferInv, Fields
<1> HIDE DEF c
<1>3. BufferInv(c)
  BY <1>1, <1>2 DEF BufferInv, Same, Fields
<1> QED
  BY <1>3 DEF c

\* A packet, or a timeout, that ends the frame leaves what is in it.
LEMMA EndsFrameParts ==
  ASSUME BaseInv, conf' = conf, FrameParts, pc = "take",
         NEW p, NEW g, EndsFrame(g, p), p.kind # "timeout" => p \in Packets
  PROVE  FrameParts'
<1> DEFINE c == Collect(g)
<1>1. /\ BufferInv(f) /\ (~astray => Filled(f, received, left)) /\ f.packetNum \in 0..MaxPackets
      /\ DOMAIN f = Fields /\ astray \in BOOLEAN /\ f.init \in BOOLEAN /\ (~f.init => Unturned(f))
  BY BoundAssumption DEF FrameParts, BaseInv, FrameTypes, LayoutInv
<1>2. /\ f' = c /\ pc' = "deliver" /\ packet' = p /\ received' = received /\ left' = left
      /\ \/ EndsScan(f, g, p) /\ astray' = (astray \/ Relaid(f, p))
         \/ Same(f, g, {"complete", "useAngle"}) /\ astray' = astray
  BY DEF EndsFrame
<1>3. DOMAIN g = Fields
  BY <1>2 DEF EndsScan, Same
<1>4. Same(g, c, {"points", "pointsNum"})
  BY <1>3, CollectDoes
<1>5. CASE EndsScan(f, g, p) /\ Relaid(f, p) /\ astray' = (astray \/ Relaid(f, p))
  <2>1. g.packetNum = 0 /\ g.lastMax = 0 /\ conf.parser = "7_3" /\ astray'
    BY <1>5 DEF EndsScan, Entered
  <2>2. g.slots = f.slots /\ g.valid = f.valid
    BY <1>5 DEF EndsScan, Same, Fields, LayoutFields, SplitFields
  <2>3. BufferInv(g)
    BY <1>1, <2>1, <2>2, BoundAssumption DEF BufferInv
  <2> HIDE DEF c
  <2>4. BufferInv(c)
    BY <1>4, <2>3 DEF BufferInv, Same, Fields
  <2> QED
    BY <1>2, <2>1, <2>4, EndedNext
<1>6. CASE Same(f, g, SplitFields) /\ (~astray' => ~astray)
  <2>1. /\ g.packetNum = f.packetNum /\ g.start = f.start /\ g.end = f.end /\ g.raw = f.raw
        /\ g.size = f.size /\ g.lastMax = f.lastMax /\ g.init = f.init /\ g.layout = f.layout
        /\ g.slots = f.slots /\ g.valid = f.valid /\ g.points = f.points
    BY <1>6 DEF Same, Fields, SplitFields
  <2>2. BufferInv(g)
    BY <1>1, <2>1 DEF BufferInv
  <2>3. ~astray' => Filled(g, received, left)
    BY <1>1, <1>6, <2>1 DEF Filled, Stamped
  <2>4. ~astray' => Holds(c, received, left)
    BY <1>1, <1>3, <2>1, <2>3, CollectedFrame
  <2> HIDE DEF c
  <2>5. BufferInv(c)
    BY <1>4, <2>2 DEF BufferInv, Same, Fields
  <2> QED
    BY <1>2, <2>4, <2>5, EndedNext
<1>7. CASE EndsScan(f, g, p) /\ ~Relaid(f, p) /\ astray' = (astray \/ Relaid(f, p))
  <2>1. f.init = TRUE /\ g.init = TRUE /\ g.layout = f.layout
    BY <1>1, <1>7 DEF EndsScan, Entered, Relaid
  <2>2. Same(f, g, (LayoutFields \cup SplitFields) \ {"ret"}) /\ g.packetNum = f.packetNum
        /\ g.start = f.start /\ g.raw = f.raw /\ g.size = f.size /\ g.lastMax = f.lastMax
    BY <1>7 DEF EndsScan
  <2>3. Same(f, g, SplitFields)
    BY <2>1, <2>2, ZenonT(30) DEF Same, LayoutFields, SplitFields
  <2> QED
    BY <1>1, <1>6, <1>7, <2>3
<1>8. CASE Same(f, g, {"complete", "useAngle"}) /\ astray' = astray
  <2>1. Same(f, g, SplitFields)
    BY <1>8 DEF Same, SplitFields
  <2> QED
    BY <1>6, <1>8, <2>1
<1> QED
  BY <1>2, <1>5, <1>7, <1>8

\* A packet that DecodePacket refuses, or that brings no points.
LEMMA DropsParts ==
  ASSUME BaseInv, conf' = conf, FrameParts, pc = "take", NEW p,
         \/ Idles
         \/ Coming(p) /\ (Refuses(p) \/ Drops(p))
  PROVE  FrameParts'
<1>1. /\ BufferInv(f) /\ (~astray => Filled(f, received, left)) /\ conf \in Configurations
      /\ DOMAIN f = Fields /\ astray \in BOOLEAN /\ f.init \in BOOLEAN
  BY DEF FrameParts, BaseInv, FrameTypes
<1>2. PICK g : g = f'
  OBVIOUS
<1>3. CASE Idles
  <2>1. Same(f, g, {"created", "complete"}) /\ pc' = "take" /\ received' = received /\ left' = left
        /\ astray' = astray
    BY <1>2, <1>3 DEF Idles
  <2>2. BufferInv(g)
    BY <1>1, <2>1 DEF BufferInv, Same, Fields
  <2>3. ~astray => Filled(g, received, left)
    BY <1>1, <2>1 DEF Filled, Stamped, Same, Fields
  <2> QED
    BY <1>2, <2>1, <2>2, <2>3, TakenNext
<1>4. CASE Coming(p) /\ Refuses(p)
  <2>1. /\ Same(f, g, {"complete", "layout"}) /\ pc' = "take" /\ received' = received /\ left' = left
        /\ astray' = astray
        /\ g.layout = IF f.init THEN f.layout ELSE "large"
    BY <1>2, <1>4 DEF Refuses, RefusedForLayout
  <2>2. /\ g.slots = f.slots /\ g.valid = f.valid /\ g.points = f.points /\ g.init = f.init
        /\ g.packetNum = f.packetNum /\ g.start = f.start /\ g.end = f.end /\ g.raw = f.raw
        /\ g.size = f.size /\ g.lastMax = f.lastMax
    BY <2>1 DEF Same, Fields
  <2>3. BufferInv(g)
    BY <1>1, <2>1, <2>2 DEF BufferInv
  <2>4. ASSUME ~astray PROVE Filled(g, received, left)
    <3>1. ~f.init => f.packetNum = 0
      BY <1>1 DEF BufferInv
    <3>2. CASE f.init
      BY <1>1, <2>1, <2>2, <2>4, <3>2 DEF Filled, Stamped
    <3>3. CASE ~f.init
      <4>1. Len(received) = 0
        BY <1>1, <2>4, <3>1, <3>3 DEF Filled
      <4> QED
        BY <1>1, <2>2, <2>4, <4>1 DEF Filled, Stamped
    <3> QED
      BY <3>2, <3>3
  <2> QED
    BY <1>2, <2>1, <2>3, <2>4, TakenNext
<1>5. CASE Coming(p) /\ Drops(p)
  <2>1. /\ KeptIn(f, g, p, "refused") /\ pc' = "take" /\ astray' = (astray \/ Relaid(f, p))
        /\ received' = (IF Belongs(g, p) THEN Append(received, p) ELSE received) /\ left' = left
    BY <1>2, <1>5 DEF Drops
  <2>2. PacketTypes(p) /\ (conf.parser = "7_3" \/ ~f.init => p.layout # "longer")
    BY <1>5, ComingFacts
  <2>3. received' = received
    BY <1>1, <2>1, <2>2, StoredBelongs
  <2>4. BufferInv(g)
    BY <1>1, <2>1, <2>2, BufferKept
  <2>5. ASSUME ~astray' PROVE Filled(g, received, left)
    <3>1. ~astray /\ ~Relaid(f, p)
      BY <1>1, <2>1, <2>5
    <3> QED
      BY <1>1, <2>1, <2>2, <3>1, DroppedPacket
  <2> QED
    BY <1>2, <2>1, <2>3, <2>4, <2>5, TakenNext
<1> QED
  BY <1>3, <1>4, <1>5

\* A packet that goes into the frame, or that shows that the frame has to be given up.
LEMMA AddsParts ==
  ASSUME BaseInv, IndexCountsStored, conf' = conf, FrameParts, pc = "take",
         NEW p, Coming(p), NEW g, Adds(g, p)
  PROVE  FrameParts'
<1> DEFINE h == IF g.packetNum # index THEN ComputeXYZI(g, index) ELSE g
           u == Update(h)
<1>1. /\ BufferInv(f) /\ (~astray => Filled(f, received, left)) /\ conf \in Configurations
      /\ DOMAIN f = Fields /\ astray \in BOOLEAN /\ f.init \in BOOLEAN /\ pc' = "take"
      /\ index \in Slots /\ f.packetNum \in 0..index
  BY DEF FrameParts, BaseInv, FrameTypes, Adds, Slots
<1>2. /\ KeptIn(f, g, p, "done")
      /\ IF Discards(g)
         THEN f' = u /\ received' = <<>> /\ left' = Occupied(h) /\ astray' = FALSE
         ELSE /\ f' = h /\ received' = (IF Belongs(g, p) THEN Append(received, p) ELSE received)
              /\ left' = left /\ astray' = (astray \/ Relaid(f, p))
  BY DEF Adds
<1>3. p \in Packets /\ PacketTypes(p) /\ (conf.parser = "7_3" \/ ~f.init => p.layout # "longer")
  BY ComingFacts
<1>4. BufferInv(g) /\ DOMAIN g = Fields
  BY <1>1, <1>2, <1>3, BufferKept DEF KeptIn, Same
<1>5. BufferInv(h) /\ DOMAIN h = Fields
  <2>1. BufferInv(ComputeXYZI(g, index)) /\ DOMAIN ComputeXYZI(g, index) = Fields
    BY <1>4, ComputeBuffer, ComputeDoes DEF Same
  <2> QED
    BY <1>4, <2>1
<1>6. CASE Discards(g)
  <2> HIDE DEF h
  <2>1. BufferInv(u) /\ Filled(u, <<>>, Occupied(h))
    BY <1>1, <1>5, UpdatedFrame
  <2> HIDE DEF u
  <2> QED
    BY <1>1, <1>2, <1>6, <2>1, TakenNext
<1>7. CASE ~Discards(g)
  <2>1. PICK packets : packets = received'
    OBVIOUS
  <2>2. ASSUME ~astray' PROVE Filled(h, packets, left)
    <3>1. ~astray /\ ~Relaid(f, p)
      BY <1>1, <1>2, <1>7, <2>2
    <3>2. index = f.packetNum /\ Filled(f, received, left)
      BY <1>1, <3>1 DEF IndexCountsStored
    <3>3. g.packetNum = f.packetNum + 1 /\ Belongs(g, p)
      BY <1>1, <1>2, <1>3, <3>1, StoredBelongs DEF RoomFor
    <3>4. packets = Append(received, p) /\ h = ComputeXYZI(g, f.packetNum)
      BY <1>1, <1>2, <1>7, <2>1, <3>2, <3>3
    <3> HIDE DEF h
    <3> QED
      BY <1>1, <1>2, <1>3, <3>1, <3>2, <3>4, AddedPacket
  <2> HIDE DEF h
  <2> QED
    BY <1>1, <1>2, <1>5, <1>7, <2>1, <2>2, TakenNext
<1> QED
  BY <1>6, <1>7

\* The frame after the one delivered.
LEMMA FollowsParts ==
  ASSUME BaseInv, FrameParts, Follows
  PROVE  FrameParts'
<1> DEFINE u == Renewed(f)
<1>1. /\ BufferInv(f) /\ conf \in Configurations /\ DOMAIN f = Fields /\ f.init \in BOOLEAN
      /\ pc = "deliver" /\ pc' = "take" /\ conf' = conf
      /\ packet.kind # "timeout" => /\ packet \in Packets /\ PacketTypes(packet) /\ f.init
                                    /\ Header(packet.layout) = f.layout
  BY DEF FrameParts, BaseInv, FrameTypes, Follows, DeliverInv
<1>2. BufferInv(u) /\ Filled(u, <<>>, {}) /\ Same(f, u, RunFields) /\ u.packetNum = 0
  BY <1>1, RenewedFrame, RenewedDoes DEF Same
<1>3. packet.kind # "timeout" => \E g, ret : KeptIn(u, g, packet, ret) /\ Reopens(g, packet)
  BY DEF Follows
<1>4. packet.kind = "timeout" => f' = u /\ received' = <<>> /\ left' = {}
  BY DEF Follows, Begins
<1> HIDE DEF u
<1>5. CASE packet.kind = "timeout"
  BY <1>1, <1>2, <1>4, <1>5, TakenNext
<1>6. CASE packet.kind # "timeout"
  <2>1. PICK g, ret : KeptIn(u, g, packet, ret) /\ Reopens(g, packet)
    BY <1>3, <1>6
  <2>2. PICK p : p = packet
    OBVIOUS
  <2>3. p \in Packets /\ PacketTypes(p) /\ (conf.parser = "7_3" => p.layout # "longer")
    BY <1>1, <1>6, <2>2, ConfigurationTypes DEF PacketTypes
  <2>4. u.init = TRUE /\ ~Relaid(u, p) /\ DOMAIN u = Fields
    BY <1>1, <1>2, <1>6, <2>2 DEF Same, Fields, RunFields, Relaid
  <2> DEFINE c == ComputeXYZI(g, 0)
  <2>5. /\ KeptIn(u, g, p, ret) /\ f' = c /\ astray' = (g.packetNum # 1)
        /\ received' = (IF Belongs(g, p) THEN <<p>> ELSE <<>>) /\ left' = {}
    BY <2>1, <2>2 DEF Reopens
  <2>6. BufferInv(g) /\ DOMAIN g = Fields
    BY <1>2, <2>3, <2>4, <2>5, BufferKept DEF KeptIn, Same
  <2>7. BufferInv(c)
    BY <2>6, ComputeBuffer
  <2>8. PICK packets : packets = received'
    OBVIOUS
  <2>9. ASSUME ~astray' PROVE Filled(c, packets, {})
    <3>1. g.packetNum = 1 /\ RoomFor(u, p) = 0
      BY <1>2, <2>5, <2>9 DEF RoomFor
    <3>2. ret = "done" /\ Belongs(g, p)
      <4>1. u.init \in BOOLEAN /\ (conf.parser = "7_3" \/ ~u.init => p.layout # "longer")
        BY <2>3, <2>4
      <4>2. (ret = "done" <=> Belongs(g, p)) /\ (ret # "done" => g.packetNum = RoomFor(u, p))
        BY <1>2, <2>3, <2>4, <2>5, <4>1, StoredBelongs
      <4> QED
        BY <3>1, <4>2
    <3>3. packets = Append(<<>>, p) /\ u.packetNum \in Slots
      BY <1>2, <2>5, <2>8, <3>2, BoundAssumption DEF Slots
    <3> QED
      BY <1>1, <1>2, <2>3, <2>4, <2>5, <3>2, <3>3, AddedPacket
  <2> HIDE DEF c
  <2> QED
    BY <1>1, <2>5, <2>7, <2>8, <2>9, TakenNext
<1> QED
  BY <1>5, <1>6

LEMMA FrameInit == Init => FrameInv
<1> SUFFICES ASSUME Init PROVE FrameInv
  OBVIOUS
<1>1. IndexInv /\ pc = "take" /\ received = <<>> /\ left = {}
  BY IndexInit DEF Init
<1>2. /\ f.init = FALSE /\ f.lastMax = 0 /\ f.packetNum = 0 /\ f.start = NoTime
      /\ f.slots = [i \in Slots |-> NoPacket] /\ f.valid = [i \in Slots |-> 0]
      /\ f.points = [k \in PointIndices |-> NoPoint]
  BY DEF Init
<1>3. BufferInv(f)
  BY <1>2, BoundAssumption DEF BufferInv
<1>4. received \in Seq(Packets) /\ Len(received) = 0
  BY <1>1, EmptySeq
<1>5. ASSUME conf.remake, NEW k \in 0..(AziScans * 2 - 1) PROVE IsLast(f.points[k], Before(left, k), received, k)
  <2>1. f.points[k] = NoPoint
    BY <1>1, <1>2, <1>5, GridFits DEF IndexInv, BaseInv
  <2> QED
    BY <1>1, <1>4, <2>1 DEF IsLast, Before
<1>6. Filled(f, received, left)
  BY <1>1, <1>2, <1>4, <1>5 DEF Filled, Stamped
<1> QED
  BY <1>1, <1>3, <1>6 DEF FrameInv, FrameParts, FrameIsItsPackets

LEMMA FrameStep == FrameInv /\ [Next]_vars => FrameInv'
<1> SUFFICES ASSUME FrameInv, [Next]_vars PROVE FrameInv'
  OBVIOUS
<1>1. BaseInv /\ IndexCountsStored /\ FrameParts /\ IndexInv'
  BY IndexStep DEF FrameInv, IndexInv
<1>2. Comes \/ OthersCome \/ Loses \/ Follows \/ UNCHANGED vars
  BY <1>1, NextDoes
<1> SUFFICES FrameParts'
  BY <1>1 DEF FrameInv
<1>3. CASE Comes
  <2>1. PICK p : Coming(p) /\ ((Idles /\ ~f.created) \/ Refuses(p) \/ Drops(p) \/ (\E g : Adds(g, p))
                               \/ (\E g : EndsFrame(g, p)))
    BY <1>3 DEF Comes
  <2>2. pc = "take" /\ conf' = conf /\ p \in Packets
    BY <1>1, <1>3, <2>1, ComingFacts DEF Comes
  <2> QED
    BY <1>1, <2>1, <2>2, DropsParts, AddsParts, EndsFrameParts
<1>4. CASE OthersCome
  <2>1. pc = "take" /\ conf' = conf
    BY <1>4 DEF OthersCome
  <2>2. CASE Idles
    BY <1>1, <2>1, <2>2, DropsParts
  <2>3. CASE ~Idles
    <3>1. PICK p, g : p.kind = "timeout" /\ EndsFrame(g, p)
      BY <1>4, <2>3 DEF OthersCome
    <3> QED
      BY <1>1, <2>1, <3>1, EndsFrameParts
  <2> QED
    BY <2>2, <2>3
<1>5. CASE Loses \/ UNCHANGED vars
  <2>1. UNCHANGED <<conf, f, pc, packet, received, left, astray>>
    BY <1>5 DEF Loses, vars
  <2>2. CASE pc = "take"
    BY <1>1, <2>1, <2>2, TakenNext DEF FrameParts
  <2>3. CASE pc = "deliver"
    <3>1. ~astray => Holds(f, received, left)
      BY <1>1, <2>3 DEF FrameParts, FrameIsItsPackets, HoldsPoints, Holds
    <3> QED
      BY <1>1, <2>1, <2>3, <3>1, EndedNext DEF FrameParts
  <2> QED
    BY <1>1, <2>2, <2>3 DEF BaseInv
<1>6. CASE Follows
  BY <1>1, <1>6, FollowsParts
<1> QED
  BY <1>2, <1>3, <1>4, <1>5, <1>6

\* A frame delivered has the visible points of exactly its packets, in their order, or as a grid
\* with the point that came last in each place, whatever came between them and whatever the frames
\* delivered before have left in the buffers.  Where none came the grid is empty, or has the points
\* of frames that were given up since.
THEOREM FrameIsItsPacketsHolds == Spec => []FrameIsItsPackets
<1>1. FrameInv => FrameIsItsPackets
  BY DEF FrameInv, FrameParts
<1> QED
  BY FrameInit, FrameStep, <1>1, PTL DEF Spec
=============================================================================
