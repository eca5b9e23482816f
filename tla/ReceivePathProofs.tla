------------------------- MODULE ReceivePathProofs -------------------------
(***************************************************************************)
(* Proofs about ReceivePath for any receivers, sources, rooms and bounds: a   *)
(* recording that is closed is complete, each source hands on what was sent   *)
(* but for what Reception.SourceKept excepts, the parser hears of no two      *)
(* silences in a row, and the ring is a first-in first-out queue.             *)
(***************************************************************************)
EXTENDS ReceivePath, SequenceTheorems, WellFoundedInduction, TLAPS

Records == Producers \X Nat
Dumping == {"dump", "make", "push"}
Holds(s, x) == \E i \in 1..Len(s) : s[i] = x

\* In a sequence, and from one to another, the packets of a receiver come in their order.
Ascends(s) == \A i, j \in 1..Len(s) : i < j /\ s[i][1] = s[j][1] => s[i][2] < s[j][2]
Precedes(s, u) == \A i \in 1..Len(s), j \in 1..Len(u) : s[i][1] = u[j][1] => s[i][2] < u[j][2]

\* A packet that is on its way to the recorder is not one that it has.
Received(s, n, d) ==
  \A i \in 1..Len(s) : /\ s[i][2] <= n[s[i][1]]
                       /\ d[s[i][1]] \in Dumping => s[i][2] < n[s[i][1]]

SaverTypes ==
  /\ file \in Seq(Records) /\ buffer \in Seq(Records) /\ cache \in Seq(Records)
  /\ count \in [Producers -> Nat] /\ dumper \in [Producers -> Dumping \cup {"receive"}]
  /\ writer \in {"none", "running"} /\ user \in {"idle", "recording", "starting", "stopping"}
  /\ owed \subseteq Records

\* File, buffer and ring are parts of one sequence, in which nothing is twice.
OrderInv ==
  /\ Ascends(file) /\ Ascends(buffer) /\ Ascends(cache)
  /\ Precedes(file, buffer) /\ Precedes(file, cache) /\ Precedes(buffer, cache)
  /\ \A s \in {file, buffer, cache} : Received(s, count, dumper)

\* What is owed has not been lost: it is in the file, or on its way there while somebody
\* brings it.
KeepInv ==
  /\ ~made => cache = <<>> /\ ~remade
  /\ \A r \in Producers : dumper[r] = "push" => made
  /\ user = "recording" => writer = "running" /\ dumping
  /\ user = "idle" => writer = "none"
  /\ recorded /\ ~remade =>
       \A x \in owed : Holds(file, x) \/ (writer = "running" /\ (Holds(buffer, x) \/ Holds(cache, x)))

SaverInv == SaverTypes /\ OrderInv /\ KeepInv
-----------------------------------------------------------------------------
(***************************************************************************)
(* Sequences of packets                                                    *)
(***************************************************************************)
LEMMA HoldsConcat ==
  ASSUME NEW S, NEW s \in Seq(S), NEW u \in Seq(S), NEW x, Holds(s, x) \/ Holds(u, x)
  PROVE  Holds(s \o u, x)
<1>1. /\ Len(s) \in Nat /\ Len(u) \in Nat /\ Len(s \o u) = Len(s) + Len(u)
      /\ \A i \in 1..(Len(s) + Len(u)) : (s \o u)[i] = IF i <= Len(s) THEN s[i] ELSE u[i - Len(s)]
  BY ConcatProperties, LenProperties
<1>2. ASSUME NEW i \in 1..Len(s), s[i] = x PROVE Holds(s \o u, x)
  BY <1>1, <1>2 DEF Holds
<1>3. ASSUME NEW i \in 1..Len(u), u[i] = x PROVE Holds(s \o u, x)
  <2> DEFINE k == i + Len(s)
  <2>1. k \in 1..(Len(s) + Len(u)) /\ ~(k <= Len(s)) /\ k - Len(s) = i
    BY <1>1
  <2> HIDE DEF k
  <2>2. (s \o u)[k] = u[i]
    BY <1>1, <2>1
  <2> QED
    BY <1>1, <1>3, <2>1, <2>2 DEF Holds
<1> QED
  BY <1>2, <1>3 DEF Holds

LEMMA HoldsAppend ==
  ASSUME NEW S, NEW s \in Seq(S), NEW e \in S
  PROVE  Holds(Append(s, e), e) /\ \A x : Holds(s, x) => Holds(Append(s, e), x)
<1>1. /\ Len(s) \in Nat /\ Len(Append(s, e)) = Len(s) + 1 /\ Append(s, e)[Len(s) + 1] = e
      /\ \A i \in 1..Len(s) : Append(s, e)[i] = s[i]
  BY AppendProperties, LenProperties
<1> QED
  BY <1>1 DEF Holds

LEMMA HoldsTail ==
  ASSUME NEW S, NEW s \in Seq(S), s # <<>>, NEW x, Holds(s, x)
  PROVE  x = Head(s) \/ Holds(Tail(s), x)
<1>1. /\ Len(s) \in Nat /\ Len(s) >= 1 /\ Head(s) = s[1] /\ Len(Tail(s)) = Len(s) - 1
      /\ \A i \in 1..Len(Tail(s)) : Tail(s)[i] = s[i + 1]
  OBVIOUS
<1>2. PICK i \in 1..Len(s) : s[i] = x
  BY DEF Holds
<1>3. CASE i > 1
  <2> DEFINE k == i - 1
  <2>1. k \in 1..Len(Tail(s)) /\ k + 1 = i
    BY <1>1, <1>2, <1>3
  <2> HIDE DEF k
  <2> QED
    BY <1>1, <1>2, <2>1 DEF Holds
<1> QED
  BY <1>1, <1>2, <1>3

LEMMA AscendsConcat ==
  ASSUME NEW S, NEW s \in Seq(S), NEW u \in Seq(S), Ascends(s), Ascends(u), Precedes(s, u)
  PROVE  Ascends(s \o u)
<1>1. /\ Len(s) \in Nat /\ Len(u) \in Nat /\ Len(s \o u) = Len(s) + Len(u)
      /\ \A i \in 1..(Len(s) + Len(u)) : (s \o u)[i] = IF i <= Len(s) THEN s[i] ELSE u[i - Len(s)]
  BY ConcatProperties, LenProperties
<1> SUFFICES ASSUME NEW i \in 1..Len(s \o u), NEW j \in 1..Len(s \o u), i < j,
                    (s \o u)[i][1] = (s \o u)[j][1]
             PROVE  (s \o u)[i][2] < (s \o u)[j][2]
  BY DEF Ascends
<1>2. CASE j <= Len(s)
  <2>1. i \in 1..Len(s) /\ j \in 1..Len(s) /\ (s \o u)[i] = s[i] /\ (s \o u)[j] = s[j]
    BY <1>1, <1>2
  <2> QED
    BY <2>1 DEF Ascends
<1>3. CASE i <= Len(s) /\ ~(j <= Len(s))
  <2>1. /\ i \in 1..Len(s) /\ j - Len(s) \in 1..Len(u)
        /\ (s \o u)[i] = s[i] /\ (s \o u)[j] = u[j - Len(s)]
    BY <1>1, <1>3
  <2> QED
    BY <2>1 DEF Precedes
<1>4. CASE ~(i <= Len(s))
  <2>1. /\ i - Len(s) \in 1..Len(u) /\ j - Len(s) \in 1..Len(u) /\ i - Len(s) < j - Len(s)
        /\ (s \o u)[i] = u[i - Len(s)] /\ (s \o u)[j] = u[j - Len(s)]
    BY <1>1, <1>4
  <2> QED
    BY <2>1 DEF Ascends
<1> QED
  BY <1>2, <1>3, <1>4, <1>1

LEMMA PrecedesConcat ==
  ASSUME NEW S, NEW s \in Seq(S), NEW u \in Seq(S), NEW v, Precedes(s, v), Precedes(u, v)
  PROVE  Precedes(s \o u, v)
<1>1. /\ Len(s) \in Nat /\ Len(u) \in Nat /\ Len(s \o u) = Len(s) + Len(u)
      /\ \A i \in 1..(Len(s) + Len(u)) : (s \o u)[i] = IF i <= Len(s) THEN s[i] ELSE u[i - Len(s)]
  BY ConcatProperties, LenProperties
<1> SUFFICES ASSUME NEW i \in 1..Len(s \o u), NEW j \in 1..Len(v), (s \o u)[i][1] = v[j][1]
             PROVE  (s \o u)[i][2] < v[j][2]
  BY DEF Precedes
<1>2. CASE i <= Len(s)
  <2>1. i \in 1..Len(s) /\ (s \o u)[i] = s[i]
    BY <1>1, <1>2
  <2> QED
    BY <2>1 DEF Precedes
<1>3. CASE ~(i <= Len(s))
  <2>1. i - Len(s) \in 1..Len(u) /\ (s \o u)[i] = u[i - Len(s)]
    BY <1>1, <1>3
  <2> QED
    BY <2>1 DEF Precedes
<1> QED
  BY <1>2, <1>3

LEMMA PrecededConcat ==
  ASSUME NEW S, NEW s \in Seq(S), NEW u \in Seq(S), NEW v, Precedes(v, s), Precedes(v, u)
  PROVE  Precedes(v, s \o u)
<1>1. /\ Len(s) \in Nat /\ Len(u) \in Nat /\ Len(s \o u) = Len(s) + Len(u)
      /\ \A i \in 1..(Len(s) + Len(u)) : (s \o u)[i] = IF i <= Len(s) THEN s[i] ELSE u[i - Len(s)]
  BY ConcatProperties, LenProperties
<1> SUFFICES ASSUME NEW i \in 1..Len(v), NEW j \in 1..Len(s \o u), v[i][1] = (s \o u)[j][1]
             PROVE  v[i][2] < (s \o u)[j][2]
  BY DEF Precedes
<1>2. CASE j <= Len(s)
  <2>1. j \in 1..Len(s) /\ (s \o u)[j] = s[j]
    BY <1>1, <1>2
  <2> QED
    BY <2>1 DEF Precedes
<1>3. CASE ~(j <= Len(s))
  <2>1. j - Len(s) \in 1..Len(u) /\ (s \o u)[j] = u[j - Len(s)]
    BY <1>1, <1>3
  <2> QED
    BY <2>1 DEF Precedes
<1> QED
  BY <1>2, <1>3

LEMMA ReceivedConcat ==
  ASSUME NEW S, NEW s \in Seq(S), NEW u \in Seq(S), NEW n, NEW d,
         Received(s, n, d), Received(u, n, d)
  PROVE  Received(s \o u, n, d)
<1>1. /\ Len(s) \in Nat /\ Len(u) \in Nat /\ Len(s \o u) = Len(s) + Len(u)
      /\ \A i \in 1..(Len(s) + Len(u)) : (s \o u)[i] = IF i <= Len(s) THEN s[i] ELSE u[i - Len(s)]
  BY ConcatProperties, LenProperties
<1>2. ASSUME NEW i \in 1..Len(s \o u)
      PROVE  \/ \E k \in 1..Len(s) : (s \o u)[i] = s[k]
             \/ \E k \in 1..Len(u) : (s \o u)[i] = u[k]
  <2>1. CASE i <= Len(s)
    <3>1. i \in 1..Len(s) /\ (s \o u)[i] = s[i]
      BY <1>1, <2>1
    <3> QED
      BY <3>1
  <2>2. CASE ~(i <= Len(s))
    <3>1. i - Len(s) \in 1..Len(u) /\ (s \o u)[i] = u[i - Len(s)]
      BY <1>1, <2>2
    <3> QED
      BY <3>1
  <2> QED
    BY <2>1, <2>2
<1> QED
  BY <1>2 DEF Received

\* The first element of a sequence in order, and the rest.
LEMMA OrderedTail ==
  ASSUME NEW S, NEW s \in Seq(S), s # <<>>, Ascends(s)
  PROVE  /\ Head(s) = s[1] /\ 1 \in 1..Len(s) /\ Tail(s) \in Seq(S)
         /\ \A i \in 1..Len(Tail(s)) : i + 1 \in 1..Len(s) /\ Tail(s)[i] = s[i + 1]
         /\ Ascends(Tail(s)) /\ Precedes(<<Head(s)>>, Tail(s))
<1>1. /\ Len(s) \in Nat /\ Len(s) >= 1 /\ Head(s) = s[1] /\ Len(Tail(s)) = Len(s) - 1
      /\ Tail(s) \in Seq(S)
      /\ \A i \in 1..Len(Tail(s)) : Tail(s)[i] = s[i + 1]
  OBVIOUS
<1>2. \A i \in 1..Len(Tail(s)) : i + 1 \in 1..Len(s) /\ 1 < i + 1
  BY <1>1
<1>3. Ascends(Tail(s))
  <2> SUFFICES ASSUME NEW i \in 1..Len(Tail(s)), NEW j \in 1..Len(Tail(s)), i < j,
                      Tail(s)[i][1] = Tail(s)[j][1]
               PROVE  Tail(s)[i][2] < Tail(s)[j][2]
    BY DEF Ascends
  <2>1. i + 1 < j + 1
    OBVIOUS
  <2> QED
    BY <1>1, <1>2, <2>1 DEF Ascends
<1>4. Precedes(<<Head(s)>>, Tail(s))
  <2> SUFFICES ASSUME NEW i \in 1..Len(<<Head(s)>>), NEW j \in 1..Len(Tail(s)),
                      <<Head(s)>>[i][1] = Tail(s)[j][1]
               PROVE  <<Head(s)>>[i][2] < Tail(s)[j][2]
    BY DEF Precedes
  <2>1. <<Head(s)>>[i] = s[1] /\ 1 \in 1..Len(s)
    BY <1>1
  <2> QED
    BY <1>1, <1>2, <2>1 DEF Ascends
<1> QED
  BY <1>1, <1>2, <1>3, <1>4
\* A new packet comes after all that the recorder has.
LEMMA NewestLast ==
  ASSUME NEW s \in Seq(Records), NEW n, NEW d, NEW r, Received(s, n, d), d[r] \in Dumping
  PROVE  Precedes(s, << <<r, n[r]>> >>)
BY DEF Precedes, Received

\* A receiver counts a packet, or goes from one place to the next.
LEMMA ReceivedMoves ==
  ASSUME NEW s \in Seq(Records), NEW n \in [Producers -> Nat], NEW d, NEW m, NEW e, NEW r \in Producers,
         Received(s, n, d), DOMAIN d = Producers,
         \E place : e = [d EXCEPT ![r] = place],
         \/ m = [n EXCEPT ![r] = @ + 1]
         \/ m = n /\ (e[r] \in Dumping => d[r] \in Dumping)
  PROVE  Received(s, m, e)
<1> SUFFICES ASSUME NEW i \in 1..Len(s)
             PROVE  /\ s[i][2] <= m[s[i][1]]
                    /\ e[s[i][1]] \in Dumping => s[i][2] < m[s[i][1]]
  BY DEF Received
<1> DEFINE g == s[i][1]
           k == s[i][2]
<1>1. g \in Producers /\ k \in Nat
  BY ElementOfSeq DEF Records
<1>2. k <= n[g] /\ (d[g] \in Dumping => k < n[g]) /\ n[g] \in Nat
  BY <1>1 DEF Received
<1>3. g # r => e[g] = d[g] /\ m[g] = n[g]
  BY <1>1
<1>4. g = r => m[g] = n[g] + 1 \/ (m[g] = n[g] /\ (e[g] \in Dumping => d[g] \in Dumping))
  BY <1>1
<1> HIDE DEF g, k
<1>5. k <= m[g] /\ (e[g] \in Dumping => k < m[g])
  BY <1>1, <1>2, <1>3, <1>4
<1> QED
  BY <1>5 DEF g, k
-----------------------------------------------------------------------------
(***************************************************************************)
(* The steps of the recorder                                               *)
(***************************************************************************)
LEMMA InitSaver == Saver!SaverInit => SaverInv
<1> SUFFICES ASSUME Saver!SaverInit PROVE SaverInv
  OBVIOUS
<1>1. file = <<>> /\ buffer = <<>> /\ cache = <<>> /\ <<>> \in Seq(Records) /\ 1..Len(<<>>) = {}
  BY DEF Saver!SaverInit
<1>2. SaverTypes
  BY <1>1 DEF Saver!SaverInit, SaverTypes, Dumping
<1>3. OrderInv
  BY <1>1 DEF OrderInv, Ascends, Precedes, Received
<1>4. KeepInv
  BY DEF Saver!SaverInit, KeepInv
<1> QED
  BY <1>2, <1>3, <1>4 DEF SaverInv

\* What nobody wrote stays in order.
LEMMA SameOrder ==
  ASSUME OrderInv, UNCHANGED <<file, buffer, cache, count, dumper>>
  PROVE  OrderInv'
BY DEF OrderInv

\* A receiver on its way to the ring.
LEMMA ReceiverMoves ==
  ASSUME SaverInv, NEW r \in Producers,
         Saver!Receives(r) \/ Saver!SeesNone(r) \/ Saver!SeesRing(r)
  PROVE  SaverInv'
<1>1. /\ UNCHANGED <<file, buffer, cache, made, remade, writer, user, dumping, recorded, owed>>
      /\ \E place \in Dumping \cup {"receive"} : dumper' = [dumper EXCEPT ![r] = place]
  BY DEF Saver!Receives, Saver!SeesNone, Saver!SeesRing, Saver!userVars, Saver!cacheVars,
         Saver!fileVars, Saver!ReceiverGoes, Dumping
<1>2. \/ count' = [count EXCEPT ![r] = @ + 1]
      \/ count' = count /\ dumper[r] \in Dumping
  BY DEF Saver!Receives, Saver!SeesNone, Saver!SeesRing, Dumping
<1>3. SaverTypes'
  <2>1. dumper' \in [Producers -> Dumping \cup {"receive"}]
    BY <1>1 DEF SaverInv, SaverTypes
  <2>2. count' \in [Producers -> Nat]
    <3>1. CASE count' = [count EXCEPT ![r] = @ + 1]
      BY <3>1 DEF SaverInv, SaverTypes
    <3>2. CASE count' = count
      BY <3>2 DEF SaverInv, SaverTypes
    <3> QED
      BY <1>2, <3>1, <3>2
  <2> QED
    BY <1>1, <2>1, <2>2 DEF SaverInv, SaverTypes
<1>4. \A s \in {file, buffer, cache} : Received(s, count', dumper')
  <2> SUFFICES ASSUME NEW s \in {file, buffer, cache} PROVE Received(s, count', dumper')
    OBVIOUS
  <2>1. /\ s \in Seq(Records) /\ count \in [Producers -> Nat] /\ DOMAIN dumper = Producers
        /\ Received(s, count, dumper)
    BY DEF SaverInv, SaverTypes, OrderInv
  <2> DEFINE m == count'
             e == dumper'
  <2>2. /\ \E place : e = [dumper EXCEPT ![r] = place]
        /\ \/ m = [count EXCEPT ![r] = @ + 1]
           \/ m = count /\ (e[r] \in Dumping => dumper[r] \in Dumping)
    BY <1>1, <1>2
  <2> HIDE DEF m, e
  <2>3. Received(s, m, e)
    BY <2>1, <2>2, ReceivedMoves
  <2> QED
    BY <2>3 DEF m, e
<1>5. OrderInv'
  BY <1>1, <1>4 DEF SaverInv, OrderInv
<1>6. KeepInv'
  <2>1. dumper'[r] = "push" => made
    BY DEF Saver!Receives, Saver!SeesNone, Saver!SeesRing, Saver!ReceiverGoes, SaverInv, SaverTypes
  <2>2. \A g \in Producers : g # r => dumper'[g] = dumper[g]
    BY <1>1 DEF SaverInv, SaverTypes
  <2>3. \A g \in Producers : dumper'[g] = "push" => made
    BY <2>1, <2>2 DEF SaverInv, KeepInv
  <2> QED
    BY <1>1, <2>3 DEF SaverInv, KeepInv
<1> QED
  BY <1>3, <1>5, <1>6 DEF SaverInv

\* A ring is made: the one that was there is lost with what it held.
LEMMA ReceiverMakes ==
  ASSUME SaverInv, NEW r \in Producers, Saver!Makes(r)
  PROVE  SaverInv'
<1>1. /\ UNCHANGED <<file, buffer, count, writer, user, dumping, recorded, owed>>
      /\ made' = TRUE /\ cache' = <<>> /\ remade' = made
      /\ dumper[r] = "make" /\ dumper' = [dumper EXCEPT ![r] = "push"]
  BY DEF Saver!Makes, Saver!userVars, Saver!fileVars, Saver!ReceiverGoes
<1>2. SaverTypes'
  <2>1. dumper' \in [Producers -> Dumping \cup {"receive"}]
    BY <1>1 DEF SaverInv, SaverTypes, Dumping
  <2>2. <<>> \in Seq(Records)
    OBVIOUS
  <2> QED
    BY <1>1, <2>1, <2>2 DEF SaverInv, SaverTypes
<1>3. \A s \in {file, buffer} : Received(s, count, dumper')
  <2> SUFFICES ASSUME NEW s \in {file, buffer} PROVE Received(s, count, dumper')
    OBVIOUS
  <2>1. /\ s \in Seq(Records) /\ count \in [Producers -> Nat] /\ DOMAIN dumper = Producers
        /\ Received(s, count, dumper)
    BY DEF SaverInv, SaverTypes, OrderInv
  <2> DEFINE e == dumper'
  <2>2. (\E place : e = [dumper EXCEPT ![r] = place]) /\ dumper[r] \in Dumping
    BY <1>1 DEF Dumping
  <2> HIDE DEF e
  <2>3. Received(s, count, e)
    BY <2>1, <2>2, ReceivedMoves
  <2> QED
    BY <2>3 DEF e
<1>4. OrderInv'
  <2>1. 1..Len(<<>>) = {}
    OBVIOUS
  <2>2. Ascends(<<>>) /\ (\A s : Precedes(s, <<>>)) /\ Received(<<>>, count, dumper')
    BY <2>1 DEF Ascends, Precedes, Received
  <2> QED
    BY <1>1, <1>3, <2>2 DEF SaverInv, OrderInv
<1>5. KeepInv'
  <2>1. ~remade' => ~made /\ ~remade /\ cache = <<>>
    BY <1>1 DEF SaverInv, KeepInv
  <2>2. \A x : ~Holds(<<>>, x)
    BY DEF Holds
  <2>3. recorded' /\ ~remade' =>
          \A x \in owed' : Holds(file', x) \/ (writer' = "running" /\ (Holds(buffer', x) \/ Holds(cache', x)))
    BY <1>1, <2>1, <2>2 DEF SaverInv, KeepInv
  <2> QED
    BY <1>1, <2>3 DEF SaverInv, KeepInv
<1> QED
  BY <1>2, <1>4, <1>5 DEF SaverInv
\* A packet comes into the ring, and is owed if the recording is on.
LEMMA ReceiverPushes ==
  ASSUME SaverInv, NEW r \in Producers, Saver!Pushes(r)
  PROVE  SaverInv'
<1> DEFINE p == <<r, count[r]>>
           u == <<p>>
<1>1. /\ UNCHANGED <<file, buffer, count, writer, user, dumping, recorded, made, remade>>
      /\ cache' = Append(cache, p)
      /\ owed' = IF user = "recording" THEN owed \cup {p} ELSE owed
      /\ dumper[r] = "push" /\ dumper' = [dumper EXCEPT ![r] = "receive"]
  BY DEF Saver!Pushes, Saver!Packet, Saver!userVars, Saver!fileVars, Saver!ReceiverGoes
<1>2. p \in Records /\ u \in Seq(Records) /\ cache \in Seq(Records)
  BY DEF SaverInv, SaverTypes, Records
<1>3. cache' \in Seq(Records) /\ cache' = cache \o u
  BY <1>1, <1>2, AppendProperties, AppendIsConcat
<1>4. SaverTypes'
  <2>1. dumper' \in [Producers -> Dumping \cup {"receive"}]
    BY <1>1 DEF SaverInv, SaverTypes
  <2>2. owed' \subseteq Records
    BY <1>1, <1>2 DEF SaverInv, SaverTypes
  <2> QED
    BY <1>1, <1>3, <2>1, <2>2 DEF SaverInv, SaverTypes
<1>5. \A s \in {file, buffer, cache} : Received(s, count, dumper') /\ Precedes(s, u)
  <2> SUFFICES ASSUME NEW s \in {file, buffer, cache} PROVE Received(s, count, dumper') /\ Precedes(s, u)
    OBVIOUS
  <2>1. /\ s \in Seq(Records) /\ count \in [Producers -> Nat] /\ DOMAIN dumper = Producers
        /\ Received(s, count, dumper) /\ dumper[r] \in Dumping
    BY <1>1 DEF SaverInv, SaverTypes, OrderInv, Dumping
  <2> DEFINE e == dumper'
  <2>2. (\E place : e = [dumper EXCEPT ![r] = place]) /\ dumper[r] \in Dumping
    BY <1>1, <2>1
  <2> HIDE DEF e
  <2>3. Received(s, count, e)
    BY <2>1, <2>2, ReceivedMoves
  <2>4. Precedes(s, << <<r, count[r]>> >>)
    BY <2>1, NewestLast
  <2> QED
    BY <2>3, <2>4 DEF e
<1>6. Ascends(u) /\ Received(u, count, dumper')
  <2>1. Len(u) = 1 /\ u[1] = p /\ p[1] = r /\ p[2] = count[r] /\ dumper'[r] = "receive" /\ count[r] \in Nat
    BY <1>1 DEF SaverInv, SaverTypes
  <2> HIDE DEF u, p
  <2> QED
    BY <2>1 DEF Ascends, Received, Dumping
<1>7. OrderInv'
  <2> HIDE DEF u, p
  <2>1. Ascends(cache) /\ Precedes(cache, u) /\ Received(cache, count, dumper')
    BY <1>5 DEF SaverInv, OrderInv
  <2> DEFINE e == dumper'
  <2>2. Received(cache, count, e) /\ Received(u, count, e)
    BY <2>1, <1>6
  <2> HIDE DEF e
  <2>3. Ascends(cache \o u) /\ Received(cache \o u, count, e)
    BY <2>1, <2>2, <1>2, <1>6, AscendsConcat, ReceivedConcat
  <2>4. \A s \in {file, buffer} : Precedes(s, cache \o u)
    <3> SUFFICES ASSUME NEW s \in {file, buffer} PROVE Precedes(s, cache \o u)
      OBVIOUS
    <3>1. Precedes(s, cache) /\ Precedes(s, u)
      BY <1>5 DEF SaverInv, OrderInv
    <3> QED
      BY <3>1, <1>2, PrecededConcat
  <2>5. \A s \in {file, buffer, cache \o u} : Received(s, count, e)
    BY <1>5, <2>3 DEF e
  <2> QED
    BY <1>1, <1>3, <2>3, <2>4, <2>5 DEF SaverInv, OrderInv, e
<1>8. KeepInv'
  <2>1. Holds(cache', p) /\ \A x : Holds(cache, x) => Holds(cache', x)
    BY <1>1, <1>2, HoldsAppend
  <2>2. made /\ made' = made
    BY <1>1 DEF SaverInv, KeepInv
  <2>3. user = "recording" => writer = "running"
    BY DEF SaverInv, KeepInv
  <2>4. \A x \in owed' : x \in owed \/ (x = p /\ user = "recording")
    BY <1>1
  <2> HIDE DEF p
  <2>5. recorded' /\ ~remade' =>
          \A x \in owed' : Holds(file', x) \/ (writer' = "running" /\ (Holds(buffer', x) \/ Holds(cache', x)))
    BY <1>1, <2>1, <2>3, <2>4 DEF SaverInv, KeepInv
  <2> QED
    BY <1>1, <2>2, <2>5 DEF SaverInv, KeepInv
<1> QED
  BY <1>4, <1>7, <1>8 DEF SaverInv
\* The recorder's thread takes a packet out of the ring.
LEMMA WriterTakesOne ==
  ASSUME SaverInv, Saver!WriterTakes
  PROVE  SaverInv'
<1> DEFINE p == Head(cache)
           u == <<p>>
           rest == Tail(cache)
<1>1. /\ UNCHANGED <<count, dumper, writer, user, dumping, recorded, owed, made, remade>>
      /\ writer = "running" /\ made /\ cache # <<>> /\ cache' = rest
      /\ \/ file' = file \o buffer /\ buffer' = u
         \/ file' = file /\ buffer' = Append(buffer, p)
  BY DEF Saver!WriterTakes, Saver!Writes, Saver!userVars
<1>2. /\ file \in Seq(Records) /\ buffer \in Seq(Records) /\ cache \in Seq(Records)
  BY DEF SaverInv, SaverTypes
<1>3. /\ p = cache[1] /\ 1 \in 1..Len(cache) /\ rest \in Seq(Records)
      /\ \A i \in 1..Len(rest) : i + 1 \in 1..Len(cache) /\ rest[i] = cache[i + 1]
      /\ Ascends(rest) /\ Precedes(u, rest)
  BY <1>1, <1>2, OrderedTail DEF SaverInv, OrderInv
<1>4. p \in Records /\ u \in Seq(Records) /\ Len(u) = 1 /\ u[1] = p
  BY <1>1, <1>2, <1>3, ElementOfSeq
<1> HIDE DEF p, rest
<1>5. /\ Ascends(u) /\ Precedes(file, u) /\ Precedes(buffer, u) /\ Received(u, count, dumper)
  <2> HIDE DEF u
  <2>1. Precedes(file, cache) /\ Precedes(buffer, cache) /\ Received(cache, count, dumper)
    BY DEF SaverInv, OrderInv
  <2> QED
    BY <1>3, <1>4, <2>1 DEF Ascends, Precedes, Received
<1>6. /\ Precedes(file, rest) /\ Precedes(buffer, rest) /\ Received(rest, count, dumper)
  <2>1. Precedes(file, cache) /\ Precedes(buffer, cache) /\ Received(cache, count, dumper)
    BY DEF SaverInv, OrderInv
  <2> QED
    BY <1>3, <2>1, SMTT(30), ZenonT(30) DEF Precedes, Received
<1>7. /\ Ascends(file) /\ Ascends(buffer) /\ Precedes(file, buffer)
      /\ Received(file, count, dumper) /\ Received(buffer, count, dumper)
  BY DEF SaverInv, OrderInv
<1>8. Append(buffer, p) = buffer \o u /\ buffer \o u \in Seq(Records) /\ file \o buffer \in Seq(Records)
  BY <1>2, <1>4, AppendIsConcat, ConcatProperties
<1> HIDE DEF u
<1>9. /\ Ascends(file \o buffer) /\ Ascends(buffer \o u)
      /\ Precedes(file \o buffer, u) /\ Precedes(file \o buffer, rest)
      /\ Precedes(file, buffer \o u) /\ Precedes(buffer \o u, rest)
      /\ Received(file \o buffer, count, dumper) /\ Received(buffer \o u, count, dumper)
  <2>1. Ascends(file \o buffer) /\ Ascends(buffer \o u)
    BY <1>2, <1>4, <1>5, <1>7, AscendsConcat
  <2>2. Precedes(file \o buffer, u) /\ Precedes(file \o buffer, rest) /\ Precedes(buffer \o u, rest)
    BY <1>2, <1>3, <1>4, <1>5, <1>6, <1>7, PrecedesConcat
  <2>3. Precedes(file, buffer \o u)
    BY <1>2, <1>4, <1>5, <1>7, PrecededConcat
  <2>4. Received(file \o buffer, count, dumper) /\ Received(buffer \o u, count, dumper)
    BY <1>2, <1>4, <1>5, <1>7, ReceivedConcat
  <2> QED
    BY <2>1, <2>2, <2>3, <2>4
<1>10. OrderInv'
  <2>1. CASE file' = file \o buffer /\ buffer' = u
    BY <1>1, <1>3, <1>5, <1>6, <1>9, <2>1 DEF OrderInv
  <2>2. CASE file' = file /\ buffer' = buffer \o u
    BY <1>1, <1>3, <1>5, <1>6, <1>7, <1>9, <2>2 DEF OrderInv
  <2> QED
    BY <1>1, <1>8, <2>1, <2>2
<1>11. SaverTypes'
  BY <1>1, <1>2, <1>3, <1>4, <1>8 DEF SaverInv, SaverTypes
<1>12. KeepInv'
  <2>1. ASSUME NEW x, Holds(file, x) \/ Holds(buffer, x) \/ Holds(cache, x)
        PROVE  Holds(file', x) \/ Holds(buffer', x) \/ Holds(cache', x)
    <3>1. Holds(cache, x) => x = p \/ Holds(rest, x)
      BY <1>1, <1>2, HoldsTail DEF p, rest
    <3>2. Holds(u, p)
      BY <1>4 DEF Holds, u
    <3>3. Holds(file, x) \/ Holds(buffer, x) => Holds(file \o buffer, x)
      BY <1>2, HoldsConcat
    <3>4. Holds(buffer, x) \/ Holds(u, x) => Holds(buffer \o u, x)
      BY <1>2, <1>4, HoldsConcat
    <3> QED
      BY <1>1, <1>8, <2>1, <3>1, <3>2, <3>3, <3>4
  <2>2. recorded' /\ ~remade' =>
          \A x \in owed' : Holds(file', x) \/ (writer' = "running" /\ (Holds(buffer', x) \/ Holds(cache', x)))
    BY <1>1, <2>1 DEF SaverInv, KeepInv
  <2> QED
    BY <1>1, <2>2 DEF SaverInv, KeepInv
<1> QED
  BY <1>10, <1>11, <1>12 DEF SaverInv

\* The buffer goes to the file, also when the thread ends.
LEMMA WriterFlushesAll ==
  ASSUME SaverInv, Saver!WriterFlushes \/ Saver!WriterEnds
  PROVE  SaverInv'
<1>1. /\ UNCHANGED <<count, dumper, user, dumping, recorded, owed, made, remade, cache>>
      /\ writer = "running" /\ file' = file \o buffer /\ buffer' = <<>>
      /\ \/ writer' = writer
         \/ writer' = "none" /\ ~dumping /\ (~made \/ cache = <<>>)
  BY DEF Saver!WriterFlushes, Saver!WriterEnds, Saver!NothingLeft, Saver!userVars, Saver!cacheVars
<1>2. file \in Seq(Records) /\ buffer \in Seq(Records) /\ <<>> \in Seq(Records) /\ 1..Len(<<>>) = {}
  BY DEF SaverInv, SaverTypes
<1>3. file \o buffer \in Seq(Records)
  BY <1>2, ConcatProperties
<1>4. SaverTypes'
  BY <1>1, <1>2, <1>3 DEF SaverInv, SaverTypes
<1>5. /\ Ascends(file) /\ Ascends(buffer) /\ Ascends(cache)
      /\ Precedes(file, buffer) /\ Precedes(file, cache) /\ Precedes(buffer, cache)
      /\ Received(file, count, dumper) /\ Received(buffer, count, dumper) /\ Received(cache, count, dumper)
  BY DEF SaverInv, OrderInv
<1>6. Ascends(file \o buffer) /\ Precedes(file \o buffer, cache) /\ Received(file \o buffer, count, dumper)
  BY <1>2, <1>5, AscendsConcat, PrecedesConcat, ReceivedConcat
<1>7. Ascends(<<>>) /\ (\A s : Precedes(s, <<>>) /\ Precedes(<<>>, s)) /\ Received(<<>>, count, dumper)
  BY <1>2 DEF Ascends, Precedes, Received
<1>8. OrderInv'
  BY <1>1, <1>5, <1>6, <1>7 DEF OrderInv
<1>9. KeepInv'
  <2>1. \A x : Holds(file, x) \/ Holds(buffer, x) => Holds(file', x)
    BY <1>1, <1>2, HoldsConcat
  <2>2. \A x : ~Holds(<<>>, x)
    BY <1>2 DEF Holds
  <2>3. writer' = writer \/ cache = <<>>
    BY <1>1 DEF SaverInv, KeepInv
  <2>4. recorded' /\ ~remade' =>
          \A x \in owed' : Holds(file', x) \/ (writer' = "running" /\ (Holds(buffer', x) \/ Holds(cache', x)))
    BY <1>1, <2>1, <2>2, <2>3 DEF SaverInv, KeepInv
  <2> QED
    BY <1>1, <2>4 DEF SaverInv, KeepInv
<1> QED
  BY <1>4, <1>8, <1>9 DEF SaverInv

\* Start and stop: the file is closed only when its thread has ended.
LEMMA UserCalls ==
  ASSUME SaverInv, Saver!UserStep
  PROVE  SaverInv'
<1>1. UNCHANGED <<count, dumper, made, remade, cache, buffer>>
  BY DEF Saver!UserStep, Saver!Calls, Saver!StopReturns, Saver!StartReturns, Saver!StartFails,
         Saver!cacheVars, Saver!fileVars
<1>2. CASE \E on \in BOOLEAN : Saver!Calls(on)
  <2>1. /\ UNCHANGED <<file, recorded, owed, writer>> /\ user' \in {"starting", "stopping"}
    BY <1>2 DEF Saver!Calls, Saver!fileVars
  <2>2. SaverTypes' /\ OrderInv'
    BY <1>1, <2>1 DEF SaverInv, SaverTypes, OrderInv
  <2>3. KeepInv'
    BY <1>1, <2>1 DEF SaverInv, KeepInv
  <2> QED
    BY <2>2, <2>3 DEF SaverInv
<1>3. CASE Saver!StopReturns \/ Saver!StartReturns \/ Saver!StartFails
  <2>1. /\ file' = <<>> /\ owed' = {} /\ writer = "none"
        /\ \/ user' = "idle" /\ writer' = writer
           \/ user' = "recording" /\ writer' = "running" /\ dumping'
    BY <1>3 DEF Saver!StopReturns, Saver!StartReturns, Saver!StartFails, Saver!Closed
  <2>2. <<>> \in Seq(Records) /\ 1..Len(<<>>) = {}
    OBVIOUS
  <2>3. SaverTypes'
    BY <1>1, <2>1, <2>2 DEF SaverInv, SaverTypes
  <2>4. Ascends(<<>>) /\ (\A s : Precedes(<<>>, s)) /\ Received(<<>>, count, dumper)
    BY <2>2 DEF Ascends, Precedes, Received
  <2>5. OrderInv'
    BY <1>1, <2>1, <2>4 DEF SaverInv, OrderInv
  <2>6. KeepInv'
    BY <1>1, <2>1 DEF SaverInv, KeepInv
  <2> QED
    BY <2>3, <2>5, <2>6 DEF SaverInv
<1> QED
  BY <1>2, <1>3 DEF Saver!UserStep

LEMMA NextSaver == ASSUME SaverInv, [PathNext]_pathVars PROVE SaverInv'
<1>1. CASE UNCHANGED saverVars
  BY <1>1 DEF SaverInv, SaverTypes, OrderInv, KeepInv, saverVars
<1>2. CASE Saver!SaverNext
  BY <1>2, ReceiverMoves, ReceiverMakes, ReceiverPushes, WriterTakesOne, WriterFlushesAll, UserCalls
     DEF Saver!SaverNext, Saver!Dumps, Saver!WriterStep
<1> QED
  BY <1>1, <1>2 DEF PathNext, OfRing, OfSource, OfRecorder, pathVars

\* A file that StopRecordPcap or the next StartRecordPcap closes has every packet that was
\* dumped while the recording was on, unless a ring was made twice, and the packets of a
\* receiver in their order: for any receivers, room of the ring and of the buffer, and calls.
THEOREM RecordingsAreComplete == PathSpec => []RecordingComplete
<1>1. PathInit => SaverInv
  BY InitSaver DEF PathInit
<1>2. SaverInv /\ [PathNext]_pathVars => SaverInv'
  BY NextSaver
<1>3. SaverInv => RecordingComplete
  <2> SUFFICES ASSUME SaverInv PROVE Saver!RecordingComplete
    BY DEF RecordingComplete
  <2>1. ASSUME Saver!Closed, recorded, ~remade, NEW x \in owed
        PROVE  \E i \in 1..Len(file) : file[i] = x
    BY <2>1 DEF Saver!Closed, SaverInv, KeepInv, Holds
  <2>2. Ascends(file)
    BY DEF SaverInv, OrderInv
  <2> QED
    BY <2>1, <2>2 DEF Saver!RecordingComplete, Ascends
<1> QED
  BY <1>1, <1>2, <1>3, PTL DEF PathSpec

-----------------------------------------------------------------------------
(***************************************************************************)
(* Silences in the ring of packets                                         *)
(***************************************************************************)
IsSequence(s) == \E S : s \in Seq(S)
PointsIn(s, places) == \E k \in places : s[k].kind = "points"

\* is_timeout_ is down only when points have come since the last silence.
SilenceInv ==
  /\ IsSequence(put)
  /\ TimeoutsApart
  /\ ~silent => \A i \in 1..Len(put) : put[i] = TimeoutPacket => PointsIn(put, i..Len(put))

LEMMA OneMore ==
  ASSUME NEW s, IsSequence(s), NEW e
  PROVE  /\ IsSequence(Append(s, e)) /\ Len(s) \in Nat /\ Len(Append(s, e)) = Len(s) + 1
         /\ Append(s, e)[Len(s) + 1] = e
         /\ \A i \in 1..Len(s) : Append(s, e)[i] = s[i]
<1>1. PICK S : s \in Seq(S)
  BY DEF IsSequence
<1> DEFINE T == S \cup {e}
<1>2. s \in Seq(T) /\ e \in T
  BY <1>1, SeqMonotonic
<1> HIDE DEF T
<1> QED
  BY <1>2, AppendProperties, LenProperties DEF IsSequence

LEMMA SilencesStay ==
  ASSUME SilenceInv, PutsIn(got)
  PROVE  SilenceInv'
<1>1. TimeoutPacket.kind = "timeout"
  BY DEF TimeoutPacket, Result
<1>2. CASE UNCHANGED <<put, silent>>
  BY <1>2 DEF SilenceInv, TimeoutsApart
<1>3. ASSUME NEW e, put' = Append(put, e),
             \/ e = TimeoutPacket /\ ~silent /\ silent'
             \/ e.kind = "points" /\ ~silent'
             \/ e.kind = "fault" /\ silent' = silent
      PROVE  SilenceInv'
  <2> DEFINE n == Len(put)
             s == Append(put, e)
  <2>1. /\ IsSequence(s) /\ n \in Nat /\ Len(s) = n + 1 /\ s[n + 1] = e
        /\ \A i \in 1..n : s[i] = put[i]
    BY OneMore DEF SilenceInv
  <2>2. put' = s
    BY <1>3
  <2> HIDE DEF s
  <2>3. ASSUME NEW i \in 1..Len(s), NEW j \in 1..Len(s), i < j, s[i] = TimeoutPacket, s[j] = TimeoutPacket
        PROVE  \E k \in i..j : s[k].kind = "points"
    <3>1. i \in 1..n /\ put[i] = TimeoutPacket
      BY <2>1, <2>3
    <3>2. CASE j \in 1..n
      <4>1. put[j] = TimeoutPacket
        BY <2>1, <2>3, <3>2
      <4>2. PICK k \in i..j : put[k].kind = "points"
        BY <2>3, <3>1, <3>2, <4>1 DEF SilenceInv, TimeoutsApart
      <4>3. k \in 1..n
        BY <3>1, <3>2, <2>1
      <4> QED
        BY <2>1, <4>2, <4>3
    <3>3. CASE j = n + 1
      <4>1. ~silent
        BY <1>1, <1>3, <2>1, <2>3, <3>3
      <4>2. PICK k \in i..n : put[k].kind = "points"
        BY <3>1, <4>1 DEF SilenceInv, PointsIn
      <4>3. k \in 1..n /\ k \in i..j
        BY <3>1, <3>3, <2>1
      <4> QED
        BY <2>1, <4>2, <4>3
    <3> QED
      BY <2>1, <3>2, <3>3
  <2>4. ASSUME ~silent', NEW i \in 1..Len(s), s[i] = TimeoutPacket
        PROVE  PointsIn(s, i..Len(s))
    <3>1. e.kind = "points" \/ (e.kind = "fault" /\ ~silent)
      BY <1>3, <2>4
    <3>2. CASE e.kind = "points"
      <4>1. n + 1 \in i..Len(s)
        BY <2>1
      <4> QED
        BY <2>1, <3>2, <4>1 DEF PointsIn
    <3>3. CASE e.kind = "fault" /\ ~silent
      <4>1. i \in 1..n /\ put[i] = TimeoutPacket
        BY <1>1, <2>1, <2>4, <3>3
      <4>2. PICK k \in i..n : put[k].kind = "points"
        BY <3>3, <4>1 DEF SilenceInv, PointsIn
      <4>3. k \in 1..n /\ k \in i..Len(s)
        BY <4>1, <2>1
      <4> QED
        BY <2>1, <4>2, <4>3 DEF PointsIn
    <3> QED
      BY <3>1, <3>2, <3>3
  <2> QED
    BY <2>1, <2>2, <2>3, <2>4 DEF SilenceInv, TimeoutsApart
<1> QED
  BY <1>2, <1>3 DEF PutsIn

\* Whatever a source returns and however long Run() takes, the parser is not told of two
\* silences without points between them.
THEOREM SilencesApart == PathSpec => []TimeoutsApart
<1>1. PathInit => SilenceInv
  <2> SUFFICES ASSUME PathInit PROVE SilenceInv
    OBVIOUS
  <2>1. put = <<>>
    BY DEF PathInit, ReceptionRests, ReceptionInit, StartsWith
  <2>2. 1..Len(put) = {} /\ IsSequence(put)
    BY <2>1 DEF IsSequence
  <2> QED
    BY <2>2 DEF SilenceInv, TimeoutsApart
<1>2. SilenceInv /\ [PathNext]_pathVars => SilenceInv'
  <2> SUFFICES ASSUME SilenceInv, [PathNext]_pathVars PROVE SilenceInv'
    OBVIOUS
  <2>1. UNCHANGED <<put, silent>> \/ PutsIn(got)
    BY DEF PathNext, OfRing, OfSource, OfRecorder, pathVars, receptionVars, threadVars, ReceptionNext,
           SourceRuns, Asks, SeesRoom, Takes
  <2>2. CASE UNCHANGED <<put, silent>>
    BY <2>2 DEF SilenceInv, TimeoutsApart
  <2> QED
    BY <2>1, <2>2, SilencesStay
<1>3. SilenceInv => TimeoutsApart
  BY DEF SilenceInv
<1> QED
  BY <1>1, <1>2, <1>3, PTL DEF PathSpec
-----------------------------------------------------------------------------
(***************************************************************************)
(* The ring: the indices stay within the array, and the array with its first *)
(* index and its size is a first-in first-out queue.                        *)
(***************************************************************************)
\* The ring wraps at most once: an index is less than two turns.
LEMMA WrapOnce ==
  ASSUME NEW n \in Nat \ {0}, NEW x \in 0..(2 * n - 1)
  PROVE  x % n = IF x < n THEN x ELSE x - n
OBVIOUS

\* The slot of a place of the contents.
SlotOf(b, i) == (b + i) % Capacity

LEMMA SlotOfWraps ==
  ASSUME NEW b \in Indices, NEW i \in 0..Capacity
  PROVE  SlotOf(b, i) = IF b + i < Capacity THEN b + i ELSE b + i - Capacity
<1> DEFINE x == b + i
<1>1. Capacity \in Nat \ {0} /\ x \in 0..(2 * Capacity - 1)
  BY RingAssumption DEF Indices
<1> HIDE DEF x
<1>2. x % Capacity = IF x < Capacity THEN x ELSE x - Capacity
  BY <1>1, WrapOnce
<1> QED
  BY <1>1, <1>2 DEF x, SlotOf, Indices

LEMMA SlotOfInRing == ASSUME NEW b \in Indices, NEW i \in 0..Capacity PROVE SlotOf(b, i) \in Indices
<1>1. SlotOf(b, i) = IF b + i < Capacity THEN b + i ELSE b + i - Capacity
  BY SlotOfWraps
<1> QED
  BY <1>1, RingAssumption DEF Indices

\* Two different places of the contents are two different slots.
LEMMA SlotsDiffer ==
  ASSUME NEW b \in Indices, NEW i \in 0..(Capacity - 1), NEW j \in 0..(Capacity - 1), i # j
  PROVE  SlotOf(b, i) \in Indices /\ SlotOf(b, i) # SlotOf(b, j)
<1>1. i \in 0..Capacity /\ j \in 0..Capacity /\ Capacity \in Nat \ {0}
  BY RingAssumption
<1>2. SlotOf(b, i) = (IF b + i < Capacity THEN b + i ELSE b + i - Capacity)
  BY <1>1, SlotOfWraps
<1>3. SlotOf(b, j) = (IF b + j < Capacity THEN b + j ELSE b + j - Capacity)
  BY <1>1, SlotOfWraps
<1> QED
  BY <1>1, <1>2, <1>3 DEF Indices

\* The first index moves on by one: the places behind it move up.
LEMMA MovesUp ==
  ASSUME NEW b \in Indices, NEW i \in 0..(Capacity - 1)
  PROVE  SlotOf(b, 1) \in Indices /\ SlotOf(SlotOf(b, 1), i) = SlotOf(b, i + 1)
<1>1. i \in 0..Capacity /\ i + 1 \in 0..Capacity /\ 1 \in 0..Capacity /\ Capacity \in Nat \ {0}
  BY RingAssumption
<1>2. SlotOf(b, 1) = (IF b + 1 < Capacity THEN b + 1 ELSE b + 1 - Capacity)
  BY <1>1, SlotOfWraps
<1>3. SlotOf(b, i + 1) = (IF b + (i + 1) < Capacity THEN b + (i + 1) ELSE b + (i + 1) - Capacity)
  BY <1>1, SlotOfWraps
<1> DEFINE c == SlotOf(b, 1)
<1>4. c \in Indices
  BY <1>1, <1>2 DEF Indices
<1> HIDE DEF c
<1>5. SlotOf(c, i) = (IF c + i < Capacity THEN c + i ELSE c + i - Capacity)
  BY <1>1, <1>4, SlotOfWraps
<1> QED
  BY <1>1, <1>2, <1>3, <1>4, <1>5 DEF c, Indices
-----------------------------------------------------------------------------
\* The indices stay within the array, and each thread is at one place.
LEMMA NextTypeOK == ASSUME TypeOK, [Next]_vars PROVE TypeOK'
<1> USE RingAssumption DEF TypeOK
<1>n. ASSUME NEW t \in Threads, NotifyAndReturn(t) PROVE at' \in [Threads -> Places]
  BY <1>n DEF NotifyAndReturn, Places
<1>f. ASSUME NotEmpty, PopFront PROVE /\ slots' \in [Indices -> Packets] /\ begin' \in Indices
                                      /\ size' \in 0..Capacity /\ taken' \in Packets
  <2>1. begin' \in Indices
    BY <1>f, MovesUp DEF PopFront, SlotOf, Indices
  <2> QED
    BY <1>f, <2>1 DEF PopFront, NotEmpty
<1>1. CASE EffClear
  BY <1>1 DEF EffClear, Indices
<1>2. ASSUME NEW t \in Threads, Call(t) \/ Wait(t) \/ SpuriousWake(t) PROVE TypeOK'
  BY <1>2 DEF Call, Wait, SpuriousWake, Places
<1>3. ASSUME NEW p \in Producers, NEW x \in Packets, Push(p, x) PROVE TypeOK'
  <2>1. at' \in [Threads -> Places]
    BY <1>3, <1>n DEF Push, Threads
  <2>2. size + 1 \in 0..Capacity
    BY <1>3 DEF Push, NotFull
  <2> QED
    BY <1>3, <2>1, <2>2 DEF Push
<1>4. ASSUME NEW c \in Consumers, TryPop(c) \/ Timeout(c) PROVE TypeOK'
  <2>1. at' \in [Threads -> Places]
    BY <1>4, <1>n DEF TryPop, Timeout, Threads
  <2> QED
    BY <1>4, <2>1, <1>f DEF TryPop, Timeout
<1>5. CASE UNCHANGED vars
  BY <1>5 DEF vars
<1> QED
  BY <1>1, <1>2, <1>3, <1>4, <1>5 DEF Next, ProducerStep, ConsumerStep, Threads

\* The ring of packets keeps its indices within the array, whatever its capacity.
THEOREM TypeCorrect == Spec => []TypeOK
<1>1. Init => TypeOK
  BY RingAssumption DEF Init, TypeOK, Places, Indices
<1> QED
  BY <1>1, NextTypeOK, PTL DEF Spec
-----------------------------------------------------------------------------
\* The contents of any array with a first index and a size are a sequence of packets.
Queue(array, b, n) == [i \in 1..n |-> array[(b + i - 1) % Capacity]]

LEMMA QueueFacts ==
  ASSUME NEW array \in [Indices -> Packets], NEW b \in Indices, NEW n \in 0..Capacity
  PROVE  /\ Queue(array, b, n) \in Seq(Packets) /\ Len(Queue(array, b, n)) = n
         /\ \A i \in 1..n : Queue(array, b, n)[i] = array[SlotOf(b, i - 1)]
<1>1. n \in Nat /\ Capacity \in Nat /\ b \in Int
  BY RingAssumption DEF Indices
<1>2. ASSUME NEW i \in 1..n PROVE (b + i - 1) % Capacity = SlotOf(b, i - 1) /\ SlotOf(b, i - 1) \in Indices
  <2>1. i - 1 \in 0..Capacity /\ b + i - 1 = b + (i - 1)
    BY <1>1
  <2> QED
    BY <2>1, SlotOfInRing DEF SlotOf
<1>3. Queue(array, b, n) = [i \in 1..n |-> array[SlotOf(b, i - 1)]]
  BY <1>2 DEF Queue
<1>4. \A i \in 1..n : array[SlotOf(b, i - 1)] \in Packets
  BY <1>2
<1> QED
  BY <1>1, <1>3, <1>4

\* A push appends to the contents: the slot behind them is none of theirs.
LEMMA PushPuts ==
  ASSUME TypeOK, NEW p \in Producers, NEW x \in Packets, Push(p, x)
  PROVE  Fifo!Put
<1>1. /\ size \in 0..(Capacity - 1) /\ size' = size + 1 /\ begin' = begin /\ taken' = taken
      /\ begin \in Indices /\ slots \in [Indices -> Packets]
      /\ slots' = [slots EXCEPT ![SlotOf(begin, size)] = x]
      /\ Capacity \in Nat
  BY RingAssumption DEF Push, NotFull, TypeOK, Back, SlotOf
<1>2. size \in 0..Capacity /\ size + 1 \in 0..Capacity
  BY <1>1
<1>3. SlotOf(begin, size) \in Indices /\ slots' \in [Indices -> Packets]
  BY <1>1, <1>2, SlotOfInRing
<1> DEFINE before == Queue(slots, begin, size)
           after  == Queue(slots', begin, size + 1)
<1>4. Contents = before /\ Contents' = after
  BY <1>1 DEF Contents, Queue
<1>5. /\ before \in Seq(Packets) /\ Len(before) = size
      /\ \A i \in 1..size : before[i] = slots[SlotOf(begin, i - 1)]
  BY <1>1, <1>2, QueueFacts
<1>6. /\ after \in Seq(Packets) /\ Len(after) = size + 1
      /\ \A i \in 1..(size + 1) : after[i] = slots'[SlotOf(begin, i - 1)]
  BY <1>1, <1>2, <1>3, QueueFacts, ZenonT(30)
<1> HIDE DEF before, after
<1>7. ASSUME NEW i \in 1..size PROVE after[i] = before[i]
  <2>1. i - 1 \in 0..(Capacity - 1) /\ i - 1 # size /\ i \in 1..(size + 1)
    BY <1>1
  <2>2. SlotOf(begin, i - 1) \in Indices /\ SlotOf(begin, i - 1) # SlotOf(begin, size)
    BY <1>1, <2>1, SlotsDiffer
  <2> QED
    BY <1>1, <1>5, <1>6, <2>1, <2>2
<1>8. after[size + 1] = x
  <2>1. size + 1 \in 1..(size + 1) /\ (size + 1) - 1 = size
    BY <1>1
  <2> QED
    BY <1>1, <1>3, <1>6, <2>1
<1>9. after = Append(before, x)
  BY <1>1, <1>5, <1>6, <1>7, <1>8
<1> QED
  BY <1>1, <1>4, <1>5, <1>9 DEF Fifo!Put

\* A pop takes the head of the contents.
LEMMA PopTakes ==
  ASSUME TypeOK, NotEmpty, PopFront
  PROVE  Fifo!Take
<1>1. /\ size \in 1..Capacity /\ size' = size - 1 /\ begin' = SlotOf(begin, 1)
      /\ begin \in Indices /\ slots \in [Indices -> Packets] /\ slots' = slots
      /\ taken' = slots[begin] /\ Capacity \in Nat /\ 0 \in 0..(Capacity - 1)
  BY RingAssumption DEF PopFront, NotEmpty, TypeOK, SlotOf
<1>2. size \in 0..Capacity /\ size - 1 \in 0..Capacity
  BY <1>1
<1>3. SlotOf(begin, 1) \in Indices /\ SlotOf(begin, 0) = begin
  <2>1. SlotOf(begin, 0) = IF begin + 0 < Capacity THEN begin + 0 ELSE begin + 0 - Capacity
    BY <1>1, SlotOfWraps
  <2> QED
    BY <1>1, <2>1, MovesUp DEF Indices
<1> DEFINE before == Queue(slots, begin, size)
           after  == Queue(slots, SlotOf(begin, 1), size - 1)
<1>4. Contents = before /\ Contents' = after
  BY <1>1 DEF Contents, Queue
<1>5. /\ before \in Seq(Packets) /\ Len(before) = size
      /\ \A i \in 1..size : before[i] = slots[SlotOf(begin, i - 1)]
  BY <1>1, <1>2, QueueFacts
<1>6. /\ after \in Seq(Packets) /\ Len(after) = size - 1
      /\ \A i \in 1..(size - 1) : after[i] = slots[SlotOf(SlotOf(begin, 1), i - 1)]
  BY <1>1, <1>2, <1>3, QueueFacts
<1> HIDE DEF before, after
<1>7. ASSUME NEW i \in 1..(size - 1) PROVE after[i] = before[i + 1]
  <2>1. i - 1 \in 0..(Capacity - 1) /\ i + 1 \in 1..size /\ (i - 1) + 1 = (i + 1) - 1
    BY <1>1
  <2>2. SlotOf(SlotOf(begin, 1), i - 1) = SlotOf(begin, (i - 1) + 1)
    BY <1>1, <2>1, MovesUp
  <2> QED
    BY <1>5, <1>6, <2>1, <2>2
<1>8. before # <<>> /\ Head(before) = taken'
  <2>1. 1 \in 1..size /\ 1 - 1 = 0
    BY <1>1
  <2> QED
    BY <1>1, <1>3, <1>5, <2>1
<1>9. after = Tail(before)
  BY <1>1, <1>5, <1>6, <1>7, <1>8
<1> QED
  BY <1>1, <1>4, <1>8, <1>9 DEF Fifo!Take

\* Each step of the ring is a step of the queue or leaves it alone.
LEMMA RingSimulation ==
  ASSUME TypeOK, [Next]_vars
  PROVE  [Fifo!Put \/ Fifo!Take \/ Fifo!Clear]_<<Contents, taken>>
<1>1. CASE EffClear
  <2>1. size' = 0 /\ taken' = taken
    BY <1>1 DEF EffClear
  <2>2. Contents' = <<>>
    BY <2>1 DEF Contents
  <2> QED
    BY <2>1, <2>2 DEF Fifo!Clear
<1>2. ASSUME UNCHANGED <<slots, begin, size, taken>> PROVE UNCHANGED <<Contents, taken>>
  BY <1>2 DEF Contents
<1>3. ASSUME NEW t \in Threads, Call(t) \/ Wait(t) \/ SpuriousWake(t)
      PROVE  UNCHANGED <<Contents, taken>>
  <2>1. UNCHANGED <<slots, begin, size, taken>>
    BY <1>3 DEF Call, Wait, SpuriousWake
  <2> QED
    BY <2>1, <1>2
<1>4. ASSUME NEW p \in Producers, NEW x \in Packets, Push(p, x) PROVE Fifo!Put
  BY <1>4, PushPuts
<1>5. ASSUME NEW c \in Consumers, TryPop(c) PROVE Fifo!Take
  BY <1>5, PopTakes DEF TryPop
<1>6. ASSUME NEW c \in Consumers, Timeout(c) PROVE Fifo!Take \/ UNCHANGED <<Contents, taken>>
  BY <1>6, <1>2, PopTakes DEF Timeout
<1>7. CASE UNCHANGED vars
  <2>1. UNCHANGED <<slots, begin, size, taken>>
    BY <1>7 DEF vars
  <2> QED
    BY <2>1, <1>2
<1> QED
  BY <1>1, <1>3, <1>4, <1>5, <1>6, <1>7 DEF Next, ProducerStep, ConsumerStep, Threads

\* The ring implements the queue that PacketFifo describes: packets leave in the order in
\* which they came, none is overwritten, and none comes out twice.
THEOREM RingImplementsFifo == Spec => FifoSpec
<1>1. Init => Fifo!FifoInit
  <2> SUFFICES ASSUME Init PROVE Fifo!FifoInit
    OBVIOUS
  <2>1. Contents = <<>>
    BY DEF Init, Contents
  <2> QED
    BY <2>1 DEF Init, Fifo!FifoInit
<1>2. TypeOK /\ [Next]_vars => [Fifo!Put \/ Fifo!Take \/ Fifo!Clear]_<<Contents, taken>>
  BY RingSimulation
<1> QED
  BY <1>1, <1>2, TypeCorrect, PTL DEF Spec, FifoSpec, Fifo!FifoSpec

-----------------------------------------------------------------------------
(***************************************************************************)
(* Induction over the natural numbers, in the form of sets                  *)
(***************************************************************************)

LEMMA Associates ==
  \A T : \A x, y, z \in Seq(T) : (x \o y) \o z = x \o (y \o z)
BY ConcatAssociative

LEMMA LeastElement ==
  ASSUME NEW T \in SUBSET Nat, T # {}
  PROVE  \E x \in T : \A y \in T : x <= y
<1> DEFINE R == OpToRel(<, Nat)
<1>1. IsWellFoundedOn(R, Nat)
  BY NatLessThanWellFounded
<1> HIDE DEF R
<1>2. PICK x \in T : \A y \in T : ~(<<y, x>> \in R)
  BY <1>1, WFMin
<1>3. ASSUME NEW y \in T PROVE x <= y
  <2>1. <<y, x>> \in R <=> y < x
    BY DEF R, OpToRel
  <2>2. ~(y < x) /\ x \in Nat /\ y \in Nat
    BY <1>2, <2>1
  <2> QED
    BY <2>2
<1> QED
  BY <1>3

\* A set that has 0 and with each number below n the next one has all up to n.
LEMMA UpTo ==
  ASSUME NEW n \in Nat, NEW S, 0 \in S,
         \A i \in 1..n : i - 1 \in S => i \in S
  PROVE  \A i \in 0..n : i \in S
<1> DEFINE Outside == {i \in Nat : i <= n /\ ~(i \in S)}
<1> SUFFICES ASSUME Outside # {} PROVE FALSE
  <2>1. ASSUME NEW i \in 0..n PROVE i \in S
    <3>1. ~(i \in Outside)
      OBVIOUS
    <3> QED
      BY <3>1
  <2> QED
    BY <2>1
<1> HIDE DEF Outside
<1>1. Outside \in SUBSET Nat
  BY DEF Outside
<1>2. PICK x \in Outside : \A y \in Outside : x <= y
  BY <1>1, LeastElement
<1>3. x \in Nat /\ x <= n /\ ~(x \in S) /\ x # 0
  BY <1>2 DEF Outside
<1>4. x \in 1..n /\ x - 1 \in Nat /\ x - 1 <= n
  BY <1>3
<1>5. ~(x - 1 \in S)
  BY <1>3, <1>4
<1>6. x - 1 \in Outside
  BY <1>4, <1>5 DEF Outside
<1>7. x <= x - 1
  BY <1>2, <1>6
<1> QED
  BY <1>3, <1>7
-----------------------------------------------------------------------------
(***************************************************************************)
(* The packets in a sequence of results                                    *)
(***************************************************************************)
FoundNext(q, r) == IF IsPacket(r) THEN Append(q, r) ELSE q
IsFinding(d, n, s) == d = [i \in 0..n |-> IF i = 0 THEN <<>> ELSE FoundNext(d[i - 1], s[i])]

LEMMA FindingExists ==
  ASSUME NEW s, NEW len \in Nat
  PROVE  \E d : IsFinding(d, len, s)
<1> DEFINE S == {n \in Nat : \E d : IsFinding(d, n, s)}
<1>1. 0 \in S
  <2> DEFINE d == [i \in 0..0 |-> <<>>]
  <2>1. d = [i \in 0..0 |-> IF i = 0 THEN <<>> ELSE FoundNext(d[i - 1], s[i])]
    OBVIOUS
  <2> QED
    BY <2>1 DEF IsFinding
<1>2. ASSUME NEW n \in 1..len, n - 1 \in S PROVE n \in S
  <2>1. PICK d : IsFinding(d, n - 1, s)
    BY <1>2
  <2> DEFINE next == FoundNext(d[n - 1], s[n])
             h    == [i \in 0..n |-> IF i = n THEN next ELSE d[i]]
             k    == [i \in 0..n |-> IF i = 0 THEN <<>> ELSE FoundNext(h[i - 1], s[i])]
  <2>2. ASSUME NEW i \in 0..n PROVE h[i] = k[i]
    <3>1. CASE i = n
      <4>1. h[i] = next /\ n # 0 /\ n - 1 \in 0..n /\ n - 1 # n
        BY <3>1
      <4>2. h[n - 1] = d[n - 1]
        BY <4>1
      <4>3. k[i] = FoundNext(h[n - 1], s[n])
        BY <3>1, <4>1
      <4> QED
        BY <4>1, <4>2, <4>3
    <3>2. CASE i # n
      <4>1. i \in 0..(n - 1) /\ h[i] = d[i]
        BY <3>2
      <4>2. d[i] = IF i = 0 THEN <<>> ELSE FoundNext(d[i - 1], s[i])
        BY <2>1, <4>1 DEF IsFinding
      <4>3. i # 0 => i - 1 \in 0..n /\ i - 1 # n /\ h[i - 1] = d[i - 1]
        BY <4>1
      <4>4. k[i] = IF i = 0 THEN <<>> ELSE FoundNext(h[i - 1], s[i])
        OBVIOUS
      <4> QED
        BY <4>1, <4>2, <4>3, <4>4
    <3> QED
      BY <3>1, <3>2
  <2> HIDE DEF next
  <2>3. h = k
    BY <2>2
  <2>4. IsFinding(h, n, s)
    BY <2>3 DEF IsFinding
  <2> QED
    BY <2>4
<1> HIDE DEF S
<1>3. \A i \in 0..len : i \in S
  BY <1>1, <1>2, UpTo
<1>4. len \in S
  BY <1>3
<1> QED
  BY <1>4 DEF S

\* The packets among the first i results.
Finds(d, S, s) ==
  /\ d[0] = <<>> /\ \A i \in 0..Len(s) : d[i] \in Seq(S)
  /\ \A i \in 1..Len(s) : d[i] = FoundNext(d[i - 1], s[i])
  /\ PacketsIn(s) = d[Len(s)]

LEMMA PacketsInFinds ==
  ASSUME NEW S, NEW s \in Seq(S)
  PROVE  \E d : Finds(d, S, s)
<1> DEFINE n == Len(s)
           d == CHOOSE a : a = [i \in 0..n |->
                                  IF i = 0 THEN <<>>
                                  ELSE IF IsPacket(s[i]) THEN Append(a[i - 1], s[i]) ELSE a[i - 1]]
<1>0. n \in Nat /\ \A i \in 1..n : s[i] \in S
  BY LenProperties, ElementOfSeq
<1>1. d = [i \in 0..n |-> IF i = 0 THEN <<>>
                          ELSE IF IsPacket(s[i]) THEN Append(d[i - 1], s[i]) ELSE d[i - 1]]
  <2> HIDE DEF n
  <2>1. PICK h : IsFinding(h, n, s)
    BY <1>0, FindingExists
  <2>2. h = [i \in 0..n |-> IF i = 0 THEN <<>>
                            ELSE IF IsPacket(s[i]) THEN Append(h[i - 1], s[i]) ELSE h[i - 1]]
    BY <2>1 DEF IsFinding, FoundNext
  <2> QED
    BY <2>2, Zenon
<1>2. PacketsIn(s) = d[n]
  BY DEF PacketsIn
<1> HIDE DEF d, n
<1>3. d[0] = <<>>
  BY <1>0, <1>1
<1>4. ASSUME NEW i \in 1..n PROVE d[i] = FoundNext(d[i - 1], s[i])
  <2>1. i \in 0..n /\ i # 0
    BY <1>0
  <2>2. d[i] = IF i = 0 THEN <<>>
               ELSE IF IsPacket(s[i]) THEN Append(d[i - 1], s[i]) ELSE d[i - 1]
    BY <1>1, <2>1, Zenon
  <2> QED
    BY <2>1, <2>2 DEF FoundNext
<1> DEFINE Q == {i \in 0..n : d[i] \in Seq(S)}
<1>5. 0 \in Q
  <2>1. 0 \in 0..n /\ <<>> \in Seq(S)
    BY <1>0, EmptySeq
  <2> QED
    BY <1>3, <2>1
<1>6. ASSUME NEW i \in 1..n, i - 1 \in Q PROVE i \in Q
  <2>1. d[i - 1] \in Seq(S) /\ s[i] \in S /\ i \in 0..n
    BY <1>0, <1>6
  <2>2. Append(d[i - 1], s[i]) \in Seq(S)
    BY <2>1, AppendProperties
  <2> QED
    BY <1>4, <2>1, <2>2 DEF FoundNext
<1> HIDE DEF Q
<1>7. \A i \in 0..n : i \in Q
  BY <1>0, <1>5, <1>6, UpTo
<1>8. \A i \in 0..n : d[i] \in Seq(S)
  BY <1>7 DEF Q
<1> QED
  BY <1>2, <1>3, <1>4, <1>8 DEF Finds, n

LEMMA PacketsInConcat ==
  ASSUME NEW S, NEW s \in Seq(S), NEW t \in Seq(S)
  PROVE  /\ PacketsIn(s) \in Seq(S) /\ PacketsIn(t) \in Seq(S)
         /\ PacketsIn(s \o t) = PacketsIn(s) \o PacketsIn(t)
<1> DEFINE m == Len(s)
           n == Len(t)
<1>1. /\ m \in Nat /\ n \in Nat /\ s \o t \in Seq(S) /\ Len(s \o t) = m + n
      /\ \A i \in 1..(m + n) : (s \o t)[i] = IF i <= m THEN s[i] ELSE t[i - m]
  BY LenProperties, ConcatProperties
<1>2. PICK a : Finds(a, S, s)
  BY PacketsInFinds
<1>3. PICK b : Finds(b, S, t)
  BY PacketsInFinds
<1>4. PICK c : Finds(c, S, s \o t)
  BY <1>1, PacketsInFinds
<1>5. /\ a[0] = <<>> /\ (\A i \in 0..m : a[i] \in Seq(S)) /\ PacketsIn(s) = a[m]
      /\ \A i \in 1..m : a[i] = FoundNext(a[i - 1], s[i])
  BY <1>2 DEF Finds
<1>6. /\ b[0] = <<>> /\ (\A i \in 0..n : b[i] \in Seq(S)) /\ PacketsIn(t) = b[n]
      /\ \A i \in 1..n : b[i] = FoundNext(b[i - 1], t[i])
  BY <1>3 DEF Finds
<1>7. /\ c[0] = <<>> /\ PacketsIn(s \o t) = c[m + n]
      /\ \A i \in 1..(m + n) : c[i] = FoundNext(c[i - 1], (s \o t)[i])
  BY <1>1, <1>4 DEF Finds
<1>8. \A i \in 1..n : t[i] \in S
  BY ElementOfSeq
<1> HIDE DEF m, n
<1> DEFINE P == {i \in 0..m : c[i] = a[i]}
<1>9. \A i \in 0..m : i \in P
  <2>1. 0 \in P
    BY <1>1, <1>5, <1>7
  <2>2. ASSUME NEW i \in 1..m, i - 1 \in P PROVE i \in P
    <3>1. i \in 1..(m + n) /\ i <= m /\ c[i - 1] = a[i - 1] /\ i \in 0..m
      BY <1>1, <2>2
    <3>2. c[i] = FoundNext(a[i - 1], s[i])
      BY <1>1, <1>7, <3>1
    <3> QED
      BY <1>5, <3>1, <3>2
  <2> HIDE DEF P
  <2> QED
    BY <1>1, <2>1, <2>2, UpTo
<1>10. c[m] = a[m] /\ a[m] \in Seq(S)
  BY <1>1, <1>5, <1>9
<1> DEFINE Q == {i \in 0..n : c[m + i] = a[m] \o b[i]}
<1>11. \A i \in 0..n : i \in Q
  <2>1. 0 \in Q
    <3>1. a[m] \o <<>> = a[m]
      BY <1>10, ConcatEmptySeq
    <3>2. m + 0 = m /\ 0 \in 0..n
      BY <1>1
    <3>3. c[m + 0] = a[m] \o b[0]
      BY <1>6, <1>10, <3>1, <3>2
    <3> QED
      BY <3>2, <3>3
  <2>2. ASSUME NEW i \in 1..n, i - 1 \in Q PROVE i \in Q
    <3>1. m + i \in 1..(m + n) /\ ~(m + i <= m) /\ (m + i) - m = i /\ (m + i) - 1 = m + (i - 1)
      BY <1>1
    <3>2. c[m + i] = FoundNext(a[m] \o b[i - 1], t[i])
      <4>1. c[m + i] = FoundNext(c[m + (i - 1)], (s \o t)[m + i])
        BY <1>7, <3>1
      <4>2. (s \o t)[m + i] = t[i]
        BY <1>1, <3>1
      <4>3. c[m + (i - 1)] = a[m] \o b[i - 1]
        BY <2>2
      <4> QED
        BY <4>1, <4>2, <4>3
    <3>3. b[i - 1] \in Seq(S) /\ t[i] \in S /\ b[i] = FoundNext(b[i - 1], t[i]) /\ i \in 0..n
      BY <1>1, <1>6, <1>8
    <3>4. Append(a[m] \o b[i - 1], t[i]) = a[m] \o Append(b[i - 1], t[i])
      <4>1. <<t[i]>> \in Seq(S) /\ a[m] \o b[i - 1] \in Seq(S)
        BY <1>10, <3>3, ConcatProperties
      <4>2. Append(a[m] \o b[i - 1], t[i]) = (a[m] \o b[i - 1]) \o <<t[i]>>
        BY <3>3, <4>1, AppendIsConcat
      <4>3. Append(b[i - 1], t[i]) = b[i - 1] \o <<t[i]>>
        BY <3>3, AppendIsConcat
      <4>4. (a[m] \o b[i - 1]) \o <<t[i]>> = a[m] \o (b[i - 1] \o <<t[i]>>)
        <5> DEFINE x == a[m]
                   y == b[i - 1]
                   z == <<t[i]>>
        <5>1. x \in Seq(S) /\ y \in Seq(S) /\ z \in Seq(S)
          BY <1>10, <3>3, <4>1
        <5> HIDE DEF x, y, z
        <5>2. (x \o y) \o z = x \o (y \o z)
          BY <5>1, Associates, SMTT(40)
        <5> QED
          BY <5>2 DEF x, y, z
      <4> QED
        BY <4>2, <4>3, <4>4
    <3> QED
      BY <3>2, <3>3, <3>4 DEF FoundNext
  <2> HIDE DEF Q
  <2> QED
    BY <1>1, <2>1, <2>2, UpTo
<1>12. c[m + n] = a[m] \o b[n]
  <2>1. n \in 0..n
    BY <1>1
  <2>2. n \in Q
    <3> HIDE DEF Q
    <3> QED
      BY <1>11, <2>1
  <2> QED
    BY <2>2
<1> QED
  BY <1>1, <1>5, <1>6, <1>7, <1>12

LEMMA PacketsInFew ==
  /\ PacketsIn(<<>>) = <<>>
  /\ \A e : PacketsIn(<<e>>) = IF IsPacket(e) THEN <<e>> ELSE <<>>
<1>1. PacketsIn(<<>>) = <<>>
  <2>1. <<>> \in Seq({}) /\ Len(<<>>) = 0
    OBVIOUS
  <2>2. PICK d : Finds(d, {}, <<>>)
    BY <2>1, PacketsInFinds
  <2> QED
    BY <2>1, <2>2 DEF Finds
<1>2. ASSUME NEW e PROVE PacketsIn(<<e>>) = IF IsPacket(e) THEN <<e>> ELSE <<>>
  <2>1. <<e>> \in Seq({e}) /\ Len(<<e>>) = 1 /\ <<e>>[1] = e
    OBVIOUS
  <2>2. PICK d : Finds(d, {e}, <<e>>)
    BY <2>1, PacketsInFinds
  <2>3. d[0] = <<>> /\ d[1] = FoundNext(d[0], e) /\ PacketsIn(<<e>>) = d[1]
    <3>1. 1 \in 1..Len(<<e>>) /\ 1 - 1 = 0
      BY <2>1
    <3> QED
      BY <2>1, <2>2, <3>1 DEF Finds
  <2>4. Append(<<>>, e) = <<e>>
    OBVIOUS
  <2> QED
    BY <2>3, <2>4 DEF FoundNext
<1> QED
  BY <1>1, <1>2
-----------------------------------------------------------------------------
(***************************************************************************)
(* What has been handed on                                                 *)
(***************************************************************************)
Found(r) == IF IsPacket(r) THEN <<r>> ELSE <<>>

LEMMA PacketsInMore ==
  ASSUME NEW T, NEW s \in Seq(T), NEW e \in T
  PROVE  /\ PacketsIn(s) \in Seq(T) /\ Found(e) \in Seq(T) /\ Append(s, e) \in Seq(T)
         /\ PacketsIn(Append(s, e)) = PacketsIn(s) \o Found(e)
<1>1. <<e>> \in Seq(T) /\ Append(s, e) = s \o <<e>> /\ Append(s, e) \in Seq(T)
  BY AppendIsConcat, AppendProperties
<1>2. PacketsIn(s) \in Seq(T) /\ PacketsIn(s \o <<e>>) = PacketsIn(s) \o PacketsIn(<<e>>)
  BY <1>1, PacketsInConcat
<1>3. PacketsIn(<<e>>) = Found(e)
  BY PacketsInFew DEF Found
<1>4. Found(e) \in Seq(T)
  BY <1>1, EmptySeq DEF Found
<1> QED
  BY <1>1, <1>2, <1>3, <1>4

LEMMA PacketsInFirst ==
  ASSUME NEW T, NEW s \in Seq(T), s # <<>>
  PROVE  /\ Head(s) \in T /\ Tail(s) \in Seq(T) /\ Head(s) = s[1]
         /\ PacketsIn(s) \in Seq(T) /\ PacketsIn(Tail(s)) \in Seq(T) /\ Found(Head(s)) \in Seq(T)
         /\ PacketsIn(s) = Found(Head(s)) \o PacketsIn(Tail(s))
<1> DEFINE e == Head(s)
           t == Tail(s)
<1>1. e \in T /\ t \in Seq(T) /\ e = s[1]
  BY HeadTailProperties
<1>2. s = <<e>> \o t
  <2>1. Len(s) \in Nat /\ Len(s) # 0
    BY EmptySeq, LenProperties
  <2>2. 1 \in 1..Len(s) /\ Len(s) \in 1..Len(s)
    BY <2>1
  <2>3. SubSeq(s, 1, Len(s)) = <<s[1]>> \o SubSeq(s, 1 + 1, Len(s))
    BY <2>2, SubSeqRecursiveFirst
  <2>4. t = SubSeq(s, 2, Len(s)) /\ SubSeq(s, 1, Len(s)) = s
    BY TailIsSubSeq, SubSeqFull
  <2> QED
    BY <1>1, <2>3, <2>4
<1> HIDE DEF e, t
<1>3. <<e>> \in Seq(T)
  BY <1>1
<1>4. /\ PacketsIn(<<e>>) \in Seq(T) /\ PacketsIn(t) \in Seq(T)
      /\ PacketsIn(<<e>> \o t) = PacketsIn(<<e>>) \o PacketsIn(t)
  BY <1>1, <1>3, PacketsInConcat
<1>5. PacketsIn(<<e>>) = Found(e)
  BY PacketsInFew DEF Found
<1>6. PacketsIn(s) \in Seq(T)
  BY PacketsInConcat
<1> QED
  BY <1>1, <1>2, <1>4, <1>5, <1>6 DEF e, t

LEMMA Regroup ==
  \A T : \A x, y, z \in Seq(T) : (x \o y) \o z = (x \o <<>>) \o (y \o z)
<1>1. \A T : \A x \in Seq(T) : x \o <<>> = x
  BY ConcatEmptySeq
<1> QED
  BY <1>1, Associates

Waits(r, g) == IF r = "room" THEN Found(g) ELSE <<>>
Out(p, r, g, q) == (PacketsIn(p) \o Waits(r, g)) \o PacketsIn(q)
Trail(p, r, g, q) == (p \o (IF r = "room" THEN <<g>> ELSE <<>>)) \o q

LEMMA WaitsTyped ==
  ASSUME NEW T, NEW g \in T, NEW r
  PROVE  Waits(r, g) \in Seq(T)
BY EmptySeq DEF Waits, Found

LEMMA OutTyped ==
  ASSUME NEW T, NEW p \in Seq(T), NEW g \in T, NEW q \in Seq(T), NEW r
  PROVE  Out(p, r, g, q) \in Seq(T)
<1>1. PacketsIn(p) \in Seq(T) /\ PacketsIn(q) \in Seq(T) /\ Waits(r, g) \in Seq(T)
  BY PacketsInConcat, WaitsTyped
<1>2. PacketsIn(p) \o Waits(r, g) \in Seq(T)
  BY <1>1, ConcatProperties
<1> QED
  BY <1>1, <1>2, ConcatProperties DEF Out

LEMMA OutIs ==
  ASSUME NEW T, NEW p \in Seq(T), NEW g \in T, NEW q \in Seq(T), NEW r
  PROVE  PacketsIn(Trail(p, r, g, q)) = Out(p, r, g, q)
<1> DEFINE w == IF r = "room" THEN <<g>> ELSE <<>>
<1>1. w \in Seq(T)
  BY EmptySeq
<1>2. PacketsIn(w) = Waits(r, g)
  BY PacketsInFew DEF Waits, Found
<1>3. Trail(p, r, g, q) = (p \o w) \o q
  BY DEF Trail
<1> HIDE DEF w
<1>4. p \o w \in Seq(T) /\ PacketsIn(p \o w) = PacketsIn(p) \o PacketsIn(w)
  BY <1>1, ConcatProperties, PacketsInConcat
<1>5. PacketsIn((p \o w) \o q) = PacketsIn(p \o w) \o PacketsIn(q)
  BY <1>4, PacketsInConcat
<1> QED
  BY <1>2, <1>3, <1>4, <1>5 DEF Out

\* A packet that is found, or none, is put at the end.
More(s, e) == IF IsPacket(e) THEN Append(s, e) ELSE s

LEMMA MoreFound ==
  ASSUME NEW T, NEW s \in Seq(T), NEW e \in T
  PROVE  s \o Found(e) = More(s, e) /\ More(s, e) \in Seq(T)
BY AppendIsConcat, AppendProperties, ConcatEmptySeq DEF Found, More

\* The source gives a packet, or none, to the receiver.
LEMMA OutReceives ==
  ASSUME NEW T, NEW p \in Seq(T), NEW g \in T, NEW h \in T,
         NEW r, h.kind = "nothing" \/ r = "room"
  PROVE  Out(p, r, h, <<>>) = More(Out(p, "ask", g, <<>>), h)
<1>1. /\ PacketsIn(p) \in Seq(T) /\ <<>> \in Seq(T) /\ PacketsIn(<<>>) = <<>>
      /\ Waits("ask", g) = <<>> /\ Waits(r, h) \in Seq(T)
  BY PacketsInConcat, WaitsTyped, EmptySeq, PacketsInFew DEF Waits
<1>2. Waits(r, h) = Found(h)
  BY DEF Waits, Found, IsPacket
<1>3. Out(p, "ask", g, <<>>) = PacketsIn(p)
  <2>1. PacketsIn(p) \o <<>> = PacketsIn(p)
    BY <1>1, ConcatEmptySeq
  <2> QED
    BY <1>1, <2>1 DEF Out
<1>4. PacketsIn(p) \o Found(h) \in Seq(T)
  BY <1>1, <1>2, ConcatProperties
<1>5. (PacketsIn(p) \o Found(h)) \o <<>> = PacketsIn(p) \o Found(h)
  BY <1>4, ConcatEmptySeq
<1>6. Out(p, r, h, <<>>) = PacketsIn(p) \o Found(h)
  BY <1>1, <1>2, <1>5 DEF Out
<1> QED
  BY <1>1, <1>3, <1>6, MoreFound

\* The receiver takes the first packet of the source's own ring.
LEMMA OutTakes ==
  ASSUME NEW T, NEW p \in Seq(T), NEW g \in T, NEW h \in T, NEW t \in Seq(T),
         NEW q, PacketsIn(q) = Found(h) \o PacketsIn(t)
  PROVE  Out(p, "room", h, t) = Out(p, "ask", g, q)
<1> DEFINE x == PacketsIn(p)
           y == Found(h)
           z == PacketsIn(t)
<1>1. x \in Seq(T) /\ y \in Seq(T) /\ z \in Seq(T)
  BY PacketsInConcat, EmptySeq DEF Found
<1>2. Out(p, "room", h, t) = (x \o y) \o z /\ Out(p, "ask", g, q) = (x \o <<>>) \o (y \o z)
  BY DEF Out, Waits
<1> HIDE DEF x, y, z
<1>3. (x \o y) \o z = (x \o <<>>) \o (y \o z)
  BY <1>1, Regroup, SMTT(40)
<1> QED
  BY <1>2, <1>3

\* What was received is put into the ring as it is, or is no packet.
LEMMA OutPuts ==
  ASSUME NEW T, NEW p \in Seq(T), NEW g \in T, NEW q \in Seq(T), NEW e \in T,
         IF IsPacket(g) THEN e = g ELSE ~IsPacket(e)
  PROVE  Out(Append(p, e), "ask", g, q) = Out(p, "room", g, q)
<1> DEFINE x == PacketsIn(p)
           y == Found(g)
           z == PacketsIn(q)
           c == PacketsIn(Append(p, e))
<1>1. x \in Seq(T) /\ y \in Seq(T) /\ z \in Seq(T) /\ c = x \o y /\ c \in Seq(T)
  BY PacketsInMore, PacketsInConcat DEF Found
<1>2. Out(Append(p, e), "ask", g, q) = (c \o <<>>) \o z /\ Out(p, "room", g, q) = (x \o y) \o z
  BY DEF Out, Waits
<1> HIDE DEF c, x, y, z
<1>3. c \o <<>> = c
  BY <1>1, ConcatEmptySeq
<1> QED
  BY <1>1, <1>2, <1>3

LEMMA OutLeaves ==
  ASSUME NEW p, NEW g, NEW q, ~IsPacket(g)
  PROVE  Out(p, "ask", g, q) = Out(p, "room", g, q)
BY DEF Out, Waits, Found

\* A packet is put at the end of the source's own ring.
LEMMA OutGrows ==
  ASSUME NEW T, NEW p \in Seq(T), NEW g \in T, NEW q \in Seq(T), NEW r, NEW e \in T
  PROVE  Out(p, r, g, Append(q, e)) = More(Out(p, r, g, q), e)
<1> DEFINE x == PacketsIn(p) \o Waits(r, g)
           y == PacketsIn(q)
           z == Found(e)
<1>1. y \in Seq(T) /\ z \in Seq(T) /\ PacketsIn(Append(q, e)) = y \o z
  BY PacketsInMore
<1>2. x \in Seq(T) /\ Out(p, r, g, q) \in Seq(T)
  BY PacketsInConcat, WaitsTyped, OutTyped, ConcatProperties
<1>3. Out(p, r, g, Append(q, e)) = x \o PacketsIn(Append(q, e)) /\ Out(p, r, g, q) = x \o y
  BY DEF Out
<1>4. Out(p, r, g, q) \o z = More(Out(p, r, g, q), e)
  BY <1>2, MoreFound
<1> HIDE DEF x, y, z
<1>5. (x \o y) \o z = x \o (y \o z)
  <2>1. x \in Seq(T) /\ y \in Seq(T) /\ z \in Seq(T)
    BY <1>1, <1>2
  <2> QED
    BY <2>1, Associates, SMTT(40)
<1> QED
  BY <1>1, <1>3, <1>4, <1>5

\* s without its k-th element.
Without(s, u, k) ==
  /\ k \in 1..Len(s) /\ Len(u) = Len(s) - 1
  /\ \A i \in 1..(k - 1) : u[i] = s[i]
  /\ \A i \in k..Len(u) : u[i] = s[i + 1]

\* The first packet of the source's own ring is dropped.
LEMMA OutDrops ==
  ASSUME NEW T, NEW p \in Seq(T), NEW g \in T, NEW q \in Seq(T), NEW r, q # <<>>, IsPacket(Head(q))
  PROVE  \E k : Without(Out(p, r, g, q), Out(p, r, g, Tail(q)), k) /\ Out(p, r, g, q)[k] = Head(q)
<1> DEFINE x == PacketsIn(p) \o Waits(r, g)
           h == Head(q)
           z == PacketsIn(Tail(q))
           n == Len(x) + 1
           s == x \o PacketsIn(q)
           u == x \o z
<1>1. z \in Seq(T) /\ Found(h) = <<h>> /\ h \in T /\ PacketsIn(q) = <<h>> \o z /\ PacketsIn(q) \in Seq(T)
  BY PacketsInFirst DEF Found
<1>2. x \in Seq(T)
  BY PacketsInConcat, WaitsTyped, ConcatProperties
<1>3. Out(p, r, g, q) = s /\ Out(p, r, g, Tail(q)) = u
  BY DEF Out
<1> HIDE DEF x, z, h
<1>4. /\ Len(x) \in Nat /\ Len(z) \in Nat
      /\ Len(PacketsIn(q)) = 1 + Len(z)
      /\ \A i \in 1..(1 + Len(z)) : PacketsIn(q)[i] = IF i = 1 THEN h ELSE z[i - 1]
  <2>1. /\ <<h>> \in Seq(T) /\ Len(<<h>>) = 1 /\ <<h>>[1] = h /\ Len(x) \in Nat /\ Len(z) \in Nat
    BY <1>1, <1>2
  <2>2. /\ Len(<<h>> \o z) = 1 + Len(z)
        /\ \A i \in 1..(1 + Len(z)) : (<<h>> \o z)[i] = IF i <= 1 THEN <<h>>[i] ELSE z[i - 1]
    BY <1>1, <2>1, ConcatProperties
  <2> QED
    BY <1>1, <2>1, <2>2
<1>5. /\ Len(s) = Len(x) + (1 + Len(z))
      /\ \A i \in 1..(Len(x) + (1 + Len(z))) : s[i] = IF i <= Len(x) THEN x[i] ELSE PacketsIn(q)[i - Len(x)]
  BY <1>1, <1>2, <1>4, ConcatProperties
<1>6. /\ Len(u) = Len(x) + Len(z)
      /\ \A i \in 1..(Len(x) + Len(z)) : u[i] = IF i <= Len(x) THEN x[i] ELSE z[i - Len(x)]
  BY <1>1, <1>2, <1>4, ConcatProperties
<1> HIDE DEF s, u
<1>7. s[n] = h /\ n \in 1..Len(s)
  <2>1. n \in 1..Len(s) /\ ~(n <= Len(x)) /\ n - Len(x) = 1 /\ 1 \in 1..(1 + Len(z))
    BY <1>4, <1>5
  <2> QED
    BY <1>4, <1>5, <2>1
<1>8. ASSUME NEW i \in 1..(n - 1) PROVE u[i] = s[i]
  BY <1>4, <1>5, <1>6
<1>9. ASSUME NEW i \in n..Len(u) PROVE u[i] = s[i + 1]
  <2>1. /\ i \in 1..(Len(x) + Len(z)) /\ ~(i <= Len(x)) /\ i + 1 \in 1..(Len(x) + (1 + Len(z)))
        /\ ~(i + 1 <= Len(x)) /\ (i + 1) - Len(x) \in 1..(1 + Len(z)) /\ (i + 1) - Len(x) # 1
        /\ ((i + 1) - Len(x)) - 1 = i - Len(x)
    BY <1>4, <1>6
  <2>2. u[i] = z[i - Len(x)]
    BY <1>6, <2>1
  <2>3. s[i + 1] = PacketsIn(q)[(i + 1) - Len(x)]
    BY <1>5, <2>1
  <2>4. PacketsIn(q)[(i + 1) - Len(x)] = z[i - Len(x)]
    BY <1>4, <2>1
  <2> QED
    BY <2>2, <2>3, <2>4
<1>10. Without(s, u, n)
  <2>1. Len(u) = Len(s) - 1
    BY <1>4, <1>5, <1>6
  <2> QED
    BY <1>7, <1>8, <1>9, <2>1 DEF Without
<1> QED
  BY <1>3, <1>7, <1>10 DEF h

Handed == Out(put, receiver, got, queue)

CommonInv ==
  /\ source \in {"socket", "tcp", "serial", "pcap"}
  /\ script \in Seq(ScriptKinds(source)) /\ sent \in 0..Len(script)
  /\ IsSequence(put) /\ IsSequence(queue) /\ \A i \in 1..Len(queue) : IsPacket(queue[i])
  /\ receiver \in {"ask", "room"}

\* One set for the elements of two sequences and three more.
LEMMA OneSet ==
  ASSUME NEW s, IsSequence(s), NEW t, IsSequence(t), NEW e, NEW g, NEW h
  PROVE  \E T : s \in Seq(T) /\ t \in Seq(T) /\ e \in T /\ g \in T /\ h \in T
<1>1. PICK A : s \in Seq(A)
  BY DEF IsSequence
<1>2. PICK B : t \in Seq(B)
  BY DEF IsSequence
<1> DEFINE T == A \cup B \cup {e, g, h}
<1>3. s \in Seq(T) /\ t \in Seq(T) /\ e \in T /\ g \in T /\ h \in T
  BY <1>1, <1>2, SeqMonotonic
<1> HIDE DEF T
<1> QED
  BY <1>3

LEMMA HandedOnIs ==
  ASSUME IsSequence(put), IsSequence(queue)
  PROVE  HandedOn = Handed /\ IsSequence(Handed)
<1>1. PICK T : put \in Seq(T) /\ queue \in Seq(T) /\ got \in T
  BY OneSet
<1>2. PacketsIn(Trail(put, receiver, got, queue)) = Handed
  BY <1>1, OutIs DEF Handed
<1>3. Handed \in Seq(T)
  BY <1>1, OutTyped DEF Handed
<1> QED
  BY <1>2, <1>3 DEF HandedOn, Trail, IsSequence

LEMMA PutsAsItIs ==
  ASSUME CommonInv, SeesRoom
  PROVE  CommonInv' /\ Handed' = Handed
<1>1. /\ receiver = "room" /\ PutsIn(got) /\ receiver' = "ask" /\ got' = got
      /\ UNCHANGED <<source, script, sent, queue>>
  BY DEF SeesRoom
<1>2. PICK T : put \in Seq(T) /\ queue \in Seq(T) /\ got \in T /\ TimeoutPacket \in T
  BY OneSet DEF CommonInv
<1>3. ~IsPacket(TimeoutPacket)
  BY DEF IsPacket, TimeoutPacket, Result
<1>4. ASSUME NEW e \in T, put' = Append(put, e), IF IsPacket(got) THEN e = got ELSE ~IsPacket(e)
      PROVE  put' \in Seq(T) /\ Handed' = Handed
  <2>1. Out(Append(put, e), "ask", got, queue) = Out(put, "room", got, queue)
    BY <1>2, <1>4, OutPuts
  <2>2. Append(put, e) \in Seq(T)
    BY <1>2, AppendProperties
  <2> QED
    BY <1>1, <1>4, <2>1, <2>2 DEF Handed
<1>5. put' \in Seq(T) /\ Handed' = Handed
  <2>1. CASE got.kind = "silence" /\ put' = Append(put, TimeoutPacket)
    BY <1>2, <1>3, <1>4, <2>1 DEF IsPacket
  <2>2. CASE got.kind \in {"points", "fault"} /\ put' = Append(put, got)
    BY <1>2, <1>4, <2>2 DEF IsPacket
  <2>3. CASE got.kind \in {"gps", "silence"} /\ put' = put
    <3>1. ~IsPacket(got)
      BY <2>3 DEF IsPacket
    <3> QED
      BY <1>1, <1>2, <2>3, <3>1, OutLeaves DEF Handed
  <2> QED
    BY <1>1, <2>1, <2>2, <2>3 DEF PutsIn
<1> QED
  BY <1>1, <1>5 DEF CommonInv, IsSequence

LEMMA SameHanded ==
  ASSUME CommonInv, UNCHANGED <<source, script, sent, put, receiver, got, queue>>
  PROVE  CommonInv' /\ Handed' = Handed
BY DEF CommonInv, Handed

\* Receive returns a packet, or something else, at once.
LEMMA ReceivesAtOnce ==
  ASSUME CommonInv, queue = <<>>, queue' = queue, receiver = "ask", UNCHANGED <<source, script, sent, put>>,
         receiver' = IF got'.kind = "nothing" THEN "ask" ELSE "room"
  PROVE  /\ CommonInv' /\ Handed' = More(Handed, got')
         /\ IsSequence(Handed) /\ Handed' = Handed \o Found(got')
<1>1. PICK T : put \in Seq(T) /\ queue \in Seq(T) /\ got \in T /\ got' \in T
  BY OneSet DEF CommonInv
<1>2. Out(put, receiver', got', <<>>) = More(Out(put, "ask", got, <<>>), got')
  BY <1>1, OutReceives
<1>3. Handed' = More(Handed, got') /\ Handed \in Seq(T)
  BY <1>1, <1>2, OutTyped DEF Handed
<1>4. CommonInv'
  BY DEF CommonInv
<1>5. Handed \o Found(got') = More(Handed, got')
  BY <1>1, <1>3, MoreFound
<1> QED
  BY <1>3, <1>4, <1>5 DEF IsSequence

\* Receive takes from the source's own ring.
LEMMA ReceivesFromRing ==
  ASSUME CommonInv, receiver = "ask", UNCHANGED <<source, script, sent, put>>,
         \/ queue # <<>> /\ got' = Head(queue) /\ queue' = Tail(queue)
         \/ queue = <<>> /\ got' = Nothing /\ UNCHANGED queue,
         receiver' = IF got'.kind = "nothing" THEN "ask" ELSE "room"
  PROVE  CommonInv' /\ Handed' = Handed
<1>1. PICK T : put \in Seq(T) /\ queue \in Seq(T) /\ got \in T
  BY OneSet DEF CommonInv
<1>2. CASE queue # <<>> /\ got' = Head(queue) /\ queue' = Tail(queue)
  <2>1. /\ Head(queue) \in T /\ Tail(queue) \in Seq(T) /\ Head(queue) = queue[1]
        /\ Len(queue) \in Nat /\ Len(queue) # 0 /\ Len(Tail(queue)) = Len(queue) - 1
        /\ \A i \in 1..Len(Tail(queue)) : Tail(queue)[i] = queue[i + 1]
    BY <1>1, <1>2, PacketsInFirst, HeadTailProperties, LenProperties, EmptySeq
  <2>2. IsPacket(Head(queue)) /\ receiver' = "room"
    <3>1. 1 \in 1..Len(queue)
      BY <2>1
    <3>2. IsPacket(queue[1])
      BY <3>1 DEF CommonInv
    <3> QED
      BY <1>2, <2>1, <3>2 DEF IsPacket
  <2>3. ASSUME NEW i \in 1..Len(Tail(queue)) PROVE IsPacket(Tail(queue)[i])
    <3>1. i + 1 \in 1..Len(queue) /\ Tail(queue)[i] = queue[i + 1]
      BY <2>1
    <3> QED
      BY <3>1 DEF CommonInv
  <2>4. Out(put, "room", Head(queue), Tail(queue)) = Out(put, "ask", got, queue)
    <3> DEFINE h == Head(queue)
               t == Tail(queue)
    <3>1. PacketsIn(queue) = Found(h) \o PacketsIn(t)
      BY <1>1, <1>2, PacketsInFirst
    <3>2. put \in Seq(T) /\ got \in T /\ h \in T /\ t \in Seq(T)
      BY <1>1, <2>1
    <3> HIDE DEF h, t
    <3>3. Out(put, "room", h, t) = Out(put, "ask", got, queue)
      BY <3>1, <3>2, OutTakes
    <3> QED
      BY <3>3 DEF h, t
  <2> QED
    BY <1>2, <2>1, <2>2, <2>3, <2>4 DEF CommonInv, Handed, IsSequence
<1>3. CASE queue = <<>> /\ got' = Nothing /\ queue' = queue
  <2>1. ~IsPacket(got')
    BY <1>3 DEF Nothing, Result, IsPacket
  <2> QED
    BY <1>3, <2>1, ReceivesAtOnce DEF More
<1> QED
  BY <1>2, <1>3
-----------------------------------------------------------------------------
(***************************************************************************)
(* The socket                                                              *)
(***************************************************************************)
Number(r) == r.parts[1][1]
Increasing(w) == \A i, j \in 1..Len(w) : i < j => Number(w[i]) < Number(w[j])
Numbers(w) == {Number(w[i]) : i \in 1..Len(w)}

\* What was handed on and what waits in the socket.
OnItsWay == Handed \o PacketsIn(wire)

SocketInv ==
  /\ queue = <<>> /\ IsSequence(wire)
  /\ arrived \subseteq 1..sent
  /\ Increasing(OnItsWay) /\ Numbers(OnItsWay) = {p \in arrived : script[p] # "gps"}

LEMMA NumbersMore ==
  ASSUME NEW w, IsSequence(w), NEW m \in Nat, Increasing(w), Numbers(w) \subseteq 1..m,
         NEW x, Number(x) = m + 1
  PROVE  Increasing(Append(w, x)) /\ Numbers(Append(w, x)) = Numbers(w) \cup {m + 1}
<1> DEFINE n == Len(w)
           v == Append(w, x)
<1>1. /\ IsSequence(v) /\ n \in Nat /\ Len(v) = n + 1 /\ v[n + 1] = x
      /\ \A i \in 1..n : v[i] = w[i]
  BY OneMore
<1>2. \A i \in 1..n : Number(w[i]) \in 1..m
  BY DEF Numbers
<1> HIDE DEF n, v
<1>3. ASSUME NEW i \in 1..(n + 1), NEW j \in 1..(n + 1), i < j PROVE Number(v[i]) < Number(v[j])
  <2>1. i \in 1..n /\ v[i] = w[i] /\ Number(w[i]) \in 1..m
    BY <1>1, <1>2, <1>3
  <2>2. CASE j \in 1..n
    BY <1>1, <1>3, <2>1, <2>2 DEF Increasing, n
  <2>3. CASE j = n + 1
    BY <1>1, <2>1, <2>3
  <2> QED
    BY <1>1, <2>2, <2>3
<1>4. Numbers(v) = Numbers(w) \cup {m + 1}
  <2>1. ASSUME NEW y \in Numbers(v) PROVE y \in Numbers(w) \cup {m + 1}
    <3>1. PICK i \in 1..(n + 1) : y = Number(v[i])
      BY <1>1, <2>1 DEF Numbers
    <3>2. i = n + 1 \/ i \in 1..n
      BY <1>1
    <3> QED
      BY <1>1, <3>1, <3>2 DEF Numbers, n
  <2>2. ASSUME NEW y \in Numbers(w) PROVE y \in Numbers(v)
    <3>1. PICK i \in 1..n : y = Number(w[i])
      BY <2>2 DEF Numbers, n
    <3>2. i \in 1..(n + 1) /\ v[i] = w[i]
      BY <1>1
    <3> QED
      BY <1>1, <3>1, <3>2 DEF Numbers
  <2>3. m + 1 \in Numbers(v)
    <3>1. n + 1 \in 1..(n + 1)
      BY <1>1
    <3> QED
      BY <1>1, <3>1 DEF Numbers
  <2> QED
    BY <2>1, <2>2, <2>3
<1>5. Increasing(v)
  BY <1>1, <1>3 DEF Increasing
<1> QED
  BY <1>4, <1>5 DEF v

LEMMA SocketSends ==
  ASSUME CommonInv, SocketInv, source = "socket", Socket!Sends,
         UNCHANGED <<source, threadVars, queue>>
  PROVE  CommonInv' /\ SocketInv'
<1>1. /\ sent < Len(script) /\ sent' = sent + 1 /\ UNCHANGED <<script, got, put, receiver>>
      /\ \/ UNCHANGED <<wire, arrived>>
         \/ /\ wire' = Append(wire, Result(script[sent + 1], Intact(sent + 1, 1)))
            /\ arrived' = arrived \cup {sent + 1}
  BY DEF Socket!Sends, threadVars, Socket!Result, Socket!Intact, Result, Intact
<1>2. /\ sent \in Nat /\ Len(script) \in Nat /\ sent + 1 \in 1..Len(script) /\ sent' \in 0..Len(script)
      /\ script[sent + 1] \in {"points", "fault", "gps"}
  <2>1. script \in Seq(ScriptKinds("socket")) /\ sent \in 0..Len(script)
    BY DEF CommonInv
  <2>2. Len(script) \in Nat
    BY <2>1, LenProperties
  <2>3. sent + 1 \in 1..Len(script)
    BY <1>1, <2>1, <2>2
  <2>4. script[sent + 1] \in ScriptKinds("socket")
    BY <2>1, <2>3, ElementOfSeq
  <2> QED
    BY <1>1, <2>1, <2>2, <2>3, <2>4 DEF ScriptKinds
<1>3. CommonInv' /\ Handed' = Handed
  BY <1>1, <1>2 DEF CommonInv, Handed
<1>4. CASE UNCHANGED <<wire, arrived>>
  <2>1. arrived \subseteq 1..sent'
    BY <1>1, <1>2 DEF SocketInv
  <2> QED
    BY <1>1, <1>3, <1>4, <2>1 DEF SocketInv, OnItsWay
<1>5. ASSUME NEW x, x = Result(script[sent + 1], Intact(sent + 1, 1)), wire' = Append(wire, x),
             arrived' = arrived \cup {sent + 1}
      PROVE  SocketInv'
  <2>1. Number(x) = sent + 1 /\ (IsPacket(x) <=> script[sent + 1] # "gps")
    BY <1>2, <1>5 DEF Number, Result, Intact, IsPacket
  <2>2. PICK T : Handed \in Seq(T) /\ wire \in Seq(T) /\ x \in T
    BY OneSet, HandedOnIs DEF CommonInv, SocketInv
  <2>3. OnItsWay \in Seq(T) /\ OnItsWay' = More(OnItsWay, x)
    <3> DEFINE h == Handed
               y == PacketsIn(wire)
               z == Found(x)
    <3>1. y \in Seq(T) /\ z \in Seq(T) /\ PacketsIn(wire') = y \o z
      BY <1>5, <2>2, PacketsInMore
    <3>2. OnItsWay = h \o y /\ OnItsWay' = h \o (y \o z) /\ h \in Seq(T)
      BY <1>3, <2>2, <3>1 DEF OnItsWay
    <3> HIDE DEF h, y, z
    <3>3. h \o (y \o z) = (h \o y) \o z
      BY <3>1, <3>2, Associates, SMTT(40)
    <3>5. h \o y \in Seq(T)
      BY <3>1, <3>2, ConcatProperties
    <3>4. OnItsWay \o Found(x) = More(OnItsWay, x)
      BY <2>2, <3>2, <3>5, MoreFound
    <3> QED
      BY <3>2, <3>3, <3>4, <3>5 DEF z
  <2>4. arrived' \subseteq 1..sent' /\ Numbers(OnItsWay) \subseteq 1..sent
    <3>1. arrived \subseteq 1..sent /\ Numbers(OnItsWay) \subseteq arrived
      BY DEF SocketInv
    <3>2. 1..sent' = 1..sent \cup {sent + 1}
      BY <1>1, <1>2
    <3> QED
      BY <1>5, <3>1, <3>2
  <2>5. Increasing(OnItsWay') /\ Numbers(OnItsWay') = {p \in arrived' : script[p] # "gps"}
    <3> DEFINE w == OnItsWay
    <3>1. CASE script[sent + 1] = "gps"
      BY <1>5, <2>1, <2>3, <3>1 DEF SocketInv, More
    <3>2. CASE script[sent + 1] # "gps"
      <4>1. OnItsWay' = Append(w, x) /\ IsSequence(w)
        BY <2>1, <2>3, <3>2 DEF More, IsSequence
      <4>2. Increasing(w) /\ Numbers(w) = {p \in arrived : script[p] # "gps"}
        BY DEF SocketInv
      <4>3. Increasing(Append(w, x)) /\ Numbers(Append(w, x)) = Numbers(w) \cup {sent + 1}
        <5> HIDE DEF w
        <5> QED
          BY <1>2, <2>1, <2>4, <4>1, <4>2, NumbersMore DEF w
      <4> QED
        BY <1>5, <3>2, <4>1, <4>2, <4>3
    <3> QED
      BY <3>1, <3>2
  <2>6. IsSequence(wire')
    BY <1>5, OneMore DEF SocketInv
  <2> QED
    BY <1>1, <2>4, <2>5, <2>6 DEF SocketInv
<1> QED
  BY <1>1, <1>3, <1>4, <1>5

LEMMA SocketReceives ==
  ASSUME CommonInv, SocketInv, source = "socket", receiver = "ask", Socket!Receive,
         UNCHANGED <<source, put, queue>>,
         receiver' = IF got'.kind = "nothing" THEN "ask" ELSE "room"
  PROVE  CommonInv' /\ SocketInv'
<1>1. /\ UNCHANGED <<script, sent, arrived>>
      /\ \/ wire # <<>> /\ got' = Head(wire) /\ wire' = Tail(wire)
         \/ got' \in {Silence, Nothing} /\ wire' = wire
  BY DEF Socket!Receive, Socket!Selects, Socket!RecvFrom, Socket!ReadsInVain, Socket!Silence,
         Socket!Nothing, Socket!Result, Silence, Nothing, Result
<1>2. CommonInv' /\ Handed' = More(Handed, got') /\ IsSequence(Handed) /\ Handed' = Handed \o Found(got')
  BY <1>1, ReceivesAtOnce DEF SocketInv
<1>3. CASE wire # <<>> /\ got' = Head(wire) /\ wire' = Tail(wire)
  <2>1. PICK T : Handed \in Seq(T) /\ wire \in Seq(T)
    BY <1>2, OneSet DEF SocketInv
  <2>2. OnItsWay' = OnItsWay
    <3> DEFINE h == Handed
               y == Found(Head(wire))
               z == PacketsIn(Tail(wire))
    <3>1. y \in Seq(T) /\ z \in Seq(T) /\ PacketsIn(wire) = y \o z
      BY <1>3, <2>1, PacketsInFirst
    <3>2. OnItsWay = h \o (y \o z) /\ OnItsWay' = (h \o y) \o z /\ h \in Seq(T)
      BY <1>2, <1>3, <2>1, <3>1 DEF OnItsWay
    <3> HIDE DEF h, y, z
    <3> QED
      BY <3>1, <3>2, Associates, SMTT(40)
  <2>3. IsSequence(wire')
    BY <1>3, <2>1, HeadTailProperties DEF IsSequence
  <2> QED
    BY <1>1, <1>2, <2>2, <2>3 DEF SocketInv
<1>4. CASE got' \in {Silence, Nothing} /\ wire' = wire
  <2>1. Handed' = Handed
    BY <1>2, <1>4 DEF More, IsPacket, Silence, Nothing, Result
  <2> QED
    BY <1>1, <1>2, <1>4, <2>1 DEF SocketInv, OnItsWay
<1> QED
  BY <1>1, <1>3, <1>4
-----------------------------------------------------------------------------
(***************************************************************************)
(* The TCP connection                                                      *)
(***************************************************************************)
Pieces == Nat \X Nat

\* The place of a piece in all that the lidar sends, how much of it has been read or was lost
\* with a connection, and the place of the first piece of a packet.
Place(x) == (x[1] - 1) * PacketParts + x[2]
Came == sent * PacketParts - Len(wire)
FirstPlace(r) == Place(r.parts[1])

Whole(p) == Intact(p, PacketParts)
IsHanded(parts) == \E h \in 1..Len(Handed) : Handed[h].parts = parts
StillThere(p, d, first, end) ==
  \E k \in 0..end : /\ first + (k + 1) * PacketParts <= end
                    /\ \A i \in 1..PacketParts : d[first + k * PacketParts + i - 1] = <<p, i>>

TcpTypes ==
  /\ turn \in {"recv", "extract"} /\ dataIndex \in Nat /\ dataLength \in Nat
  /\ dataIndex <= dataLength /\ dataLength <= TcpRoom /\ DOMAIN data = 0..(TcpRoom - 1)
  /\ turn = "recv" => dataLength < dataIndex + PacketParts

\* The pieces on the wire are the last that were sent.
WireInv ==
  /\ wire \in Seq(Pieces)
  /\ \A i \in 1..Len(wire) : wire[i][2] \in 1..PacketParts /\ Place(wire[i]) = Came + i

\* What came with the last read, at the index, is newer than what has been handed on; behind it
\* is less than a packet.
Fresh(end, o, d, first) ==
  /\ \A i \in first..(end - 1) : /\ Place(d[i]) \in Int /\ Place(d[i]) <= Came
                                 /\ \A h \in 1..Len(o) : FirstPlace(o[h]) < Place(d[i])
  /\ \A i, j \in first..(end - 1) : i < j => Place(d[i]) < Place(d[j])

\* The packets begin with pieces that came, in order.
FirstsInOrder(o) ==
  /\ \A i \in 1..Len(o) : FirstPlace(o[i]) \in Int /\ FirstPlace(o[i]) <= Came
  /\ \A i, j \in 1..Len(o) : i < j => FirstPlace(o[i]) < FirstPlace(o[j])

TcpInv ==
  /\ TcpTypes /\ WireInv /\ FirstsInOrder(Handed)
  /\ \A p \in arrived : IsHanded(Whole(p)) \/ StillThere(p, data, dataIndex, dataLength)
  /\ turn = "extract" => \E end \in Nat : /\ dataLength < end + PacketParts
                                          /\ Fresh(end, Handed, data, dataIndex)

LEMMA TcpSizes == PacketParts \in Nat /\ PacketParts # 0 /\ TcpRoom \in Nat /\ TcpRoom # 0
BY SetupAssumption

LEMMA TimesLess ==
  ASSUME NEW a \in Int, NEW b \in Int, NEW n \in Nat \ {0}
  PROVE  /\ a * n \in Int /\ (a + 1) * n = a * n + n /\ (a - 1) * n = a * n - n
         /\ a * n - b * n = (a - b) * n
         /\ a * n < b * n <=> a < b
         /\ a >= 0 => a * n >= a
<1>1. a * n \in Int /\ b * n \in Int /\ (a + 1) * n = a * n + n /\ (a - 1) * n = a * n - n
  OBVIOUS
<1>2. a * n - b * n = (a - b) * n
  OBVIOUS
<1>3. a < b => a * n < b * n
  <2>1. ASSUME a < b PROVE a * n < b * n
    <3> DEFINE d == b - a
    <3>1. d \in Int /\ d >= 1 /\ d * n >= n /\ b * n = a * n + d * n
      BY <2>1
    <3> HIDE DEF d
    <3> QED
      BY <1>1, <3>1
  <2> QED
    BY <2>1
<1>4. ~(a < b) => ~(a * n < b * n)
  <2>1. ASSUME ~(a < b) PROVE ~(a * n < b * n)
    <3> DEFINE d == a - b
    <3>1. d \in Int /\ d >= 0 /\ d * n >= 0 /\ d * n \in Int /\ a * n = b * n + d * n
      BY <2>1
    <3> HIDE DEF d
    <3> QED
      BY <1>1, <3>1
  <2> QED
    BY <2>1
<1>5. a >= 0 => a * n >= a
  OBVIOUS
<1> QED
  BY <1>1, <1>2, <1>3, <1>4, <1>5

\* At "recv" nothing is left that could be a packet.
LEMMA NothingLeft ==
  ASSUME TcpTypes, dataLength < dataIndex + PacketParts, NEW p
  PROVE  ~StillThere(p, data, dataIndex, dataLength)
<1> SUFFICES ASSUME NEW k \in 0..dataLength, dataIndex + (k + 1) * PacketParts <= dataLength
             PROVE  FALSE
  BY DEF StillThere
<1>1. PacketParts \in Nat \ {0} /\ dataIndex \in Nat /\ dataLength \in Nat /\ k \in Int /\ k >= 0
  BY TcpSizes DEF TcpTypes
<1>2. k * PacketParts \in Int /\ (k + 1) * PacketParts = k * PacketParts + PacketParts
      /\ k * PacketParts >= k
  BY <1>1, TimesLess
<1> QED
  BY <1>1, <1>2

LEMMA TcpSends ==
  ASSUME CommonInv, TcpInv, source = "tcp", Tcp!Sends, UNCHANGED <<source, threadVars>>
  PROVE  CommonInv' /\ TcpInv'
<1> DEFINE PP == PacketParts
           new == Whole(sent + 1)
<1>1. /\ sent < Len(script) /\ sent' = sent + 1 /\ wire' = wire \o new
      /\ UNCHANGED <<script, turn, data, dataIndex, dataLength, queue, got, arrived, put, receiver>>
  BY DEF Tcp!Sends, Tcp!bufferVars, Tcp!Intact, threadVars, Whole, Intact
<1>2. PP \in Nat \ {0} /\ sent \in Nat /\ Len(script) \in Nat /\ sent' \in 0..Len(script)
  <2>1. Len(script) \in Nat /\ sent \in 0..Len(script)
    BY LenProperties DEF CommonInv
  <2> QED
    BY <1>1, <2>1, TcpSizes
<1>3. CommonInv' /\ Handed' = Handed
  BY <1>1, <1>2 DEF CommonInv, Handed
<1>4. new \in Seq(Pieces) /\ Len(new) = PP /\ \A i \in 1..PP : new[i] = <<sent + 1, i>>
  <2> DEFINE e(i) == <<sent + 1, i>>
  <2>1. \A i \in 1..PP : e(i) \in Pieces
    BY <1>2 DEF Pieces
  <2>2. new = [i \in 1..PP |-> e(i)]
    BY DEF Whole, Intact
  <2> HIDE DEF e
  <2>3. [i \in 1..PP |-> e(i)] \in Seq(Pieces)
    BY <1>2, <2>1, IsASeq
  <2>4. DOMAIN new = 1..PP
    BY <2>2
  <2>5. Len(new) = PP
    BY <1>2, <2>2, <2>3, <2>4, LenProperties
  <2> QED
    BY <2>2, <2>3, <2>5 DEF e
<1> HIDE DEF new
<1>5. /\ wire \in Seq(Pieces) /\ Len(wire) \in Nat /\ wire' \in Seq(Pieces) /\ Len(wire') = Len(wire) + PP
      /\ \A i \in 1..(Len(wire) + PP) : wire'[i] = IF i <= Len(wire) THEN wire[i] ELSE new[i - Len(wire)]
  BY <1>1, <1>4, ConcatProperties, LenProperties DEF TcpInv, WireInv
<1>6. Came \in Int /\ Came' = Came /\ sent * PP \in Int /\ Came = sent * PP - Len(wire)
  <2>1. (sent + 1) * PP = sent * PP + PP /\ sent * PP \in Int
    BY <1>2, TimesLess
  <2> QED
    BY <1>1, <1>2, <1>5, <2>1 DEF Came
<1>7. ASSUME NEW i \in 1..Len(wire') PROVE wire'[i][2] \in 1..PP /\ Place(wire'[i]) = Came + i
  <2>1. CASE i <= Len(wire)
    <3>1. i \in 1..Len(wire) /\ wire'[i] = wire[i]
      BY <1>5, <2>1
    <3> QED
      BY <3>1 DEF TcpInv, WireInv
  <2>2. CASE ~(i <= Len(wire))
    <3> DEFINE j == i - Len(wire)
    <3>1. j \in 1..PP /\ wire'[i] = new[j] /\ i = Len(wire) + j /\ j \in Int
      BY <1>2, <1>5, <2>2
    <3> HIDE DEF j
    <3>2. wire'[i] = <<sent + 1, j>>
      BY <1>4, <3>1
    <3>3. Place(wire'[i]) = sent * PP + j
      BY <1>2, <3>2 DEF Place
    <3> QED
      BY <1>5, <1>6, <3>1, <3>2, <3>3
  <2> QED
    BY <2>1, <2>2
<1>8. WireInv'
  BY <1>5, <1>6, <1>7 DEF WireInv, Place
<1>9. TcpTypes' /\ FirstsInOrder(Handed)'
  BY <1>1, <1>3, <1>6 DEF TcpInv, TcpTypes, FirstsInOrder, FirstPlace, Place
<1>10. turn' = "extract" => \E end \in Nat : dataLength' < end + PP /\ Fresh(end, Handed, data, dataIndex)'
  BY <1>1, <1>3, <1>6 DEF TcpInv, Fresh, FirstPlace, Place
<1>11. \A p \in arrived' : IsHanded(Whole(p))' \/ StillThere(p, data', dataIndex', dataLength')
  BY <1>1, <1>3 DEF TcpInv, IsHanded, Whole
<1> QED
  BY <1>3, <1>8, <1>9, <1>10, <1>11 DEF TcpInv

LEMMA TcpConnects ==
  ASSUME CommonInv, TcpInv, source = "tcp", Tcp!Breaks \/ Tcp!Opens, UNCHANGED <<source, threadVars>>
  PROVE  CommonInv' /\ TcpInv'
<1>1. /\ UNCHANGED <<script, sent, turn, data, dataIndex, dataLength, queue, got, arrived, put, receiver>>
      /\ wire' = wire \/ (wire' = <<>> /\ turn = "recv")
  BY DEF Tcp!Breaks, Tcp!Opens, Tcp!bufferVars, threadVars
<1>2. CommonInv' /\ Handed' = Handed
  BY <1>1, SameHanded
<1>3. /\ PacketParts \in Nat \ {0} /\ sent \in Nat /\ sent * PacketParts \in Int
      /\ wire \in Seq(Pieces) /\ Len(wire) \in Nat
  <2>1. sent \in Nat /\ wire \in Seq(Pieces)
    BY LenProperties DEF CommonInv, TcpInv, WireInv
  <2> QED
    BY <2>1, TcpSizes, TimesLess, LenProperties
<1>4. CASE wire' = wire
  BY <1>1, <1>2, <1>4
     DEF TcpInv, TcpTypes, WireInv, FirstsInOrder, Fresh, IsHanded, Whole, FirstPlace, Place, Came
<1>5. CASE wire' = <<>> /\ turn = "recv"
  <2>1. Came \in Int /\ Came' \in Int /\ Came <= Came' /\ wire' \in Seq(Pieces) /\ Len(wire') = 0
    BY <1>1, <1>3, <1>5, EmptySeq DEF Came
  <2>2. WireInv'
    BY <2>1 DEF WireInv
  <2>3. FirstsInOrder(Handed)'
    BY <1>2, <2>1, SMTT(40) DEF TcpInv, FirstsInOrder, FirstPlace, Place
  <2> QED
    BY <1>1, <1>2, <1>5, <2>2, <2>3 DEF TcpInv, TcpTypes, IsHanded, Whole
<1> QED
  BY <1>1, <1>4, <1>5

LEMMA TcpNumbers ==
  ASSUME CommonInv, TcpInv
  PROVE  /\ PacketParts \in Nat \ {0} /\ TcpRoom \in Nat \ {0} /\ sent \in Nat
         /\ sent * PacketParts \in Int /\ wire \in Seq(Pieces) /\ Len(wire) \in Nat /\ Came \in Int
         /\ dataIndex \in Nat /\ dataLength \in Nat
<1>1. sent \in Nat /\ wire \in Seq(Pieces) /\ dataIndex \in Nat /\ dataLength \in Nat
  BY LenProperties DEF CommonInv, TcpInv, WireInv, TcpTypes
<1>2. PacketParts \in Nat \ {0} /\ TcpRoom \in Nat \ {0} /\ Len(wire) \in Nat
  BY <1>1, TcpSizes, LenProperties
<1>3. sent * PacketParts \in Int
  BY <1>1, <1>2, TimesLess
<1> QED
  BY <1>1, <1>2, <1>3 DEF Came

\* A packet that is whole in what is read, when a packet is the first to be read.
LEMMA WholeInWire ==
  ASSUME CommonInv, TcpInv, NEW n \in Nat, n <= Len(wire), wire[1][2] = 1, n >= 1,
         NEW p \in Nat, NEW i \in 1..(n + 1 - PacketParts),
         Whole(p) = SubSeq(wire, i, i + PacketParts - 1),
         NEW d, \A j \in 1..n : d[dataIndex + j - 1] = wire[j],
         NEW end \in Nat, dataIndex + n <= end
  PROVE  StillThere(p, d, dataIndex, end)
<1> DEFINE PP == PacketParts
           q == wire[1][1]
           k == p - q
           last == i + PP - 1
<1>1. /\ PP \in Nat \ {0} /\ Len(wire) \in Nat /\ dataIndex \in Nat /\ wire \in Seq(Pieces) /\ Came \in Int
      /\ i \in Int /\ 1 <= i /\ i + PP <= n + 1 /\ i <= n /\ i \in 1..Len(wire) /\ 1 \in 1..Len(wire)
  <2>1. PP \in Nat \ {0} /\ Len(wire) \in Nat /\ dataIndex \in Nat /\ wire \in Seq(Pieces) /\ Came \in Int
    BY TcpNumbers
  <2>2. i \in Int /\ 1 <= i /\ i + PP <= n + 1 /\ i <= n
    BY <2>1
  <2> QED
    BY <2>1, <2>2
<1>2. /\ Place(wire[1]) = Came + 1 /\ Place(wire[i]) = Came + i
      /\ \A x \in 1..Len(wire) : wire[x] \in Pieces
  BY <1>1, ElementOfSeq DEF TcpInv, WireInv
<1>3. \A j \in 1..PP : wire[i + j - 1] = <<p, j>>
  <2>1. i \in Int /\ last \in Int /\ \A x \in i..last : wire[x] \in Pieces
    BY <1>1, <1>2
  <2>2. last - i + 1 = PP
    BY <1>1
  <2> HIDE DEF last
  <2>3. \A j \in 1..PP : SubSeq(wire, i, last)[j] = wire[i + j - 1]
    BY <2>1, <2>2, SubSeqProperties
  <2>4. \A j \in 1..PP : Whole(p)[j] = <<p, j>>
    BY DEF Whole, Intact
  <2> QED
    BY <2>3, <2>4 DEF last
<1>4. wire[i] = <<p, 1>>
  <2>1. 1 \in 1..PP /\ i + 1 - 1 = i
    BY <1>1
  <2> QED
    BY <1>3, <2>1
<1>5. q \in Nat /\ p \in Int /\ k \in Int
  <2>1. wire[1] \in Nat \X Nat
    BY <1>1, <1>2 DEF Pieces
  <2>2. q \in Nat
    BY <2>1
  <2> HIDE DEF q
  <2> QED
    BY <2>2
<1>6. k * PP = i - 1 /\ k >= 0 /\ (k + 1) * PP = k * PP + PP /\ k <= k * PP /\ k * PP \in Int
  <2>1. Place(wire[i]) = (p - 1) * PP + 1 /\ Place(wire[1]) = (q - 1) * PP + 1
    BY <1>4 DEF Place
  <2>2. (p - 1) * PP - (q - 1) * PP = k * PP /\ (p - 1) * PP \in Int /\ (q - 1) * PP \in Int
    <3> DEFINE u == p - 1
               v == q - 1
    <3>1. u \in Int /\ v \in Int /\ u - v = k
      <4>1. PICK e \in Nat : e = q
        BY <1>5
      <4> HIDE DEF q
      <4>2. u = p - 1 /\ v = e - 1 /\ k = p - e
        BY <4>1
      <4> HIDE DEF u, v, k
      <4> QED
        BY <1>5, <4>1, <4>2
    <3> HIDE DEF u, v, k
    <3>2. u * PP - v * PP = (u - v) * PP /\ u * PP \in Int /\ v * PP \in Int
      BY <1>1, <3>1, TimesLess
    <3> QED
      BY <3>1, <3>2 DEF u, v
  <2> HIDE DEF k, q
  <2>3. k * PP = i - 1
    <3>1. PICK a \in Int : a = (p - 1) * PP
      BY <2>2
    <3>2. PICK b \in Int : b = (q - 1) * PP
      BY <2>2
    <3>3. a - b = k * PP /\ a + 1 = Came + i /\ b + 1 = Came + 1
      BY <1>2, <2>1, <2>2, <3>1, <3>2
    <3>4. a - b = i - 1
      <4>1. PICK c \in Int : c = Came
        BY <1>1
      <4>2. a + 1 = c + i /\ b + 1 = c + 1
        BY <3>3, <4>1
      <4> QED
        BY <1>1, <3>1, <3>2, <4>1, <4>2, SMTT(40)
    <3> QED
      BY <3>3, <3>4
  <2>4. k >= 0
    <3>1. k * PP < 0 * PP <=> k < 0
      BY <1>1, <1>5, TimesLess
    <3>2. 0 * PP = 0
      BY <1>1
    <3>3. ~(k * PP < 0)
      BY <1>1, <2>3
    <3>4. ~(k < 0)
      BY <3>1, <3>2, <3>3
    <3> QED
      BY <1>5, <3>4
  <2> QED
    BY <1>1, <1>5, <2>3, <2>4, TimesLess
<1> HIDE DEF k
<1>m. \A m : m = k * PP => /\ m = i - 1 /\ k >= 0 /\ (k + 1) * PP = m + PP /\ k <= m /\ m \in Int /\ k \in Int
  BY <1>5, <1>6
<1> DEFINE m == k * PP
           m1 == (k + 1) * PP
<1>p. m = i - 1 /\ k >= 0 /\ m1 = m + PP /\ k <= m /\ m \in Int /\ k \in Int
  BY <1>m
<1> HIDE DEF m, m1
<1>7. k \in 0..end /\ dataIndex + (k + 1) * PP <= end
  <2>1. k \in 0..end /\ dataIndex + m1 <= end
    BY <1>1, <1>p
  <2> QED
    BY <2>1 DEF m1
<1>8. ASSUME NEW j \in 1..PP PROVE d[dataIndex + k * PP + j - 1] = <<p, j>>
  <2> DEFINE x == i + j - 1
  <2>0. x \in 1..n /\ dataIndex + m + j - 1 = dataIndex + x - 1
    BY <1>1, <1>p
  <2>1. x \in 1..n /\ dataIndex + k * PP + j - 1 = dataIndex + x - 1
    BY <2>0 DEF m
  <2> HIDE DEF x
  <2>2. d[dataIndex + x - 1] = wire[x]
    BY <2>1
  <2> QED
    BY <1>3, <2>1, <2>2 DEF x
<1> QED
  BY <1>7, <1>8 DEF StillThere

LEMMA TcpReads ==
  ASSUME CommonInv, TcpInv, source = "tcp", NEW n \in 1..TcpRoom, Tcp!Reads(n), UNCHANGED <<source, threadVars>>
  PROVE  CommonInv' /\ TcpInv'
<1> DEFINE PP == PacketParts
<1>e. PICK end : end = dataIndex + n
  OBVIOUS
<1>1. /\ turn = "recv" /\ n <= Len(wire) /\ n <= TcpRoom - dataLength
      /\ data' = [i \in DOMAIN data |-> IF i \in dataIndex..(dataIndex + n - 1)
                                        THEN wire[i - dataIndex + 1] ELSE data[i]]
      /\ dataLength' = dataLength + n /\ wire' = SubSeq(wire, n + 1, Len(wire)) /\ turn' = "extract"
      /\ UNCHANGED <<script, sent, dataIndex, queue, got, put, receiver>>
  BY DEF Tcp!Reads, Tcp!AtIndex, threadVars
<1>2. \A p \in arrived' : \/ p \in arrived
                          \/ /\ wire[1][2] = 1 /\ p \in 1..sent
                             /\ \E i \in 1..(n + 1 - PP) : Whole(p) = SubSeq(wire, i, i + PP - 1)
  BY DEF Tcp!Reads, Tcp!ReadWhole, Tcp!Intact, Whole, Intact
<1>3. CommonInv' /\ Handed' = Handed
  BY <1>1, SameHanded
<1>4. /\ PP \in Nat \ {0} /\ TcpRoom \in Nat \ {0} /\ sent \in Nat /\ sent * PP \in Int
      /\ wire \in Seq(Pieces) /\ Len(wire) \in Nat /\ Came \in Int /\ n \in Nat /\ n >= 1
      /\ dataIndex \in Nat /\ dataLength \in Nat
  BY TcpNumbers
<1>5. /\ dataIndex <= dataLength /\ dataLength <= TcpRoom /\ DOMAIN data = 0..(TcpRoom - 1)
      /\ dataLength < dataIndex + PP
  BY <1>1 DEF TcpInv, TcpTypes
<1>6. /\ wire' \in Seq(Pieces) /\ Len(wire') = Len(wire) - n
      /\ \A i \in 1..(Len(wire) - n) : wire'[i] = wire[n + i]
  <2>1. \A x \in (n + 1)..Len(wire) : wire[x] \in Pieces
    BY <1>4, ElementOfSeq
  <2> DEFINE m == n + 1
  <2>2. m \in Int /\ Len(wire) \in Int /\ (\A x \in m..Len(wire) : wire[x] \in Pieces) /\ Len(wire) - m + 1 = Len(wire) - n
    BY <1>4, <2>1
  <2>3. wire' = SubSeq(wire, m, Len(wire))
    BY <1>1
  <2> HIDE DEF m
  <2>4. /\ wire' \in Seq(Pieces) /\ Len(wire') = IF m <= Len(wire) THEN Len(wire) - m + 1 ELSE 0
        /\ \A i \in 1..(Len(wire) - m + 1) : wire'[i] = wire[m + i - 1]
    BY <2>2, <2>3, SubSeqProperties
  <2>5. Len(wire') = Len(wire) - n
    <3>1. n <= Len(wire) /\ n \in Nat /\ Len(wire) \in Nat /\ m = n + 1
      BY <1>1, <1>4 DEF m
    <3> QED
      BY <2>4, <3>1
  <2>6. ASSUME NEW i \in 1..(Len(wire) - n) PROVE wire'[i] = wire[n + i]
    <3>1. m + i - 1 = n + i /\ i \in 1..(Len(wire) - m + 1)
      BY <1>4, <2>2 DEF m
    <3> QED
      BY <2>4, <3>1
  <2> QED
    BY <2>4, <2>5, <2>6
<1>7. Came' = Came + n
  <2> DEFINE all == sent * PP
  <2>1. all \in Int /\ Came = all - Len(wire) /\ Came' = all - Len(wire')
    BY <1>1, <1>4 DEF Came
  <2> HIDE DEF all
  <2> QED
    BY <1>1, <1>4, <1>6, <2>1
<1>8. ASSUME NEW i \in 1..Len(wire') PROVE wire'[i][2] \in 1..PP /\ Place(wire'[i]) = Came' + i
  <2> DEFINE x == n + i
  <2>1. x \in 1..Len(wire) /\ wire'[i] = wire[x] /\ x = n + i
    BY <1>4, <1>6
  <2> HIDE DEF x
  <2>2. wire[x][2] \in 1..PP /\ Place(wire[x]) = Came + x
    BY <2>1 DEF TcpInv, WireInv
  <2> QED
    BY <1>4, <1>7, <2>1, <2>2
<1>9. WireInv'
  BY <1>6, <1>8 DEF WireInv, Place
<1>10. TcpTypes'
  BY <1>1, <1>4, <1>5 DEF TcpTypes
<1>11. ASSUME NEW i \in dataIndex..(end - 1)
       PROVE  i \in 0..(TcpRoom - 1) /\ i - dataIndex + 1 \in 1..n /\ data'[i] = wire[i - dataIndex + 1]
  BY <1>e, <1>1, <1>4, <1>5, SMTT(40)
<1>12. ASSUME NEW i \in dataIndex..(end - 1) PROVE Place(data'[i]) = Came + (i - dataIndex + 1)
  <2> DEFINE x == i - dataIndex + 1
  <2>1. x \in 1..Len(wire) /\ data'[i] = wire[x]
    BY <1>e, <1>1, <1>4, <1>11
  <2> HIDE DEF x
  <2>2. Place(wire[x]) = Came + x
    BY <2>1 DEF TcpInv, WireInv
  <2> QED
    BY <2>1, <2>2 DEF x
<1>13. /\ \A h \in 1..Len(Handed) : FirstPlace(Handed[h]) \in Int /\ FirstPlace(Handed[h]) <= Came
       /\ \A i, j \in 1..Len(Handed) : i < j => FirstPlace(Handed[i]) < FirstPlace(Handed[j])
  BY DEF TcpInv, FirstsInOrder
<1>14. end \in Nat /\ dataLength' < end + PP
  <2>1. dataLength' = dataLength + n /\ dataLength < dataIndex + PP /\ end = dataIndex + n
    BY <1>1, <1>5, <1>e
  <2> QED
    BY <1>4, <2>1
<1>15. Fresh(end, Handed, data, dataIndex)'
  <2>1. ASSUME NEW i \in dataIndex..(end - 1)
        PROVE  /\ Place(data'[i]) \in Int /\ Place(data'[i]) <= Came'
               /\ \A h \in 1..Len(Handed) : FirstPlace(Handed[h]) < Place(data'[i])
    <3>1. Place(data'[i]) = Came + (i - dataIndex + 1) /\ i \in Int /\ i - dataIndex + 1 >= 1 /\ i - dataIndex + 1 <= n
      BY <1>e, <1>4, <1>12
    <3> QED
      BY <1>4, <1>7, <1>13, <3>1
  <2>2. ASSUME NEW i \in dataIndex..(end - 1), NEW j \in dataIndex..(end - 1), i < j
        PROVE  Place(data'[i]) < Place(data'[j])
    BY <1>e, <1>4, <1>12, <2>2
  <2> QED
    BY <1>1, <1>3, <2>1, <2>2 DEF Fresh, FirstPlace, Place
<1>16. FirstsInOrder(Handed)'
  <2>1. \A h \in 1..Len(Handed) : FirstPlace(Handed[h]) \in Int /\ FirstPlace(Handed[h]) <= Came'
    BY <1>4, <1>7, <1>13
  <2> QED
    BY <1>3, <1>13, <2>1 DEF FirstsInOrder, FirstPlace, Place
<1>17. ASSUME NEW p \in arrived' PROVE IsHanded(Whole(p)) \/ StillThere(p, data', dataIndex, dataLength')
  <2>1. CASE p \in arrived
    BY <1>5, <2>1, NothingLeft DEF TcpInv
  <2>2. CASE /\ wire[1][2] = 1 /\ p \in 1..sent
             /\ \E i \in 1..(n + 1 - PP) : Whole(p) = SubSeq(wire, i, i + PP - 1)
    <3>1. PICK i \in 1..(n + 1 - PP) : Whole(p) = SubSeq(wire, i, i + PP - 1)
      BY <2>2
    <3>2. ASSUME NEW j \in 1..n PROVE data'[dataIndex + j - 1] = wire[j]
      <4> DEFINE x == dataIndex + j - 1
      <4>1. x \in dataIndex..(end - 1) /\ x - dataIndex + 1 = j
        BY <1>e, <1>4
      <4> HIDE DEF x
      <4>2. data'[x] = wire[x - dataIndex + 1]
        BY <1>11, <4>1
      <4> QED
        BY <4>1, <4>2 DEF x
    <3>3. dataLength' \in Nat /\ dataIndex + n <= dataLength' /\ p \in Nat
      BY <1>1, <1>4, <1>5, <2>2
    <3>4. StillThere(p, data', dataIndex, dataLength')
      BY <1>1, <1>4, <2>2, <3>1, <3>2, <3>3, WholeInWire
    <3> QED
      BY <3>4
  <2> QED
    BY <1>2, <2>1, <2>2
<1>18. \A p \in arrived' : IsHanded(Whole(p))' \/ StillThere(p, data', dataIndex', dataLength')
  BY <1>1, <1>3, <1>17 DEF IsHanded, Whole
<1>19. \E e \in Nat : dataLength' < e + PP /\ Fresh(e, Handed, data, dataIndex)'
  BY <1>14, <1>15
<1> QED
  BY <1>3, <1>9, <1>10, <1>16, <1>18, <1>19 DEF TcpInv

\* The source puts a packet into its own ring.
LEMMA RingGrows ==
  ASSUME CommonInv, NEW x, IsPacket(x), queue' = Append(queue, x),
         UNCHANGED <<source, script, sent, put, receiver, got>>
  PROVE  CommonInv' /\ Handed' = Append(Handed, x) /\ IsSequence(Handed)
<1>1. PICK T : put \in Seq(T) /\ queue \in Seq(T) /\ got \in T /\ x \in T
  BY OneSet DEF CommonInv
<1>2. Out(put, receiver, got, Append(queue, x)) = More(Out(put, receiver, got, queue), x)
  BY <1>1, OutGrows
<1>3. Handed \in Seq(T) /\ Handed' = Append(Handed, x)
  BY <1>1, <1>2, OutTyped DEF Handed, More
<1>4. /\ IsSequence(queue') /\ Len(queue) \in Nat /\ Len(queue') = Len(queue) + 1 /\ queue'[Len(queue) + 1] = x
      /\ \A i \in 1..Len(queue) : queue'[i] = queue[i]
  BY OneMore DEF CommonInv
<1>5. ASSUME NEW i \in 1..Len(queue') PROVE IsPacket(queue'[i])
  <2>1. i \in 1..Len(queue) \/ i = Len(queue) + 1
    BY <1>4
  <2> QED
    BY <1>4, <2>1 DEF CommonInv
<1> QED
  BY <1>3, <1>4, <1>5 DEF CommonInv, IsSequence

\* What was still there is handed on, or is still there one packet further.
LEMMA TakesOne ==
  ASSUME CommonInv, TcpInv, NEW p, StillThere(p, data, dataIndex, dataLength)
  PROVE  \/ [i \in 1..PacketParts |-> data[dataIndex + i - 1]] = Whole(p)
         \/ StillThere(p, data, dataIndex + PacketParts, dataLength)
<1> DEFINE PP == PacketParts
<1>1. PP \in Nat \ {0} /\ dataIndex \in Nat /\ dataLength \in Nat
  BY TcpNumbers
<1>2. PICK k \in 0..dataLength : /\ dataIndex + (k + 1) * PP <= dataLength
                                 /\ \A i \in 1..PP : data[dataIndex + k * PP + i - 1] = <<p, i>>
  BY DEF StillThere
<1>3. CASE k = 0
  <2>1. k * PP = 0
    BY <1>1, <1>3
  <2>2. ASSUME NEW i \in 1..PP PROVE data[dataIndex + i - 1] = <<p, i>>
    <3>1. dataIndex + k * PP + i - 1 = dataIndex + i - 1
      BY <1>1, <2>1
    <3> QED
      BY <1>2, <3>1
  <2> QED
    BY <2>2 DEF Whole, Intact
<1>4. CASE k # 0
  <2> DEFINE l == k - 1
             m == k * PP
             m1 == l * PP
             mk == (k + 1) * PP
             ml == (l + 1) * PP
  <2>1. k \in Int /\ l \in 0..dataLength /\ l + 1 = k
    BY <1>1, <1>4
  <2>2. m \in Int /\ m1 = m - PP /\ mk = m + PP /\ ml = m
    BY <1>1, <2>1, TimesLess
  <2>3. dataIndex + mk <= dataLength
    BY <1>2
  <2>4. \A i \in 1..PP : data[dataIndex + m + i - 1] = <<p, i>>
    BY <1>2
  <2> HIDE DEF l, m, m1, mk, ml
  <2>5. (dataIndex + PP) + ml <= dataLength
    BY <1>1, <2>2, <2>3
  <2>6. ASSUME NEW i \in 1..PP PROVE data[(dataIndex + PP) + m1 + i - 1] = <<p, i>>
    <3>1. (dataIndex + PP) + m1 + i - 1 = dataIndex + m + i - 1
      BY <1>1, <2>2
    <3> QED
      BY <2>4, <3>1
  <2> QED
    BY <2>1, <2>5, <2>6 DEF StillThere, m1, ml
<1> QED
  BY <1>3, <1>4

LEMMA TcpExtracts ==
  ASSUME CommonInv, TcpInv, source = "tcp", Tcp!Extracts, UNCHANGED <<source, threadVars>>
  PROVE  CommonInv' /\ TcpInv'
<1> DEFINE PP == PacketParts
<1>x. PICK x : x = Result("points", [i \in 1..PP |-> data[dataIndex + i - 1]])
  OBVIOUS
<1>1. /\ turn = "extract" /\ dataIndex + PP <= dataLength /\ queue' = Append(queue, x)
      /\ dataIndex' = dataIndex + PP
      /\ UNCHANGED <<script, sent, wire, turn, data, dataLength, got, arrived, put, receiver>>
  BY <1>x DEF Tcp!Extracts, Tcp!HasPacket, Tcp!Result, Result, threadVars
<1>2. /\ PP \in Nat \ {0} /\ Came \in Int /\ dataIndex \in Nat /\ dataLength \in Nat
  BY TcpNumbers
<1>3. /\ IsPacket(x) /\ x.parts = [i \in 1..PP |-> data[dataIndex + i - 1]] /\ x.parts[1] = data[dataIndex]
  <2>1. 1 \in 1..PP /\ dataIndex + 1 - 1 = dataIndex
    BY <1>2
  <2> QED
    BY <1>x, <2>1 DEF Result, IsPacket
<1>4. CommonInv' /\ Handed' = Append(Handed, x) /\ IsSequence(Handed)
  BY <1>1, <1>3, RingGrows
<1> DEFINE n == Len(Handed)
           o == Append(Handed, x)
<1>5. n \in Nat /\ Len(o) = n + 1 /\ o[n + 1] = x /\ \A i \in 1..n : o[i] = Handed[i]
  BY <1>4, OneMore
<1>6. Came' = Came /\ Handed' = o
  BY <1>1, <1>4 DEF Came
<1> HIDE DEF o
<1>7. PICK end \in Nat : dataLength < end + PP /\ Fresh(end, Handed, data, dataIndex)
  BY <1>1 DEF TcpInv
<1>8. dataIndex \in dataIndex..(end - 1) /\ \A i \in (dataIndex + PP)..(end - 1) : i \in dataIndex..(end - 1) /\ dataIndex < i
  BY <1>1, <1>2, <1>7
<1>9. FirstPlace(x) = Place(data[dataIndex]) /\ Place(data[dataIndex]) \in Int /\ Place(data[dataIndex]) <= Came
      /\ \A h \in 1..n : FirstPlace(Handed[h]) < FirstPlace(x)
  BY <1>3, <1>7, <1>8 DEF FirstPlace, Fresh
<1>10. /\ \A h \in 1..n : FirstPlace(Handed[h]) \in Int /\ FirstPlace(Handed[h]) <= Came
       /\ \A i, j \in 1..n : i < j => FirstPlace(Handed[i]) < FirstPlace(Handed[j])
  BY DEF TcpInv, FirstsInOrder
<1> HIDE DEF n
<1>11. \A i \in 1..(n + 1) : i \in 1..n \/ i = n + 1
  BY <1>5
<1>12. FirstsInOrder(o)
  <2>1. \A i \in 1..(n + 1) : FirstPlace(o[i]) \in Int /\ FirstPlace(o[i]) <= Came
    BY <1>5, <1>9, <1>10, <1>11
  <2>2. ASSUME NEW i \in 1..(n + 1), NEW j \in 1..(n + 1), i < j PROVE FirstPlace(o[i]) < FirstPlace(o[j])
    <3>1. i \in 1..n /\ o[i] = Handed[i]
      BY <1>5, <2>2
    <3>2. CASE j \in 1..n
      BY <1>5, <1>10, <2>2, <3>1, <3>2
    <3>3. CASE j = n + 1
      BY <1>5, <1>9, <3>1, <3>3
    <3> QED
      BY <1>11, <3>2, <3>3
  <2> QED
    BY <1>5, <2>1, <2>2 DEF FirstsInOrder
<1>13. Fresh(end, o, data, dataIndex + PP)
  <2>1. ASSUME NEW i \in (dataIndex + PP)..(end - 1)
        PROVE  /\ Place(data[i]) \in Int /\ Place(data[i]) <= Came
               /\ \A h \in 1..(n + 1) : FirstPlace(o[h]) < Place(data[i])
    <3>1. i \in dataIndex..(end - 1) /\ dataIndex < i /\ dataIndex \in dataIndex..(end - 1)
      BY <1>8
    <3>2. Place(data[i]) \in Int /\ Place(data[i]) <= Came /\ Place(data[dataIndex]) < Place(data[i])
      BY <1>7, <3>1 DEF Fresh
    <3>3. \A h \in 1..n : FirstPlace(Handed[h]) < Place(data[i])
      BY <1>7, <3>1 DEF Fresh, n
    <3> QED
      BY <1>5, <1>9, <1>11, <3>2, <3>3
  <2>2. ASSUME NEW i \in (dataIndex + PP)..(end - 1), NEW j \in (dataIndex + PP)..(end - 1), i < j
        PROVE  Place(data[i]) < Place(data[j])
    <3>1. i \in dataIndex..(end - 1) /\ j \in dataIndex..(end - 1)
      BY <1>8
    <3> QED
      BY <1>7, <2>2, <3>1 DEF Fresh
  <2> QED
    BY <1>5, <2>1, <2>2 DEF Fresh
<1>14. FirstsInOrder(Handed)' /\ Fresh(end, Handed, data, dataIndex)'
  BY <1>1, <1>6, <1>12, <1>13 DEF FirstsInOrder, Fresh, FirstPlace, Place
<1>15. ASSUME NEW p \in arrived PROVE IsHanded(Whole(p))' \/ StillThere(p, data, dataIndex + PP, dataLength)
  <2>1. IsHanded(Whole(p)) => IsHanded(Whole(p))'
    <3>1. ASSUME NEW h \in 1..n, Handed[h].parts = Whole(p) PROVE h \in 1..(n + 1) /\ o[h].parts = Whole(p)
      BY <1>5, <3>1
    <3> QED
      BY <1>5, <1>6, <3>1 DEF IsHanded, Whole, n
  <2>2. x.parts = Whole(p) => IsHanded(Whole(p))'
    <3>1. n + 1 \in 1..Len(o)
      BY <1>5
    <3> QED
      BY <1>5, <1>6, <3>1 DEF IsHanded, Whole
  <2>3. IsHanded(Whole(p)) \/ StillThere(p, data, dataIndex, dataLength)
    BY DEF TcpInv
  <2> QED
    BY <1>3, <2>1, <2>2, <2>3, TakesOne
<1>16. \A p \in arrived' : IsHanded(Whole(p))' \/ StillThere(p, data', dataIndex', dataLength')
  BY <1>1, <1>15
<1>17. TcpTypes'
  BY <1>1, <1>2 DEF TcpInv, TcpTypes
<1>18. WireInv'
  BY <1>1, <1>6 DEF TcpInv, WireInv, Place
<1>19. \E e \in Nat : dataLength' < e + PP /\ Fresh(e, Handed, data, dataIndex)'
  BY <1>1, <1>7, <1>14
<1> QED
  BY <1>4, <1>14, <1>16, <1>17, <1>18, <1>19 DEF TcpInv

LEMMA TcpEndsTurn ==
  ASSUME CommonInv, TcpInv, source = "tcp", Tcp!EndsTurn, UNCHANGED <<source, threadVars>>
  PROVE  CommonInv' /\ TcpInv'
<1> DEFINE PP == PacketParts
<1>1. /\ dataLength < dataIndex + PP /\ turn' = "recv"
      /\ \/ UNCHANGED <<data, dataIndex, dataLength>>
         \/ /\ data' = [i \in DOMAIN data |-> IF i < dataLength - dataIndex THEN data[i + dataIndex] ELSE data[i]]
            /\ dataLength' = dataLength - dataIndex /\ dataIndex' = 0
      /\ UNCHANGED <<script, sent, wire, queue, got, arrived, put, receiver>>
  <2>1. dataIndex \in Nat /\ dataLength \in Nat /\ PP \in Nat
    BY TcpNumbers
  <2> QED
    BY <2>1 DEF Tcp!EndsTurn, Tcp!HasPacket, Tcp!MovesToFront, Tcp!bufferVars, threadVars
<1>2. CommonInv' /\ Handed' = Handed
  BY <1>1, SameHanded
<1>3. PP \in Nat \ {0} /\ dataIndex \in Nat /\ dataLength \in Nat
  BY TcpNumbers
<1>4. TcpTypes'
  <2>1. TcpTypes /\ TcpRoom \in Nat
    BY TcpSizes DEF TcpInv
  <2> QED
    BY <1>1, <1>3, <2>1 DEF TcpTypes
<1>5. WireInv' /\ FirstsInOrder(Handed)'
  BY <1>1, <1>2 DEF TcpInv, WireInv, FirstsInOrder, FirstPlace, Place, Came
<1>6. \A p \in arrived : IsHanded(Whole(p))
  BY <1>1, NothingLeft DEF TcpInv
<1>7. \A p \in arrived' : IsHanded(Whole(p))'
  BY <1>1, <1>2, <1>6 DEF IsHanded, Whole
<1> QED
  BY <1>1, <1>2, <1>4, <1>5, <1>7 DEF TcpInv

LEMMA TcpStays ==
  ASSUME CommonInv', TcpInv, Handed' = Handed,
         UNCHANGED <<sent, wire, opened, turn, data, dataIndex, dataLength, arrived>>
  PROVE  TcpInv'
BY DEF TcpInv, TcpTypes, WireInv, FirstsInOrder, Fresh, IsHanded, Whole, FirstPlace, Place, Came

\* The packets that were read whole are handed on, or still there, and in order.
LEMMA TcpKeeps ==
  ASSUME CommonInv, TcpInv
  PROVE  WholeReadsKept
<1>1. HandedOn = Handed
  BY HandedOnIs DEF CommonInv
<1>2. PacketParts \in Nat \ {0}
  BY TcpSizes
<1>3. ASSUME NEW p \in arrived
      PROVE  Intact(p, PacketParts) \in HandedParts \/ StillThere(p, data, dataIndex, dataLength)
  BY <1>1 DEF TcpInv, IsHanded, HandedParts, Whole
<1>4. ASSUME NEW i \in 1..Len(Handed), NEW j \in 1..Len(Handed), i < j,
             NEW p \in 1..sent, NEW q \in 1..sent, Handed[i].parts = Whole(p), Handed[j].parts = Whole(q)
      PROVE  Handed[i].parts[1][1] < Handed[j].parts[1][1]
  <2>1. \A x \in {p, q} : Whole(x)[1] = <<x, 1>>
    BY <1>2 DEF Whole, Intact
  <2>2. FirstPlace(Handed[i]) < FirstPlace(Handed[j])
    BY <1>4 DEF TcpInv, FirstsInOrder
  <2> DEFINE u == p - 1
             v == q - 1
  <2>3. FirstPlace(Handed[i]) = u * PacketParts + 1 /\ FirstPlace(Handed[j]) = v * PacketParts + 1
    BY <1>4, <2>1 DEF FirstPlace, Place
  <2>4. u \in Int /\ v \in Int
    OBVIOUS
  <2> HIDE DEF u, v
  <2>5. u * PacketParts < v * PacketParts
    <3>1. u * PacketParts \in Int /\ v * PacketParts \in Int
      BY <1>2, <2>4, TimesLess
    <3> QED
      BY <2>2, <2>3, <3>1
  <2>6. u < v
    BY <1>2, <2>4, <2>5, TimesLess
  <2>7. p < q
    BY <2>6 DEF u, v
  <2> QED
    BY <1>4, <2>1, <2>7
<1>5. InTurn({Intact(p, PacketParts) : p \in 1..sent})
  BY <1>1, <1>4 DEF InTurn, Whole
<1> QED
  BY <1>3, <1>5 DEF WholeReadsKept, StillThere
-----------------------------------------------------------------------------
(***************************************************************************)
(* The serial line                                                         *)
(***************************************************************************)
\* What has come and what is on the line, and the order in which it was sent.
Line == unread \o wire
Key(x) == 4 * x[1] + x[2]
FirstKey(r) == Key(r.parts[1])
SentPieces == {x \in Pieces : x[1] \in 1..sent /\ x[2] \in 1..SerialSize(x[1])}

\* From its first piece on the line is complete, but for what was lost.
LineInv(u) ==
  /\ \A i \in 1..Len(u) : u[i] \in SentPieces
  /\ \A i, j \in 1..Len(u) : i < j => Key(u[i]) < Key(u[j])
  /\ \A i \in 1..Len(u) : \A x \in SentPieces :
       Key(x) > Key(u[i]) => x \in lost \/ \E j \in 1..Len(u) : u[j] = x

\* Packets are handed on in the order of their first pieces, before all that is on the line.
KeysInOrder(o, u) ==
  /\ \A i \in 1..Len(o) : /\ FirstKey(o[i]) \in Int /\ FirstKey(o[i]) <= 4 * sent + 3
                          /\ \A j \in 1..Len(u) : FirstKey(o[i]) < Key(u[j])
  /\ \A i, j \in 1..Len(o) : i < j => FirstKey(o[i]) < FirstKey(o[j])

Sent(p) == Intact(p, SerialSize(p))
Done(p) == IsHanded(Sent(p)) \/ Sent(p) \in dropped

SerialLineInv ==
  /\ unread \in Seq(Pieces) /\ wire \in Seq(Pieces)
  /\ LineInv(Line) /\ KeysInOrder(Handed, Line)
  /\ \A p \in 1..sent : script[p] # "ack" /\ Undamaged(p) =>
                          Done(p) \/ \E i \in 1..Len(Line) : Line[i] = <<p, 1>>

LEMMA SizeIs == \A p : SerialSize(p) \in {2, 3} /\ (SerialSize(p) = 3 <=> script[p] = "points")
BY DEF SerialSize, Serial!PartsOf

LEMMA PieceIs ==
  ASSUME NEW x \in SentPieces
  PROVE  /\ x \in Nat \X Nat /\ x = <<x[1], x[2]>> /\ x[1] \in 1..sent /\ x[2] \in 1..3
         /\ x[1] \in Int /\ x[2] \in Int /\ Key(x) \in Int
<1>1. x \in Nat \X Nat /\ x[1] \in 1..sent /\ x[2] \in 1..SerialSize(x[1])
  BY DEF SentPieces, Pieces
<1>2. x[1] \in Nat /\ x[2] \in Nat /\ x = <<x[1], x[2]>>
  BY <1>1
<1>3. x[2] \in 1..3
  BY <1>1, <1>2, SizeIs
<1> QED
  BY <1>1, <1>2, <1>3 DEF Key

LEMMA PieceOf ==
  ASSUME sent \in Nat, NEW p \in 1..sent, NEW i \in 1..SerialSize(p)
  PROVE  <<p, i>> \in SentPieces /\ Key(<<p, i>>) = 4 * p + i
<1>1. p \in Nat /\ i \in Nat
  BY SizeIs
<1> QED
  BY <1>1 DEF SentPieces, Pieces, Key

\* What was not lost comes later on the line.
LEMMA Later ==
  ASSUME NEW u, Len(u) \in Nat, LineInv(u), NEW a \in 1..Len(u), NEW x \in SentPieces, Key(x) > Key(u[a]), x \notin lost
  PROVE  \E j \in 1..Len(u) : j > a /\ u[j] = x
<1>1. PICK j \in 1..Len(u) : u[j] = x
  BY DEF LineInv
<1>2. CASE j <= a
  <2>1. Key(u[j]) <= Key(u[a])
    <3>1. CASE j = a
      <4>1. Key(u[a]) \in Int
        BY PieceIs DEF LineInv
      <4> QED
        BY <3>1, <4>1
    <3>2. CASE j # a
      <4>1. j < a
        BY <1>2, <3>2
      <4>2. Key(u[j]) < Key(u[a]) /\ Key(u[j]) \in Int /\ Key(u[a]) \in Int
        BY <4>1, PieceIs DEF LineInv
      <4> QED
        BY <4>2
    <3> QED
      BY <3>1, <3>2
  <2>2. Key(x) \in Int /\ Key(u[a]) \in Int
    BY PieceIs DEF LineInv
  <2> QED
    BY <1>1, <2>1, <2>2
<1> QED
  BY <1>1, <1>2

\* A packet of which nothing was lost is on the line piece after piece.
LEMMA PieceAfterPiece ==
  ASSUME NEW u, Len(u) \in Nat, sent \in Nat, LineInv(u), NEW c \in 1..Len(u), NEW p \in 1..sent, u[c] = <<p, 1>>,
         \A x \in lost : x[1] # p
  PROVE  /\ SerialSize(p) <= Len(u) - c + 1
         /\ \A i \in 1..SerialSize(p) : u[c - 1 + i] = <<p, i>>
<1>1. \A i \in 1..SerialSize(p) : <<p, i>> \in SentPieces /\ Key(<<p, i>>) = 4 * p + i /\ <<p, i>> \notin lost
  BY PieceOf
<1>2. SerialSize(p) \in {2, 3} /\ p \in Int
  BY SizeIs
<1>3. \A i \in 1..Len(u) : Key(u[i]) \in Int
  BY PieceIs DEF LineInv
<1>4. ASSUME NEW i \in 1..(SerialSize(p) - 1), NEW a \in 1..Len(u), u[a] = <<p, i>>
      PROVE  a + 1 \in 1..Len(u) /\ u[a + 1] = <<p, i + 1>>
  <2>1. i \in 1..SerialSize(p) /\ i + 1 \in 1..SerialSize(p)
    BY <1>2
  <2>2. Key(<<p, i + 1>>) = 4 * p + (i + 1) /\ Key(u[a]) = 4 * p + i /\ <<p, i + 1>> \in SentPieces
        /\ <<p, i + 1>> \notin lost
    BY <1>1, <1>4, <2>1
  <2>3. PICK j \in 1..Len(u) : j > a /\ u[j] = <<p, i + 1>>
    <3>1. Key(<<p, i + 1>>) > Key(u[a])
      BY <1>2, <2>2
    <3> QED
      BY <2>2, <3>1, Later
  <2>4. j = a + 1
    <3> SUFFICES ASSUME j # a + 1 PROVE FALSE
      OBVIOUS
    <3>1. a + 1 \in 1..Len(u) /\ a < a + 1 /\ a + 1 < j
      BY <2>3
    <3>2. Key(u[a]) < Key(u[a + 1]) /\ Key(u[a + 1]) < Key(u[j]) /\ Key(u[a + 1]) \in Int
      BY <1>3, <3>1 DEF LineInv
    <3> QED
      BY <1>2, <2>2, <2>3, <3>2
  <2> QED
    BY <2>3, <2>4
<1>5. c + 1 \in 1..Len(u) /\ u[c + 1] = <<p, 2>>
  <2>1. 1 \in 1..(SerialSize(p) - 1) /\ 1 + 1 = 2
    BY <1>2
  <2> QED
    BY <1>4, <2>1
<1>6. SerialSize(p) = 3 => c + 2 \in 1..Len(u) /\ u[c + 2] = <<p, 3>>
  <2>1. SerialSize(p) = 3 => 2 \in 1..(SerialSize(p) - 1) /\ 2 + 1 = 3 /\ c + 1 + 1 = c + 2
    BY <1>2
  <2> QED
    BY <1>4, <1>5, <2>1
<1>7. c - 1 + 1 = c /\ c - 1 + 2 = c + 1 /\ c - 1 + 3 = c + 2
  OBVIOUS
<1>8. \A i \in 1..SerialSize(p) : i = 1 \/ i = 2 \/ (i = 3 /\ SerialSize(p) = 3)
  BY <1>2
<1> QED
  BY <1>2, <1>5, <1>6, <1>7, <1>8

\* Between the beginning of a packet and a later one, of which and of whose forerunner nothing
\* was lost, there is the rest of the first, or the forerunner as a whole.
LEMMA Between ==
  ASSUME NEW u, Len(u) \in Nat, sent \in Nat, LineInv(u), NEW c \in 1..Len(u), NEW e \in 1..Len(u), c < e,
         NEW p \in 1..sent, u[e] = <<p, 1>>, u[c][2] = 1, Undamaged(p)
  PROVE  /\ u[c][1] \in 1..(p - 1)
         /\ \/ u[c][1] = p - 1 /\ e > c - 1 + SerialSize(p - 1) /\ u[c + 1] = <<p - 1, 2>>
            \/ \E a, b \in 1..Len(u) : /\ c < a /\ a < b /\ b < e
                                       /\ u[a] = <<p - 1, 1>> /\ u[b] = <<p - 1, 2>>
<1> DEFINE q == u[c][1]
           r == p - 1
<1>1. u[c] = <<q, 1>> /\ q \in 1..sent /\ q \in Int /\ Key(u[c]) \in Int /\ u[c] \in SentPieces
  BY PieceIs DEF LineInv
<1>2. Key(u[e]) = 4 * p + 1 /\ Key(u[c]) = 4 * q + 1 /\ Key(u[c]) < Key(u[e]) /\ p \in Int
  BY <1>1 DEF LineInv, Key
<1>3. q \in 1..r /\ r \in 1..sent /\ r + 1 = p
  BY <1>1, <1>2
<1>4. \A x \in lost : x[1] # r
  BY DEF Undamaged
<1> HIDE DEF r, q
<1>5. SerialSize(r) \in {2, 3}
  BY SizeIs
<1>6. \A i, j \in 1..Len(u) : Key(u[i]) \in Int /\ (Key(u[i]) < Key(u[j]) => i < j)
  <2>1. ASSUME NEW i \in 1..Len(u), NEW j \in 1..Len(u), Key(u[i]) < Key(u[j]) PROVE i < j
    <3>1. Key(u[i]) \in Int /\ Key(u[j]) \in Int /\ (j < i => Key(u[j]) < Key(u[i]))
      BY PieceIs DEF LineInv
    <3> QED
      BY <2>1, <3>1
  <2> QED
    BY <2>1, PieceIs DEF LineInv
<1>7. CASE q = r
  <2>1. SerialSize(r) <= Len(u) - c + 1 /\ \A i \in 1..SerialSize(r) : u[c - 1 + i] = <<r, i>>
    <3>1. u[c] = <<r, 1>> /\ r \in 1..sent
      BY <1>1, <1>3, <1>7
    <3> QED
      BY <1>4, <3>1, PieceAfterPiece
  <2> DEFINE f == c - 1 + SerialSize(r)
  <2>2. f \in 1..Len(u) /\ u[f] = <<r, SerialSize(r)>> /\ c - 1 + 2 = c + 1
    <3>1. SerialSize(r) \in 1..SerialSize(r)
      BY <1>5
    <3> QED
      BY <1>5, <2>1, <3>1, SMTT(40)
  <2>3. Key(u[f]) = 4 * r + SerialSize(r)
    BY <2>2 DEF Key
  <2> HIDE DEF f
  <2>4. Key(u[f]) < Key(u[e])
    BY <1>2, <1>3, <1>5, <2>3
  <2>5. f < e
    BY <1>6, <2>2, <2>4
  <2>6. u[c + 1] = <<r, 2>>
    <3>1. 2 \in 1..SerialSize(r)
      BY <1>5
    <3> QED
      BY <2>1, <2>2, <3>1
  <2> QED
    BY <1>3, <1>7, <2>5, <2>6 DEF f, r, q
<1>8. CASE q # r
  <2>1. <<r, 1>> \in SentPieces /\ Key(<<r, 1>>) = 4 * r + 1 /\ <<r, 1>> \notin lost
        /\ <<r, 2>> \in SentPieces /\ Key(<<r, 2>>) = 4 * r + 2 /\ <<r, 2>> \notin lost
    <3>1. 1 \in 1..SerialSize(r) /\ 2 \in 1..SerialSize(r)
      BY <1>5
    <3> QED
      BY <1>3, <1>4, <3>1, PieceOf
  <2>2. PICK a \in 1..Len(u) : a > c /\ u[a] = <<r, 1>>
    <3>1. Key(<<r, 1>>) > Key(u[c])
      BY <1>1, <1>2, <1>3, <1>8, <2>1
    <3> QED
      BY <2>1, <3>1, Later
  <2>3. PICK b \in 1..Len(u) : b > a /\ u[b] = <<r, 2>>
    <3>1. Key(<<r, 2>>) > Key(u[a])
      BY <1>3, <2>1, <2>2
    <3> QED
      BY <2>1, <3>1, Later
  <2>4. b < e
    <3>1. Key(u[b]) < Key(u[e])
      BY <1>2, <1>3, <2>1, <2>3
    <3> QED
      BY <1>6, <3>1
  <2> QED
    BY <1>3, <2>2, <2>3, <2>4 DEF r, q
<1> QED
  BY <1>7, <1>8

\* v is what of b is left behind its first s elements.
Suffix(v, b, s) ==
  /\ s \in 0..Len(b) /\ Len(v) = Len(b) - s
  /\ \A i \in 1..Len(v) : v[i] = b[s + i]

LEMMA SubSeqIsSuffix ==
  ASSUME NEW T, NEW b \in Seq(T), NEW s \in 0..Len(b)
  PROVE  /\ SubSeq(b, s + 1, Len(b)) \in Seq(T)
         /\ Suffix(SubSeq(b, s + 1, Len(b)), b, s)
<1> DEFINE n == Len(b)
           m == s + 1
<1>1. n \in Nat /\ s \in Int /\ m \in Int /\ m >= 1 /\ m <= n + 1
  BY LenProperties
<1>2. \A i \in m..n : b[i] \in T
  <2>1. \A i \in m..n : i \in 1..Len(b)
    BY <1>1
  <2> QED
    BY <2>1, ElementOfSeq
<1> DEFINE v == SubSeq(b, m, n)
<1>3. /\ v \in Seq(T) /\ Len(v) = IF m <= n THEN n - m + 1 ELSE 0
      /\ \A i \in 1..(n - m + 1) : v[i] = b[m + i - 1]
  <2> HIDE DEF m, n
  <2> QED
    BY <1>1, <1>2, SubSeqProperties
<1> HIDE DEF v
<1>4. Len(v) = n - s
  <2>1. m = s + 1
    OBVIOUS
  <2>2. Len(v) = IF m <= n THEN n - m + 1 ELSE 0
    BY <1>3
  <2> HIDE DEF m, n
  <2>3. CASE m <= n
    BY <1>1, <2>1, <2>2, <2>3
  <2>4. CASE ~(m <= n)
    BY <1>1, <2>1, <2>2, <2>4
  <2> QED
    BY <2>3, <2>4
<1>5. ASSUME NEW i \in 1..Len(v) PROVE v[i] = b[s + i]
  <2>1. i \in 1..(n - m + 1) /\ m + i - 1 = s + i
    BY <1>1, <1>4
  <2> QED
    BY <1>3, <2>1
<1> QED
  BY <1>3, <1>4, <1>5 DEF Suffix, v

LEMMA SuffixOfSuffix ==
  ASSUME NEW b, Len(b) \in Nat, NEW r, NEW s, Suffix(r, b, s), NEW v, NEW t, Suffix(v, r, t)
  PROVE  Suffix(v, b, s + t)
<1>1. /\ s \in Int /\ t \in Int /\ t >= 0 /\ Len(r) = Len(b) - s /\ Len(v) = Len(r) - t /\ s + t \in 0..Len(b)
         /\ Len(r) \in Nat /\ Len(v) \in Nat
  BY DEF Suffix
<1>2. ASSUME NEW i \in 1..Len(v) PROVE v[i] = b[(s + t) + i]
  <2>1. t + i \in 1..Len(r) /\ s + (t + i) = (s + t) + i
    BY <1>1
  <2> QED
    BY <2>1 DEF Suffix
<1> QED
  BY <1>1, <1>2 DEF Suffix

\* The least element of a set of positions.
LEMMA LeastChosen ==
  ASSUME NEW T \in SUBSET Nat, T # {}, NEW x, x = CHOOSE i \in T : \A j \in T : i <= j
  PROVE  x \in T /\ \A j \in T : x <= j
BY LeastElement

LEMMA SkipsToStart ==
  ASSUME NEW b \in Seq(Pieces)
  PROVE  \/ /\ Serial!Starts(b) = {} /\ Serial!SkipTo(b) = <<>>
         \/ \E s \in 0..(Len(b) - 1) :
              /\ Serial!SkipTo(b) \in Seq(Pieces) /\ Serial!SkipTo(b) # <<>>
              /\ Suffix(Serial!SkipTo(b), b, s)
              /\ s + 1 \in Serial!Starts(b) /\ \A i \in 1..s : ~(i \in Serial!Starts(b))
<1>1. CASE Serial!Starts(b) = {}
  BY <1>1 DEF Serial!SkipTo
<1>2. CASE Serial!Starts(b) # {}
  <2>0. Len(b) \in Nat /\ Serial!Starts(b) \subseteq 1..Len(b)
    BY LenProperties DEF Serial!Starts
  <2> DEFINE T == Serial!Starts(b)
  <2>1. PICK c : c = CHOOSE i \in T : \A j \in T : i <= j
    OBVIOUS
  <2>2. c \in T /\ \A j \in T : c <= j
    <3>1. T \in SUBSET Nat /\ T # {}
      BY <1>2, <2>0
    <3> HIDE DEF T
    <3> QED
      BY <2>1, <3>1, LeastChosen
  <2>3. Serial!SkipTo(b) = SubSeq(b, c, Len(b))
    BY <1>2, <2>1 DEF Serial!SkipTo
  <2> DEFINE s == c - 1
  <2>4. s \in 0..(Len(b) - 1) /\ s \in 0..Len(b) /\ s + 1 = c /\ c \in 1..Len(b)
    BY <2>0, <2>2
  <2>5. \A i \in 1..s : ~(i \in T)
    <3>1. \A i \in 1..s : ~(c <= i)
      BY <2>4
    <3> HIDE DEF T
    <3> QED
      BY <2>2, <3>1
  <2>6. SubSeq(b, c, Len(b)) \in Seq(Pieces) /\ Suffix(SubSeq(b, c, Len(b)), b, s)
    BY <2>4, SubSeqIsSuffix
  <2>7. SubSeq(b, c, Len(b)) # <<>>
    <3>1. Len(SubSeq(b, c, Len(b))) = Len(b) - s
      BY <2>6 DEF Suffix
    <3>2. Len(SubSeq(b, c, Len(b))) # 0
      BY <2>0, <2>4, <3>1
    <3> QED
      BY <3>2, EmptySeq
  <2> QED
    BY <2>2, <2>3, <2>4, <2>5, <2>6, <2>7
<1> QED
  BY <1>1, <1>2

\* What a turn does with what it has read: it skips what begins nothing, takes a packet of points,
\* or skips an acknowledgement to its end.
Skips(b, s) == /\ \A i \in 1..s : ~Serial!BeginsPoints(b[i])
               /\ UNCHANGED <<queue, dropped>> \/ Serial!PutForced(<<>>)
Takings(b, c, n) == Result("points", [i \in 1..n |-> b[c - 1 + i]])
TakesAt(b, c, s) ==
  /\ c \in 1..Len(b) /\ Serial!BeginsPoints(b[c]) /\ s = c - 1 + SerialSize(b[c][1])
  /\ \A i \in 1..(c - 1) : ~Serial!BeginsPoints(b[i])
  /\ Serial!PutForced(<<Takings(b, c, SerialSize(b[c][1]))>>)
SkipsAck(b, c, s) ==
  /\ c \in 1..Len(b) /\ Serial!Begins(b[c], "ack") /\ c + 1 <= s
  /\ \A i \in 1..(c - 1) : ~Serial!BeginsPoints(b[i])
  /\ \A i \in (c + 1)..(s - 1) : ~Serial!EndsAck(b[i])
  /\ UNCHANGED <<queue, dropped>>

LEMMA PointsMoves ==
  ASSUME NEW b \in Seq(Pieces), NEW c \in 1..Len(b), NEW r \in Seq(Pieces), Suffix(r, b, c - 1),
         Serial!BeginsPoints(b[c]), \A i \in 1..(c - 1) : ~Serial!BeginsPoints(b[i]),
         Serial!TakesPoints(r)
  PROVE  \E s : Suffix(unread', b, s) /\ unread' \in Seq(Pieces) /\ (Skips(b, s) \/ TakesAt(b, c, s))
<1> DEFINE n == SerialSize(b[c][1])
<1>1. Len(b) \in Nat /\ c \in Int /\ Len(r) = Len(b) - (c - 1) /\ n \in {2, 3} /\ (c - 1) + 1 = c
  BY LenProperties, SizeIs DEF Suffix
<1>2. \A i \in 1..Len(r) : r[i] = b[(c - 1) + i]
  BY DEF Suffix
<1>3. r[1] = b[c]
  <2>1. 1 \in 1..Len(r)
    BY <1>1
  <2> QED
    BY <1>1, <1>2, <2>1
<1>4. /\ Len(r) < n => unread' = r /\ Serial!PutForced(<<>>)
      /\ ~(Len(r) < n) => /\ unread' = SubSeq(r, n + 1, Len(r))
                          /\ Serial!PutForced(<<Result("points", SubSeq(r, 1, n))>>)
  BY <1>3 DEF Serial!TakesPoints, SerialSize, Serial!Stays, Serial!Result, Result
<1> HIDE DEF n
<1>5. CASE Len(r) < n
  BY <1>4, <1>5 DEF Skips
<1>6. CASE ~(Len(r) < n)
  <2>1. n \in 0..Len(r)
    BY <1>1, <1>6
  <2>2. unread' \in Seq(Pieces) /\ Suffix(unread', r, n)
    BY <1>4, <1>6, <2>1, SubSeqIsSuffix
  <2>3. Suffix(unread', b, (c - 1) + n)
    BY <1>1, <2>2, SuffixOfSuffix
  <2>4. SubSeq(r, 1, n) = [i \in 1..n |-> b[c - 1 + i]]
    <3>1. SubSeq(r, 1, n) = [i \in 1..n |-> r[i]]
      <4> DEFINE v == SubSeq(r, 1, n)
      <4>1. \A i \in 1..n : r[i] \in Pieces
        <5>1. \A i \in 1..n : i \in 1..Len(r)
          BY <1>1, <2>1
        <5> QED
          BY <5>1, ElementOfSeq
      <4>2. n \in Int /\ 1 <= n /\ n - 1 + 1 = n /\ \A i \in 1..n : 1 + i - 1 = i
        BY <1>1
      <4>3. v \in Seq(Pieces) /\ Len(v) = n /\ \A i \in 1..n : v[i] = r[1 + i - 1]
        BY <4>1, <4>2, SubSeqProperties
      <4> HIDE DEF v
      <4>4. \A i \in 1..n : v[i] = r[i]
        BY <4>2, <4>3
      <4>5. v \in [1..n -> Pieces]
        BY <4>3, LenProperties
      <4>6. v = [i \in 1..n |-> r[i]]
        BY <4>4, <4>5
      <4> QED
        BY <4>6 DEF v
    <3>2. \A i \in 1..n : r[i] = b[c - 1 + i]
      <4>1. \A i \in 1..n : i \in 1..Len(r)
        BY <1>1, <2>1
      <4> QED
        BY <1>2, <4>1
    <3> QED
      BY <3>1, <3>2
  <2>5. Serial!PutForced(<<Takings(b, c, n)>>)
    BY <1>4, <1>6, <2>4 DEF Takings
  <2>6. TakesAt(b, c, (c - 1) + n)
    BY <2>5 DEF TakesAt, n
  <2> QED
    BY <2>2, <2>3, <2>6
<1> QED
  BY <1>5, <1>6

LEMMA AckMoves ==
  ASSUME NEW b \in Seq(Pieces), NEW c \in 1..Len(b), NEW r \in Seq(Pieces), Suffix(r, b, c - 1),
         Serial!Begins(b[c], "ack"), \A i \in 1..(c - 1) : ~Serial!BeginsPoints(b[i]),
         Serial!TakesAck(r)
  PROVE  \E s : Suffix(unread', b, s) /\ unread' \in Seq(Pieces) /\ (Skips(b, s) \/ SkipsAck(b, c, s))
<1> DEFINE T == Serial!AckEnds(r)
<1>1. Len(b) \in Nat /\ c \in Int /\ Len(r) \in Nat /\ Len(r) = Len(b) - (c - 1)
  BY LenProperties DEF Suffix
<1>2. UNCHANGED <<queue, dropped>>
  BY DEF Serial!TakesAck
<1>3. CASE T = {}
  <2>1. unread' = r
    BY <1>3 DEF Serial!TakesAck
  <2> QED
    BY <1>2, <2>1 DEF Skips
<1>4. CASE T # {}
  <2>1. PICK e : e = CHOOSE i \in T : \A j \in T : i <= j
    OBVIOUS
  <2>2. unread' = SubSeq(r, 1 + e, Len(r))
    BY <1>4, <2>1 DEF Serial!TakesAck
  <2>3. T \subseteq 2..Len(r) /\ \A i \in 2..Len(r) : Serial!EndsAck(r[i]) => i \in T
    BY DEF Serial!AckEnds
  <2>4. e \in T /\ \A j \in T : e <= j
    <3>1. T \in SUBSET Nat
      BY <1>1, <2>3
    <3> HIDE DEF T
    <3> QED
      BY <1>4, <2>1, <3>1, LeastChosen
  <2> HIDE DEF T
  <2>5. e \in 2..Len(r) /\ e \in 0..Len(r) /\ 1 + e = e + 1
    BY <1>1, <2>3, <2>4
  <2>6. unread' \in Seq(Pieces) /\ Suffix(unread', r, e)
    BY <2>2, <2>5, SubSeqIsSuffix
  <2>7. Suffix(unread', b, (c - 1) + e)
    BY <1>1, <2>6, SuffixOfSuffix
  <2> DEFINE s == (c - 1) + e
  <2>8. ASSUME NEW i \in (c + 1)..(s - 1) PROVE ~Serial!EndsAck(b[i])
    <3> DEFINE j == i - (c - 1)
    <3>1. j \in 2..Len(r) /\ j < e /\ j \in 1..Len(r) /\ (c - 1) + j = i /\ j \in Int /\ e \in Int
      BY <1>1, <2>5
    <3> HIDE DEF j
    <3>2. r[j] = b[i]
      BY <3>1 DEF Suffix
    <3>3. ~(e <= j)
      BY <3>1
    <3> QED
      BY <2>3, <2>4, <3>1, <3>2, <3>3
  <2>9. c + 1 <= s
    BY <1>1, <2>5
  <2>10. SkipsAck(b, c, s)
    BY <1>2, <2>8, <2>9 DEF SkipsAck
  <2> QED
    BY <2>6, <2>7, <2>10
<1> QED
  BY <1>3, <1>4

LEMMA ScanMoves ==
  ASSUME NEW b \in Seq(Pieces), Serial!Scans(b)
  PROVE  \E s : /\ Suffix(unread', b, s) /\ unread' \in Seq(Pieces)
                /\ Skips(b, s) \/ \E c : TakesAt(b, c, s) \/ SkipsAck(b, c, s)
<1>1. Len(b) \in Nat
  BY LenProperties
<1>2. CASE Serial!Starts(b) = {} /\ Serial!SkipTo(b) = <<>>
  <2>1. unread' = <<>> /\ UNCHANGED <<queue, dropped>>
    BY <1>2 DEF Serial!Scans
  <2>2. \A i \in 1..Len(b) : ~Serial!BeginsPoints(b[i])
    BY <1>2 DEF Serial!Starts
  <2>3. Suffix(unread', b, Len(b)) /\ unread' \in Seq(Pieces)
    BY <1>1, <2>1, EmptySeq DEF Suffix
  <2> QED
    BY <2>1, <2>2, <2>3 DEF Skips
<1>3. ASSUME NEW t \in 0..(Len(b) - 1), NEW r, r = Serial!SkipTo(b), r \in Seq(Pieces), r # <<>>,
             Suffix(r, b, t), t + 1 \in Serial!Starts(b), \A i \in 1..t : ~(i \in Serial!Starts(b))
      PROVE  \E s : /\ Suffix(unread', b, s) /\ unread' \in Seq(Pieces)
                    /\ Skips(b, s) \/ \E c : TakesAt(b, c, s) \/ SkipsAck(b, c, s)
  <2>0. PICK c : c = t + 1
    OBVIOUS
  <2>1. c \in 1..Len(b) /\ c - 1 = t /\ c = t + 1 /\ Len(r) = Len(b) - t /\ 1 \in 1..Len(r)
    BY <1>1, <1>3, <2>0 DEF Suffix
  <2>2. r[1] = b[c]
    BY <1>3, <2>1 DEF Suffix
  <2>3. \A i \in 1..(c - 1) : ~Serial!BeginsPoints(b[i])
    <3>1. \A i \in 1..t : i \in 1..Len(b)
      BY <1>1
    <3> QED
      BY <1>3, <2>1, <3>1 DEF Serial!Starts
  <2>4. Serial!BeginsPoints(b[c]) \/ Serial!Begins(b[c], "ack")
    BY <1>3, <2>0 DEF Serial!Starts
  <2>5. IF Serial!BeginsPoints(b[c]) THEN Serial!TakesPoints(r) ELSE Serial!TakesAck(r)
    BY <1>3, <2>2 DEF Serial!Scans
  <2>6. Suffix(r, b, c - 1)
    BY <1>3, <2>1
  <2>7. CASE Serial!BeginsPoints(b[c])
    BY <1>3, <2>1, <2>3, <2>5, <2>6, <2>7, PointsMoves
  <2>8. CASE ~Serial!BeginsPoints(b[c])
    BY <1>3, <2>1, <2>3, <2>4, <2>5, <2>6, <2>8, AckMoves
  <2> QED
    BY <2>7, <2>8
<1> QED
  BY <1>2, <1>3, SkipsToStart

LEMMA ConcatHas ==
  ASSUME NEW T, NEW s \in Seq(T), NEW t \in Seq(T)
  PROVE  /\ \A j \in 1..Len(s) : \E i \in 1..Len(s \o t) : (s \o t)[i] = s[j]
         /\ \A j \in 1..Len(t) : \E i \in 1..Len(s \o t) : (s \o t)[i] = t[j]
<1> DEFINE z == s \o t
<1>1. /\ Len(s) \in Nat /\ Len(t) \in Nat /\ Len(z) = Len(s) + Len(t)
      /\ \A i \in 1..(Len(s) + Len(t)) : z[i] = IF i <= Len(s) THEN s[i] ELSE t[i - Len(s)]
  BY ConcatProperties, LenProperties
<1> HIDE DEF z
<1>2. ASSUME NEW j \in 1..Len(s) PROVE \E i \in 1..Len(z) : z[i] = s[j]
  <2>1. j \in 1..(Len(s) + Len(t)) /\ j <= Len(s)
    BY <1>1
  <2> QED
    BY <1>1, <2>1
<1>3. ASSUME NEW j \in 1..Len(t) PROVE \E i \in 1..Len(z) : z[i] = t[j]
  <2>1. Len(s) + j \in 1..(Len(s) + Len(t)) /\ ~(Len(s) + j <= Len(s)) /\ (Len(s) + j) - Len(s) = j
    BY <1>1
  <2> QED
    BY <1>1, <2>1
<1> QED
  BY <1>2, <1>3 DEF z

LEMMA FirstHas ==
  ASSUME NEW T, NEW s \in Seq(T), NEW t \in Seq(T), NEW z, z = s \o t, NEW j \in 1..Len(s)
  PROVE  \E i \in 1..Len(z) : z[i] = s[j]
BY ConcatHas

LEMMA LastHas ==
  ASSUME NEW T, NEW s \in Seq(T), NEW t \in Seq(T), NEW z, z = s \o t, NEW j \in 1..Len(t)
  PROVE  \E i \in 1..Len(z) : z[i] = t[j]
BY ConcatHas

\* A packet in a sequence is among the packets in it.
LEMMA PacketsInHas ==
  ASSUME NEW T, NEW q \in Seq(T), NEW k \in 1..Len(q), IsPacket(q[k])
  PROVE  \E i \in 1..Len(PacketsIn(q)) : PacketsIn(q)[i] = q[k]
<1> DEFINE n == Len(q)
           a == SubSeq(q, 1, k)
           b == SubSeq(q, k + 1, n)
           a1 == SubSeq(q, 1, k - 1)
           e == q[k]
<1>1. n \in Nat /\ k \in Nat /\ k \in 1..n /\ e \in T /\ 1 \in 1..n /\ k \in 0..n /\ k - 1 \in 0..n /\ 1 \in 1..(n + 1)
      /\ k \in (1 - 1)..n /\ n \in k..n
  BY LenProperties, ElementOfSeq
<1>2. q = a \o b
  BY <1>1, ConcatAdjacentSubSeq, SubSeqFull
<1>3. a = a1 \o <<e>>
  BY <1>1, SubSeqRecursiveSecond
<1>4. a1 \in Seq(T) /\ b \in Seq(T) /\ <<e>> \in Seq(T)
  <2>1. \A i \in 1..n : q[i] \in T
    BY ElementOfSeq
  <2>2. (\A i \in 1..(k - 1) : q[i] \in T) /\ \A i \in (k + 1)..n : q[i] \in T
    <3>1. (\A i \in 1..(k - 1) : i \in 1..n) /\ \A i \in (k + 1)..n : i \in 1..n
      BY <1>1
    <3> QED
      BY <2>1, <3>1
  <2>3. 1 \in Int /\ k - 1 \in Int /\ k + 1 \in Int /\ n \in Int
    BY <1>1
  <2> HIDE DEF n
  <2>4. a1 \in Seq(T) /\ b \in Seq(T)
    BY <2>2, <2>3, SubSeqProperties
  <2> QED
    BY <1>1, <2>4
<1> HIDE DEF a, b, a1, e, n
<1>5. a \in Seq(T) /\ PacketsIn(a) = PacketsIn(a1) \o PacketsIn(<<e>>)
  BY <1>3, <1>4, PacketsInConcat, ConcatProperties
<1>6. PacketsIn(<<e>>) = <<e>>
  BY PacketsInFew DEF e
<1>7. PacketsIn(a1) \in Seq(T) /\ PacketsIn(a) \in Seq(T) /\ PacketsIn(b) \in Seq(T)
      /\ PacketsIn(q) = PacketsIn(a) \o PacketsIn(b)
  BY <1>2, <1>4, <1>5, PacketsInConcat
<1>8. PICK i \in 1..Len(PacketsIn(a)) : PacketsIn(a)[i] = e
  <2>1. 1 \in 1..Len(<<e>>) /\ <<e>>[1] = e
    OBVIOUS
  <2> DEFINE y == <<e>>
             x == PacketsIn(a1)
  <2>2. x \in Seq(T) /\ y \in Seq(T) /\ PacketsIn(a) = x \o y /\ 1 \in 1..Len(y) /\ y[1] = e
    BY <1>4, <1>5, <1>6, <1>7, <2>1
  <2> HIDE DEF x, y
  <2>3. \E i \in 1..Len(PacketsIn(a)) : PacketsIn(a)[i] = y[1]
    BY <2>2, LastHas
  <2> QED
    BY <2>2, <2>3
<1> QED
  BY <1>7, <1>8, FirstHas DEF e

LEMMA QueueInOut ==
  ASSUME NEW T, NEW p \in Seq(T), NEW g \in T, NEW q \in Seq(T), NEW r, NEW k \in 1..Len(q), IsPacket(q[k])
  PROVE  \E i \in 1..Len(Out(p, r, g, q)) : Out(p, r, g, q)[i] = q[k]
<1> DEFINE x == PacketsIn(p) \o Waits(r, g)
           y == PacketsIn(q)
<1>1. x \in Seq(T) /\ y \in Seq(T) /\ Out(p, r, g, q) = x \o y
  BY PacketsInConcat, WaitsTyped, ConcatProperties DEF Out
<1>2. PICK j \in 1..Len(y) : y[j] = q[k]
  BY PacketsInHas
<1> HIDE DEF x, y
<1>3. \E i \in 1..Len(Out(p, r, g, q)) : Out(p, r, g, q)[i] = y[j]
  BY <1>1, LastHas
<1> QED
  BY <1>2, <1>3

\* What is in w of s: each element but those that are in drops.
Among(s, w, drops) ==
  \A h \in 1..Len(s) : s[h].parts \in drops \/ \E i \in 1..Len(w) : w[i].parts = s[h].parts

\* A full ring drops its oldest packet, and what it drops is seen to be dropped.
LEMMA RingMakesRoom ==
  ASSUME CommonInv, NEW q, q = Serial!MakesRoom, NEW w, w = Out(put, receiver, got, q), NEW drops,
         {queue[i].parts : i \in 1..Len(queue)} \ {q[i].parts : i \in 1..Len(q)} \subseteq drops
  PROVE  /\ IsSequence(q) /\ (\A i \in 1..Len(q) : IsPacket(q[i])) /\ IsSequence(w)
         /\ w = Handed \/ \E k : Without(Handed, w, k)
         /\ Among(Handed, w, drops)
<1>1. PICK T : put \in Seq(T) /\ queue \in Seq(T) /\ got \in T
  BY OneSet DEF CommonInv
<1>2. QueueRoom \in Nat /\ QueueRoom # 0
  BY SetupAssumption
<1>3. CASE Len(queue) # QueueRoom
  <2>1. q = queue
    BY <1>3 DEF Serial!MakesRoom
  <2>2. w = Handed
    BY <2>1 DEF Handed
  <2> QED
    BY <2>1, <2>2, HandedOnIs DEF CommonInv, Among
<1>4. CASE Len(queue) = QueueRoom
  <2>1. q = Tail(queue) /\ queue # <<>> /\ Len(queue) \in Nat
    BY <1>2, <1>4, EmptySeq DEF Serial!MakesRoom
  <2>2. /\ Head(queue) = queue[1] /\ q \in Seq(T) /\ Len(q) = Len(queue) - 1
        /\ \A i \in 1..Len(q) : q[i] = queue[i + 1]
    BY <1>1, <2>1, PacketsInFirst, HeadTailProperties
  <2>3. ASSUME NEW i \in 1..Len(q) PROVE IsPacket(q[i])
    <3>1. i + 1 \in 1..Len(queue) /\ q[i] = queue[i + 1]
      BY <2>1, <2>2
    <3> QED
      BY <3>1 DEF CommonInv
  <2>4. 1 \in 1..Len(queue) /\ IsPacket(queue[1])
    <3>1. 1 \in 1..Len(queue)
      BY <1>2, <1>4
    <3> QED
      BY <3>1 DEF CommonInv
  <2>5. PICK k : Without(Handed, w, k) /\ Handed[k] = queue[1]
    <3>1. IsPacket(Head(queue))
      BY <2>2, <2>4
    <3>2. \E k : /\ Without(Out(put, receiver, got, queue), Out(put, receiver, got, Tail(queue)), k)
                 /\ Out(put, receiver, got, queue)[k] = Head(queue)
      BY <1>1, <2>1, <3>1, OutDrops
    <3> QED
      BY <2>1, <2>2, <3>2 DEF Handed
  <2>6. w \in Seq(T) /\ Handed \in Seq(T) /\ Len(w) \in Nat /\ Len(Handed) \in Nat
    BY <1>1, <2>2, OutTyped, LenProperties DEF Handed
  <2>7. ASSUME NEW h \in 1..Len(Handed)
        PROVE  Handed[h].parts \in drops \/ \E i \in 1..Len(w) : w[i].parts = Handed[h].parts
    <3>1. CASE h # k
      <4>1. k \in Int /\ h \in Int /\ Len(w) = Len(Handed) - 1 /\ k \in 1..Len(Handed)
        BY <2>5, <2>6 DEF Without
      <4>2. CASE h < k
        <5>1. h \in 1..(k - 1) /\ h \in 1..Len(w)
          BY <4>1, <4>2, <2>6
        <5> QED
          BY <2>5, <5>1 DEF Without
      <4>3. CASE ~(h < k)
        <5>1. h - 1 \in k..Len(w) /\ h - 1 \in 1..Len(w) /\ (h - 1) + 1 = h
          BY <3>1, <4>1, <4>3, <2>6
        <5>2. w[h - 1] = Handed[h]
          BY <2>5, <5>1 DEF Without
        <5> QED
          BY <5>1, <5>2
      <4> QED
        BY <4>2, <4>3
    <3>2. CASE h = k
      <4>1. Handed[h] = queue[1]
        BY <2>5, <3>2
      <4>2. CASE \E i \in 1..Len(q) : q[i].parts = queue[1].parts
        <5>1. PICK i \in 1..Len(q) : q[i].parts = queue[1].parts
          BY <4>2
        <5>2. \E j \in 1..Len(Out(put, receiver, got, q)) : Out(put, receiver, got, q)[j] = q[i]
          <6>1. q \in Seq(T) /\ IsPacket(q[i])
            BY <2>2, <2>3
          <6> QED
            BY <1>1, <6>1, QueueInOut
        <5> QED
          BY <4>1, <5>1, <5>2
      <4>3. CASE ~ \E i \in 1..Len(q) : q[i].parts = queue[1].parts
        <5>1. queue[1].parts \in {queue[i].parts : i \in 1..Len(queue)}
          BY <2>4
        <5>2. ~(queue[1].parts \in {q[i].parts : i \in 1..Len(q)})
          BY <4>3
        <5> QED
          BY <4>1, <5>1, <5>2
      <4> QED
        BY <4>2, <4>3
    <3> QED
      BY <3>1, <3>2
  <2>8. Among(Handed, w, drops)
    BY <2>7 DEF Among
  <2> QED
    BY <2>2, <2>3, <2>5, <2>6, <2>8 DEF IsSequence
<1> QED
  BY <1>3, <1>4

\* What the source hands on after PutForced: with or without the packet that it dropped, and with
\* the new one.
PutsForced(w, packets) ==
  /\ IsSequence(w) /\ (w = Handed \/ \E k : Without(Handed, w, k)) /\ Among(Handed, w, dropped')
  /\ Handed' = w \o packets /\ dropped \subseteq dropped'

LEMMA PutForcedNone ==
  ASSUME CommonInv, Serial!PutForced(<<>>), UNCHANGED <<source, script, sent, put, receiver, got>>
  PROVE  CommonInv' /\ \E w : PutsForced(w, <<>>) /\ Handed' = w
<1> DEFINE q == Serial!MakesRoom
           w == Out(put, receiver, got, q)
<1>1. queue' = q \o <<>> /\ dropped \subseteq dropped'
  BY DEF Serial!PutForced
<1>d. {queue[i].parts : i \in 1..Len(queue)} \ {q[i].parts : i \in 1..Len(q)} \subseteq dropped'
  BY DEF Serial!PutForced
<1>2. q = Serial!MakesRoom /\ w = Out(put, receiver, got, q)
  OBVIOUS
<1> HIDE DEF q, w
<1>3. /\ IsSequence(q) /\ (\A i \in 1..Len(q) : IsPacket(q[i])) /\ IsSequence(w)
      /\ w = Handed \/ \E k : Without(Handed, w, k)
      /\ Among(Handed, w, dropped')
  BY <1>2, <1>d, RingMakesRoom
<1>4. queue' = q /\ w \o <<>> = w
  BY <1>1, <1>3, ConcatEmptySeq DEF IsSequence
<1>5. Handed' = w
  BY <1>2, <1>4 DEF Handed
<1>6. CommonInv'
  BY <1>3, <1>4 DEF CommonInv
<1> QED
  BY <1>1, <1>3, <1>4, <1>5, <1>6 DEF PutsForced

LEMMA PutForcedOne ==
  ASSUME CommonInv, NEW x, IsPacket(x), Serial!PutForced(<<x>>), UNCHANGED <<source, script, sent, put, receiver, got>>
  PROVE  CommonInv' /\ \E w : PutsForced(w, <<x>>) /\ Handed' = Append(w, x)
<1> DEFINE q == Serial!MakesRoom
           w == Out(put, receiver, got, q)
<1>1. queue' = q \o <<x>> /\ dropped \subseteq dropped'
  BY DEF Serial!PutForced
<1>d. {queue[i].parts : i \in 1..Len(queue)} \ {q[i].parts : i \in 1..Len(q)} \subseteq dropped'
  BY DEF Serial!PutForced
<1>2. q = Serial!MakesRoom /\ w = Out(put, receiver, got, q)
  OBVIOUS
<1> HIDE DEF q, w
<1>3. /\ IsSequence(q) /\ (\A i \in 1..Len(q) : IsPacket(q[i])) /\ IsSequence(w)
      /\ w = Handed \/ \E k : Without(Handed, w, k)
      /\ Among(Handed, w, dropped')
  BY <1>2, <1>d, RingMakesRoom
<1>4. PICK T : put \in Seq(T) /\ q \in Seq(T) /\ got \in T /\ x \in T
  BY <1>3, OneSet DEF CommonInv
<1>5. queue' = Append(q, x) /\ w \in Seq(T) /\ Append(w, x) = w \o <<x>>
  BY <1>1, <1>2, <1>4, AppendIsConcat, OutTyped
<1>6. Handed' = Append(w, x)
  <2>1. Out(put, receiver, got, Append(q, x)) = More(Out(put, receiver, got, q), x)
    BY <1>4, OutGrows
  <2> QED
    BY <1>2, <1>5, <2>1 DEF Handed, More
<1>7. ASSUME NEW i \in 1..Len(Append(q, x)) PROVE IsPacket(Append(q, x)[i])
  <2>1. /\ Len(q) \in Nat /\ Len(Append(q, x)) = Len(q) + 1 /\ Append(q, x)[Len(q) + 1] = x
        /\ \A j \in 1..Len(q) : Append(q, x)[j] = q[j]
    BY <1>3, OneMore
  <2>2. i \in 1..Len(q) \/ i = Len(q) + 1
    BY <2>1
  <2> QED
    BY <1>3, <2>1, <2>2
<1>8. IsSequence(Append(q, x))
  BY <1>3, OneMore
<1>9. CommonInv'
  BY <1>5, <1>7, <1>8 DEF CommonInv
<1> QED
  BY <1>1, <1>3, <1>5, <1>6, <1>9 DEF PutsForced

LEMMA SuffixLine ==
  ASSUME NEW u, Len(u) \in Nat, LineInv(u), NEW v, NEW s, Suffix(v, u, s)
  PROVE  LineInv(v)
<1>1. s \in Int /\ s >= 0 /\ s <= Len(u) /\ Len(v) = Len(u) - s
  BY DEF Suffix
<1>2. ASSUME NEW i \in 1..Len(v) PROVE s + i \in 1..Len(u) /\ v[i] = u[s + i] /\ i \in Int
  BY <1>1 DEF Suffix
<1>3. \A i \in 1..Len(v) : v[i] \in SentPieces
  BY <1>2 DEF LineInv
<1>4. ASSUME NEW i \in 1..Len(v), NEW j \in 1..Len(v), i < j PROVE Key(v[i]) < Key(v[j])
  <2>1. s + i < s + j
    BY <1>1, <1>2, <1>4
  <2> QED
    BY <1>2, <2>1 DEF LineInv
<1>5. ASSUME NEW i \in 1..Len(v), NEW x \in SentPieces, Key(x) > Key(v[i]), x \notin lost
      PROVE  \E j \in 1..Len(v) : v[j] = x
  <2>1. s + i \in 1..Len(u) /\ v[i] = u[s + i] /\ i \in Int /\ i >= 1
    BY <1>2
  <2>2. PICK j \in 1..Len(u) : j > s + i /\ u[j] = x
    BY <1>5, <2>1, Later
  <2>3. j - s \in 1..Len(v) /\ s + (j - s) = j
    BY <1>1, <2>1, <2>2
  <2>4. v[j - s] = u[j]
    BY <1>2, <2>3
  <2> QED
    BY <2>2, <2>3, <2>4
<1> QED
  BY <1>3, <1>4, <1>5 DEF LineInv

LEMMA SuffixOrder ==
  ASSUME NEW u, Len(u) \in Nat, NEW o, KeysInOrder(o, u), NEW v, NEW s, Suffix(v, u, s)
  PROVE  KeysInOrder(o, v)
<1>1. ASSUME NEW i \in 1..Len(v) PROVE s + i \in 1..Len(u) /\ v[i] = u[s + i]
  BY DEF Suffix
<1> QED
  BY <1>1 DEF KeysInOrder

LEMMA WithoutOrder ==
  ASSUME NEW o, Len(o) \in Nat, NEW u, KeysInOrder(o, u), NEW w, NEW k, Without(o, w, k)
  PROVE  KeysInOrder(w, u)
<1> DEFINE From(i) == IF i < k THEN i ELSE i + 1
<1>1. k \in Int /\ k >= 1 /\ k <= Len(o) /\ Len(w) = Len(o) - 1
  BY DEF Without
<1>2. ASSUME NEW i \in 1..Len(w) PROVE From(i) \in 1..Len(o) /\ w[i] = o[From(i)]
  <2>1. CASE i < k
    <3>1. i \in 1..(k - 1) /\ i \in 1..Len(o)
      BY <1>1, <2>1
    <3> QED
      BY <2>1, <3>1 DEF Without
  <2>2. CASE ~(i < k)
    <3>1. i \in k..Len(w) /\ i + 1 \in 1..Len(o)
      BY <1>1, <2>2
    <3> QED
      BY <2>2, <3>1 DEF Without
  <2> QED
    BY <2>1, <2>2
<1>3. ASSUME NEW i \in 1..Len(w), NEW j \in 1..Len(w), i < j PROVE From(i) < From(j)
  BY <1>1, <1>3
<1> HIDE DEF From
<1>4. \A i \in 1..Len(w) : /\ FirstKey(w[i]) \in Int /\ FirstKey(w[i]) <= 4 * sent + 3
                           /\ \A j \in 1..Len(u) : FirstKey(w[i]) < Key(u[j])
  BY <1>2 DEF KeysInOrder
<1>5. \A i, j \in 1..Len(w) : i < j => FirstKey(w[i]) < FirstKey(w[j])
  BY <1>2, <1>3 DEF KeysInOrder
<1> QED
  BY <1>4, <1>5 DEF KeysInOrder

LEMMA AppendOrder ==
  ASSUME sent \in Nat, NEW u, Len(u) \in Nat, LineInv(u), NEW w, IsSequence(w), KeysInOrder(w, u),
         NEW v, NEW s, Suffix(v, u, s), NEW c \in 1..Len(u), c <= s, NEW x, x.parts[1] = u[c]
  PROVE  KeysInOrder(Append(w, x), v)
<1> DEFINE n == Len(w)
           o == Append(w, x)
<1>1. n \in Nat /\ Len(o) = n + 1 /\ o[n + 1] = x /\ \A i \in 1..n : o[i] = w[i]
  BY OneMore
<1>2. FirstKey(x) = Key(u[c]) /\ Key(u[c]) \in Int /\ Key(u[c]) <= 4 * sent + 3
  <2>1. /\ u[c][1] \in 1..sent /\ u[c][2] \in 1..3 /\ u[c][1] \in Int /\ u[c][2] \in Int
    BY PieceIs DEF LineInv
  <2>2. Key(u[c]) = 4 * u[c][1] + u[c][2]
    BY DEF Key
  <2>3. FirstKey(x) = Key(u[c])
    BY DEF FirstKey
  <2>4. ASSUME NEW a \in 1..sent, NEW b \in 1..3
        PROVE  4 * a + b \in Int /\ 4 * a + b <= 4 * sent + 3
    OBVIOUS
  <2> QED
    BY <2>1, <2>2, <2>3, <2>4
<1>3. ASSUME NEW j \in 1..Len(v) PROVE Key(u[c]) < Key(v[j])
  <2>1. s + j \in 1..Len(u) /\ v[j] = u[s + j] /\ c < s + j
    BY DEF Suffix
  <2> QED
    BY <2>1 DEF LineInv
<1>4. KeysInOrder(w, v)
  BY SuffixOrder
<1>5. \A i \in 1..n : FirstKey(w[i]) < FirstKey(x)
  BY <1>2 DEF KeysInOrder
<1> HIDE DEF n, o
<1>6. \A i \in 1..(n + 1) : i \in 1..n \/ i = n + 1
  BY <1>1
<1>7. \A i \in 1..n : /\ FirstKey(w[i]) \in Int /\ FirstKey(w[i]) <= 4 * sent + 3
                      /\ \A j \in 1..Len(v) : FirstKey(w[i]) < Key(v[j])
  BY <1>4 DEF KeysInOrder, n
<1>8. \A i \in 1..Len(o) : /\ FirstKey(o[i]) \in Int /\ FirstKey(o[i]) <= 4 * sent + 3
                           /\ \A j \in 1..Len(v) : FirstKey(o[i]) < Key(v[j])
  BY <1>1, <1>2, <1>3, <1>6, <1>7
<1>9. ASSUME NEW i \in 1..Len(o), NEW j \in 1..Len(o), i < j PROVE FirstKey(o[i]) < FirstKey(o[j])
  <2>1. i \in 1..n /\ o[i] = w[i]
    BY <1>1, <1>9
  <2>2. CASE j \in 1..n
    BY <1>1, <1>4, <1>9, <2>1, <2>2 DEF KeysInOrder, n
  <2>3. CASE j = n + 1
    BY <1>1, <1>5, <2>1, <2>3
  <2> QED
    BY <1>1, <1>6, <2>2, <2>3
<1> QED
  BY <1>8, <1>9 DEF KeysInOrder, o

\* A packet of which nothing was lost, and nothing of the one before it, is not skipped: it stays
\* on the line or it is the packet that is taken.
LEMMA NotSkipped ==
  ASSUME NEW u, Len(u) \in Nat, sent \in Nat, LineInv(u), NEW e \in 1..Len(u), NEW p \in 1..sent, u[e] = <<p, 1>>,
         script[p] # "ack", \A q \in 1..sent : script[q] \in {"points", "imu", "ack"}, Undamaged(p), NEW s \in Int, s <= Len(u)
  PROVE  /\ Skips(u, s) => e > s
         /\ \A c : SkipsAck(u, c, s) => e > s
         /\ \A c : TakesAt(u, c, s) => e > s \/ Takings(u, c, SerialSize(u[c][1])).parts = Sent(p)
<1>1. Serial!BeginsPoints(u[e])
  BY DEF Serial!BeginsPoints, Serial!Begins
<1>2. Skips(u, s) => e > s
  <2>1. ASSUME Skips(u, s), ~(e > s) PROVE FALSE
    <3>1. e \in 1..s
      BY <2>1
    <3> QED
      BY <1>1, <2>1, <3>1 DEF Skips
  <2> QED
    BY <2>1
<1>3. ASSUME NEW c, SkipsAck(u, c, s), ~(e > s) PROVE FALSE
  <2>1. /\ c \in 1..Len(u) /\ c + 1 <= s /\ u[c][2] = 1 /\ script[u[c][1]] = "ack"
        /\ \A i \in 1..(c - 1) : ~Serial!BeginsPoints(u[i])
        /\ \A i \in (c + 1)..(s - 1) : ~Serial!EndsAck(u[i])
    BY <1>3 DEF SkipsAck, Serial!Begins
  <2>2. e # c
    BY <2>1
  <2>3. c < e
    <3>1. ~(e \in 1..(c - 1))
      BY <1>1, <2>1
    <3> QED
      BY <2>1, <2>2, <3>1
  <2>4. e = s
    <3>1. Serial!EndsAck(u[e])
      BY <1>1 DEF Serial!EndsAck
    <3>2. ~(e \in (c + 1)..(s - 1))
      BY <2>1, <3>1
    <3> QED
      BY <1>3, <2>1, <2>3, <3>2
  <2>5. /\ u[c][1] \in 1..(p - 1)
        /\ \/ u[c][1] = p - 1 /\ e > c - 1 + SerialSize(p - 1) /\ u[c + 1] = <<p - 1, 2>>
           \/ \E a, b \in 1..Len(u) : /\ c < a /\ a < b /\ b < e
                                      /\ u[a] = <<p - 1, 1>> /\ u[b] = <<p - 1, 2>>
    BY <2>1, <2>3, Between
  <2>6. CASE u[c][1] = p - 1 /\ e > c - 1 + SerialSize(p - 1) /\ u[c + 1] = <<p - 1, 2>>
    <3>1. Serial!EndsAck(u[c + 1])
      BY <2>1, <2>6 DEF Serial!EndsAck, Serial!PartsOf
    <3>2. e > c + 1
      BY <2>1, <2>6, SizeIs
    <3>3. c + 1 \in (c + 1)..(s - 1)
      BY <2>1, <2>4, <3>2
    <3> QED
      BY <2>1, <3>1, <3>3
  <2>7. ASSUME NEW a \in 1..Len(u), NEW b \in 1..Len(u), c < a, a < b, b < e,
               u[a] = <<p - 1, 1>>, u[b] = <<p - 1, 2>>
        PROVE  FALSE
    <3>1. a \in (c + 1)..(s - 1) /\ b \in (c + 1)..(s - 1)
      BY <2>1, <2>4, <2>7
    <3>2. Serial!EndsAck(u[b]) <=> Serial!BeginsPoints(u[b]) \/ script[p - 1] = "ack"
      BY <2>7 DEF Serial!EndsAck, Serial!PartsOf
    <3>3. script[p - 1] \in {"points", "imu", "ack"}
      <4>1. u[a][1] \in 1..sent
        BY PieceIs DEF LineInv
      <4> QED
        BY <2>7, <4>1
    <3>4. Serial!EndsAck(u[a]) <=> script[p - 1] \in {"points", "imu"}
      BY <2>7 DEF Serial!EndsAck, Serial!BeginsPoints, Serial!Begins, Serial!PartsOf
    <3> QED
      BY <2>1, <3>1, <3>2, <3>3, <3>4
  <2> QED
    BY <2>5, <2>6, <2>7
<1>4. ASSUME NEW c, TakesAt(u, c, s), ~(e > s)
      PROVE  Takings(u, c, SerialSize(u[c][1])).parts = Sent(p)
  <2>1. /\ c \in 1..Len(u) /\ u[c][2] = 1 /\ s = c - 1 + SerialSize(u[c][1])
        /\ \A i \in 1..(c - 1) : ~Serial!BeginsPoints(u[i])
    BY <1>4 DEF TakesAt, Serial!BeginsPoints, Serial!Begins
  <2>2. c <= e
    <3>1. ~(e \in 1..(c - 1))
      BY <1>1, <2>1
    <3> QED
      BY <2>1, <3>1
  <2>3. SerialSize(u[c][1]) \in {2, 3}
    BY SizeIs
  <2>4. CASE c < e
    <3>1. /\ u[c][1] \in 1..(p - 1)
          /\ \/ u[c][1] = p - 1 /\ e > c - 1 + SerialSize(p - 1) /\ u[c + 1] = <<p - 1, 2>>
             \/ \E a, b \in 1..Len(u) : /\ c < a /\ a < b /\ b < e
                                        /\ u[a] = <<p - 1, 1>> /\ u[b] = <<p - 1, 2>>
      BY <2>1, <2>4, Between
    <3>2. ~(u[c][1] = p - 1 /\ e > c - 1 + SerialSize(p - 1))
      BY <1>4, <2>1
    <3>3. ~ \E a, b \in 1..Len(u) : c < a /\ a < b /\ b < e
      BY <1>4, <2>1, <2>3
    <3> QED
      BY <3>1, <3>2, <3>3
  <2>5. CASE c = e
    <3>1. \A x \in lost : x[1] # p
      BY DEF Undamaged
    <3>2. /\ SerialSize(p) <= Len(u) - e + 1
          /\ \A i \in 1..SerialSize(p) : u[e - 1 + i] = <<p, i>>
      BY <3>1, PieceAfterPiece
    <3>3. u[c][1] = p
      BY <2>5
    <3> QED
      BY <2>5, <3>2, <3>3 DEF Takings, Result, Sent, Intact
  <2> QED
    BY <2>1, <2>2, <2>4, <2>5
<1> QED
  BY <1>2, <1>3, <1>4

\* What a turn does with what it has read, it does with the line, which goes on behind it.
LEMMA SameMoves ==
  ASSUME NEW b, NEW u, Len(b) \in Nat, Len(u) \in Nat, Len(b) <= Len(u), \A i \in 1..Len(b) : b[i] = u[i],
         NEW s \in 0..Len(b), Skips(b, s) \/ \E c : TakesAt(b, c, s) \/ SkipsAck(b, c, s)
  PROVE  Skips(u, s) \/ \E c : TakesAt(u, c, s) \/ SkipsAck(u, c, s)
<1>1. CASE Skips(b, s)
  <2>1. \A i \in 1..s : i \in 1..Len(b)
    OBVIOUS
  <2> QED
    BY <1>1, <2>1 DEF Skips
<1>2. ASSUME NEW c, TakesAt(b, c, s) PROVE TakesAt(u, c, s)
  <2>1. c \in 1..Len(b) /\ c \in 1..Len(u) /\ b[c] = u[c] /\ s = c - 1 + SerialSize(b[c][1])
    BY <1>2 DEF TakesAt
  <2>2. \A i \in 1..(c - 1) : i \in 1..Len(b)
    BY <2>1
  <2>3. \A i \in 1..SerialSize(b[c][1]) : c - 1 + i \in 1..Len(b)
    BY <2>1, SizeIs
  <2>4. Takings(b, c, SerialSize(b[c][1])) = Takings(u, c, SerialSize(u[c][1]))
    BY <2>1, <2>3 DEF Takings
  <2> QED
    BY <1>2, <2>1, <2>2, <2>4 DEF TakesAt
<1>3. ASSUME NEW c, SkipsAck(b, c, s) PROVE SkipsAck(u, c, s)
  <2>1. c \in 1..Len(b) /\ c \in 1..Len(u) /\ b[c] = u[c]
    BY <1>3 DEF SkipsAck
  <2>2. (\A i \in 1..(c - 1) : i \in 1..Len(b)) /\ \A i \in (c + 1)..(s - 1) : i \in 1..Len(b)
    BY <2>1
  <2> QED
    BY <1>3, <2>1, <2>2 DEF SkipsAck
<1> QED
  BY <1>1, <1>2, <1>3

LEMMA LineMoves ==
  ASSUME unread \in Seq(Pieces), wire \in Seq(Pieces), Serial!ReceivedThread
  PROVE  \E s : /\ Suffix(Line', Line, s) /\ unread' \in Seq(Pieces) /\ wire' \in Seq(Pieces)
                /\ Skips(Line, s) \/ \E c : TakesAt(Line, c, s) \/ SkipsAck(Line, c, s)
<1>0. OneRead \in Nat
  BY SetupAssumption
<1>1. PICK n \in 0..OneRead : n <= Len(wire) /\ Serial!Scans(unread \o SubSeq(wire, 1, n))
                              /\ wire' = SubSeq(wire, n + 1, Len(wire))
  BY DEF Serial!ReceivedThread
<1> DEFINE first == SubSeq(wire, 1, n)
           b == unread \o first
           m == Len(unread)
           l == Len(wire)
<1>2. n \in Nat /\ m \in Nat /\ l \in Nat /\ n <= l /\ n \in 0..l
  BY <1>0, <1>1, LenProperties
<1>3. first \in Seq(Pieces) /\ Len(first) = n /\ \A i \in 1..n : first[i] = wire[i]
  <2>1. \A i \in 1..n : wire[i] \in Pieces
    <3>1. \A i \in 1..n : i \in 1..l
      BY <1>2
    <3> QED
      BY <3>1, ElementOfSeq
  <2>2. 1 \in Int /\ n \in Int /\ n - 1 + 1 = n /\ \A i \in 1..n : 1 + i - 1 = i
    BY <1>2
  <2>3. first \in Seq(Pieces) /\ Len(first) = (IF 1 <= n THEN n - 1 + 1 ELSE 0)
        /\ \A i \in 1..(n - 1 + 1) : first[i] = wire[1 + i - 1]
    BY <2>1, <2>2, SubSeqProperties
  <2> HIDE DEF first
  <2>4. Len(first) = n
    BY <1>2, <2>3
  <2> QED
    BY <2>2, <2>3, <2>4
<1>4. wire' \in Seq(Pieces) /\ Len(wire') = l - n /\ \A i \in 1..Len(wire') : wire'[i] = wire[n + i]
  BY <1>1, <1>2, SubSeqIsSuffix DEF Suffix
<1> HIDE DEF first
<1>5. /\ b \in Seq(Pieces) /\ Len(b) = m + n
      /\ \A i \in 1..(m + n) : b[i] = IF i <= m THEN unread[i] ELSE first[i - m]
  BY <1>3, ConcatProperties
<1>6. /\ Line \in Seq(Pieces) /\ Len(Line) = m + l
      /\ \A i \in 1..(m + l) : Line[i] = IF i <= m THEN unread[i] ELSE wire[i - m]
  BY ConcatProperties DEF Line
<1> HIDE DEF m, l
<1>7. \A i \in 1..Len(b) : b[i] = Line[i]
  <2>1. ASSUME NEW i \in 1..Len(b) PROVE b[i] = Line[i]
    <3>1. i \in 1..(m + n) /\ i \in 1..(m + l) /\ (~(i <= m) => i - m \in 1..n)
      BY <1>2, <1>5
    <3> QED
      BY <1>3, <1>5, <1>6, <3>1
  <2> QED
    BY <2>1
<1>8. PICK s : /\ Suffix(unread', b, s) /\ unread' \in Seq(Pieces)
               /\ Skips(b, s) \/ \E c : TakesAt(b, c, s) \/ SkipsAck(b, c, s)
  BY <1>1, <1>5, ScanMoves DEF first
<1> HIDE DEF b
<1>9. /\ s \in 0..Len(b) /\ s \in Int /\ s <= m + n /\ s >= 0 /\ Len(unread') = m + n - s
      /\ \A i \in 1..Len(unread') : unread'[i] = b[s + i]
  BY <1>2, <1>5, <1>8 DEF Suffix
<1>10. /\ Len(Line') = Len(unread') + Len(wire')
       /\ \A i \in 1..(Len(unread') + Len(wire')) :
            Line'[i] = IF i <= Len(unread') THEN unread'[i] ELSE wire'[i - Len(unread')]
  BY <1>4, <1>8, ConcatProperties DEF Line
<1>11. Suffix(Line', Line, s)
  <2>1. Len(Line') = Len(Line) - s /\ s \in 0..Len(Line)
    BY <1>2, <1>4, <1>6, <1>9, <1>10
  <2>2. ASSUME NEW i \in 1..Len(Line') PROVE Line'[i] = Line[s + i]
    <3>1. CASE i <= Len(unread')
      <4>1. i \in 1..Len(unread') /\ s + i \in 1..Len(b) /\ i \in 1..(Len(unread') + Len(wire'))
        BY <1>2, <1>4, <1>5, <1>9, <1>10, <3>1
      <4> QED
        BY <1>7, <1>9, <1>10, <3>1, <4>1
    <3>2. CASE ~(i <= Len(unread'))
      <4>1. /\ i \in 1..(Len(unread') + Len(wire')) /\ i - Len(unread') \in 1..Len(wire')
            /\ n + (i - Len(unread')) = (s + i) - m /\ s + i \in 1..(m + l) /\ ~(s + i <= m)
        BY <1>2, <1>4, <1>9, <1>10, <3>2
      <4> QED
        BY <1>4, <1>6, <1>10, <3>2, <4>1
    <3> QED
      BY <3>1, <3>2
  <2> QED
    BY <2>1, <2>2 DEF Suffix
<1>12. Skips(Line, s) \/ \E c : TakesAt(Line, c, s) \/ SkipsAck(Line, c, s)
  <2>1. Len(b) \in Nat /\ Len(Line) \in Nat /\ Len(b) <= Len(Line)
    BY <1>2, <1>5, <1>6
  <2> QED
    BY <1>7, <1>8, <1>9, <2>1, SameMoves
<1> QED
  BY <1>4, <1>8, <1>11, <1>12

\* What a step on the line must keep: it leaves behind what it has read, and it may drop a packet
\* and put one at the end.
LEMMA TurnKeeps ==
  ASSUME CommonInv, SerialLineInv, UNCHANGED <<sent, lost, script>>,
         unread' \in Seq(Pieces), wire' \in Seq(Pieces),
         NEW s, Suffix(Line', Line, s),
         NEW w, IsSequence(w), w = Handed \/ \E k : Without(Handed, w, k), Among(Handed, w, dropped'),
         dropped \subseteq dropped',
         NEW new, IsSequence(Handed'),
         \/ Handed' = w
         \/ /\ Handed' = Append(w, new)
            /\ \E c \in 1..Len(Line) : c <= s /\ new.parts[1] = Line[c],
         \A p \in 1..sent, e \in 1..Len(Line) :
           script[p] # "ack" /\ Undamaged(p) /\ Line[e] = <<p, 1>> =>
             e > s \/ (Handed' = Append(w, new) /\ new.parts = Sent(p))
  PROVE  SerialLineInv'
<1>1. /\ Len(Line) \in Nat /\ Len(Handed) \in Nat /\ sent \in Nat
      /\ LineInv(Line) /\ KeysInOrder(Handed, Line)
  <2>1. Line \in Seq(Pieces) /\ sent \in Nat
    BY ConcatProperties, LenProperties DEF SerialLineInv, Line, CommonInv
  <2>2. Len(Line) \in Nat /\ Len(Handed) \in Nat
    BY <2>1, LenProperties, HandedOnIs DEF IsSequence, CommonInv
  <2> QED
    BY <2>1, <2>2 DEF SerialLineInv
<1>2. LineInv(Line')
  BY <1>1, SuffixLine
<1>3. KeysInOrder(w, Line)
  BY <1>1, WithoutOrder
<1>4. KeysInOrder(Handed', Line')
  <2>1. CASE Handed' = w
    BY <1>1, <1>3, <2>1, SuffixOrder
  <2>2. ASSUME Handed' = Append(w, new), NEW c \in 1..Len(Line), c <= s, new.parts[1] = Line[c]
        PROVE  KeysInOrder(Handed', Line')
    <3>1. KeysInOrder(Append(w, new), Line')
      BY <1>1, <1>3, <2>2, AppendOrder
    <3> QED
      BY <2>2, <3>1
  <2> QED
    BY <2>1, <2>2
<1>5. /\ \A q : SerialSize(q)' = SerialSize(q) /\ Sent(q)' = Sent(q) /\ (Undamaged(q)' <=> Undamaged(q))
      /\ SentPieces' = SentPieces
  BY DEF SerialSize, Serial!PartsOf, Sent, Intact, Undamaged, SentPieces, Pieces
<1>6. \A x : (\E h \in 1..Len(w) : w[h].parts = x) => IsHanded(x)'
  <2>1. ASSUME NEW x, NEW h \in 1..Len(w), w[h].parts = x PROVE IsHanded(x)'
    <3>1. h \in 1..Len(Handed') /\ Handed'[h] = w[h]
      <4>1. /\ Len(w) \in Nat /\ Len(Append(w, new)) = Len(w) + 1
            /\ \A i \in 1..Len(w) : Append(w, new)[i] = w[i]
        BY OneMore
      <4>2. h \in 1..(Len(w) + 1)
        BY <4>1
      <4> QED
        BY <4>1, <4>2
    <3> QED
      BY <2>1, <3>1 DEF IsHanded
  <2> QED
    BY <2>1
<1>7. ASSUME NEW p \in 1..sent, Done(p) PROVE Done(p)'
  <2>1. CASE IsHanded(Sent(p))
    <3>1. Sent(p) \in dropped' \/ \E h \in 1..Len(w) : w[h].parts = Sent(p)
      BY <2>1 DEF IsHanded, Among
    <3>2. IsHanded(Sent(p))' \/ Sent(p)' \in dropped'
      <4>1. CASE Sent(p) \in dropped'
        BY <1>5, <4>1
      <4>2. CASE \E h \in 1..Len(w) : w[h].parts = Sent(p)
        <5>1. \E h \in 1..Len(Handed') : Handed'[h].parts = Sent(p)
          BY <1>6, <4>2 DEF IsHanded
        <5> QED
          BY <1>5, <5>1 DEF IsHanded
      <4> QED
        BY <3>1, <4>1, <4>2
    <3> QED
      BY <3>2 DEF Done
  <2>2. CASE Sent(p) \in dropped
    BY <1>5, <2>2 DEF Done
  <2> QED
    BY <1>7, <2>1, <2>2 DEF Done
<1>8. ASSUME NEW p \in 1..sent, script[p] # "ack", Undamaged(p)
      PROVE  Done(p)' \/ \E i \in 1..Len(Line') : Line'[i] = <<p, 1>>
  <2>1. CASE Done(p)
    BY <1>7, <2>1
  <2>2. ASSUME NEW e \in 1..Len(Line), Line[e] = <<p, 1>>
        PROVE  Done(p)' \/ \E i \in 1..Len(Line') : Line'[i] = <<p, 1>>
    <3>1. CASE e > s
      <4>1. e - s \in 1..Len(Line') /\ s + (e - s) = e
        BY <1>1, <3>1 DEF Suffix
      <4>2. Line'[e - s] = Line[e]
        BY <4>1 DEF Suffix
      <4> QED
        BY <2>2, <4>1, <4>2
    <3>2. CASE Handed' = Append(w, new) /\ new.parts = Sent(p)
      <4>1. Len(w) + 1 \in 1..Len(Handed') /\ Handed'[Len(w) + 1] = new
        <5>1. Len(w) \in Nat /\ Len(Append(w, new)) = Len(w) + 1 /\ Append(w, new)[Len(w) + 1] = new
          BY OneMore
        <5> QED
          BY <3>2, <5>1
      <4>2. \E h \in 1..Len(Handed') : Handed'[h].parts = Sent(p)
        BY <3>2, <4>1
      <4>3. IsHanded(Sent(p))'
        BY <1>5, <4>2 DEF IsHanded
      <4> QED
        BY <4>3 DEF Done
    <3> QED
      BY <1>8, <2>2, <3>1, <3>2
  <2> QED
    BY <1>8, <2>1, <2>2 DEF SerialLineInv
<1>9. LineInv(Line)' /\ KeysInOrder(Handed, Line)'
  BY <1>2, <1>4, <1>5 DEF LineInv, KeysInOrder, FirstKey, Key
<1>10. \A p \in 1..sent' : script'[p] # "ack" /\ Undamaged(p)' =>
                             Done(p)' \/ \E i \in 1..Len(Line') : Line'[i] = <<p, 1>>
  BY <1>5, <1>8
<1> QED
  BY <1>9, <1>10 DEF SerialLineInv

LEMMA SerialTypes ==
  ASSUME CommonInv, SerialLineInv, source = "serial"
  PROVE  /\ sent \in Nat /\ Line \in Seq(Pieces) /\ Len(Line) \in Nat
         /\ IsSequence(Handed) /\ Len(Handed) \in Nat
         /\ \A q \in 1..Len(script) : script[q] \in {"points", "imu", "ack"}
         /\ Len(script) \in Nat /\ sent <= Len(script)
         /\ \A q \in 1..sent : script[q] \in {"points", "imu", "ack"}
<1>1. Line \in Seq(Pieces)
  BY ConcatProperties DEF SerialLineInv, Line
<1>2. script \in Seq({"points", "imu", "ack"}) /\ sent \in 0..Len(script)
  BY DEF CommonInv, ScriptKinds
<1>3. \A q \in 1..Len(script) : script[q] \in {"points", "imu", "ack"}
  BY <1>2, ElementOfSeq
<1>4. Len(script) \in Nat /\ Len(Line) \in Nat
  BY <1>1, <1>2, LenProperties
<1>5. IsSequence(Handed)
  BY HandedOnIs DEF CommonInv
<1>6. Len(Handed) \in Nat
  BY <1>5, LenProperties DEF IsSequence
<1>7. \A q \in 1..sent : q \in 1..Len(script)
  BY <1>2, <1>4
<1> QED
  BY <1>1, <1>2, <1>3, <1>4, <1>5, <1>6, <1>7

LEMMA SerialTurn ==
  ASSUME CommonInv, SerialLineInv, source = "serial", Serial!ReceivedThread, UNCHANGED <<source, threadVars>>
  PROVE  CommonInv' /\ SerialLineInv'
<1>1. UNCHANGED <<source, script, sent, got, lost, put, receiver>>
  BY DEF Serial!ReceivedThread, threadVars
<1>2. /\ sent \in Nat /\ Len(Line) \in Nat /\ IsSequence(Handed) /\ LineInv(Line)
      /\ \A q \in 1..sent : script[q] \in {"points", "imu", "ack"}
  BY SerialTypes DEF SerialLineInv
<1>3. PICK s : /\ Suffix(Line', Line, s) /\ unread' \in Seq(Pieces) /\ wire' \in Seq(Pieces)
               /\ Skips(Line, s) \/ \E c : TakesAt(Line, c, s) \/ SkipsAck(Line, c, s)
  BY LineMoves DEF SerialLineInv
<1>4. s \in Int /\ s <= Len(Line)
  BY <1>2, <1>3 DEF Suffix
<1>5. ASSUME NEW p \in 1..sent, NEW e \in 1..Len(Line), script[p] # "ack", Undamaged(p), Line[e] = <<p, 1>>
      PROVE  /\ Skips(Line, s) => e > s
             /\ \A c : SkipsAck(Line, c, s) => e > s
             /\ \A c : TakesAt(Line, c, s) => e > s \/ Takings(Line, c, SerialSize(Line[c][1])).parts = Sent(p)
  BY <1>2, <1>4, <1>5, NotSkipped
<1>6. ASSUME Skips(Line, s) \/ \E c : SkipsAck(Line, c, s)
      PROVE  \A p \in 1..sent, e \in 1..Len(Line) :
               script[p] # "ack" /\ Undamaged(p) /\ Line[e] = <<p, 1>> => e > s
  BY <1>5, <1>6
<1>7. ASSUME Skips(Line, s) \/ (\E c : SkipsAck(Line, c, s)), UNCHANGED <<queue, dropped>>
      PROVE  CommonInv' /\ SerialLineInv'
  <2>1. CommonInv' /\ Handed' = Handed
    BY <1>1, <1>7, SameHanded
  <2>2. Among(Handed, Handed, dropped') /\ dropped \subseteq dropped'
    BY <1>7 DEF Among
  <2>3. IsSequence(Handed')
    BY <1>2, <2>1
  <2> QED
    BY <1>1, <1>2, <1>3, <1>6, <1>7, <2>1, <2>2, <2>3, TurnKeeps
<1>8. ASSUME Skips(Line, s), Serial!PutForced(<<>>)
      PROVE  CommonInv' /\ SerialLineInv'
  <2>1. PICK w : CommonInv' /\ PutsForced(w, <<>>) /\ Handed' = w
    BY <1>1, <1>8, PutForcedNone
  <2>2. /\ IsSequence(w) /\ (w = Handed \/ \E k : Without(Handed, w, k)) /\ Among(Handed, w, dropped')
        /\ dropped \subseteq dropped' /\ IsSequence(Handed')
    BY <2>1 DEF PutsForced
  <2> QED
    BY <1>1, <1>3, <1>6, <1>8, <2>1, <2>2, TurnKeeps
<1>9. ASSUME NEW c, TakesAt(Line, c, s)
      PROVE  CommonInv' /\ SerialLineInv'
  <2>0. PICK new : new = Takings(Line, c, SerialSize(Line[c][1]))
    OBVIOUS
  <2>1. Serial!PutForced(<<new>>) /\ c \in 1..Len(Line) /\ s = c - 1 + SerialSize(Line[c][1])
    BY <1>9, <2>0 DEF TakesAt
  <2>2. IsPacket(new)
    BY <2>0 DEF IsPacket, Takings, Result
  <2>3. new.parts[1] = Line[c] /\ c <= s
    <3>1. 1 \in 1..SerialSize(Line[c][1]) /\ c - 1 + 1 = c /\ c <= s
      BY <1>2, <2>1, SizeIs
    <3> QED
      BY <2>0, <3>1 DEF Takings, Result
  <2>4. PICK w : CommonInv' /\ PutsForced(w, <<new>>) /\ Handed' = Append(w, new)
    BY <1>1, <2>1, <2>2, PutForcedOne
  <2>5. /\ IsSequence(w) /\ (w = Handed \/ \E k : Without(Handed, w, k)) /\ Among(Handed, w, dropped')
        /\ dropped \subseteq dropped'
    BY <2>4 DEF PutsForced
  <2>6. IsSequence(Handed')
    BY <2>4, <2>5, OneMore
  <2>7. \A p \in 1..sent, e \in 1..Len(Line) :
          script[p] # "ack" /\ Undamaged(p) /\ Line[e] = <<p, 1>> =>
            e > s \/ (Handed' = Append(w, new) /\ new.parts = Sent(p))
    BY <1>5, <1>9, <2>0, <2>4
  <2>8. Handed' = Append(w, new) /\ \E k \in 1..Len(Line) : k <= s /\ new.parts[1] = Line[k]
    BY <2>1, <2>3, <2>4
  <2>9. SerialLineInv'
    BY <1>1, <1>3, <2>5, <2>6, <2>7, <2>8, TurnKeeps
  <2> QED
    BY <2>4, <2>9
<1> QED
  BY <1>3, <1>7, <1>8, <1>9 DEF Skips, SkipsAck

LEMMA SerialSends ==
  ASSUME CommonInv, SerialLineInv, source = "serial", Serial!Sends, UNCHANGED <<source, threadVars>>
  PROVE  CommonInv' /\ SerialLineInv'
<1> DEFINE q == sent + 1
           n == SerialSize(q)
           u == Line
           l == Len(Line)
<1>0. PICK new : new = Intact(q, n)
  OBVIOUS
<1>1. /\ sent < Len(script) /\ sent' = q /\ wire' = wire \o new
      /\ UNCHANGED <<source, script, unread, queue, got, lost, dropped, put, receiver>>
  BY <1>0 DEF Serial!Sends, Serial!Intact, Intact, SerialSize, threadVars
<1>2. /\ sent \in Nat /\ u \in Seq(Pieces) /\ l \in Nat /\ Len(script) \in Nat /\ LineInv(u)
      /\ KeysInOrder(Handed, u)
  BY SerialTypes DEF SerialLineInv
<1>3. n \in {2, 3} /\ q \in Nat /\ sent' \in 0..Len(script)
  BY <1>1, <1>2, SizeIs
<1>4. CommonInv' /\ Handed' = Handed
  BY <1>1, <1>3 DEF CommonInv, Handed
<1>5. new \in Seq(Pieces) /\ Len(new) = n /\ \A i \in 1..n : new[i] = <<q, i>>
  <2> DEFINE e(i) == <<q, i>>
  <2>0. n \in Nat
    BY <1>3
  <2>1. \A i \in 1..n : e(i) \in Pieces
    BY <1>3 DEF Pieces
  <2>2. new = [i \in 1..n |-> e(i)]
    BY <1>0 DEF Intact
  <2> HIDE DEF e, n
  <2>3. [i \in 1..n |-> e(i)] \in Seq(Pieces)
    BY <2>0, <2>1, IsASeq
  <2>4. DOMAIN new = 1..n
    BY <2>2
  <2>5. Len(new) = n
    BY <2>0, <2>2, <2>3, <2>4, LenProperties
  <2> QED
    BY <2>2, <2>3, <2>5 DEF e
<1> HIDE DEF n
<1>6. Line' = u \o new /\ wire' \in Seq(Pieces) /\ unread' \in Seq(Pieces)
  <2>1. unread \in Seq(Pieces) /\ wire \in Seq(Pieces)
    BY DEF SerialLineInv
  <2>2. (unread \o wire) \o new = unread \o (wire \o new)
    BY <1>5, <2>1, Associates
  <2> QED
    BY <1>1, <1>5, <2>1, <2>2, ConcatProperties DEF Line
<1>7. PICK v : v = Line'
  OBVIOUS
<1>8. /\ Len(v) = l + n
      /\ \A i \in 1..l : v[i] = u[i]
      /\ \A i \in 1..n : l + i \in 1..(l + n) /\ v[l + i] = <<q, i>>
  <2>1. /\ Len(u \o new) = Len(u) + Len(new)
        /\ \A i \in 1..(Len(u) + Len(new)) : (u \o new)[i] = IF i <= Len(u) THEN u[i] ELSE new[i - Len(u)]
    BY <1>2, <1>5, ConcatProperties
  <2>2. (\A i \in 1..l : i \in 1..(l + n) /\ i <= l)
        /\ \A i \in 1..n : l + i \in 1..(l + n) /\ ~(l + i <= l) /\ (l + i) - l = i
    BY <1>2, <1>3
  <2> QED
    BY <1>5, <1>6, <1>7, <2>1, <2>2
<1> DEFINE S == SentPieces \cup {<<q, i>> : i \in 1..n}
<1>9. SentPieces' = S
  <2>1. \A k : SerialSize(k)' = SerialSize(k)
    BY <1>1 DEF SerialSize, Serial!PartsOf
  <2>2. SentPieces' = {x \in Pieces : x[1] \in 1..q /\ x[2] \in 1..SerialSize(x[1])}
    BY <1>1, <2>1 DEF SentPieces, Pieces
  <2>3. ASSUME NEW x \in Pieces, x[1] \in 1..q, x[2] \in 1..SerialSize(x[1]) PROVE x \in S
    <3>1. x = <<x[1], x[2]>> /\ (x[1] \in 1..sent \/ x[1] = q)
      BY <1>2, <2>3 DEF Pieces
    <3> QED
      BY <2>3, <3>1 DEF SentPieces, n
  <2>4. ASSUME NEW x \in S PROVE x \in Pieces /\ x[1] \in 1..q /\ x[2] \in 1..SerialSize(x[1])
    <3>1. CASE x \in SentPieces
      BY <1>2, <3>1 DEF SentPieces
    <3>2. ASSUME NEW i \in 1..n, x = <<q, i>> PROVE x \in Pieces /\ x[1] \in 1..q /\ x[2] \in 1..SerialSize(x[1])
      BY <1>2, <1>3, <3>2 DEF Pieces, n
    <3> QED
      BY <2>4, <3>1, <3>2
  <2> HIDE DEF S
  <2> QED
    BY <2>2, <2>3, <2>4
<1>10. /\ \A x \in SentPieces : Key(x) \in Int /\ Key(x) <= 4 * sent + 3
       /\ \A i \in 1..n : Key(<<q, i>>) = 4 * q + i
  <2>1. ASSUME NEW x \in SentPieces PROVE Key(x) \in Int /\ Key(x) <= 4 * sent + 3
    <3>1. x[1] \in 1..sent /\ x[2] \in 1..3 /\ x[1] \in Int /\ x[2] \in Int
      BY PieceIs
    <3>2. \A a \in 1..sent, b \in 1..3 : 4 * a + b \in Int /\ 4 * a + b <= 4 * sent + 3
      BY <1>2
    <3> QED
      BY <3>1, <3>2 DEF Key
  <2> QED
    BY <2>1 DEF Key
<1> HIDE DEF l, u
<1>11. \A i \in 1..l : u[i] \in SentPieces
  BY <1>2 DEF LineInv, l, u
<1>12. ASSUME NEW i \in 1..Len(v)
       PROVE  \/ i \in 1..l /\ v[i] = u[i] /\ v[i] \in SentPieces
              \/ i - l \in 1..n /\ i > l /\ v[i] = <<q, i - l>>
  <2>1. i \in 1..l \/ (i > l /\ i - l \in 1..n /\ l + (i - l) = i)
    BY <1>2, <1>3, <1>8
  <2> QED
    BY <1>8, <1>11, <2>1
<1>13. \A i \in 1..Len(v) : v[i] \in S /\ Key(v[i]) \in Int
  <2>1. ASSUME NEW i \in 1..Len(v) PROVE v[i] \in S /\ Key(v[i]) \in Int
    <3>1. CASE v[i] \in SentPieces
      BY <1>10, <3>1
    <3>2. CASE i - l \in 1..n /\ v[i] = <<q, i - l>>
      <4>1. Key(v[i]) = 4 * q + (i - l)
        BY <1>10, <3>2
      <4> QED
        BY <1>2, <1>3, <3>2, <4>1
    <3> QED
      BY <1>12, <3>1, <3>2
  <2> QED
    BY <2>1
<1>14. ASSUME NEW i \in 1..Len(v), NEW j \in 1..Len(v), i < j PROVE Key(v[i]) < Key(v[j])
  <2>1. CASE i \in 1..l /\ v[i] = u[i] /\ j \in 1..l /\ v[j] = u[j]
    BY <1>2, <1>14, <2>1 DEF LineInv, l, u
  <2>2. CASE v[i] \in SentPieces /\ j - l \in 1..n /\ v[j] = <<q, j - l>>
    <3>1. Key(v[i]) <= 4 * sent + 3 /\ Key(v[i]) \in Int /\ Key(v[j]) = 4 * q + (j - l)
      BY <1>10, <2>2
    <3> QED
      BY <1>2, <1>3, <2>2, <3>1
  <2>3. CASE i - l \in 1..n /\ v[i] = <<q, i - l>> /\ j - l \in 1..n /\ v[j] = <<q, j - l>>
    <3>1. Key(v[i]) = 4 * q + (i - l) /\ Key(v[j]) = 4 * q + (j - l)
      BY <1>10, <2>3
    <3> QED
      BY <1>2, <1>3, <1>14, <3>1
  <2>4. ~(i > l /\ j \in 1..l)
    BY <1>2, <1>14
  <2> QED
    BY <1>12, <2>1, <2>2, <2>3, <2>4
<1>15. ASSUME NEW i \in 1..Len(v), NEW x \in S, Key(x) > Key(v[i])
       PROVE  x \in lost \/ \E j \in 1..Len(v) : v[j] = x
  <2>1. ASSUME NEW k \in 1..n, x = <<q, k>> PROVE \E j \in 1..Len(v) : v[j] = x
    BY <1>8, <2>1
  <2>2. CASE x \in SentPieces /\ i \in 1..l /\ v[i] = u[i]
    <3>1. x \in lost \/ \E j \in 1..l : u[j] = x
      BY <1>2, <1>15, <2>2 DEF LineInv, l, u
    <3>2. \A j \in 1..l : j \in 1..Len(v)
      BY <1>2, <1>3, <1>8
    <3> QED
      BY <1>8, <3>1, <3>2
  <2>3. CASE x \in SentPieces /\ i - l \in 1..n /\ v[i] = <<q, i - l>>
    <3>1. Key(x) <= 4 * sent + 3 /\ Key(x) \in Int /\ Key(v[i]) = 4 * q + (i - l)
      BY <1>10, <2>3
    <3> QED
      BY <1>2, <1>3, <1>15, <2>3, <3>1
  <2> QED
    BY <1>12, <2>1, <2>2, <2>3
<1> HIDE DEF S
<1>16. LineInv(Line)'
  <2>1. /\ \A i \in 1..Len(Line') : Line'[i] \in SentPieces'
        /\ \A i, j \in 1..Len(Line') : i < j => Key(Line'[i]) < Key(Line'[j])
        /\ \A i \in 1..Len(Line') : \A x \in SentPieces' :
             Key(x) > Key(Line'[i]) => x \in lost' \/ \E j \in 1..Len(Line') : Line'[j] = x
    BY <1>1, <1>7, <1>9, <1>13, <1>14, <1>15
  <2> QED
    BY <2>1 DEF LineInv, Key
<1>17. KeysInOrder(Handed, Line)'
  <2>1. ASSUME NEW h \in 1..Len(Handed), NEW j \in 1..Len(v) PROVE FirstKey(Handed[h]) < Key(v[j])
    <3>1. FirstKey(Handed[h]) \in Int /\ FirstKey(Handed[h]) <= 4 * sent + 3
          /\ \A i \in 1..l : FirstKey(Handed[h]) < Key(u[i])
      BY <1>2 DEF KeysInOrder, l, u
    <3>2. CASE j - l \in 1..n /\ v[j] = <<q, j - l>>
      <4>1. Key(v[j]) = 4 * q + (j - l)
        BY <1>10, <3>2
      <4> QED
        BY <1>2, <1>3, <3>1, <3>2, <4>1
    <3> QED
      BY <1>12, <3>1, <3>2
  <2>2. \A h \in 1..Len(Handed) : FirstKey(Handed[h]) \in Int /\ FirstKey(Handed[h]) <= 4 * sent' + 3
    <3>1. 4 * sent' = 4 * sent + 4
      BY <1>1, <1>2
    <3>2. \A h \in 1..Len(Handed) : FirstKey(Handed[h]) \in Int /\ FirstKey(Handed[h]) <= 4 * sent + 3
      BY <1>2 DEF KeysInOrder
    <3> QED
      BY <1>2, <3>1, <3>2
  <2>3. \A i, j \in 1..Len(Handed) : i < j => FirstKey(Handed[i]) < FirstKey(Handed[j])
    BY <1>2 DEF KeysInOrder
  <2> QED
    BY <1>4, <1>7, <2>1, <2>2, <2>3 DEF KeysInOrder, FirstKey, Key
<1>18. ASSUME NEW p \in 1..sent', script'[p] # "ack", Undamaged(p)'
       PROVE  Done(p)' \/ \E i \in 1..Len(Line') : Line'[i] = <<p, 1>>
  <2>1. CASE p = q
    <3>1. 1 \in 1..n /\ l + 1 \in 1..Len(v)
      BY <1>2, <1>3, <1>8
    <3>2. v[l + 1] = <<q, 1>>
      BY <1>8, <3>1
    <3> QED
      BY <1>7, <2>1, <3>1, <3>2
  <2>2. CASE p \in 1..sent
    <3>1. script[p] # "ack" /\ Undamaged(p)
      BY <1>1, <1>18 DEF Undamaged
    <3>2. Done(p) \/ \E i \in 1..l : u[i] = <<p, 1>>
      BY <2>2, <3>1 DEF SerialLineInv, l, u
    <3>3. Done(p)' <=> Done(p)
      BY <1>1, <1>4 DEF Done, IsHanded, Sent, Intact, SerialSize, Serial!PartsOf
    <3>4. \A i \in 1..l : i \in 1..Len(v) /\ v[i] = u[i]
      BY <1>2, <1>3, <1>8
    <3> QED
      BY <1>7, <3>2, <3>3, <3>4
  <2>3. p \in 1..sent \/ p = q
    BY <1>1, <1>2
  <2> QED
    BY <2>1, <2>2, <2>3
<1> QED
  BY <1>4, <1>6, <1>16, <1>17, <1>18 DEF SerialLineInv

LEMMA SerialLoses ==
  ASSUME CommonInv, SerialLineInv, source = "serial", Serial!Loses, UNCHANGED <<source, threadVars>>
  PROVE  CommonInv' /\ SerialLineInv'
<1> DEFINE u == Line
           l == Len(Line)
           m == Len(unread)
           k == m + 1
<1>1. /\ wire # <<>> /\ lost' = lost \cup {Head(wire)} /\ wire' = Tail(wire)
      /\ UNCHANGED <<source, script, sent, unread, queue, got, dropped, put, receiver>>
  BY DEF Serial!Loses, threadVars
<1>2. /\ sent \in Nat /\ u \in Seq(Pieces) /\ l \in Nat /\ LineInv(u) /\ KeysInOrder(Handed, u)
      /\ unread \in Seq(Pieces) /\ wire \in Seq(Pieces) /\ m \in Nat /\ Len(Handed) \in Nat
  BY SerialTypes, LenProperties DEF SerialLineInv
<1>3. CommonInv' /\ Handed' = Handed
  BY <1>1, SameHanded
<1>4. /\ wire' \in Seq(Pieces) /\ Len(wire') = Len(wire) - 1 /\ Len(wire) \in Nat /\ Len(wire) # 0
      /\ \A i \in 1..Len(wire') : wire'[i] = wire[i + 1]
  BY <1>1, <1>2, HeadTailProperties, EmptySeq, LenProperties
<1>5. Head(wire) = wire[1]
  BY <1>1, <1>2
<1>6. l = m + Len(wire) /\ \A i \in 1..(m + Len(wire)) : u[i] = IF i <= m THEN unread[i] ELSE wire[i - m]
  BY <1>2, ConcatProperties DEF Line
<1>7. PICK v : v = Line'
  OBVIOUS
<1>8. Len(v) = m + Len(wire') /\ \A i \in 1..(m + Len(wire')) : v[i] = IF i <= m THEN unread[i] ELSE wire'[i - m]
  BY <1>1, <1>2, <1>4, <1>7, ConcatProperties DEF Line
<1> HIDE DEF u, l, m
<1> DEFINE Before(i) == IF i < k THEN i ELSE i + 1
<1>9. /\ k \in 1..l /\ u[k] = Head(wire) /\ Len(v) = l - 1
  <2>1. k \in 1..(m + Len(wire)) /\ ~(k <= m) /\ k - m = 1
    BY <1>2, <1>4
  <2>2. u[k] = wire[k - m] /\ k \in 1..l
    BY <1>6, <2>1
  <2>3. u[k] = Head(wire)
    BY <1>5, <2>1, <2>2
  <2>4. Len(v) = l - 1
    BY <1>2, <1>4, <1>6, <1>8
  <2> QED
    BY <2>2, <2>3, <2>4
<1>10. ASSUME NEW i \in 1..Len(v) PROVE Before(i) \in 1..l /\ v[i] = u[Before(i)]
  <2>1. CASE i < k
    <3>1. i \in 1..(m + Len(wire')) /\ i \in 1..(m + Len(wire)) /\ i <= m
      BY <1>2, <1>4, <1>8, <2>1
    <3> QED
      BY <1>6, <1>8, <2>1, <3>1
  <2>2. CASE ~(i < k)
    <3>1. /\ i \in 1..(m + Len(wire')) /\ ~(i <= m) /\ i + 1 \in 1..(m + Len(wire)) /\ ~(i + 1 <= m)
          /\ (i + 1) - m = (i - m) + 1 /\ i - m \in 1..Len(wire')
      BY <1>2, <1>4, <1>8, <2>2
    <3> QED
      BY <1>4, <1>6, <1>8, <2>2, <3>1
  <2> QED
    BY <2>1, <2>2
<1>11. ASSUME NEW i \in 1..Len(v), NEW j \in 1..Len(v), i < j PROVE Before(i) < Before(j)
  BY <1>2, <1>11
<1>12. ASSUME NEW j \in 1..l, j # k PROVE \E i \in 1..Len(v) : v[i] = u[j]
  <2>1. CASE j < k
    <3>1. j \in 1..Len(v) /\ Before(j) = j
      BY <1>2, <1>9, <2>1
    <3> QED
      BY <1>10, <3>1
  <2>2. CASE ~(j < k)
    <3>1. j - 1 \in 1..Len(v) /\ Before(j - 1) = j
      BY <1>2, <1>9, <1>12, <2>2
    <3> QED
      BY <1>10, <3>1
  <2> QED
    BY <2>1, <2>2
<1> HIDE DEF Before, k
<1>13. /\ \A i \in 1..l : u[i] \in SentPieces
       /\ \A i, j \in 1..l : i < j => Key(u[i]) < Key(u[j])
       /\ \A i \in 1..l : \A x \in SentPieces :
            Key(x) > Key(u[i]) => x \in lost \/ \E j \in 1..l : u[j] = x
  BY <1>2 DEF LineInv, l, u
<1>14. \A i \in 1..Len(v) : v[i] \in SentPieces
  BY <1>10, <1>13
<1>15. \A i, j \in 1..Len(v) : i < j => Key(v[i]) < Key(v[j])
  BY <1>10, <1>11, <1>13
<1>16. ASSUME NEW i \in 1..Len(v), NEW x \in SentPieces, Key(x) > Key(v[i])
       PROVE  x \in lost' \/ \E j \in 1..Len(v) : v[j] = x
  <2>1. x \in lost \/ \E j \in 1..l : u[j] = x
    BY <1>10, <1>13, <1>16
  <2>2. ASSUME NEW j \in 1..l, u[j] = x PROVE x \in lost' \/ \E h \in 1..Len(v) : v[h] = x
    <3>1. CASE j = k
      BY <1>1, <1>9, <2>2, <3>1
    <3>2. CASE j # k
      BY <1>12, <2>2, <3>2
    <3> QED
      BY <3>1, <3>2
  <2> QED
    BY <1>1, <2>1, <2>2
<1>17. SentPieces' = SentPieces
  BY <1>1 DEF SentPieces, Pieces, SerialSize, Serial!PartsOf
<1>18. LineInv(Line)'
  <2>1. /\ \A i \in 1..Len(Line') : Line'[i] \in SentPieces'
        /\ \A i, j \in 1..Len(Line') : i < j => Key(Line'[i]) < Key(Line'[j])
        /\ \A i \in 1..Len(Line') : \A x \in SentPieces' :
             Key(x) > Key(Line'[i]) => x \in lost' \/ \E j \in 1..Len(Line') : Line'[j] = x
    BY <1>7, <1>14, <1>15, <1>16, <1>17
  <2> QED
    BY <2>1 DEF LineInv, Key
<1>19. KeysInOrder(Handed, Line)'
  <2>1. /\ \A i \in 1..Len(Handed) : /\ FirstKey(Handed[i]) \in Int /\ FirstKey(Handed[i]) <= 4 * sent + 3
                                     /\ \A j \in 1..l : FirstKey(Handed[i]) < Key(u[j])
        /\ \A i, j \in 1..Len(Handed) : i < j => FirstKey(Handed[i]) < FirstKey(Handed[j])
    BY <1>2 DEF KeysInOrder, l, u
  <2>2. \A i \in 1..Len(Handed) : \A j \in 1..Len(v) : FirstKey(Handed[i]) < Key(v[j])
    BY <1>10, <2>1
  <2> QED
    BY <1>1, <1>3, <1>7, <2>1, <2>2 DEF KeysInOrder, FirstKey, Key
<1>20. ASSUME NEW p \in 1..sent', script'[p] # "ack", Undamaged(p)'
       PROVE  Done(p)' \/ \E i \in 1..Len(Line') : Line'[i] = <<p, 1>>
  <2>1. p \in 1..sent /\ script[p] # "ack" /\ Undamaged(p) /\ <<p, 1>> # Head(wire)
    <3>1. \A x \in lost' : x[1] # p /\ x[1] # p - 1
      BY <1>20 DEF Undamaged
    <3>2. <<p, 1>>[1] = p
      OBVIOUS
    <3> QED
      BY <1>1, <1>20, <3>1, <3>2 DEF Undamaged
  <2>2. Done(p) \/ \E i \in 1..l : u[i] = <<p, 1>>
    BY <2>1 DEF SerialLineInv, l, u
  <2>3. Done(p)' <=> Done(p)
    BY <1>1, <1>3 DEF Done, IsHanded, Sent, Intact, SerialSize, Serial!PartsOf
  <2>4. ASSUME NEW j \in 1..l, u[j] = <<p, 1>> PROVE \E i \in 1..Len(v) : v[i] = <<p, 1>>
    BY <1>9, <1>12, <2>1, <2>4
  <2> QED
    BY <1>7, <2>2, <2>3, <2>4
<1> QED
  BY <1>1, <1>2, <1>3, <1>4, <1>18, <1>19, <1>20 DEF SerialLineInv

LEMMA SerialReceives ==
  ASSUME CommonInv, SerialLineInv, source = "serial", receiver = "ask", Serial!Receive,
         UNCHANGED <<source, put>>,
         receiver' = IF got'.kind = "nothing" THEN "ask" ELSE "room"
  PROVE  CommonInv' /\ SerialLineInv'
<1>1. /\ UNCHANGED <<script, sent, wire, unread, lost, dropped>>
      /\ \/ queue # <<>> /\ got' = Head(queue) /\ queue' = Tail(queue)
         \/ queue = <<>> /\ got' = Nothing /\ UNCHANGED queue
  BY DEF Serial!Receive, Serial!Nothing, Serial!Result, Nothing, Result
<1>2. CommonInv' /\ Handed' = Handed
  BY <1>1, ReceivesFromRing
<1>3. Line' = Line /\ LineInv(Line)' /\ KeysInOrder(Handed, Line)'
  <2>1. Line' = Line /\ SentPieces' = SentPieces
    BY <1>1 DEF Line, SentPieces, Pieces, SerialSize, Serial!PartsOf
  <2>2. LineInv(Line)'
    BY <1>1, <2>1 DEF SerialLineInv, LineInv, Key
  <2>3. KeysInOrder(Handed, Line)'
    BY <1>1, <1>2, <2>1 DEF SerialLineInv, KeysInOrder, FirstKey, Key
  <2> QED
    BY <2>1, <2>2, <2>3
<1>4. \A p : Done(p)' = Done(p) /\ Undamaged(p)' = Undamaged(p)
  BY <1>1, <1>2 DEF Done, IsHanded, Sent, Intact, SerialSize, Serial!PartsOf, Undamaged
<1> QED
  BY <1>1, <1>2, <1>3, <1>4 DEF SerialLineInv

LEMMA SerialBounded ==
  ASSUME CommonInv, SerialLineInv, source = "serial"
  PROVE  DamageBounded
<1>1. HandedOn = Handed
  BY HandedOnIs DEF CommonInv
<1>2. ASSUME NEW p \in 1..sent, script[p] # "ack", Undamaged(p)
      PROVE  \/ Intact(p, SerialSize(p)) \in HandedParts \cup dropped
             \/ \E i \in 1..Len(unread \o wire) : (unread \o wire)[i][1] = p
  <2>1. Done(p) \/ \E i \in 1..Len(Line) : Line[i] = <<p, 1>>
    BY <1>2 DEF SerialLineInv
  <2>2. Done(p) => Intact(p, SerialSize(p)) \in HandedParts \cup dropped
    BY <1>1 DEF Done, IsHanded, Sent, HandedParts
  <2> QED
    BY <2>1, <2>2 DEF Line
<1>3. InTurn({Intact(p, SerialSize(p)) : p \in 1..sent})
  <2> DEFINE S == {Intact(p, SerialSize(p)) : p \in 1..sent}
  <2>1. ASSUME NEW i \in 1..Len(Handed), NEW j \in 1..Len(Handed), i < j,
               Handed[i].parts \in S, Handed[j].parts \in S
        PROVE  Handed[i].parts[1][1] < Handed[j].parts[1][1]
    <3>1. PICK p \in 1..sent : Handed[i].parts = Intact(p, SerialSize(p))
      BY <2>1
    <3>2. PICK q \in 1..sent : Handed[j].parts = Intact(q, SerialSize(q))
      BY <2>1
    <3>3. Intact(p, SerialSize(p))[1] = <<p, 1>> /\ Intact(q, SerialSize(q))[1] = <<q, 1>>
      <4>1. 1 \in 1..SerialSize(p) /\ 1 \in 1..SerialSize(q)
        BY SizeIs
      <4> QED
        BY <4>1 DEF Intact
    <3>4. FirstKey(Handed[i]) = 4 * p + 1 /\ FirstKey(Handed[j]) = 4 * q + 1
      BY <3>1, <3>2, <3>3 DEF FirstKey, Key
    <3>5. FirstKey(Handed[i]) < FirstKey(Handed[j])
      BY <2>1 DEF SerialLineInv, KeysInOrder
    <3>6. p < q
      BY <3>4, <3>5, SerialTypes
    <3> QED
      BY <3>1, <3>2, <3>3, <3>6
  <2> QED
    BY <1>1, <2>1 DEF InTurn
<1> QED
  BY <1>2, <1>3 DEF DamageBounded
-----------------------------------------------------------------------------
(***************************************************************************)
(* The capture                                                             *)
(***************************************************************************)
IsFlat(d, n, s) == d = [i \in 1..n |-> IF i = 1 THEN s[i] ELSE d[i - 1] \o s[i]]

LEMMA FlatExists ==
  ASSUME NEW s, NEW len \in Nat
  PROVE  \E d : IsFlat(d, len, s)
<1> DEFINE S == {n \in Nat : \E d : IsFlat(d, n, s)}
<1>1. 0 \in S
  <2> DEFINE d == [i \in 1..0 |-> <<>>]
  <2>1. d = [i \in 1..0 |-> IF i = 1 THEN s[i] ELSE d[i - 1] \o s[i]]
    OBVIOUS
  <2> QED
    BY <2>1 DEF IsFlat
<1>2. ASSUME NEW n \in 1..len, n - 1 \in S PROVE n \in S
  <2>1. PICK d : IsFlat(d, n - 1, s)
    BY <1>2
  <2> DEFINE next == IF n = 1 THEN s[n] ELSE d[n - 1] \o s[n]
             h    == [i \in 1..n |-> IF i = n THEN next ELSE d[i]]
             k    == [i \in 1..n |-> IF i = 1 THEN s[i] ELSE h[i - 1] \o s[i]]
  <2>2. ASSUME NEW i \in 1..n PROVE h[i] = k[i]
    <3>0. i # 1 => i - 1 \in 1..n /\ i - 1 # n /\ h[i - 1] = d[i - 1]
      OBVIOUS
    <3>1. k[i] = IF i = 1 THEN s[i] ELSE d[i - 1] \o s[i]
      BY <3>0
    <3>2. CASE i = n
      BY <3>1, <3>2
    <3>3. CASE i # n
      <4>1. i \in 1..(n - 1) /\ h[i] = d[i]
        BY <3>3
      <4>2. d[i] = IF i = 1 THEN s[i] ELSE d[i - 1] \o s[i]
        BY <2>1, <4>1 DEF IsFlat
      <4> QED
        BY <3>1, <4>1, <4>2
    <3> QED
      BY <3>2, <3>3
  <2> HIDE DEF next
  <2>3. h = k
    BY <2>2
  <2>4. IsFlat(h, n, s)
    BY <2>3 DEF IsFlat
  <2> QED
    BY <2>4
<1> HIDE DEF S
<1>3. \A i \in 0..len : i \in S
  BY <1>1, <1>2, UpTo
<1>4. len \in S
  BY <1>3
<1> QED
  BY <1>4 DEF S

\* The part i of what is flattened lies behind off[i - 1].
FlatAt(off, f, s, i) ==
  /\ off[i] = off[i - 1] + Len(s[i]) /\ off[i] <= Len(f)
  /\ \A b \in 1..Len(s[i]) : f[off[i - 1] + b] = s[i][b]

LEMMA FlatPlaces ==
  ASSUME NEW T, NEW n \in Nat, n # 0, NEW s, \A i \in 1..n : s[i] \in Seq(T), NEW d, IsFlat(d, n, s)
  PROVE  \E off \in [0..n -> Nat] : /\ off[0] = 0 /\ off[n] = Len(d[n])
                                    /\ \A i \in 1..n : FlatAt(off, d[n], s, i)
<1> DEFINE off == [i \in 0..n |-> IF i = 0 THEN 0 ELSE Len(d[i])]
<1>1. \A i \in 1..n : d[i] = IF i = 1 THEN s[i] ELSE d[i - 1] \o s[i]
  BY DEF IsFlat
<1>2. off[0] = 0 /\ \A i \in 1..n : off[i] = Len(d[i])
  OBVIOUS
<1>3. \A i \in 1..n : s[i] \in Seq(T) /\ Len(s[i]) \in Nat
  BY LenProperties
<1>4. \A i \in 1..n : d[i] \in Seq(T) /\ Len(d[i]) \in Nat
  <2> DEFINE S == {i \in 0..n : i # 0 => d[i] \in Seq(T)}
  <2>1. 0 \in S
    OBVIOUS
  <2>2. ASSUME NEW i \in 1..n, i - 1 \in S PROVE i \in S
    <3>0. i \in 0..n /\ (i # 1 => i - 1 # 0)
      OBVIOUS
    <3>1. i # 1 => i - 1 # 0 /\ d[i] = d[i - 1] \o s[i]
      <4> HIDE DEF S
      <4> QED
        BY <1>1, <3>0
    <3>3. ASSUME i # 1 PROVE d[i] \in Seq(T)
      <4>1. d[i - 1] \in Seq(T)
        BY <2>2, <3>1, <3>3
      <4>2. d[i - 1] \o s[i] \in Seq(T)
        BY <1>3, <4>1, ConcatProperties
      <4> QED
        BY <3>1, <3>3, <4>2
    <3>4. d[i] \in Seq(T)
      <4>1. CASE i = 1
        BY <1>1, <1>3, <4>1
      <4> QED
        BY <3>3, <4>1
    <3> QED
      BY <3>0, <3>4
  <2> HIDE DEF S
  <2>3. \A i \in 0..n : i \in S
    BY <2>1, <2>2, UpTo
  <2>4. \A i \in 1..n : i \in 0..n /\ i # 0
    OBVIOUS
  <2> QED
    BY <2>3, <2>4, LenProperties DEF S
<1>5. off \in [0..n -> Nat] /\ \A i \in 0..n : off[i] \in Nat
  BY <1>4
<1> HIDE DEF off
<1> DEFINE P(i) == \A j \in 1..i : FlatAt(off, d[i], s, j)
           S == {i \in 0..n : P(i)}
<1>6. 0 \in S
  OBVIOUS
<1>7. ASSUME NEW i \in 1..n, i - 1 \in S PROVE i \in S
  <2>1. CASE i = 1
    <3>1. d[i] = s[i] /\ off[i - 1] = 0 /\ off[i] = Len(s[i])
      BY <1>1, <1>2, <2>1
    <3>2. \A b \in 1..Len(s[i]) : 0 + b = b
      BY <1>3
    <3>3. FlatAt(off, d[i], s, i)
      BY <1>3, <3>1, <3>2 DEF FlatAt
    <3>4. i \in 0..n /\ \A j \in 1..i : j = i
      BY <2>1
    <3>5. P(i)
      BY <3>3, <3>4
    <3> QED
      BY <3>4, <3>5
  <2>2. CASE i # 1
    <3>1. i - 1 \in 1..n /\ i - 1 # 0
      BY <2>2
    <3>2. d[i] = d[i - 1] \o s[i] /\ off[i - 1] = Len(d[i - 1]) /\ off[i] = Len(d[i])
      BY <1>1, <1>2, <2>2, <3>1
    <3>3. \A j \in 1..(i - 1) : FlatAt(off, d[i - 1], s, j)
      BY <1>7
    <3> DEFINE e == d[i - 1]
               m == Len(e)
               l == Len(s[i])
    <3>4. /\ m \in Nat /\ l \in Nat /\ Len(d[i]) = m + l
          /\ \A k \in 1..(m + l) : d[i][k] = IF k <= m THEN e[k] ELSE s[i][k - m]
      <4>1. e \in Seq(T) /\ s[i] \in Seq(T) /\ m \in Nat /\ l \in Nat
        BY <1>3, <1>4, <3>1
      <4>2. /\ Len(e \o s[i]) = m + l
            /\ \A k \in 1..(m + l) : (e \o s[i])[k] = IF k <= m THEN e[k] ELSE s[i][k - m]
        BY <4>1, ConcatProperties
      <4>3. d[i] = e \o s[i]
        BY <3>2
      <4> HIDE DEF e, m, l
      <4> QED
        BY <4>1, <4>2, <4>3
    <3> HIDE DEF e, m, l
    <3>5. ASSUME NEW j \in 1..(i - 1) PROVE FlatAt(off, d[i], s, j)
      <4>1. /\ off[j] = off[j - 1] + Len(s[j]) /\ off[j] <= m
            /\ \A b \in 1..Len(s[j]) : e[off[j - 1] + b] = s[j][b]
        BY <3>3 DEF FlatAt, e, m
      <4>2. off[j - 1] \in Nat /\ Len(s[j]) \in Nat
        <5>1. j \in 1..n /\ j - 1 \in 0..n
          OBVIOUS
        <5> QED
          BY <1>3, <1>5, <5>1
      <4>3. \A b \in 1..Len(s[j]) : off[j - 1] + b \in 1..(m + l) /\ off[j - 1] + b <= m
        BY <3>4, <4>1, <4>2
      <4>4. \A b \in 1..Len(s[j]) : d[i][off[j - 1] + b] = s[j][b]
        BY <3>4, <4>1, <4>3
      <4>5. off[j] <= Len(d[i])
        BY <3>4, <4>1, <4>2
      <4> QED
        BY <4>1, <4>4, <4>5 DEF FlatAt
    <3>6. FlatAt(off, d[i], s, i)
      <4>1. off[i - 1] = m /\ off[i] = m + l /\ off[i] <= Len(d[i])
        BY <3>2, <3>4 DEF m, e
      <4>2. \A b \in 1..l : m + b \in 1..(m + l) /\ ~(m + b <= m) /\ (m + b) - m = b
        BY <3>4
      <4>3. \A b \in 1..l : d[i][m + b] = s[i][b]
        BY <3>4, <4>2
      <4> QED
        BY <3>4, <4>1, <4>3 DEF FlatAt, l
    <3>7. i \in 0..n /\ \A j \in 1..i : j \in 1..(i - 1) \/ j = i
      OBVIOUS
    <3>8. P(i)
      BY <3>5, <3>6, <3>7
    <3> QED
      BY <3>7, <3>8
  <2> QED
    BY <2>1, <2>2
<1> HIDE DEF S
<1>8. \A i \in 0..n : i \in S
  BY <1>6, <1>7, UpTo
<1>9. off[n] = Len(d[n]) /\ \A i \in 1..n : FlatAt(off, d[n], s, i)
  <2>1. n \in 1..n /\ n \in 0..n
    OBVIOUS
  <2> QED
    BY <1>2, <1>8, <2>1 DEF S
<1> QED
  BY <1>2, <1>5, <1>9

LEMMA FlattenPlaces ==
  ASSUME NEW T, NEW n \in Nat, n # 0, NEW s, Len(s) = n, \A i \in 1..n : s[i] \in Seq(T)
  PROVE  \E off \in [0..n -> Nat] : /\ off[0] = 0 /\ off[n] = Len(FlattenSeq(s))
                                    /\ \A i \in 1..n : FlatAt(off, FlattenSeq(s), s, i)
<1> DEFINE d == CHOOSE a : a = [i \in 1..n |-> IF i = 1 THEN s[i] ELSE a[i - 1] \o s[i]]
<1>1. FlattenSeq(s) = d[n]
  BY DEF FlattenSeq
<1>2. IsFlat(d, n, s)
  <2>1. PICK h : IsFlat(h, n, s)
    BY FlatExists
  <2>2. h = [i \in 1..n |-> IF i = 1 THEN s[i] ELSE h[i - 1] \o s[i]]
    BY <2>1 DEF IsFlat
  <2>3. d = [i \in 1..n |-> IF i = 1 THEN s[i] ELSE d[i - 1] \o s[i]]
    BY <2>2, Zenon
  <2> QED
    BY <2>3 DEF IsFlat
<1> HIDE DEF d
<1>3. \E off \in [0..n -> Nat] : /\ off[0] = 0 /\ off[n] = Len(d[n])
                                /\ \A i \in 1..n : FlatAt(off, d[n], s, i)
  BY <1>2, FlatPlaces
<1> QED
  BY <1>1, <1>3

NumRecords == Len(script)
PcapScript == /\ script # <<>>
              /\ \A i \in 1..(Len(script) - 1) : script[i] \notin {"cut header", "cut data"}
GoodCapture == ~(format = "pcap" /\ "cut data" \in ToSet(script))

\* Where the records begin in the file, and how many packets are before each.
RecordPlaces(starts, given) ==
  /\ starts \in [0..NumRecords -> Nat] /\ starts[0] = 0 /\ starts[NumRecords] = Len(CaptureFile)
  /\ given \in [0..NumRecords -> Nat] /\ given[0] = 0 /\ given[NumRecords] = Len(Captured)
  /\ \A i \in 1..NumRecords :
       /\ starts[i] = starts[i - 1] + Len(Blocks(script[i]))
       /\ starts[i - 1] < starts[NumRecords]
       /\ CaptureFile[starts[i - 1] + 1] = <<i, Blocks(script[i])[1]>>
       /\ given[i] = given[i - 1] + Len(Pcap!PacketsOf(i)) /\ given[i] <= given[NumRecords]
       /\ \A b \in 1..Len(Pcap!PacketsOf(i)) : Captured[given[i - 1] + b] = Pcap!PacketsOf(i)[b]

BlockNames == {"header", "data", "rest", "stub", "torn"}

LEMMA ShortSeqs ==
  ASSUME NEW T, NEW a \in T, NEW b \in T, NEW c \in T
  PROVE  /\ <<a>> \in Seq(T) /\ Len(<<a>>) = 1 /\ <<a>>[1] = a
         /\ <<a, b>> \in Seq(T) /\ Len(<<a, b>>) = 2 /\ <<a, b>>[1] = a
         /\ <<a, b, c>> \in Seq(T) /\ Len(<<a, b, c>>) = 3 /\ <<a, b, c>>[1] = a
OBVIOUS

LEMMA BlocksAre ==
  \A kind : /\ Blocks(kind) \in Seq(BlockNames) /\ Len(Blocks(kind)) \in 1..3
            /\ Blocks(kind)[1] = IF kind = "cut header" THEN "stub" ELSE "header"
<1> SUFFICES ASSUME NEW kind
             PROVE  /\ Blocks(kind) \in Seq(BlockNames) /\ Len(Blocks(kind)) \in 1..3
                    /\ Blocks(kind)[1] = IF kind = "cut header" THEN "stub" ELSE "header"
  OBVIOUS
<1> DEFINE IsBegun(s) == s \in Seq(BlockNames) /\ Len(s) \in 1..3
                         /\ s[1] = (IF kind = "cut header" THEN "stub" ELSE "header")
<1>1. {"header", "data", "rest", "stub", "torn"} \subseteq BlockNames
  BY DEF BlockNames
<1>2. /\ IsBegun(<<"header", "data", "rest">>) \/ kind = "cut header"
      /\ IsBegun(<<"header", "data">>) \/ kind = "cut header"
      /\ IsBegun(<<"header", "torn">>) \/ kind = "cut header"
      /\ IsBegun(<<"stub">>) \/ kind # "cut header"
  <2>1. ASSUME NEW s \in Seq(BlockNames), NEW n \in 1..3, Len(s) = n, s[1] = "header"
        PROVE  IsBegun(s) \/ kind = "cut header"
    BY <2>1
  <2>2. ASSUME NEW s \in Seq(BlockNames), Len(s) = 1, s[1] = "stub"
        PROVE  IsBegun(s) \/ kind # "cut header"
    <3>1. Len(s) \in 1..3
      BY <2>2
    <3> QED
      BY <2>2, <3>1
  <2> HIDE DEF IsBegun
  <2>3. "header" \in BlockNames /\ "data" \in BlockNames /\ "rest" \in BlockNames
        /\ "stub" \in BlockNames /\ "torn" \in BlockNames /\ 1 \in 1..3 /\ 2 \in 1..3 /\ 3 \in 1..3
    BY <1>1
  <2>4. IsBegun(<<"header", "data", "rest">>) \/ kind = "cut header"
    <3>1. <<"header", "data", "rest">> \in Seq(BlockNames) /\ Len(<<"header", "data", "rest">>) = 3
          /\ <<"header", "data", "rest">>[1] = "header"
      BY <2>3, ShortSeqs
    <3> QED
      BY <2>1, <2>3, <3>1
  <2>5. IsBegun(<<"header", "data">>) \/ kind = "cut header"
    <3>1. <<"header", "data">> \in Seq(BlockNames) /\ Len(<<"header", "data">>) = 2
          /\ <<"header", "data">>[1] = "header"
      BY <2>3, ShortSeqs
    <3> QED
      BY <2>1, <2>3, <3>1
  <2>6. IsBegun(<<"header", "torn">>) \/ kind = "cut header"
    <3>1. <<"header", "torn">> \in Seq(BlockNames) /\ Len(<<"header", "torn">>) = 2
          /\ <<"header", "torn">>[1] = "header"
      BY <2>3, ShortSeqs
    <3> QED
      BY <2>1, <2>3, <3>1
  <2>7. IsBegun(<<"stub">>) \/ kind # "cut header"
    <3>1. <<"stub">> \in Seq(BlockNames) /\ Len(<<"stub">>) = 1 /\ <<"stub">>[1] = "stub"
      BY <2>3, ShortSeqs
    <3> QED
      BY <2>2, <3>1
  <2> QED
    BY <2>4, <2>5, <2>6, <2>7
<1>3. \/ kind = "jumbo" /\ Blocks(kind) = <<"header", "data", "rest">>
      \/ kind = "cut header" /\ Blocks(kind) = <<"stub">>
      \/ kind = "cut data" /\ Blocks(kind) = <<"header", "torn">>
      \/ kind # "cut header" /\ Blocks(kind) = <<"header", "data">>
  BY DEF Blocks
<1> HIDE DEF IsBegun
<1>4. IsBegun(Blocks(kind))
  BY <1>2, <1>3
<1> QED
  BY <1>4 DEF IsBegun

LEMMA CaptureTypes ==
  ASSUME CommonInv, source = "pcap", PcapScript
  PROVE  /\ NumRecords \in Nat /\ NumRecords # 0
         /\ \A i \in 1..NumRecords : script[i] \in ScriptKinds("pcap") /\ script[i] \in ToSet(script)
<1>1. script \in Seq(ScriptKinds("pcap"))
  BY DEF CommonInv
<1>2. NumRecords \in Nat /\ NumRecords # 0
  BY <1>1, LenProperties, EmptySeq DEF PcapScript, NumRecords
<1>3. \A i \in 1..NumRecords : script[i] \in ScriptKinds("pcap")
  BY <1>1, ElementOfSeq DEF NumRecords
<1>4. \A i \in 1..NumRecords : script[i] \in ToSet(script)
  <2>1. DOMAIN script = 1..NumRecords
    BY <1>1, LenProperties DEF NumRecords
  <2> QED
    BY <2>1 DEF ToSet
<1> QED
  BY <1>2, <1>3, <1>4

LEMMA PacketsOfAre ==
  ASSUME NEW i \in Nat
  PROVE  /\ Pcap!PacketsOf(i) \in Seq(Seq(Nat \X Nat))
         /\ Len(Pcap!PacketsOf(i)) = (IF script[i] \in {"udp", "segment"} THEN 1
                                      ELSE IF script[i] = "segments" THEN 2 ELSE 0)
         /\ script[i] \in {"udp", "segment", "segments"} => Pcap!PacketsOf(i)[1] = Intact(i, 1)
         /\ script[i] = "segments" => Pcap!PacketsOf(i)[2] = <<<<i, 2>>>>
<1>1. Intact(i, 1) = <<<<i, 1>>>>
  BY DEF Intact
<1>2. <<<<i, 1>>>> \in Seq(Nat \X Nat) /\ <<<<i, 2>>>> \in Seq(Nat \X Nat)
  OBVIOUS
<1>3. CASE script[i] \in {"udp", "segment"}
  <2>1. Pcap!PacketsOf(i) = <<Intact(i, 1)>>
    BY <1>3 DEF Pcap!PacketsOf, Pcap!Intact, Intact
  <2> QED
    BY <1>1, <1>2, <1>3, <2>1
<1>4. CASE script[i] = "segments"
  <2>1. Pcap!PacketsOf(i) = <<Intact(i, 1), <<<<i, 2>>>>>>
    BY <1>4 DEF Pcap!PacketsOf, Pcap!Intact, Intact
  <2> QED
    BY <1>1, <1>2, <1>4, <2>1
<1>5. CASE script[i] \notin {"udp", "segment", "segments"}
  <2>1. Pcap!PacketsOf(i) = <<>>
    BY <1>5 DEF Pcap!PacketsOf
  <2> QED
    BY <1>5, <2>1, EmptySeq
<1> QED
  BY <1>3, <1>4, <1>5

\* A function on 1..n is a sequence of this length.
LEMMA LenOf ==
  ASSUME NEW n \in Nat, NEW T, NEW s, DOMAIN s = 1..n, \A i \in 1..n : s[i] \in T, s = [i \in 1..n |-> s[i]]
  PROVE  s \in Seq(T) /\ Len(s) = n
<1>1. s \in Seq(T)
  <2>1. [i \in 1..n |-> s[i]] \in Seq(T)
    BY IsASeq
  <2> QED
    BY <2>1
<1> QED
  BY <1>1, LenProperties

LEMMA CapturePlaces ==
  ASSUME CommonInv, source = "pcap", PcapScript
  PROVE  \E starts, given : RecordPlaces(starts, given)
<1> DEFINE n == NumRecords
           s == [i \in 1..n |-> [b \in 1..Len(Blocks(script[i])) |-> <<i, Blocks(script[i])[b]>>]]
           p == [i \in 1..n |-> Pcap!PacketsOf(i)]
           T == Nat \X BlockNames
           V == Seq(Nat \X Nat)
<1>1. n \in Nat /\ n # 0
  BY CaptureTypes
<1>2. ASSUME NEW i \in 1..n
      PROVE  /\ s[i] \in Seq(T) /\ Len(s[i]) = Len(Blocks(script[i]))
             /\ s[i][1] = <<i, Blocks(script[i])[1]>>
  <2>1. PICK v : v = Blocks(script[i])
    OBVIOUS
  <2>2. v \in Seq(BlockNames) /\ Len(v) \in 1..3
    BY <2>1, BlocksAre
  <2>3. s[i] = [b \in 1..Len(v) |-> <<i, v[b]>>]
    BY <2>1
  <2>4. PICK w : w = s[i]
    OBVIOUS
  <2> HIDE DEF s
  <2>5. DOMAIN w = 1..Len(v) /\ (\A b \in 1..Len(v) : w[b] = <<i, v[b]>>) /\ w = [b \in 1..Len(v) |-> w[b]]
    BY <2>3, <2>4
  <2>6. \A b \in 1..Len(v) : w[b] \in T
    <3>1. \A b \in 1..Len(v) : v[b] \in BlockNames
      BY <2>2, ElementOfSeq
    <3>2. i \in Nat
      BY <1>1
    <3>3. ASSUME NEW b \in 1..Len(v) PROVE w[b] \in T
      <4>1. w[b] = <<i, v[b]>> /\ v[b] \in BlockNames
        BY <2>5, <3>1
      <4> QED
        BY <3>2, <4>1
    <3> QED
      BY <3>3
  <2>7. Len(v) \in Nat /\ 1 \in 1..Len(v)
    BY <2>2
  <2> HIDE DEF T
  <2>8. w \in Seq(T) /\ Len(w) = Len(v)
    BY <2>5, <2>6, <2>7, LenOf
  <2> QED
    BY <2>1, <2>4, <2>5, <2>7, <2>8
<1>3. \A i \in 1..n : p[i] \in Seq(V) /\ p[i] = Pcap!PacketsOf(i)
  <2>1. \A i \in 1..n : i \in Nat
    BY <1>1
  <2> QED
    BY <2>1, PacketsOfAre
<1>4. Len(s) = n
  <2>1. DOMAIN s = 1..n /\ s = [i \in 1..n |-> s[i]]
    OBVIOUS
  <2>2. \A i \in 1..n : s[i] \in Seq(T)
    BY <1>2
  <2> HIDE DEF s, T, n
  <2> QED
    BY <1>1, <2>1, <2>2, LenOf
<1>5. Len(p) = n
  <2>1. DOMAIN p = 1..n /\ p = [i \in 1..n |-> p[i]]
    OBVIOUS
  <2>2. \A i \in 1..n : p[i] \in Seq(V)
    BY <1>3
  <2> HIDE DEF p, V, n
  <2> QED
    BY <1>1, <2>1, <2>2, LenOf
<1>6. CaptureFile = FlattenSeq(s)
  BY DEF CaptureFile, NumRecords
<1>7. Captured = FlattenSeq(p)
  BY DEF Captured, NumRecords
<1> HIDE DEF s, p, T, V, n
<1>8. PICK starts \in [0..n -> Nat] : /\ starts[0] = 0 /\ starts[n] = Len(CaptureFile)
                                      /\ \A i \in 1..n : FlatAt(starts, CaptureFile, s, i)
  <2>1. \E off \in [0..n -> Nat] : /\ off[0] = 0 /\ off[n] = Len(FlattenSeq(s))
                                   /\ \A i \in 1..n : FlatAt(off, FlattenSeq(s), s, i)
    BY <1>1, <1>2, <1>4, FlattenPlaces
  <2> QED
    BY <1>6, <2>1
<1>9. PICK given \in [0..n -> Nat] : /\ given[0] = 0 /\ given[n] = Len(Captured)
                                     /\ \A i \in 1..n : FlatAt(given, Captured, p, i)
  <2>1. \E off \in [0..n -> Nat] : /\ off[0] = 0 /\ off[n] = Len(FlattenSeq(p))
                                   /\ \A i \in 1..n : FlatAt(off, FlattenSeq(p), p, i)
    BY <1>1, <1>3, <1>5, FlattenPlaces
  <2> QED
    BY <1>7, <2>1
<1>10. ASSUME NEW i \in 1..n
       PROVE  /\ starts[i] = starts[i - 1] + Len(Blocks(script[i]))
              /\ starts[i - 1] < starts[n]
              /\ CaptureFile[starts[i - 1] + 1] = <<i, Blocks(script[i])[1]>>
  <2>1. /\ starts[i] = starts[i - 1] + Len(s[i]) /\ starts[i] <= Len(CaptureFile)
        /\ \A b \in 1..Len(s[i]) : CaptureFile[starts[i - 1] + b] = s[i][b]
    BY <1>8 DEF FlatAt
  <2>2. Len(s[i]) = Len(Blocks(script[i])) /\ Len(s[i]) \in 1..3 /\ s[i][1] = <<i, Blocks(script[i])[1]>>
    BY <1>2, BlocksAre
  <2>3. i - 1 \in 0..n /\ starts[i - 1] \in Nat /\ 1 \in 1..Len(s[i])
    <3>1. i - 1 \in 0..n
      BY <1>1
    <3>2. starts[i - 1] \in Nat
      BY <1>1, <3>1
    <3> QED
      BY <2>2, <3>1, <3>2
  <2>4. starts[i - 1] < starts[n]
    BY <1>8, <2>1, <2>2, <2>3
  <2> QED
    BY <2>1, <2>2, <2>3, <2>4
<1>11. ASSUME NEW i \in 1..n
       PROVE  /\ given[i] = given[i - 1] + Len(Pcap!PacketsOf(i)) /\ given[i] <= given[n]
              /\ \A b \in 1..Len(Pcap!PacketsOf(i)) : Captured[given[i - 1] + b] = Pcap!PacketsOf(i)[b]
  <2>1. p[i] = Pcap!PacketsOf(i)
    BY <1>3
  <2> QED
    BY <1>9, <2>1 DEF FlatAt
<1>12. RecordPlaces(starts, given)
  BY <1>8, <1>9, <1>10, <1>11 DEF RecordPlaces, n
<1> QED
  BY <1>12

\* What was handed on is the capture, again and again.
AsCaptured(w) ==
  \A i \in 1..Len(w) : LET expected == Captured[1 + ((i - 1) % Len(Captured))]
                       IN w[i].parts = expected \/ expected[1][2] > 1

\* After the records up to r, in a round that is not the first.
Given(given, r, laps) ==
  /\ r \in 0..NumRecords /\ laps \in Nat
  /\ dataLength - dataIndex \in {0, 1}
  /\ Len(Handed) + (dataLength - dataIndex) = laps * Len(Captured) + given[r]
  /\ dataIndex # dataLength => r # 0 /\ script[r] = "segments"
  /\ laps # 0 => loops
  /\ ended => ~loops /\ r = NumRecords /\ dataIndex = dataLength

PcapInv ==
  /\ PcapScript /\ queue = <<>> /\ dataIndex \in Nat /\ dataLength \in Nat
  /\ GoodCapture => /\ AsCaptured(Handed)
                    /\ \E starts, given, r, laps :
                         RecordPlaces(starts, given) /\ Given(given, r, laps) /\ fpos = starts[r]

LEMMA Remainder ==
  ASSUME NEW laps \in Nat, NEW d \in Nat, NEW g \in Nat, g < d
  PROVE  (laps * d + g) % d = g
<1>1. PICK t \in Nat : t = laps * d
  OBVIOUS
<1> DEFINE q == (t + g) \div d
           m == (t + g) % d
<1>2. t + g \in Nat /\ d > 0
  BY <1>1
<1>3. q \in Int /\ m \in 0..(d - 1) /\ t + g = d * q + m
  BY <1>2
<1> HIDE DEF q, m
<1>4. laps * d + g = d * q + m
  BY <1>1, <1>3
<1>5. CASE q = laps
  BY <1>1, <1>3, <1>5 DEF m
<1>6. CASE q >= laps + 1
  <2>1. PICK z \in Nat : q = laps + 1 + z
    BY <1>3, <1>6
  <2>2. d * q = d * laps + d + d * z /\ d * z >= 0
    BY <2>1
  <2> QED
    BY <1>3, <1>4, <2>2
<1>7. CASE q <= laps - 1
  <2>1. PICK z \in Nat : laps = q + 1 + z
    BY <1>3, <1>7
  <2>2. d * laps = d * q + d + d * z /\ d * z >= 0
    BY <1>3, <2>1
  <2> QED
    BY <1>3, <1>4, <2>2
<1> QED
  BY <1>3, <1>5, <1>6, <1>7

LEMMA SameCapture ==
  ASSUME script' = script
  PROVE  /\ NumRecords' = NumRecords /\ CaptureFile' = CaptureFile /\ Captured' = Captured
         /\ \A i : Pcap!PacketsOf(i)' = Pcap!PacketsOf(i)
         /\ PcapScript' <=> PcapScript
<1>1. NumRecords' = NumRecords
  BY DEF NumRecords
<1>2. CaptureFile' = CaptureFile
  BY DEF CaptureFile
<1>3. Captured' = Captured
  BY DEF Captured, Pcap!PacketsOf
<1>4. \A i : Pcap!PacketsOf(i)' = Pcap!PacketsOf(i)
  BY DEF Pcap!PacketsOf
<1>5. PcapScript' <=> PcapScript
  BY DEF PcapScript
<1> QED
  BY <1>1, <1>2, <1>3, <1>4, <1>5

LEMMA SamePlaces ==
  ASSUME script' = script, NEW CONSTANT starts, NEW CONSTANT given, RecordPlaces(starts, given)
  PROVE  RecordPlaces(starts, given)'
<1>0. NumRecords' = NumRecords /\ CaptureFile' = CaptureFile /\ Captured' = Captured
  BY SameCapture
<1>1. (starts \in [0..NumRecords -> Nat] /\ starts[0] = 0 /\ starts[NumRecords] = Len(CaptureFile))'
  BY <1>0 DEF RecordPlaces
<1>2. (given \in [0..NumRecords -> Nat] /\ given[0] = 0 /\ given[NumRecords] = Len(Captured))'
  BY <1>0 DEF RecordPlaces
<1>3. (\A i \in 1..NumRecords : starts[i] = starts[i - 1] + Len(Blocks(script[i])))'
  BY <1>0 DEF RecordPlaces, Blocks
<1>4. (\A i \in 1..NumRecords : starts[i - 1] < starts[NumRecords])'
  BY <1>0 DEF RecordPlaces
<1>5. (\A i \in 1..NumRecords : CaptureFile[starts[i - 1] + 1] = <<i, Blocks(script[i])[1]>>)'
  BY <1>0 DEF RecordPlaces, Blocks
<1>6. (\A i \in 1..NumRecords : given[i] = given[i - 1] + Len(Pcap!PacketsOf(i)) /\ given[i] <= given[NumRecords])'
  BY <1>0 DEF RecordPlaces, Pcap!PacketsOf
<1>7. (\A i \in 1..NumRecords : \A b \in 1..Len(Pcap!PacketsOf(i)) : Captured[given[i - 1] + b] = Pcap!PacketsOf(i)[b])'
  BY <1>0, SMTT(40) DEF RecordPlaces, Pcap!PacketsOf
<1> QED
  BY <1>1, <1>2, <1>3, <1>4, <1>5, <1>6, <1>7 DEF RecordPlaces

LEMMA NextAsCaptured ==
  ASSUME NEW w, IsSequence(w), AsCaptured(w), NEW e, NEW laps \in Nat, NEW g \in Nat,
         Len(Captured) \in Nat, g < Len(Captured), Len(w) = laps * Len(Captured) + g,
         e.parts = Captured[g + 1] \/ Captured[g + 1][1][2] > 1
  PROVE  AsCaptured(Append(w, e)) /\ Len(Append(w, e)) = Len(w) + 1
<1> DEFINE v == Append(w, e)
           k == Len(w)
<1>1. /\ k \in Nat /\ Len(v) = k + 1 /\ v[k + 1] = e
      /\ \A i \in 1..k : v[i] = w[i]
  BY OneMore
<1>2. 1 + ((k + 1 - 1) % Len(Captured)) = g + 1
  <2>1. (laps * Len(Captured) + g) % Len(Captured) = g
    BY Remainder
  <2>2. k + 1 - 1 = laps * Len(Captured) + g
    BY <1>1
  <2> QED
    BY <2>1, <2>2
<1> HIDE DEF v, k
<1>3. ASSUME NEW i \in 1..(k + 1)
      PROVE  LET expected == Captured[1 + ((i - 1) % Len(Captured))]
             IN v[i].parts = expected \/ expected[1][2] > 1
  <2>1. CASE i = k + 1
    BY <1>1, <1>2, <2>1
  <2>2. CASE i \in 1..k
    BY <1>1, <2>2 DEF AsCaptured, k
  <2> QED
    BY <1>1, <2>1, <2>2
<1> QED
  BY <1>1, <1>3 DEF AsCaptured, v, k

\* A record of a good capture is read from where it begins to where it ends.
LEMMA RecordRead ==
  ASSUME CommonInv, source = "pcap", PcapScript, GoodCapture, NEW starts, NEW given, RecordPlaces(starts, given),
         NEW q \in Nat, q < NumRecords, Pcap!ReadsBlock(starts[q])
  PROVE  /\ fpos' = starts[q + 1]
         /\ \/ /\ script[q + 1] \in {"udp"} /\ got' = Result("points", Intact(q + 1, 1)) /\ Pcap!NoSegment
            \/ /\ script[q + 1] \notin {"udp", "segment", "segments"} /\ ~IsPacket(got') /\ Pcap!NoSegment
            \/ /\ script[q + 1] \in {"segment", "segments"} /\ Pcap!TakesSegment(Pcap!PacketsOf(q + 1))
<1> DEFINE i == q + 1
           n == NumRecords
           kind == script[i]
<1>1. i \in 1..n /\ i - 1 = q /\ n \in Nat
  BY CaptureTypes
<1>2. kind \in ScriptKinds("pcap") /\ kind \in ToSet(script)
  BY <1>1, CaptureTypes
<1>3. kind \in {"udp", "empty", "segment", "segments", "other", "jumbo", "cut header", "cut data"}
  BY <1>2 DEF ScriptKinds
<1>4. /\ starts[i] = starts[q] + Len(Blocks(kind)) /\ starts[n] = Len(CaptureFile)
      /\ CaptureFile[starts[q] + 1] = <<i, Blocks(kind)[1]>>
  BY <1>1 DEF RecordPlaces
<1>5. Blocks(kind)[1] = IF kind = "cut header" THEN "stub" ELSE "header"
  BY BlocksAre
<1>6. PICK name : name = Blocks(kind)[1]
  OBVIOUS
<1>7. PICK block : block = CaptureFile[starts[q] + 1]
  OBVIOUS
<1>8. block = <<i, name>>
  BY <1>4, <1>6, <1>7
<1>9. block[1] = i /\ block[2] = name
  BY <1>8
<1>10. CASE kind = "cut header"
  <2>1. i = n
    <3>1. i \notin 1..(n - 1)
      BY <1>10 DEF PcapScript, NumRecords
    <3> QED
      BY <1>1, <3>1
  <2>2. CaptureFile[starts[q] + 1][2] = "stub"
    BY <1>5, <1>10, <1>6, <1>7, <1>9
  <2>3. fpos' = Len(CaptureFile) /\ got' = Nothing /\ Pcap!NoSegment
    BY <2>2 DEF Pcap!ReadsBlock, Pcap!Nothing, Pcap!Result, Nothing, Result
  <2>4. ~IsPacket(got')
    BY <2>3 DEF IsPacket, Nothing, Result
  <2> QED
    BY <1>4, <1>10, <2>1, <2>3, <2>4
<1>11. CASE kind # "cut header"
  <2>1. CaptureFile[starts[q] + 1][1] = i /\ CaptureFile[starts[q] + 1][2] = "header"
    BY <1>5, <1>11, <1>6, <1>7, <1>9
  <2>2. fpos' = starts[q] + Pcap!RecordLength(i) /\ Pcap!HandsOn(i)
    BY <2>1 DEF Pcap!ReadsBlock
  <2>3. ~(kind = "cut data" /\ format = "pcap")
    BY <1>2 DEF GoodCapture
  <2>4. Pcap!RecordLength(i) = Len(Blocks(kind))
    BY <2>3 DEF Pcap!RecordLength, Pcap!Blocks, Blocks
  <2>5. fpos' = starts[i]
    BY <1>4, <2>2, <2>4
  <2>6. CASE kind = "udp" /\ got' = Result("points", Intact(i, 1)) /\ Pcap!NoSegment
    BY <2>5, <2>6
  <2>7. CASE kind \notin {"udp", "segment", "segments"} /\ got' \in {Silence, Nothing} /\ Pcap!NoSegment
    <3>1. ~IsPacket(got')
      BY <2>7 DEF IsPacket, Nothing, Silence, Result
    <3> QED
      BY <2>5, <2>7, <3>1
  <2>8. CASE kind \in {"segment", "segments"} /\ Pcap!TakesSegment(Pcap!PacketsOf(i))
    BY <2>5, <2>8
  <2>9. \/ kind = "udp" /\ got' = Result("points", Intact(i, 1)) /\ Pcap!NoSegment
        \/ kind \notin {"udp", "segment", "segments"} /\ got' \in {Silence, Nothing} /\ Pcap!NoSegment
        \/ kind \in {"segment", "segments"} /\ Pcap!TakesSegment(Pcap!PacketsOf(i))
    BY <2>2 DEF Pcap!HandsOn, Pcap!Result, Pcap!Intact, Pcap!Silence, Pcap!Nothing, Result, Intact, Silence, Nothing
  <2> QED
    BY <2>6, <2>7, <2>8, <2>9
<1> QED
  BY <1>10, <1>11

\* The array is empty, or one packet of it is left over.
LEMMA BaseIsANumber ==
  ASSUME dataLength \in Nat, Pcap!NoSegment
  PROVE  dataIndex' \in Nat /\ dataLength' = dataIndex' /\ dataLength' - dataIndex' = 0
<1>1. PICK front \in Nat : front = Pcap!Base
  BY DEF Pcap!Base
<1>2. dataIndex' = front /\ dataLength' = front
  BY <1>1 DEF Pcap!NoSegment
<1>3. front - front = 0
  BY <1>1
<1> QED
  BY <1>2, <1>3

LEMMA SegmentTaken ==
  ASSUME dataLength \in Nat, NEW i \in Nat, script[i] \in {"segment", "segments"},
         Pcap!TakesSegment(Pcap!PacketsOf(i))
  PROVE  /\ got' = Result("points", Intact(i, 1)) /\ dataIndex' \in Nat /\ dataLength' \in Nat
         /\ dataLength' - dataIndex' = Len(Pcap!PacketsOf(i)) - 1
         /\ dataLength' - dataIndex' = IF script[i] = "segments" THEN 1 ELSE 0
<1>1. PICK v : v = Pcap!PacketsOf(i)
  OBVIOUS
<1>2. v \in Seq(Seq(Nat \X Nat)) /\ Len(v) = (IF script[i] = "segments" THEN 2 ELSE 1) /\ v[1] = Intact(i, 1)
  BY <1>1, PacketsOfAre
<1>3. Pcap!Base \in Nat
  BY DEF Pcap!Base
<1>4. dataLength' = Pcap!Base + Len(v) /\ dataIndex' = Pcap!Base + 1 /\ got' = Pcap!Result("points", Head(v))
  BY <1>1 DEF Pcap!TakesSegment
<1>5. Head(v) = v[1]
  BY <1>2, EmptySeq, HeadTailProperties
<1>6. got' = Result("points", Intact(i, 1))
  BY <1>2, <1>4, <1>5 DEF Pcap!Result, Result
<1>7. dataIndex' \in Nat /\ dataLength' \in Nat /\ dataLength' - dataIndex' = Len(v) - 1
  <2>1. Len(v) \in {1, 2}
    BY <1>2
  <2> QED
    BY <1>3, <1>4, <2>1
<1>8. ASSUME NEW d, d = dataLength' - dataIndex' PROVE d = IF script[i] = "segments" THEN 1 ELSE 0
  <2>1. d = Len(v) - 1
    BY <1>7, <1>8
  <2>2. CASE Len(v) = 2 /\ script[i] = "segments"
    BY <2>1, <2>2
  <2>3. CASE Len(v) = 1 /\ script[i] # "segments"
    BY <2>1, <2>3
  <2> QED
    BY <1>2, <2>2, <2>3
<1> QED
  BY <1>1, <1>6, <1>7, <1>8

\* Receive when no packet is left over in the array.
LEMMA ReplaysNext ==
  ASSUME CommonInv, source = "pcap", PcapScript, GoodCapture, AsCaptured(Handed), IsSequence(Handed),
         UNCHANGED <<script, loops, ended>>, Handed' = More(Handed, got'),
         dataIndex \in Nat, dataLength = dataIndex,
         NEW CONSTANT starts, NEW CONSTANT given, RecordPlaces(starts, given),
         NEW CONSTANT q \in Nat, q < NumRecords, NEW CONSTANT laps \in Nat, laps # 0 => loops, ~ended,
         Len(Handed) = laps * Len(Captured) + given[q],
         Pcap!ReadsBlock(starts[q])
  PROVE  /\ dataIndex' \in Nat /\ dataLength' \in Nat /\ AsCaptured(Handed)'
         /\ Given(given, q + 1, laps)' /\ fpos' = starts[q + 1]
<1> DEFINE n == NumRecords
           L == Len(Captured)
<1>0. PICK i : i = q + 1
  OBVIOUS
<1>1. /\ i \in 1..n /\ i \in 0..n /\ i \in Nat /\ i # 0 /\ q \in 0..n /\ i - 1 = q /\ n \in Nat
      /\ NumRecords' = n /\ Captured' = Captured
  BY <1>0, CaptureTypes, SameCapture
<1>2. /\ given \in [0..n -> Nat] /\ given[n] = L /\ given[i] = given[q] + Len(Pcap!PacketsOf(i)) /\ given[i] <= L
      /\ \A b \in 1..Len(Pcap!PacketsOf(i)) : Captured[given[q] + b] = Pcap!PacketsOf(i)[b]
  BY <1>1 DEF RecordPlaces
<1>3. given[q] \in Nat /\ given[i] \in Nat /\ L \in Nat
  BY <1>1, <1>2
<1>4. Len(Pcap!PacketsOf(i)) = (IF script[i] \in {"udp", "segment"} THEN 1 ELSE IF script[i] = "segments" THEN 2 ELSE 0)
  BY <1>1, PacketsOfAre
<1>5. script[i] \in {"udp", "segment", "segments"} => Pcap!PacketsOf(i)[1] = Intact(i, 1)
  BY <1>1, PacketsOfAre
<1>6. PICK k \in Nat : k = Len(Handed)
  BY OneMore
<1>7. PICK m \in Nat : m = laps * L
  BY <1>3
<1>8. /\ fpos' = starts[i]
      /\ \/ /\ script[i] \in {"udp"} /\ got' = Result("points", Intact(i, 1)) /\ Pcap!NoSegment
         \/ /\ script[i] \notin {"udp", "segment", "segments"} /\ ~IsPacket(got') /\ Pcap!NoSegment
         \/ /\ script[i] \in {"segment", "segments"} /\ Pcap!TakesSegment(Pcap!PacketsOf(i))
  BY <1>0, RecordRead
<1> HIDE DEF n, L
\* What is to be shown of the numbers.
<1>9. ASSUME NEW rest \in {0, 1}, dataLength' - dataIndex' = rest, dataIndex' \in Nat, dataLength' \in Nat,
             Len(Handed') + rest = m + given[i], rest # 0 => script[i] = "segments"
      PROVE  Given(given, i, laps)'
  <2>1. Len(Captured)' = L /\ script' = script /\ loops' = loops /\ ended' = ended
    BY <1>1 DEF L
  <2>2. dataIndex' # dataLength' => rest # 0
    <3>1. PICK x \in Nat : x = dataIndex'
      BY <1>9
    <3>2. PICK y \in Nat : y = dataLength'
      BY <1>9
    <3>3. y - x = rest
      BY <1>9, <3>1, <3>2
    <3>4. x # y => rest # 0
      BY <3>3
    <3> QED
      BY <3>1, <3>2, <3>4
  <2>3. laps * L = m
    BY <1>7
  <2>4. dataLength' - dataIndex' \in {0, 1}
    BY <1>9
  <2>5. Len(Handed') + (dataLength' - dataIndex') = laps * Len(Captured)' + given[i]
    BY <1>9, <2>1, <2>3
  <2>6. (i \in 0..NumRecords)'
    BY <1>1 DEF n
  <2>7. (dataIndex # dataLength => i # 0 /\ script[i] = "segments")'
    BY <1>1, <1>9, <2>1, <2>2
  <2>8. (laps # 0 => loops)' /\ ~ended'
    BY <2>1
  <2> QED
    BY <2>4, <2>5, <2>6, <2>7, <2>8 DEF Given
\* A packet that is handed on is the first of its record.
<1>10. ASSUME got' = Result("points", Intact(i, 1)), script[i] \in {"udp", "segment", "segments"}
       PROVE  AsCaptured(Handed)' /\ Len(Handed') = k + 1
  <2>1. IsPacket(got') /\ got'.parts = Intact(i, 1)
    BY <1>10 DEF IsPacket, Result
  <2>2. Handed' = Append(Handed, got')
    BY <2>1 DEF More
  <2>3. 1 \in 1..Len(Pcap!PacketsOf(i)) /\ given[q] < L
    <3>1. PICK len \in {1, 2} : len = Len(Pcap!PacketsOf(i))
      BY <1>4, <1>10
    <3>2. given[i] = given[q] + len /\ given[i] <= L
      BY <1>2, <3>1
    <3>3. 1 \in 1..len
      BY <3>1
    <3> QED
      BY <1>3, <3>1, <3>2, <3>3
  <2>4. Captured[given[q] + 1] = Intact(i, 1)
    BY <1>2, <1>5, <1>10, <2>3
  <2>5. Len(Handed) = laps * Len(Captured) + given[q] /\ Len(Captured) \in Nat /\ given[q] < Len(Captured)
    BY <1>3, <2>3 DEF L
  <2>6. AsCaptured(Append(Handed, got')) /\ Len(Append(Handed, got')) = Len(Handed) + 1
    BY <1>3, <2>1, <2>4, <2>5, NextAsCaptured
  <2>7. AsCaptured(Handed)' <=> AsCaptured(Handed')
    BY <1>1 DEF AsCaptured
  <2> QED
    BY <1>6, <2>2, <2>6, <2>7
<1>11. CASE script[i] = "udp" /\ got' = Result("points", Intact(i, 1)) /\ Pcap!NoSegment
  <2>1. AsCaptured(Handed)' /\ Len(Handed') = k + 1
    BY <1>10, <1>11
  <2>2. dataIndex' \in Nat /\ dataLength' = dataIndex' /\ dataLength' - dataIndex' = 0
    <3>1. dataLength \in Nat
      OBVIOUS
    <3> QED
      BY <1>11, <3>1, BaseIsANumber
  <2>3. Len(Handed') + 0 = m + given[i]
    <3>1. Len(Pcap!PacketsOf(i)) = 1
      BY <1>4, <1>11
    <3> QED
      BY <1>2, <1>3, <1>6, <1>7, <2>1, <3>1 DEF L
  <2>4. Given(given, i, laps)'
    BY <1>9, <2>2, <2>3
  <2> QED
    BY <1>8, <2>1, <2>2, <2>4, <1>0
<1>12. CASE script[i] \notin {"udp", "segment", "segments"} /\ ~IsPacket(got') /\ Pcap!NoSegment
  <2>1. Handed' = Handed
    BY <1>12 DEF More
  <2>2. AsCaptured(Handed)'
    BY <1>1, <2>1 DEF AsCaptured
  <2>3. dataIndex' \in Nat /\ dataLength' = dataIndex' /\ dataLength' - dataIndex' = 0
    <3>1. dataLength \in Nat
      OBVIOUS
    <3> QED
      BY <1>12, <3>1, BaseIsANumber
  <2>4. Len(Handed') + 0 = m + given[i]
    <3>1. Len(Pcap!PacketsOf(i)) = 0
      BY <1>4, <1>12
    <3> QED
      BY <1>2, <1>3, <1>6, <1>7, <2>1, <3>1 DEF L
  <2>5. Given(given, i, laps)'
    BY <1>9, <2>3, <2>4
  <2> QED
    BY <1>8, <2>2, <2>3, <2>5, <1>0
<1>13. CASE script[i] \in {"segment", "segments"} /\ Pcap!TakesSegment(Pcap!PacketsOf(i))
  <2>1. dataLength \in Nat
    OBVIOUS
  <2>2. /\ got' = Result("points", Intact(i, 1)) /\ dataIndex' \in Nat /\ dataLength' \in Nat
        /\ dataLength' - dataIndex' = Len(Pcap!PacketsOf(i)) - 1
        /\ dataLength' - dataIndex' = IF script[i] = "segments" THEN 1 ELSE 0
    BY <1>1, <1>13, <2>1, SegmentTaken
  <2>3. AsCaptured(Handed)' /\ Len(Handed') = k + 1
    BY <1>10, <1>13, <2>2
  <2>4. PICK rest \in {0, 1} : rest = IF script[i] = "segments" THEN 1 ELSE 0
    OBVIOUS
  <2>5. Len(Pcap!PacketsOf(i)) = rest + 1
    <3>1. CASE script[i] = "segments"
      BY <1>4, <2>4, <3>1
    <3>2. CASE script[i] = "segment"
      BY <1>4, <2>4, <3>2
    <3> QED
      BY <1>13, <3>1, <3>2
  <2>6. Len(Handed') + rest = m + given[i]
    <3>1. given[i] = given[q] + (rest + 1)
      BY <1>2, <2>5
    <3>2. k = m + given[q]
      BY <1>6, <1>7 DEF L
    <3>3. PICK g \in Nat : g = given[q]
      BY <1>3
    <3>4. given[i] = g + (rest + 1) /\ Len(Handed') = m + g + 1
      BY <2>3, <3>1, <3>2, <3>3
    <3> QED
      BY <1>7, <2>4, <3>3, <3>4
  <2>7. rest # 0 => script[i] = "segments"
    BY <2>4
  <2>8. dataLength' - dataIndex' = rest
    BY <2>2, <2>4
  <2>9. Given(given, i, laps)'
    BY <1>9, <2>2, <2>6, <2>7, <2>8
  <2> QED
    BY <1>8, <2>2, <2>3, <2>9, <1>0
<1> QED
  BY <1>8, <1>11, <1>12, <1>13

\* Receive when a packet is left over in the array.
LEMMA ReplaysRest ==
  ASSUME CommonInv, source = "pcap", PcapScript, AsCaptured(Handed), IsSequence(Handed),
         UNCHANGED <<script, loops>>, Handed' = More(Handed, got'),
         dataIndex \in Nat, dataLength \in Nat, dataIndex < dataLength,
         NEW CONSTANT starts, NEW CONSTANT given, RecordPlaces(starts, given),
         NEW CONSTANT r, NEW CONSTANT laps, Given(given, r, laps),
         Pcap!HandsOnRest
  PROVE  /\ dataIndex' \in Nat /\ dataLength' \in Nat /\ AsCaptured(Handed)'
         /\ Given(given, r, laps)' /\ fpos' = fpos
<1>1. /\ r \in 0..NumRecords /\ laps \in Nat /\ dataLength - dataIndex \in {0, 1}
      /\ Len(Handed) + (dataLength - dataIndex) = laps * Len(Captured) + given[r]
      /\ r # 0 /\ script[r] = "segments" /\ (laps # 0 => loops) /\ ~ended
  BY DEF Given
<1>2. dataLength = dataIndex + 1
  BY <1>1
<1>3. /\ r \in 1..NumRecords /\ r \in Nat /\ r - 1 \in 0..NumRecords /\ NumRecords \in Nat
      /\ NumRecords' = NumRecords /\ Captured' = Captured
  BY <1>1, CaptureTypes, SameCapture
<1>4. Len(Pcap!PacketsOf(r)) = 2 /\ Pcap!PacketsOf(r)[2] = <<<<r, 2>>>>
  BY <1>1, <1>3, PacketsOfAre
<1>5. /\ given \in [0..NumRecords -> Nat] /\ given[NumRecords] = Len(Captured)
      /\ given[r] = given[r - 1] + 2 /\ given[r] <= Len(Captured)
      /\ Captured[given[r - 1] + 2] = <<<<r, 2>>>>
  <2>1. 2 \in 1..2
    OBVIOUS
  <2> QED
    BY <1>3, <1>4, <2>1 DEF RecordPlaces
<1>6. PICK g : g = given[r - 1] + 1
  OBVIOUS
<1>7. PICK k \in Nat : k = Len(Handed)
  BY OneMore
<1>8. PICK m \in Nat : m = laps * Len(Captured)
  <2>1. Len(Captured) \in Nat
    BY <1>3, <1>5
  <2> QED
    BY <1>1, <2>1
<1>9. /\ g \in Nat /\ given[r] = g + 1 /\ g < Len(Captured) /\ Len(Captured) \in Nat
      /\ Captured[g + 1] = <<<<r, 2>>>> /\ k = m + g
  <2>1. given[r - 1] \in Nat /\ Len(Captured) \in Nat
    BY <1>3, <1>5
  <2>2. given[r - 1] + 2 = g + 1 /\ g \in Nat
    BY <1>6, <2>1
  <2>3. given[r] = g + 1 /\ g < Len(Captured)
    BY <1>5, <2>1, <2>2
  <2>4. k + 1 = m + given[r]
    <3>1. dataLength - dataIndex = 1
      BY <1>2
    <3> QED
      BY <1>1, <1>7, <1>8, <3>1
  <2>5. Captured[g + 1] = <<<<r, 2>>>>
    BY <1>5, <2>2
  <2>6. k = m + g
    BY <1>7, <1>8, <2>2, <2>3, <2>4
  <2> QED
    BY <2>1, <2>2, <2>3, <2>5, <2>6
<1>10. /\ dataIndex' = dataIndex + 1 /\ got' = Result("points", data[0])
       /\ UNCHANGED <<dataLength, fpos, ended>>
  BY DEF Pcap!HandsOnRest, Pcap!Result, Result
<1>11. Handed' = Append(Handed, got')
  BY <1>10 DEF More, IsPacket, Result
<1>12. AsCaptured(Append(Handed, got')) /\ Len(Append(Handed, got')) = Len(Handed) + 1
  <2>1. Captured[g + 1][1][2] > 1
    <3>1. <<<<r, 2>>>>[1][2] > 1
      OBVIOUS
    <3> QED
      BY <1>9, <3>1
  <2>2. Len(Handed) = laps * Len(Captured) + g
    BY <1>7, <1>8, <1>9
  <2> QED
    BY <1>1, <1>9, <2>1, <2>2, NextAsCaptured
<1>13. AsCaptured(Handed)' /\ Len(Handed') = k + 1
  <2>1. AsCaptured(Handed)' <=> AsCaptured(Handed')
    BY <1>3 DEF AsCaptured
  <2> QED
    BY <1>7, <1>11, <1>12, <2>1
<1>14. dataIndex' \in Nat /\ dataLength' \in Nat /\ dataIndex' = dataLength' /\ dataLength' - dataIndex' = 0
  <2>1. PICK d \in Nat : d = dataLength
    OBVIOUS
  <2>2. dataIndex' = d /\ dataLength' = d
    BY <1>2, <1>10, <2>1
  <2>3. d - d = 0
    BY <2>1
  <2> QED
    BY <2>1, <2>2, <2>3
<1>15. Len(Handed') + (dataLength' - dataIndex') = laps * Len(Captured)' + given[r]
  <2>1. Len(Captured)' = Len(Captured)
    BY <1>3
  <2>2. k + 1 + 0 = m + (g + 1)
    BY <1>7, <1>8, <1>9
  <2> QED
    BY <1>8, <1>9, <1>13, <1>14, <2>1, <2>2
<1>16. (r \in 0..NumRecords)' /\ (laps # 0 => loops)' /\ ~ended'
  BY <1>1, <1>3, <1>10
<1> QED
  BY <1>1, <1>10, <1>13, <1>14, <1>15, <1>16 DEF Given

LEMMA PcapReceives ==
  ASSUME CommonInv, PcapInv, source = "pcap", receiver = "ask", OfPcap(Pcap!Receive), UNCHANGED put,
         receiver' = IF got'.kind = "nothing" THEN "ask" ELSE "room"
  PROVE  CommonInv' /\ PcapInv'
<1>1. /\ UNCHANGED <<source, script, format, loops, sent, queue>>
      /\ IF dataIndex < dataLength THEN Pcap!HandsOnRest ELSE Pcap!ReadsOn
  BY DEF OfPcap, SourceIs, Pcap!Receive
<1>2. PcapScript /\ queue = <<>> /\ dataIndex \in Nat /\ dataLength \in Nat
  BY DEF PcapInv
<1>3. CommonInv' /\ Handed' = More(Handed, got') /\ IsSequence(Handed)
  BY <1>1, <1>2, ReceivesAtOnce
<1>4. PcapScript' /\ queue' = <<>> /\ (GoodCapture' <=> GoodCapture)
  <2>1. PcapScript' <=> PcapScript
    BY <1>1, SameCapture
  <2> QED
    BY <1>1, <1>2, <2>1 DEF GoodCapture
<1>5. CASE dataIndex < dataLength
  <2>1. Pcap!HandsOnRest
    BY <1>1, <1>5
  <2>2. dataIndex' \in Nat /\ dataLength' \in Nat
    BY <1>2, <2>1 DEF Pcap!HandsOnRest
  <2>3. ASSUME GoodCapture
        PROVE  AsCaptured(Handed)' /\ (\E starts, given, r, laps :
                  RecordPlaces(starts, given) /\ Given(given, r, laps) /\ fpos = starts[r])'
    <3>1. PICK starts, given, r, laps : RecordPlaces(starts, given) /\ Given(given, r, laps) /\ fpos = starts[r]
      BY <2>3 DEF PcapInv
    <3>2. AsCaptured(Handed)
      BY <2>3 DEF PcapInv
    <3>3. AsCaptured(Handed)' /\ Given(given, r, laps)' /\ fpos' = fpos
      BY <1>1, <1>2, <1>3, <1>5, <2>1, <3>1, <3>2, ReplaysRest
    <3>4. RecordPlaces(starts, given)'
      BY <1>1, <3>1, SamePlaces
    <3>5. (RecordPlaces(starts, given) /\ Given(given, r, laps) /\ fpos = starts[r])'
      BY <3>1, <3>3, <3>4
    <3> QED
      BY <3>3, <3>5
  <2> QED
    BY <1>3, <1>4, <2>2, <2>3 DEF PcapInv
<1>6. CASE ~(dataIndex < dataLength)
  <2>1. Pcap!ReadsOn
    BY <1>1, <1>6
  <2>2. dataIndex' \in Nat /\ dataLength' \in Nat
    <3>1. CASE Pcap!NoSegment
      BY <1>2, <3>1, BaseIsANumber
    <3>2. ASSUME NEW i, Pcap!TakesSegment(Pcap!PacketsOf(i)), script[i] \in {"segment", "segments"}
          PROVE  dataIndex' \in Nat /\ dataLength' \in Nat
      <4>1. PICK v : v = Pcap!PacketsOf(i)
        OBVIOUS
      <4>2. Len(v) \in {1, 2}
        <5>1. CASE script[i] = "segments"
          BY <4>1, <5>1 DEF Pcap!PacketsOf
        <5>2. CASE script[i] = "segment"
          BY <4>1, <5>2 DEF Pcap!PacketsOf
        <5> QED
          BY <3>2, <5>1, <5>2
      <4>3. dataLength' = Pcap!Base + Len(v) /\ dataIndex' = Pcap!Base + 1
        BY <3>2, <4>1 DEF Pcap!TakesSegment
      <4>4. Pcap!Base \in Nat
        BY <1>2 DEF Pcap!Base
      <4> QED
        BY <4>2, <4>3, <4>4
    <3>3. ASSUME NEW pos, Pcap!ReadsBlock(pos)
          PROVE  Pcap!NoSegment \/ \E i : Pcap!TakesSegment(Pcap!PacketsOf(i)) /\ script[i] \in {"segment", "segments"}
      BY <3>3 DEF Pcap!ReadsBlock, Pcap!HandsOn
    <3>4. Pcap!NoSegment \/ \E pos : Pcap!ReadsBlock(pos)
      BY <2>1 DEF Pcap!ReadsOn
    <3> QED
      BY <3>1, <3>2, <3>3, <3>4
  <2>3. ASSUME GoodCapture
        PROVE  AsCaptured(Handed)' /\ (\E starts, given, r, laps :
                  RecordPlaces(starts, given) /\ Given(given, r, laps) /\ fpos = starts[r])'
    <3>1. PICK starts, given, r, laps : RecordPlaces(starts, given) /\ Given(given, r, laps) /\ fpos = starts[r]
      BY <2>3 DEF PcapInv
    <3>2. AsCaptured(Handed)
      BY <2>3 DEF PcapInv
    <3>3. /\ r \in 0..NumRecords /\ laps \in Nat /\ dataLength = dataIndex /\ (laps # 0 => loops)
          /\ Len(Handed) = laps * Len(Captured) + given[r] /\ (ended => ~loops /\ r = NumRecords)
      <4>1. PICK z \in {0, 1} : z = dataLength - dataIndex
        BY <3>1 DEF Given
      <4>2. z = 0 /\ dataLength = dataIndex
        BY <1>2, <1>6, <4>1
      <4>3. PICK k \in Nat : k = Len(Handed)
        BY <1>3, OneMore
      <4>4. k + 0 = laps * Len(Captured) + given[r]
        BY <3>1, <4>1, <4>2, <4>3 DEF Given
      <4> QED
        BY <3>1, <4>2, <4>3, <4>4 DEF Given
    <3>4. /\ NumRecords \in Nat /\ NumRecords # 0 /\ starts[0] = 0 /\ given[0] = 0
          /\ starts[NumRecords] = Len(CaptureFile) /\ given[NumRecords] = Len(Captured) /\ Len(Captured) \in Nat
          /\ \A q \in 0..(NumRecords - 1) : starts[q] < starts[NumRecords]
      <4>1. NumRecords \in Nat /\ NumRecords # 0 /\ NumRecords \in 0..NumRecords
        BY <1>2, CaptureTypes
      <4>2. ASSUME NEW q \in 0..(NumRecords - 1) PROVE starts[q] < starts[NumRecords]
        <5>1. q + 1 \in 1..NumRecords /\ (q + 1) - 1 = q
          BY <4>1
        <5>2. starts[(q + 1) - 1] < starts[NumRecords]
          BY <3>1, <5>1 DEF RecordPlaces
        <5> QED
          BY <5>1, <5>2
      <4> QED
        BY <3>1, <4>1, <4>2 DEF RecordPlaces
    \* The record after q of this round is read.
    <3>5. ASSUME NEW CONSTANT q \in Nat, q < NumRecords, NEW CONSTANT round \in Nat, round # 0 => loops, ~ended,
                 Len(Handed) = round * Len(Captured) + given[q], Pcap!ReadsBlock(starts[q]), UNCHANGED ended
          PROVE  AsCaptured(Handed)' /\ (\E s, g, l, t :
                    RecordPlaces(s, g) /\ Given(g, l, t) /\ fpos = s[l])'
      <4>1. AsCaptured(Handed)' /\ Given(given, q + 1, round)' /\ fpos' = starts[q + 1]
        BY <1>1, <1>2, <1>3, <2>3, <3>1, <3>2, <3>3, <3>5, ReplaysNext
      <4>2. RecordPlaces(starts, given)'
        BY <1>1, <3>1, SamePlaces
      <4> QED
        BY <4>1, <4>2
    <3>6. CASE r < NumRecords
      <4>1. r \in Nat /\ r \in 0..(NumRecords - 1)
        BY <3>3, <3>4, <3>6
      <4>2. Pcap!ReadsBlock(starts[r]) /\ UNCHANGED ended
        BY <2>1, <3>1, <3>4, <4>1 DEF Pcap!ReadsOn
      <4>3. ~ended
        BY <3>3, <3>4, <3>6
      <4> QED
        BY <3>3, <3>5, <3>6, <4>1, <4>2, <4>3
    <3>7. CASE r = NumRecords /\ loops
      <4>1. Pcap!ReadsBlock(starts[0]) /\ UNCHANGED ended
        BY <2>1, <3>1, <3>4, <3>7 DEF Pcap!ReadsOn
      <4>2. Len(Handed) = (laps + 1) * Len(Captured) + given[0] /\ laps + 1 \in Nat
        BY <3>3, <3>4, <3>7
      <4>3. 0 \in Nat /\ 0 < NumRecords /\ ~ended
        BY <3>3, <3>4, <3>7
      <4> QED
        BY <3>5, <3>7, <4>1, <4>2, <4>3
    <3>8. CASE r = NumRecords /\ ~loops
      <4>1. ended' = TRUE /\ got' = Nothing /\ Pcap!NoSegment /\ fpos' = fpos
        BY <2>1, <3>1, <3>4, <3>8 DEF Pcap!ReadsOn, Pcap!Nothing, Pcap!Result, Nothing, Result
      <4>2. Handed' = Handed
        BY <1>3, <4>1 DEF More, IsPacket, Nothing, Result
      <4>3. NumRecords' = NumRecords /\ Captured' = Captured
        BY <1>1, SameCapture
      <4>4. AsCaptured(Handed)'
        BY <3>2, <4>2, <4>3 DEF AsCaptured
      <4>5. dataIndex' = dataLength' /\ dataLength' - dataIndex' = 0
        BY <1>2, <4>1, BaseIsANumber
      <4>6. Len(Handed') + (dataLength' - dataIndex') = laps * Len(Captured)' + given[r]
        <5>1. PICK k \in Nat : k = Len(Handed)
          BY <1>3, OneMore
        <5>2. k + 0 = laps * Len(Captured) + given[r]
          BY <3>3, <5>1
        <5> QED
          BY <4>2, <4>3, <4>5, <5>1, <5>2
      <4>7. Given(given, r, laps)'
        <5>1. (r \in 0..NumRecords)' /\ (laps # 0 => loops)' /\ ~loops' /\ (r = NumRecords)'
          BY <1>1, <3>3, <3>8, <4>3
        <5>2. dataLength' - dataIndex' \in {0, 1}
          BY <4>5
        <5> QED
          BY <3>3, <4>5, <4>6, <5>1, <5>2 DEF Given
      <4>8. RecordPlaces(starts, given)'
        BY <1>1, <3>1, SamePlaces
      <4>9. (RecordPlaces(starts, given) /\ Given(given, r, laps) /\ fpos = starts[r])'
        BY <3>1, <4>1, <4>7, <4>8
      <4> QED
        BY <4>4, <4>9
    <3> QED
      BY <3>3, <3>4, <3>6, <3>7, <3>8
  <2> QED
    BY <1>3, <1>4, <2>2, <2>3 DEF PcapInv
<1> QED
  BY <1>5, <1>6

LEMMA PcapReplays ==
  ASSUME CommonInv, PcapInv
  PROVE  ReplayIsCapture
<1>1. SUFFICES ASSUME source = "pcap", GoodCapture
               PROVE  /\ \A i \in 1..Len(HandedOn) :
                           LET expected == Captured[1 + ((i - 1) % Len(Captured))]
                           IN HandedOn[i].parts = expected \/ expected[1][2] > 1
                      /\ ended => Len(HandedOn) = Len(Captured)
  BY DEF ReplayIsCapture, GoodCapture
<1>2. HandedOn = Handed /\ IsSequence(Handed)
  BY HandedOnIs DEF CommonInv
<1>3. AsCaptured(Handed)
  BY <1>1 DEF PcapInv
<1>4. ASSUME ended PROVE Len(Handed) = Len(Captured)
  <2>1. PICK starts, given, r, laps : RecordPlaces(starts, given) /\ Given(given, r, laps)
    BY <1>1 DEF PcapInv
  <2>2. NumRecords \in Nat /\ NumRecords \in 0..NumRecords
    BY <1>1, CaptureTypes DEF PcapInv
  <2>3. given[NumRecords] = Len(Captured) /\ Len(Captured) \in Nat
    BY <2>1, <2>2 DEF RecordPlaces
  <2>4. laps = 0 /\ r = NumRecords /\ dataIndex = dataLength
    BY <1>4, <2>1 DEF Given
  <2>5. PICK d \in Nat : d = dataLength
    BY DEF PcapInv
  <2>6. PICK k \in Nat : k = Len(Handed)
    BY <1>2, OneMore
  <2>7. k + (d - d) = 0 * Len(Captured) + Len(Captured)
    BY <2>1, <2>3, <2>4, <2>5, <2>6 DEF Given
  <2> QED
    BY <2>3, <2>5, <2>6, <2>7
<1> QED
  BY <1>2, <1>3, <1>4 DEF AsCaptured
-----------------------------------------------------------------------------
(***************************************************************************)
(* Every step                                                              *)
(***************************************************************************)
SourceInv ==
  /\ CommonInv
  /\ source = "socket" => SocketInv
  /\ source = "tcp" => TcpInv
  /\ source = "serial" => SerialLineInv
  /\ source = "pcap" => PcapInv

LEMMA PcapStays ==
  ASSUME PcapInv, Handed' = Handed,
         UNCHANGED <<script, queue, pcapVars, dataIndex, dataLength>>
  PROVE  PcapInv'
<1>1. /\ UNCHANGED <<script, queue, format, loops, fpos, ended, dataIndex, dataLength>>
      /\ NumRecords' = NumRecords /\ Captured' = Captured
  BY SameCapture DEF pcapVars
<1>2. PcapScript' /\ (GoodCapture' <=> GoodCapture)
  BY <1>1, SameCapture DEF GoodCapture, PcapInv
<1>3. ASSUME GoodCapture
      PROVE  AsCaptured(Handed)' /\ (\E starts, given, r, laps :
                RecordPlaces(starts, given) /\ Given(given, r, laps) /\ fpos = starts[r])'
  <2>1. PICK starts, given, r, laps : RecordPlaces(starts, given) /\ Given(given, r, laps) /\ fpos = starts[r]
    BY <1>3 DEF PcapInv
  <2>2. AsCaptured(Handed)'
    BY <1>1, <1>3 DEF PcapInv, AsCaptured
  <2>3. RecordPlaces(starts, given)'
    BY <1>1, <2>1, SamePlaces
  <2>4. Given(given, r, laps)'
    BY <1>1, <2>1 DEF Given
  <2>5. fpos' = starts[r]
    BY <1>1, <2>1
  <2> QED
    BY <2>2, <2>3, <2>4, <2>5
<1> QED
  BY <1>1, <1>2, <1>3 DEF PcapInv

LEMMA Begins ==
  ASSUME NEW s \in Setups, StartsWith(s)
  PROVE  SourceInv
<1>1. /\ s.source \in {"socket", "tcp", "serial", "pcap"} /\ s.script \in Seq(ScriptKinds(s.source))
      /\ s.source = "pcap" => /\ s.script # <<>>
                              /\ \A i \in 1..(Len(s.script) - 1) : s.script[i] \notin {"cut header", "cut data"}
  BY SetupAssumption
<1>2. /\ source = s.source /\ script = s.script /\ sent = 0 /\ put = <<>> /\ queue = <<>> /\ receiver = "ask"
      /\ wire = <<>> /\ arrived = {} /\ unread = <<>> /\ lost = {} /\ dropped = {} /\ turn = "recv"
      /\ dataIndex = 0 /\ dataLength = 0 /\ fpos = 0 /\ ended = FALSE /\ got = Nothing
      /\ data = [i \in 0..((IF source = "tcp" THEN TcpRoom ELSE PcapRoom) - 1) |-> <<0, 0>>]
  BY DEF StartsWith
<1>3. /\ <<>> \in Seq({}) /\ Len(<<>>) = 0 /\ 1..0 = {} /\ IsSequence(<<>>) /\ <<>> \o <<>> = <<>>
      /\ \A T : <<>> \in Seq(T)
  BY EmptySeq, ConcatEmptySeq DEF IsSequence
<1>4. CommonInv
  <2>1. Len(script) \in Nat
    BY <1>1, <1>2, LenProperties
  <2>2. script \in Seq(ScriptKinds(source)) /\ source \in {"socket", "tcp", "serial", "pcap"}
    BY <1>1, <1>2
  <2>3. sent \in 0..Len(script)
    BY <1>2, <2>1
  <2> QED
    BY <1>2, <1>3, <2>2, <2>3 DEF CommonInv
<1>5. PacketsIn(<<>>) = <<>>
  BY PacketsInFew
<1>6. Handed = <<>>
  BY <1>2, <1>3, <1>5 DEF Handed, Out, Waits
<1>7. SocketInv
  <2>1. OnItsWay = <<>>
    BY <1>2, <1>3, <1>5, <1>6 DEF OnItsWay
  <2> QED
    BY <1>2, <1>3, <2>1 DEF SocketInv, Increasing, Numbers
<1>8. ASSUME source = "tcp" PROVE TcpInv
  <2>1. TcpTypes
    <3>1. PacketParts \in Nat \ {0} /\ TcpRoom \in Nat
      BY TcpSizes
    <3>2. DOMAIN data = 0..(TcpRoom - 1)
      BY <1>2, <1>8
    <3> QED
      BY <1>2, <3>1, <3>2 DEF TcpTypes
  <2>2. WireInv
    BY <1>2, <1>3 DEF WireInv
  <2>3. FirstsInOrder(Handed)
    BY <1>3, <1>6 DEF FirstsInOrder
  <2> QED
    BY <1>2, <2>1, <2>2, <2>3 DEF TcpInv
<1>9. SerialLineInv
  <2>1. Line = <<>>
    BY <1>2, <1>3 DEF Line
  <2>2. LineInv(Line) /\ KeysInOrder(Handed, Line)
    BY <1>3, <1>6, <2>1 DEF LineInv, KeysInOrder
  <2>3. 1..sent = {}
    BY <1>2
  <2> QED
    BY <1>2, <1>3, <2>2, <2>3 DEF SerialLineInv
<1>10. ASSUME source = "pcap" PROVE PcapInv
  <2>1. PcapScript
    BY <1>1, <1>2, <1>10 DEF PcapScript
  <2>2. PICK starts, given : RecordPlaces(starts, given)
    BY <1>4, <1>10, <2>1, CapturePlaces
  <2>3. starts[0] = 0 /\ given[0] = 0 /\ NumRecords \in Nat
    BY <1>4, <1>10, <2>1, <2>2, CaptureTypes DEF RecordPlaces
  <2>4. Given(given, 0, 0)
    <3>1. 0 \in 0..NumRecords /\ dataLength - dataIndex = 0
      BY <1>2, <2>3
    <3>2. Len(Captured) \in Nat
      <4>1. given[NumRecords] \in Nat /\ given[NumRecords] = Len(Captured)
        BY <2>2, <2>3 DEF RecordPlaces
      <4> QED
        BY <4>1
    <3>3. Len(Handed) + 0 = 0 * Len(Captured) + given[0]
      BY <1>3, <1>6, <2>3, <3>2
    <3> QED
      BY <1>2, <3>1, <3>3 DEF Given
  <2>5. AsCaptured(Handed)
    BY <1>3, <1>6 DEF AsCaptured
  <2>6. fpos = starts[0]
    BY <1>2, <2>3
  <2> QED
    BY <1>2, <2>1, <2>2, <2>4, <2>5, <2>6 DEF PcapInv
<1> QED
  BY <1>4, <1>7, <1>8, <1>9, <1>10 DEF SourceInv

LEMMA SourceSteps ==
  ASSUME SourceInv, SourceRuns
  PROVE  SourceInv'
<1>1. UNCHANGED threadVars
  BY DEF SourceRuns
<1>2. CommonInv
  BY DEF SourceInv
<1>3. CASE source = "socket" /\ OfSocket(Socket!Sends)
  <2>1. CommonInv' /\ SocketInv'
    BY <1>1, <1>2, <1>3, SocketSends DEF OfSocket, SourceIs, SourceInv
  <2> QED
    BY <1>3, <2>1 DEF SourceInv, OfSocket, SourceIs
<1>4. CASE source = "tcp" /\ OfTcp(Tcp!Sends \/ Tcp!ReceivedThread)
  <2>1. TcpInv /\ source' = source
    BY <1>4 DEF SourceInv, OfTcp, SourceIs
  <2>2. Tcp!Sends \/ Tcp!ReceivedThread
    BY <1>4 DEF OfTcp
  <2>3. Tcp!Sends \/ Tcp!Breaks \/ Tcp!Opens \/ (\E n \in 1..TcpRoom : Tcp!Reads(n)) \/ Tcp!Extracts \/ Tcp!EndsTurn
    BY <2>2 DEF Tcp!ReceivedThread
  <2>4. CommonInv' /\ TcpInv'
    BY <1>1, <1>2, <1>4, <2>1, <2>3, TcpSends, TcpConnects, TcpReads, TcpExtracts, TcpEndsTurn
  <2> QED
    BY <1>4, <2>1, <2>4 DEF SourceInv
<1>5. CASE source = "serial" /\ OfSerial(Serial!Sends \/ Serial!Loses \/ Serial!ReceivedThread)
  <2>1. SerialLineInv /\ source' = source
    BY <1>5 DEF SourceInv, OfSerial, SourceIs
  <2>2. Serial!Sends \/ Serial!Loses \/ Serial!ReceivedThread
    BY <1>5 DEF OfSerial
  <2>3. CommonInv' /\ SerialLineInv'
    BY <1>1, <1>2, <1>5, <2>1, <2>2, SerialSends, SerialLoses, SerialTurn
  <2> QED
    BY <1>5, <2>1, <2>3 DEF SourceInv
<1> QED
  BY <1>3, <1>4, <1>5 DEF SourceRuns, OfSocket, OfTcp, OfSerial, SourceIs

LEMMA AskSteps ==
  ASSUME SourceInv, Asks
  PROVE  SourceInv'
<1>1. /\ receiver = "ask" /\ SourceReceives /\ UNCHANGED put
      /\ receiver' = IF got'.kind = "nothing" THEN "ask" ELSE "room"
  BY DEF Asks
<1>2. CommonInv
  BY DEF SourceInv
<1>3. CASE source = "socket" /\ OfSocket(Socket!Receive)
  <2>1. Socket!Receive /\ UNCHANGED <<source, queue>> /\ SocketInv
    BY <1>3 DEF OfSocket, SourceIs, SourceInv
  <2>2. CommonInv' /\ SocketInv'
    BY <1>1, <1>2, <1>3, <2>1, SocketReceives
  <2> QED
    BY <1>3, <2>1, <2>2 DEF SourceInv
<1>4. CASE source = "tcp" /\ OfTcp(Tcp!Receive)
  <2>1. /\ \/ queue # <<>> /\ got' = Head(queue) /\ queue' = Tail(queue)
           \/ queue = <<>> /\ got' = Nothing /\ UNCHANGED queue
        /\ UNCHANGED <<source, script, sent, wire, opened, turn, data, dataIndex, dataLength, arrived>>
    BY <1>4 DEF OfTcp, SourceIs, Tcp!Receive, Tcp!bufferVars, Tcp!Nothing, Tcp!Result, Nothing, Result
  <2>2. CommonInv' /\ Handed' = Handed
    BY <1>1, <1>2, <2>1, ReceivesFromRing
  <2>3. TcpInv'
    BY <1>4, <2>1, <2>2, TcpStays DEF SourceInv
  <2> QED
    BY <1>4, <2>1, <2>2, <2>3 DEF SourceInv
<1>5. CASE source = "serial" /\ OfSerial(Serial!Receive)
  <2>1. Serial!Receive /\ UNCHANGED source /\ SerialLineInv
    BY <1>5 DEF OfSerial, SourceIs, SourceInv
  <2>2. CommonInv' /\ SerialLineInv'
    BY <1>1, <1>2, <1>5, <2>1, SerialReceives
  <2> QED
    BY <1>5, <2>1, <2>2 DEF SourceInv
<1>6. CASE source = "pcap" /\ OfPcap(Pcap!Receive)
  <2>1. UNCHANGED source /\ PcapInv
    BY <1>6 DEF OfPcap, SourceIs, SourceInv
  <2>2. CommonInv' /\ PcapInv'
    BY <1>1, <1>2, <1>6, <2>1, PcapReceives
  <2> QED
    BY <1>6, <2>1, <2>2 DEF SourceInv
<1> QED
  BY <1>1, <1>3, <1>4, <1>5, <1>6 DEF SourceReceives, OfSocket, OfTcp, OfSerial, OfPcap, SourceIs

\* Nothing is handed on, and the sources do nothing.
LEMMA SourceRests ==
  ASSUME SourceInv, CommonInv', Handed' = Handed,
         UNCHANGED <<source, script, sent, wire, tcpVars, serialVars, queue, arrived, pcapVars>>
  PROVE  SourceInv'
<1>1. UNCHANGED <<source, script, sent, wire, opened, turn, data, dataIndex, dataLength, unread, lost, dropped,
                  queue, arrived, pcapVars>>
  BY DEF tcpVars, arrayVars, serialVars
<1>2. ASSUME source = "socket" PROVE SocketInv'
  <2>1. OnItsWay' = OnItsWay
    BY <1>1 DEF OnItsWay
  <2> QED
    BY <1>1, <1>2, <2>1 DEF SourceInv, SocketInv
<1>3. ASSUME source = "tcp" PROVE TcpInv'
  BY <1>1, <1>3, TcpStays DEF SourceInv
<1>4. ASSUME source = "serial" PROVE SerialLineInv'
  BY <1>1, <1>4 DEF SourceInv, SerialLineInv, LineInv, KeysInOrder, Line, Done, IsHanded, Sent, SentPieces,
                    SerialSize, Undamaged, Serial!PartsOf
<1>5. ASSUME source = "pcap" PROVE PcapInv'
  BY <1>1, <1>5, PcapStays DEF SourceInv
<1> QED
  BY <1>1, <1>2, <1>3, <1>4, <1>5 DEF SourceInv

LEMMA SourceNext == ASSUME SourceInv, [PathNext]_pathVars PROVE SourceInv'
<1>1. CASE UNCHANGED <<receptionVars>> \/ Takes
  <2>1. UNCHANGED <<source, script, sent, put, receiver, got, queue, wire, tcpVars, serialVars, arrived, pcapVars>>
    BY <1>1 DEF receptionVars, threadVars, Takes
  <2>2. CommonInv' /\ Handed' = Handed
    BY <2>1, SameHanded DEF SourceInv
  <2> QED
    BY <2>1, <2>2, SourceRests
<1>2. CASE SeesRoom
  <2>1. CommonInv' /\ Handed' = Handed
    BY <1>2, PutsAsItIs DEF SourceInv
  <2>2. UNCHANGED <<source, script, sent, wire, tcpVars, serialVars, queue, arrived, pcapVars>>
    BY <1>2 DEF SeesRoom
  <2> QED
    BY <2>1, <2>2, SourceRests
<1> QED
  BY <1>1, <1>2, SourceSteps, AskSteps
     DEF PathNext, OfRing, OfSource, OfRecorder, pathVars, ReceptionNext

LEMMA SourceBegins == PathInit => SourceInv
<1> SUFFICES ASSUME PathInit PROVE SourceInv
  OBVIOUS
<1>1. PICK s \in Setups : StartsWith(s)
  <2>1. (CHOOSE s \in Setups : TRUE) \in Setups
    BY SetupAssumption
  <2> QED
    BY <2>1 DEF PathInit, ReceptionRests, ReceptionInit
<1> QED
  BY <1>1, Begins

\* The invariant of the sources: what the receiver and the ring hold is what the source has
\* handed on, and what the source still holds comes after it.
LEMMA SourceStays == PathSpec => []SourceInv
<1>1. SourceInv /\ [PathNext]_pathVars => SourceInv'
  BY SourceNext
<1> QED
  BY <1>1, SourceBegins, PTL DEF PathSpec

\* Each source hands on what the lidar sent, whole and in order, but for what
\* Reception.SourceKept excepts: the packets of a datagram or of a capture that the code
\* passes over, what is lost with a connection or skipped on the line, and what a full ring
\* drops.  For every script, room of a buffer or a ring, and bound on what comes at once.
THEOREM SourcesKeep == PathSpec => []SourceKept
<1>1. SourceInv => DatagramsKept /\ WholeReadsKept /\ DamageBounded /\ ReplayIsCapture
  <2> SUFFICES ASSUME SourceInv PROVE DatagramsKept /\ WholeReadsKept /\ DamageBounded /\ ReplayIsCapture
    OBVIOUS
  <2>1. CommonInv
    BY DEF SourceInv
  <2>2. DatagramsKept
    <3>1. HandedOn = Handed
      BY <2>1, HandedOnIs DEF CommonInv
    <3>2. SUFFICES ASSUME source = "socket"
                   PROVE  /\ \A i, j \in 1..Len(OnItsWay) : i < j =>
                               OnItsWay[i].parts[1][1] < OnItsWay[j].parts[1][1]
                          /\ {OnItsWay[i].parts[1][1] : i \in 1..Len(OnItsWay)} = {p \in arrived : script[p] # "gps"}
      BY <3>1 DEF DatagramsKept, OnItsWay
    <3>3. SocketInv
      BY <3>2 DEF SourceInv
    <3> QED
      BY <3>3 DEF SocketInv, Increasing, Numbers, Number
  <2>3. WholeReadsKept
    <3>1. CASE source = "tcp"
      BY <2>1, <3>1, TcpKeeps DEF SourceInv
    <3> QED
      BY <3>1 DEF WholeReadsKept
  <2>4. DamageBounded
    <3>1. CASE source = "serial"
      BY <2>1, <3>1, SerialBounded DEF SourceInv
    <3> QED
      BY <3>1 DEF DamageBounded
  <2>5. ReplayIsCapture
    <3>1. CASE source = "pcap"
      BY <2>1, <3>1, PcapReplays DEF SourceInv
    <3> QED
      BY <3>1 DEF ReplayIsCapture
  <2> QED
    BY <2>2, <2>3, <2>4, <2>5
<1> QED
  BY <1>1, SourceStays, SilencesApart, PTL DEF SourceKept
=============================================================================
