------------------------- MODULE LioEstimatorProofs -------------------------
(***************************************************************************)
(* What LioEstimator keeps for every value of its constants: the groups of  *)
(* samples that sync_measure() forms, the copy of the scan it waits with,   *)
(* the intervals that the filter integrates, the states the undistortion    *)
(* interpolates between, the forward predictor and the relocalisation.      *)
(***************************************************************************)
EXTENDS LioEstimator, WellFoundedInduction, SequenceTheorems, TLAPS

-----------------------------------------------------------------------------
(***************************************************************************)
(* Induction over the natural numbers, in the form of sets                  *)
(***************************************************************************)
LEMMA LeastElement ==
  ASSUME NEW T \in SUBSET Nat, T # {}
  PROVE  \E x \in T : \A y \in T : x <= y
<1> DEFINE R == OpToRel(<, Nat)
<1>1. IsWellFoundedOn(R, Nat)
  BY NatLessThanWellFounded
<1> HIDE DEF R
<1>2. PICK x \in T : \A y \in T : ~(<<y, x>> \in R)
  BY <1>1, WFMin
<1>3. ASSUME NEW y \in T PROVE x <= y
  <2>1. <<y, x>> \in R <=> y < x
    BY DEF R, OpToRel
  <2>2. ~(y < x) /\ x \in Nat /\ y \in Nat
    BY <1>2, <2>1
  <2> QED
    BY <2>2
<1> QED
  BY <1>3

\* A set that has 0 and with each number below n the next one has all up to n.
LEMMA UpTo ==
  ASSUME NEW n \in Nat, NEW S, 0 \in S,
         \A i \in 1..n : i - 1 \in S => i \in S
  PROVE  \A i \in 0..n : i \in S
<1> DEFINE Outside == {i \in Nat : i <= n /\ ~(i \in S)}
<1> SUFFICES ASSUME Outside # {} PROVE FALSE
  <2>1. ASSUME NEW i \in 0..n PROVE i \in S
    <3>1. ~(i \in Outside)
      OBVIOUS
    <3> QED
      BY <3>1
  <2> QED
    BY <2>1
<1> HIDE DEF Outside
<1>1. Outside \in SUBSET Nat
  BY DEF Outside
<1>2. PICK x \in Outside : \A y \in Outside : x <= y
  BY <1>1, LeastElement
<1>3. x \in Nat /\ x <= n /\ ~(x \in S) /\ x # 0
  BY <1>2 DEF Outside
<1>4. x \in 1..n /\ x - 1 \in Nat /\ x - 1 <= n
  BY <1>3
<1>5. ~(x - 1 \in S)
  BY <1>3, <1>4
<1>6. x - 1 \in Outside
  BY <1>4, <1>5 DEF Outside
<1>7. x <= x - 1
  BY <1>2, <1>6
<1> QED
  BY <1>3, <1>7

-----------------------------------------------------------------------------
(***************************************************************************)
(* The group of a scan                                                     *)
(***************************************************************************)
Increasing(q) == \A i, j \in 1..Len(q) : i < j => q[i] < q[j]

\* The first n samples of q are not after e, the others not before it.
Splits(q, e, n) == /\ n \in 0..Len(q)
                   /\ \A j \in 1..n : q[j] <= e
                   /\ \A j \in (n + 1)..Len(q) : q[j] >= e

LEMMA GroupSplits ==
  ASSUME NEW q \in Seq(Stamps), q # <<>>, Increasing(q), NEW e \in Nat
  PROVE  Splits(q, e, GroupSize(q, e))
<1>0. Len(q) \in Nat \ {0} /\ \A j \in 1..Len(q) : q[j] \in Nat
  <2>1. \A j \in 1..Len(q) : q[j] \in Stamps
    BY ElementOfSeq
  <2>2. Len(q) \in Nat \ {0}
    BY EmptySeq, LenProperties
  <2> QED
    BY <2>1, <2>2, SyncAssumption DEF Stamps
<1>1. CASE q[1] >= e
  <2>1. GroupSize(q, e) = 0
    BY <1>1 DEF GroupSize
  <2>2. ASSUME NEW j \in 1..Len(q) PROVE q[j] >= e
    BY <1>0, <1>1 DEF Increasing
  <2> QED
    BY <2>1, <2>2, <1>0 DEF Splits
<1>2. CASE ~(q[1] >= e)
  <2> DEFINE EndsAt(k) == /\ q[k] <= e
                          /\ \A j \in 1..(k - 1) : q[j] < e
                          /\ k < Len(q) => q[k] = e \/ q[k + 1] > e
             T == {k \in 1..Len(q) : k < Len(q) => q[k + 1] > e}
  <2>1. PICK k \in T : \A y \in T : k <= y
    <3>1. T \in SUBSET Nat /\ Len(q) \in T
      BY <1>0
    <3> QED
      BY <3>1, LeastElement
  <2>2. k \in 1..Len(q) /\ (k < Len(q) => q[k + 1] > e)
    BY <2>1
  <2>3. q[k] <= e
    <3>1. CASE k = 1
      BY <3>1, <1>0, <1>2
    <3>2. CASE k > 1
      <4>1. PICK p \in 1..Len(q) : p + 1 = k
        BY <2>2, <3>2, <1>0
      <4>2. p < Len(q) /\ p < k
        BY <4>1, <2>2, <1>0
      <4>3. ~(p \in T)
        BY <4>2, <2>1, <1>0
      <4> QED
        BY <4>1, <4>2, <4>3, <2>2, <1>0
    <3> QED
      BY <3>1, <3>2, <2>2
  <2>4. ASSUME NEW j \in 1..(k - 1) PROVE q[j] < e
    <3>1. j \in 1..Len(q) /\ j < k /\ j \in Nat
      BY <2>2, <1>0
    <3>2. q[j] < q[k]
      BY <3>1, <2>2 DEF Increasing
    <3> QED
      BY <3>1, <3>2, <2>2, <2>3, <1>0
  <2>5. \E m \in 1..Len(q) : EndsAt(m)
    BY <2>2, <2>3, <2>4
  <2> DEFINE n == CHOOSE m \in 1..Len(q) : EndsAt(m)
  <2>6. n \in 1..Len(q) /\ EndsAt(n)
    BY <2>5
  <2>7. GroupSize(q, e) = n
    BY <1>2 DEF GroupSize
  <2> HIDE DEF n
  <2>8. ASSUME NEW j \in 1..n PROVE q[j] <= e
    <3>1. CASE j = n
      BY <2>6, <3>1
    <3>2. CASE j < n
      <4>1. j \in 1..(n - 1) /\ j \in 1..Len(q)
        BY <3>2, <2>6, <1>0
      <4>2. q[j] < e
        BY <4>1, <2>6
      <4> QED
        BY <4>1, <4>2, <1>0
    <3> QED
      BY <3>1, <3>2, <2>6, <1>0
  <2>9. ASSUME NEW j \in (n + 1)..Len(q) PROVE q[j] >= e
    <3>1. /\ j \in 1..Len(q) /\ n < j /\ n < Len(q) /\ n + 1 \in 1..Len(q)
          /\ j = n + 1 \/ n + 1 < j
      BY <2>6, <1>0
    <3>2. q[n] = e \/ q[n + 1] > e
      BY <3>1, <2>6
    <3>3. q[n] < q[j] /\ q[n + 1] <= q[j]
      BY <3>1, <2>6, <1>0 DEF Increasing
    <3> QED
      BY <3>1, <3>2, <3>3, <2>6, <1>0
  <2> QED
    BY <2>6, <2>7, <2>8, <2>9, <1>0 DEF Splits
<1> QED
  BY <1>1, <1>2
-----------------------------------------------------------------------------
(***************************************************************************)
(* The loop over the group                                                 *)
(***************************************************************************)
\* f is the values of the loop up to the n-th sample of the group.
IsRun(f, n, start, group, obs, end) ==
  f = [i \in 0..n |-> IF i = 0 THEN start ELSE Predict(f[i - 1], group[i], obs, end)]

LEMMA RunExists ==
  ASSUME NEW start, NEW group, Len(group) \in Nat, NEW obs, NEW end
  PROVE  \E f : IsRun(f, Len(group), start, group, obs, end)
<1> DEFINE S == {n \in Nat : \E f : IsRun(f, n, start, group, obs, end)}
<1>1. 0 \in S
  <2> DEFINE g == [i \in 0..0 |-> start]
  <2>1. g = [i \in 0..0 |-> IF i = 0 THEN start ELSE Predict(g[i - 1], group[i], obs, end)]
    OBVIOUS
  <2> QED
    BY <2>1 DEF IsRun
<1>2. ASSUME NEW n \in 1..Len(group), n - 1 \in S PROVE n \in S
  <2>1. PICK g : IsRun(g, n - 1, start, group, obs, end)
    BY <1>2
  <2> DEFINE next == Predict(g[n - 1], group[n], obs, end)
             h    == [i \in 0..n |-> IF i = n THEN next ELSE g[i]]
             k    == [i \in 0..n |-> IF i = 0 THEN start
                                     ELSE Predict(h[i - 1], group[i], obs, end)]
  <2>2. ASSUME NEW i \in 0..n PROVE h[i] = k[i]
    <3>1. CASE i = n
      <4>1. h[i] = next /\ n # 0 /\ n - 1 \in 0..n /\ n - 1 # n
        BY <3>1
      <4>2. h[n - 1] = g[n - 1]
        BY <4>1
      <4>3. k[i] = Predict(h[n - 1], group[n], obs, end)
        BY <3>1, <4>1
      <4> QED
        BY <4>1, <4>2, <4>3
    <3>2. CASE i # n
      <4>1. i \in 0..(n - 1) /\ h[i] = g[i]
        BY <3>2
      <4>2. g[i] = IF i = 0 THEN start ELSE Predict(g[i - 1], group[i], obs, end)
        BY <2>1, <4>1 DEF IsRun
      <4>3. i # 0 => i - 1 \in 0..n /\ i - 1 # n /\ h[i - 1] = g[i - 1]
        BY <4>1
      <4>4. k[i] = IF i = 0 THEN start ELSE Predict(h[i - 1], group[i], obs, end)
        OBVIOUS
      <4> QED
        BY <4>1, <4>2, <4>3, <4>4
    <3> QED
      BY <3>1, <3>2
  <2> HIDE DEF next
  <2>3. h = k
    BY <2>2
  <2>4. IsRun(h, n, start, group, obs, end)
    BY <2>3 DEF IsRun
  <2> QED
    BY <2>4
<1> HIDE DEF S
<1>3. \A i \in 0..Len(group) : i \in S
  BY <1>1, <1>2, UpTo
<1>4. Len(group) \in S
  BY <1>3
<1> QED
  BY <1>4 DEF S

\* The values of the loop, one by one.
Loop(f, start, group, obs, end) ==
  /\ f[0] = start
  /\ \A i \in 1..Len(group) : f[i] = Predict(f[i - 1], group[i], obs, end)
  /\ Integrate(start, group, obs, end) = f[Len(group)]

LEMMA IntegrateIsLoop ==
  ASSUME NEW start, NEW group, Len(group) \in Nat, NEW obs, NEW end
  PROVE  \E f : Loop(f, start, group, obs, end)
<1> DEFINE f == CHOOSE g : g = [i \in 0..Len(group) |->
                             IF i = 0 THEN start ELSE Predict(g[i - 1], group[i], obs, end)]
<1>1. f = [i \in 0..Len(group) |->
             IF i = 0 THEN start ELSE Predict(f[i - 1], group[i], obs, end)]
  <2>1. PICK h : IsRun(h, Len(group), start, group, obs, end)
    BY RunExists
  <2>2. h = [i \in 0..Len(group) |->
               IF i = 0 THEN start ELSE Predict(h[i - 1], group[i], obs, end)]
    BY <2>1 DEF IsRun
  <2> QED
    BY <2>2, Zenon
<1>2. Integrate(start, group, obs, end) = f[Len(group)]
  BY DEF Integrate
<1> HIDE DEF f
<1>3. f[0] = start
  BY <1>1
<1>4. ASSUME NEW i \in 1..Len(group) PROVE f[i] = Predict(f[i - 1], group[i], obs, end)
  BY <1>1
<1> QED
  BY <1>2, <1>3, <1>4 DEF Loop
Steps   == [from : Times, to : Times]
Records == [imu : Times, now : Times, states : Seq(Times), steps : Seq(Steps)]

\* The intervals of a record follow each other, none before obs.
Forward(s, obs) == /\ \A i \in 1..Len(s) : obs <= s[i].from /\ s[i].from <= s[i].to
                   /\ \A i \in 1..(Len(s) - 1) : s[i].to <= s[i + 1].from

\* What holds of the record after each sample, from a filter at the time now: before the
\* first interval its time stands, after one it is that of the sample integrated last.
InLoop(a, now, obs, end) ==
  /\ a \in Records
  /\ Len(a.states) >= 1 /\ a.states[1] = now
  /\ now <= a.now /\ a.now <= end
  /\ Forward(a.steps, obs)
  /\ IF a.steps = <<>> THEN a.now = now
     ELSE a.now = a.imu /\ obs < a.imu /\ a.steps[Len(a.steps)].to = a.now

LEMMA PredictKeeps ==
  ASSUME NEW now \in Times, NEW obs \in 0..MaxTime, NEW end \in Stamps,
         now <= obs, obs <= end,
         NEW a, InLoop(a, now, obs, end),
         NEW t \in Stamps, t <= end, a.imu <= obs \/ a.imu < t
  PROVE  InLoop(Predict(a, t, obs, end), now, obs, end) /\ Predict(a, t, obs, end).imu = t
<1> DEFINE b == Predict(a, t, obs, end)
<1>0. /\ a \in Records /\ a.imu \in Times /\ a.now \in Times
      /\ a.states \in Seq(Times) /\ a.steps \in Seq(Steps)
      /\ Len(a.states) \in Nat /\ Len(a.steps) \in Nat
      /\ t \in Times /\ obs \in Times /\ MaxTime \in Nat
      /\ a.steps # <<>> => Len(a.steps) >= 1
  <2>1. a \in Records
    BY DEF InLoop
  <2>2. a.imu \in Times /\ a.now \in Times /\ a.states \in Seq(Times) /\ a.steps \in Seq(Steps)
    BY <2>1 DEF Records
  <2>3. MaxTime \in Nat
    BY SyncAssumption
  <2>4. a.steps # <<>> => Len(a.steps) >= 1
    BY <2>2, EmptySeq, LenProperties
  <2> QED
    BY <2>1, <2>2, <2>3, <2>4, LenProperties DEF Times, Stamps
<1>1. CASE a.imu < 0 \/ t <= obs
  <2>1. a.steps = <<>>
    BY <1>0, <1>1 DEF InLoop, Stamps, Times
  <2>2. b = SkipStep(t, a)
    BY <1>1 DEF Predict
  <2> DEFINE ss == Append(a.states, a.now)
  <2>3. ss \in Seq(Times) /\ Len(ss) = Len(a.states) + 1 /\ ss[1] = a.states[1]
    BY <1>0, AppendProperties DEF InLoop
  <2>4. b = [a EXCEPT !.imu = t, !.states = ss]
    BY <2>2 DEF SkipStep
  <2> HIDE DEF ss
  <2>5. b \in Records /\ b.imu = t /\ b.now = a.now /\ b.states = ss /\ b.steps = a.steps
    BY <2>3, <2>4, <1>0 DEF Records
  <2> HIDE DEF b
  <2>6. InLoop(b, now, obs, end)
    BY <2>1, <2>3, <2>5, <1>0 DEF InLoop
  <2> QED
    BY <2>5, <2>6 DEF b
<1>2. CASE ~(a.imu < 0 \/ t <= obs)
  <2> DEFINE from == IF a.imu < obs THEN obs ELSE a.imu
             step == [from |-> from, to |-> t]
             ss   == Append(a.states, t)
             st   == Append(a.steps, step)
  <2>1. from \in Times /\ obs <= from /\ from <= t /\ step \in Steps
    BY <1>0, <1>2 DEF Steps, Times, Stamps
  <2>2. b = [imu |-> t, now |-> t, states |-> ss, steps |-> st]
    <3>1. CASE a.imu < obs
      <4>1. b = PredictStep(t - obs, t, t, a)
        BY <1>2, <3>1 DEF Predict
      <4>2. t - (t - obs) = obs
        BY <1>0 DEF Times
      <4> QED
        BY <4>1, <4>2, <3>1 DEF PredictStep
    <3>2. CASE ~(a.imu < obs)
      <4>1. b = PredictStep(t - a.imu, t, t, a)
        BY <1>2, <3>2, <1>0 DEF Predict, Times, Stamps
      <4>2. t - (t - a.imu) = a.imu
        BY <1>0 DEF Times
      <4> QED
        BY <4>1, <4>2, <3>2 DEF PredictStep
    <3> QED
      BY <3>1, <3>2
  <2>3. ss \in Seq(Times) /\ Len(ss) = Len(a.states) + 1 /\ ss[1] = a.states[1]
    BY <1>0, AppendProperties DEF InLoop
  <2>4. /\ st \in Seq(Steps) /\ Len(st) = Len(a.steps) + 1 /\ st[Len(st)] = step
        /\ \A i \in 1..Len(a.steps) : st[i] = a.steps[i]
    <3> HIDE DEF step
    <3> QED
      BY <2>1, <1>0, AppendProperties
  <2>5. step.from = from /\ step.to = t
    OBVIOUS
  <2>6. \A i \in 1..Len(a.steps) : a.steps[i].from \in Times /\ a.steps[i].to \in Times
    <3>1. \A i \in 1..Len(a.steps) : a.steps[i] \in Steps
      BY <1>0, ElementOfSeq
    <3> QED
      BY <3>1 DEF Steps
  <2> HIDE DEF ss, st, step
  <2>7. b \in Records /\ b.imu = t /\ b.now = t /\ b.states = ss /\ b.steps = st
    BY <2>2, <2>3, <2>4, <1>0 DEF Records
  <2>8. st # <<>>
    BY <2>4, <1>0, EmptySeq
  <2>9. now <= t
    BY <1>0, <1>2 DEF Times
  <2>10. a.steps # <<>> => a.steps[Len(a.steps)].to <= from
    BY <1>0 DEF InLoop, Times
  <2>11. Forward(st, obs)
    <3>1. ASSUME NEW i \in 1..Len(st) PROVE obs <= st[i].from /\ st[i].from <= st[i].to
      <4>1. CASE i \in 1..Len(a.steps)
        BY <4>1, <2>4 DEF InLoop, Forward
      <4>2. CASE i = Len(st)
        BY <4>2, <2>1, <2>4, <2>5
      <4> QED
        BY <4>1, <4>2, <2>4, <1>0
    <3>2. ASSUME NEW i \in 1..(Len(st) - 1) PROVE st[i].to <= st[i + 1].from
      <4>1. i \in 1..Len(a.steps) /\ st[i] = a.steps[i]
        BY <2>4, <1>0
      <4>2. CASE i = Len(a.steps)
        <5>1. st[i + 1] = step /\ a.steps # <<>>
          BY <4>2, <4>1, <2>4, <1>0, EmptySeq
        <5> QED
          BY <5>1, <4>1, <4>2, <2>10, <2>5
      <4>3. CASE i # Len(a.steps)
        <5>1. i \in 1..(Len(a.steps) - 1) /\ i + 1 \in 1..Len(a.steps)
          BY <4>1, <4>3, <1>0
        <5> QED
          BY <5>1, <4>1, <2>4 DEF InLoop, Forward
      <4> QED
        BY <4>2, <4>3
    <3> QED
      BY <3>1, <3>2 DEF Forward
  <2> HIDE DEF b
  <2>12. InLoop(b, now, obs, end)
    <3>1. Len(ss) >= 1 /\ ss[1] = now
      BY <2>3, <1>0 DEF InLoop
    <3>2. obs < t
      BY <1>0, <1>2 DEF Times
    <3> HIDE DEF from
    <3> QED
      BY <2>4, <2>5, <2>7, <2>8, <2>9, <2>11, <3>1, <3>2 DEF InLoop
  <2> QED
    BY <2>7, <2>12 DEF b
<1> QED
  BY <1>1, <1>2

\* The whole loop.
LEMMA IntegrateKeeps ==
  ASSUME NEW now \in Times, NEW imu \in Times, NEW obs \in 0..MaxTime, NEW end \in Stamps,
         now <= obs, imu <= obs, obs <= end,
         NEW group \in Seq(Stamps), Increasing(group), \A i \in 1..Len(group) : group[i] <= end,
         NEW start, start = [imu |-> imu, now |-> now, states |-> <<now>>, steps |-> <<>>],
         NEW a, a = Integrate(start, group, obs, end)
  PROVE  InLoop(a, now, obs, end) /\ a.imu <= end
<1> DEFINE n == Len(group)
<1>0. n \in Nat /\ MaxTime \in Nat /\ \A i \in 1..n : group[i] \in Stamps
  BY SyncAssumption, ElementOfSeq, LenProperties
<1>1. PICK f : Loop(f, start, group, obs, end)
  BY <1>0, IntegrateIsLoop
<1> DEFINE After(i) == IF i = 0 THEN imu ELSE group[i]
           S == {i \in 0..n : InLoop(f[i], now, obs, end) /\ f[i].imu = After(i)}
<1>2. 0 \in S
  <2>1. f[0] = start
    BY <1>1 DEF Loop
  <2>2. <<now>> \in Seq(Times) /\ Len(<<now>>) = 1 /\ <<now>>[1] = now
    OBVIOUS
  <2>3. <<>> \in Seq(Steps) /\ Len(<<>>) = 0
    BY EmptySeq
  <2> DEFINE ss == <<now>>
             st == <<>>
  <2>4. start = [imu |-> imu, now |-> now, states |-> ss, steps |-> st]
    OBVIOUS
  <2>5. ss \in Seq(Times) /\ Len(ss) = 1 /\ ss[1] = now /\ st \in Seq(Steps) /\ Len(st) = 0
        /\ st = <<>>
    BY <2>2, <2>3
  <2> HIDE DEF ss, st
  <2>6. start \in Records /\ start.imu = imu /\ start.now = now /\ start.states = ss
        /\ start.steps = st
    BY <2>4, <2>5 DEF Records
  <2>7. now <= end
    BY <1>0 DEF Times, Stamps
  <2>8. InLoop(start, now, obs, end)
    BY <2>5, <2>6, <2>7, <1>0 DEF InLoop, Forward, Times
  <2> QED
    BY <2>1, <2>6, <2>8, <1>0
<1>3. ASSUME NEW i \in 1..n, i - 1 \in S PROVE i \in S
  <2>1. f[i] = Predict(f[i - 1], group[i], obs, end)
    BY <1>1 DEF Loop
  <2> DEFINE b == f[i - 1]
             t == group[i]
  <2>2. InLoop(b, now, obs, end) /\ b.imu = After(i - 1)
    BY <1>3
  <2>3. t \in Stamps /\ t <= end
    BY <1>0
  <2>4. b.imu <= obs \/ b.imu < t
    <3>1. CASE i = 1
      BY <3>1, <2>2
    <3>2. CASE i # 1
      <4>1. i - 1 \in 1..n /\ i - 1 < i /\ b.imu = group[i - 1]
        BY <3>2, <2>2, <1>0
      <4> QED
        BY <4>1 DEF Increasing
    <3> QED
      BY <3>1, <3>2
  <2> HIDE DEF b, t
  <2>5. InLoop(Predict(b, t, obs, end), now, obs, end) /\ Predict(b, t, obs, end).imu = t
    BY <2>2, <2>3, <2>4, PredictKeeps
  <2> QED
    BY <2>1, <2>5, <1>0 DEF b, t
<1> HIDE DEF S
<1>4. \A i \in 0..n : i \in S
  BY <1>0, <1>2, <1>3, UpTo
<1>5. n \in S
  BY <1>0, <1>4
<1>6. a = f[n]
  BY <1>1 DEF Loop
<1>7. After(n) <= end
  BY <1>0 DEF Times, Stamps
<1> QED
  BY <1>5, <1>6, <1>7 DEF S
-----------------------------------------------------------------------------
(***************************************************************************)
(* The buffers                                                             *)
(***************************************************************************)
\* The buffered samples are in the order of their stamps, also after the clock has jumped,
\* and the waiting copy is the front of the other buffer.
SyncInv == /\ SyncTypeOK
           /\ Increasing(imuBuf)
           /\ \A i \in 1..Len(imuBuf) : imuBuf[i] <= lastImu
           /\ CopyIsFront

LEMMA SyncInitInv == SyncInit => SyncInv
<1> SUFFICES ASSUME SyncInit PROVE SyncInv
  OBVIOUS
<1>1. SyncTypeOK
  <2>1. MaxTime \in Nat /\ MaxLoopBacks \in Nat
    BY SyncAssumption
  <2>2. imuBuf \in Seq(Stamps) /\ lidarBuf \in Seq(Scans) /\ imuIn \in Seq(Stamps)
    BY EmptySeq DEF SyncInit
  <2>3. meas \in [start : 0..MaxTime, end : 0..MaxTime, imu : Seq(Stamps)]
    BY <2>1, EmptySeq DEF SyncInit
  <2>4. pushed \in BOOLEAN
    BY DEF SyncInit
  <2> QED
    BY <2>1, <2>2, <2>3, <2>4 DEF SyncInit, SyncTypeOK
<1>2. Increasing(imuBuf) /\ (\A i \in 1..Len(imuBuf) : imuBuf[i] <= lastImu) /\ CopyIsFront
  BY DEF SyncInit, Increasing, CopyIsFront
<1> QED
  BY <1>1, <1>2 DEF SyncInv

LEMMA ScanStamps ==
  ASSUME NEW s \in Scans
  PROVE  /\ s.start \in Stamps /\ s.end \in Stamps /\ s.start \in Nat /\ s.end \in Nat
         /\ s.start <= s.end /\ s.start \in 0..MaxTime /\ s.end \in 0..MaxTime
BY SyncAssumption DEF Scans, Stamps

\* The scan that sync_measure works on is the front of the buffer.
LEMMA CurrentIsFront ==
  ASSUME SyncInv, HasBoth
  PROVE  /\ Head(lidarBuf) \in Scans
         /\ Current.start = Head(lidarBuf).start
         /\ Current.end = Head(lidarBuf).end
<1>1. lidarBuf \in Seq(Scans) /\ lidarBuf # <<>>
  BY DEF SyncInv, SyncTypeOK, HasBoth
<1>2. Head(lidarBuf) \in Scans
  BY <1>1, HeadTailProperties
<1>3. CASE pushed
  BY <1>3, <1>2 DEF SyncInv, CopyIsFront, Current
<1>4. CASE ~pushed
  BY <1>4, <1>2 DEF Current
<1> QED
  BY <1>2, <1>3, <1>4

\* What a successful call delivers and leaves behind, with n samples taken.
Delivered(n) ==
  /\ n \in 0..Len(imuBuf)
  /\ meas' \in [start : 0..MaxTime, end : 0..MaxTime, imu : Seq(Stamps)]
  /\ meas'.start = Head(lidarBuf).start /\ meas'.end = Head(lidarBuf).end
  /\ meas'.end \in Stamps /\ meas'.start \in Stamps /\ meas'.start <= meas'.end
  /\ lastLidar <= meas'.end /\ meas'.end <= lastImu /\ lastLidar' = meas'.end
  /\ Len(meas'.imu) = n /\ \A i \in 1..n : meas'.imu[i] = imuBuf[i]
  /\ Increasing(meas'.imu) /\ \A i \in 1..n : meas'.imu[i] <= meas'.end
  /\ imuBuf' \in Seq(Stamps) /\ Len(imuBuf') = Len(imuBuf) - n
  /\ \A i \in 1..Len(imuBuf') : imuBuf'[i] = imuBuf[i + n]
  /\ \A i \in (n + 1)..Len(imuBuf) : imuBuf[i] >= meas'.end

LEMMA EmitDelivers ==
  ASSUME SyncInv, SyncEmit
  PROVE  \E n \in Nat : Delivered(n)
<1> DEFINE e == Current.end
           n == GroupSize(imuBuf, e)
<1>1. /\ Head(lidarBuf) \in Scans
      /\ Current.start = Head(lidarBuf).start /\ Current.end = Head(lidarBuf).end
  BY CurrentIsFront DEF SyncEmit
<1>2. /\ Current.start \in Stamps /\ e \in Stamps /\ e \in Nat /\ Current.start <= e
      /\ Current.start \in 0..MaxTime /\ e \in 0..MaxTime
  BY <1>1, ScanStamps
<1>3. imuBuf \in Seq(Stamps) /\ imuBuf # <<>> /\ Increasing(imuBuf) /\ Len(imuBuf) \in Nat
  BY LenProperties DEF SyncInv, SyncTypeOK, SyncEmit, HasBoth
<1>4. Splits(imuBuf, e, n)
  BY <1>2, <1>3, GroupSplits
<1> DEFINE front == SubSeq(imuBuf, 1, n)
           rest  == SubSeq(imuBuf, n + 1, Len(imuBuf))
<1>5. meas' = [start |-> Current.start, end |-> e, imu |-> front] /\ imuBuf' = rest
  BY DEF SyncEmit
<1>6. lastLidar <= e /\ e <= lastImu /\ lastLidar' = e
  <2>1. lastLidar \in Int /\ lastImu \in Int
    BY SyncAssumption DEF SyncInv, SyncTypeOK, Stamps
  <2> QED
    BY <2>1, <1>2 DEF SyncEmit, Outdated, ImuReachesEnd
<1> HIDE DEF e, n
<1>7. n \in 0..Len(imuBuf) /\ (\A i \in 1..n : imuBuf[i] <= e)
      /\ (\A i \in (n + 1)..Len(imuBuf) : imuBuf[i] >= e)
  BY <1>4 DEF Splits
<1>8. \A i \in 1..Len(imuBuf) : imuBuf[i] \in Stamps
  BY <1>3, ElementOfSeq
<1>9. front \in Seq(Stamps) /\ Len(front) = n /\ \A i \in 1..n : front[i] = imuBuf[i]
  <2>1. \A i \in 1..n : imuBuf[i] \in Stamps
    BY <1>7, <1>8, <1>3
  <2>2. front \in Seq(Stamps) /\ Len(front) = n
    BY <2>1, <1>7, <1>3, SubSeqProperties
  <2>3. ASSUME NEW i \in 1..n PROVE front[i] = imuBuf[i]
    BY <2>1, <1>7, <1>3, SubSeqProperties
  <2> QED
    BY <2>2, <2>3
<1>10. /\ rest \in Seq(Stamps) /\ Len(rest) = Len(imuBuf) - n
       /\ \A i \in 1..Len(rest) : rest[i] = imuBuf[i + n]
  <2>1. \A i \in (n + 1)..Len(imuBuf) : imuBuf[i] \in Stamps
    BY <1>7, <1>8, <1>3
  <2>2. rest \in Seq(Stamps) /\ Len(rest) = Len(imuBuf) - n
    BY <2>1, <1>7, <1>3, SubSeqProperties
  <2>3. ASSUME NEW i \in 1..Len(rest) PROVE rest[i] = imuBuf[i + n]
    <3>1. i \in Nat /\ n \in Nat /\ i \in 1..(1 + Len(imuBuf) - (n + 1))
      BY <2>2, <1>7, <1>3
    <3>2. rest[i] = imuBuf[(n + 1) + i - 1]
      BY <2>1, <3>1, <1>7, <1>3, SubSeqProperties
    <3>3. (n + 1) + i - 1 = i + n
      BY <3>1
    <3> QED
      BY <3>2, <3>3
  <2> QED
    BY <2>2, <2>3
<1> HIDE DEF front, rest
<1>11. Increasing(front)
  BY <1>3, <1>7, <1>9 DEF Increasing
<1>12. /\ meas' \in [start : 0..MaxTime, end : 0..MaxTime, imu : Seq(Stamps)]
       /\ meas'.start = Current.start /\ meas'.end = e /\ meas'.imu = front
  BY <1>2, <1>5, <1>9 DEF e
<1>13. meas'.start = Head(lidarBuf).start /\ meas'.end = Head(lidarBuf).end
  BY <1>1, <1>12 DEF e
<1>14. n \in Nat /\ n \in 0..Len(imuBuf)
  BY <1>7, <1>3
<1>15. meas'.end \in Stamps /\ meas'.start \in Stamps /\ meas'.start <= meas'.end
  BY <1>2, <1>12 DEF e
<1>16. \A i \in 1..n : meas'.imu[i] = imuBuf[i] /\ meas'.imu[i] <= meas'.end
  BY <1>7, <1>9, <1>12
<1>17. Len(meas'.imu) = n /\ Increasing(meas'.imu)
  BY <1>9, <1>11, <1>12
<1>18. /\ imuBuf' \in Seq(Stamps) /\ Len(imuBuf') = Len(imuBuf) - n
       /\ \A i \in 1..Len(imuBuf') : imuBuf'[i] = imuBuf[i + n]
  BY <1>5, <1>10
<1>19. \A i \in (n + 1)..Len(imuBuf) : imuBuf[i] >= meas'.end
  BY <1>7, <1>12
<1>20. lastLidar <= meas'.end /\ meas'.end <= lastImu /\ lastLidar' = meas'.end
  BY <1>6, <1>12
<1>21. Delivered(n)
  BY <1>12, <1>13, <1>14, <1>15, <1>16, <1>17, <1>18, <1>19, <1>20 DEF Delivered
<1> QED
  BY <1>14, <1>21

LEMMA SyncStep == SyncInv /\ [SyncNext]_syncVars => SyncInv'
<1> SUFFICES ASSUME SyncInv, [SyncNext]_syncVars PROVE SyncInv'
  OBVIOUS
<1> USE DEF SyncInv
<1>0. /\ SyncTypeOK /\ MaxTime \in Nat /\ MaxLoopBacks \in Nat
      /\ imuBuf \in Seq(Stamps) /\ lidarBuf \in Seq(Scans) /\ imuIn \in Seq(Stamps)
      /\ Len(imuBuf) \in Nat /\ Len(lidarBuf) \in Nat /\ loopBacks \in 0..MaxLoopBacks
      /\ scanClock \in 0..MaxTime /\ pushed \in BOOLEAN
      /\ lastImu \in {-1} \cup Stamps /\ lastLidar \in {-1} \cup Stamps
      /\ meas \in [start : 0..MaxTime, end : 0..MaxTime, imu : Seq(Stamps)]
  BY SyncAssumption, LenProperties DEF SyncTypeOK
<1>i. \A i \in 1..Len(imuBuf) : imuBuf[i] \in Stamps
  BY <1>0, ElementOfSeq
<1>a. ASSUME NEW s \in Scans, lidarBuf' = Append(lidarBuf, s), scanClock' = s.end,
             loopBacks' \in 0..MaxLoopBacks,
             UNCHANGED <<imuBuf, meas, pushed, lastImu, lastLidar, imuIn>>
      PROVE  SyncInv'
  <2>1. s.end \in 0..MaxTime
    BY ScanStamps
  <2>2. lidarBuf' \in Seq(Scans)
    BY <1>a, <1>0, AppendProperties
  <2>3. pushed' \in BOOLEAN
    BY <1>a, <1>0
  <2>4. SyncTypeOK'
    BY <1>a, <1>0, <2>1, <2>2, <2>3 DEF SyncTypeOK
  <2>5. lidarBuf # <<>> => lidarBuf' # <<>> /\ Head(lidarBuf') = Head(lidarBuf)
    <3>1. SUFFICES ASSUME lidarBuf # <<>> PROVE lidarBuf' # <<>> /\ Head(lidarBuf') = Head(lidarBuf)
      OBVIOUS
    <3>2. Len(lidarBuf) >= 1 /\ Len(lidarBuf') = Len(lidarBuf) + 1 /\ lidarBuf'[1] = lidarBuf[1]
      BY <3>1, <1>a, <1>0, EmptySeq, LenProperties, AppendProperties
    <3>3. lidarBuf' # <<>>
      BY <3>2, <1>0, EmptySeq
    <3> QED
      BY <3>1, <3>2, <3>3, <2>2, <1>0, HeadTailProperties
  <2>6. CopyIsFront'
    BY <1>a, <2>5 DEF CopyIsFront
  <2> QED
    BY <1>a, <2>4, <2>6 DEF Increasing
<1>1. ASSUME NEW s \in Scans, StdMsgHandler(s) PROVE SyncInv'
  BY <1>1, <1>a, <1>0 DEF StdMsgHandler
<1>2. ASSUME NEW s \in Scans, StdMsgLoopBack(s) PROVE SyncInv'
  <2>1. loopBacks' \in 0..MaxLoopBacks
    BY <1>2, <1>0 DEF StdMsgLoopBack
  <2> QED
    BY <1>2, <1>a, <2>1 DEF StdMsgLoopBack
<1>3. ASSUME NEW t \in Stamps, ImuInOrder(t) PROVE SyncInv'
  <2>1. /\ imuBuf' \in Seq(Stamps) /\ imuIn' \in Seq(Stamps) /\ Len(imuBuf') = Len(imuBuf) + 1
        /\ imuBuf'[Len(imuBuf) + 1] = t /\ \A i \in 1..Len(imuBuf) : imuBuf'[i] = imuBuf[i]
    BY <1>3, <1>0, AppendProperties DEF ImuInOrder
  <2>2. pushed' \in BOOLEAN
    BY <1>3, <1>0 DEF ImuInOrder
  <2>3. SyncTypeOK'
    BY <1>3, <1>0, <2>1, <2>2 DEF SyncTypeOK, ImuInOrder, envVars
  <2>4. t > lastImu /\ lastImu' = t /\ lastImu \in Int /\ t \in Int
    BY <1>3, <1>0 DEF ImuInOrder, Stamps
  <2>5. ASSUME NEW i \in 1..Len(imuBuf) PROVE imuBuf[i] < t /\ imuBuf[i] \in Int
    BY <2>4, <1>i DEF Stamps
  <2>6. Increasing(imuBuf')
    <3>1. ASSUME NEW i \in 1..Len(imuBuf'), NEW j \in 1..Len(imuBuf'), i < j
          PROVE  imuBuf'[i] < imuBuf'[j]
      <4>1. i \in 1..Len(imuBuf)
        BY <3>1, <2>1, <1>0
      <4>2. CASE j \in 1..Len(imuBuf)
        BY <4>1, <4>2, <3>1, <2>1 DEF Increasing
      <4>3. CASE j = Len(imuBuf) + 1
        BY <4>1, <4>3, <2>1, <2>5
      <4> QED
        BY <4>2, <4>3, <2>1, <1>0
    <3> QED
      BY <3>1 DEF Increasing
  <2>7. ASSUME NEW i \in 1..Len(imuBuf') PROVE imuBuf'[i] <= lastImu'
    <3>1. CASE i \in 1..Len(imuBuf)
      BY <3>1, <2>1, <2>4, <2>5
    <3>2. CASE i = Len(imuBuf) + 1
      BY <3>2, <2>1, <2>4
    <3> QED
      BY <3>1, <3>2, <2>1, <1>0
  <2>8. CopyIsFront'
    BY <1>3 DEF CopyIsFront, ImuInOrder
  <2> QED
    BY <2>3, <2>6, <2>7, <2>8
<1>4. ASSUME NEW t \in Stamps, ImuLoopBack(t) PROVE SyncInv'
  <2>1. <<t>> \in Seq(Stamps) /\ Len(<<t>>) = 1 /\ <<t>>[1] = t
    OBVIOUS
  <2>2. imuBuf' = <<t>> /\ imuIn' = <<t>> /\ lastImu' = t
    BY <1>4 DEF ImuLoopBack
  <2>3. pushed' \in BOOLEAN
    BY <1>4, <1>0 DEF ImuLoopBack
  <2>4. loopBacks' \in 0..MaxLoopBacks
    BY <1>4, <1>0 DEF ImuLoopBack
  <2>5. SyncTypeOK'
    BY <1>4, <1>0, <2>1, <2>2, <2>3, <2>4 DEF SyncTypeOK, ImuLoopBack
  <2>6. Increasing(imuBuf') /\ \A i \in 1..Len(imuBuf') : imuBuf'[i] <= lastImu'
    BY <2>1, <2>2 DEF Increasing, Stamps
  <2>7. CopyIsFront'
    BY <1>4 DEF CopyIsFront, ImuLoopBack
  <2> QED
    BY <2>5, <2>6, <2>7
<1>b. ASSUME HasBoth
      PROVE  /\ Head(lidarBuf) \in Scans
             /\ Current.start = Head(lidarBuf).start /\ Current.end = Head(lidarBuf).end
             /\ Current.start \in 0..MaxTime /\ Current.end \in 0..MaxTime
             /\ Tail(lidarBuf) \in Seq(Scans)
  <2>1. /\ Head(lidarBuf) \in Scans
        /\ Current.start = Head(lidarBuf).start /\ Current.end = Head(lidarBuf).end
    BY <1>b, CurrentIsFront
  <2>2. Tail(lidarBuf) \in Seq(Scans)
    BY <1>b, <1>0, HeadTailProperties DEF HasBoth
  <2> QED
    BY <2>1, <2>2, ScanStamps
<1>c. ASSUME HasBoth,
             meas' = [meas EXCEPT !.start = Current.start, !.end = Current.end]
      PROVE  /\ meas' \in [start : 0..MaxTime, end : 0..MaxTime, imu : Seq(Stamps)]
             /\ meas'.start = Current.start /\ meas'.end = Current.end
  BY <1>b, <1>c, <1>0
<1>5. ASSUME SyncDrop PROVE SyncInv'
  <2>1. HasBoth /\ meas' = [meas EXCEPT !.start = Current.start, !.end = Current.end]
        /\ lidarBuf' = Tail(lidarBuf) /\ pushed' = FALSE
    BY <1>5 DEF SyncDrop, Release
  <2>2. meas' \in [start : 0..MaxTime, end : 0..MaxTime, imu : Seq(Stamps)]
        /\ lidarBuf' \in Seq(Scans)
    BY <2>1, <1>b, <1>c
  <2>3. SyncTypeOK'
    BY <1>5, <2>1, <2>2, <1>0 DEF SyncTypeOK, SyncDrop, envVars
  <2> QED
    BY <1>5, <2>1, <2>3 DEF SyncDrop, CopyIsFront, Increasing
<1>6. ASSUME SyncWait PROVE SyncInv'
  <2>1. HasBoth /\ meas' = [meas EXCEPT !.start = Current.start, !.end = Current.end]
        /\ lidarBuf' = lidarBuf /\ pushed' = TRUE
    BY <1>6 DEF SyncWait
  <2>2. meas' \in [start : 0..MaxTime, end : 0..MaxTime, imu : Seq(Stamps)]
        /\ meas'.start = Current.start /\ meas'.end = Current.end
    BY <2>1, <1>c
  <2>3. SyncTypeOK'
    BY <1>6, <2>1, <2>2, <1>0 DEF SyncTypeOK, SyncWait, envVars
  <2>4. CopyIsFront'
    BY <2>1, <2>2, <1>b DEF CopyIsFront, HasBoth
  <2> QED
    BY <1>6, <2>3, <2>4 DEF SyncWait, Increasing
<1>7. ASSUME SyncEmit PROVE SyncInv'
  <2>1. PICK n \in Nat : Delivered(n)
    BY <1>7, EmitDelivers
  <2>2. HasBoth /\ lidarBuf' = Tail(lidarBuf) /\ pushed' = FALSE
        /\ lastImu' = lastImu /\ UNCHANGED <<scanClock, loopBacks>> /\ imuIn' = imuIn
    BY <1>7 DEF SyncEmit, Release, envVars
  <2>3. lidarBuf' \in Seq(Scans)
    BY <2>2, <1>b
  <2>4. SyncTypeOK'
    BY <2>1, <2>2, <2>3, <1>0 DEF SyncTypeOK, Delivered
  <2>5. Increasing(imuBuf')
    <3>1. ASSUME NEW i \in 1..Len(imuBuf'), NEW j \in 1..Len(imuBuf'), i < j
          PROVE  imuBuf'[i] < imuBuf'[j]
      <4>1. i + n \in 1..Len(imuBuf) /\ j + n \in 1..Len(imuBuf) /\ i + n < j + n
        BY <3>1, <2>1, <1>0 DEF Delivered
      <4>2. imuBuf'[i] = imuBuf[i + n] /\ imuBuf'[j] = imuBuf[j + n]
        BY <2>1 DEF Delivered
      <4> QED
        BY <4>1, <4>2 DEF Increasing
    <3> QED
      BY <3>1 DEF Increasing
  <2>6. ASSUME NEW i \in 1..Len(imuBuf') PROVE imuBuf'[i] <= lastImu'
    <3>1. i + n \in 1..Len(imuBuf) /\ imuBuf'[i] = imuBuf[i + n]
      BY <2>1, <1>0 DEF Delivered
    <3> QED
      BY <3>1, <2>2
  <2> QED
    BY <2>2, <2>4, <2>5, <2>6 DEF CopyIsFront
<1>8. ASSUME UNCHANGED syncVars PROVE SyncInv'
  <2>1. pushed' \in BOOLEAN
    BY <1>8, <1>0 DEF syncVars
  <2>2. SyncTypeOK'
    BY <1>8, <2>1, <1>0 DEF SyncTypeOK, syncVars, envVars
  <2> QED
    BY <1>8, <2>2 DEF syncVars, envVars, Increasing, CopyIsFront
<1> QED
  BY <1>1, <1>2, <1>3, <1>4, <1>5, <1>6, <1>7, <1>8 DEF SyncNext

\* Every step of the node is one of the buffers or leaves them alone.
LEMMA NodeMovesBuffers == [Next]_vars => [SyncNext]_syncVars
BY DEF Next, vars, ScanArrives, ImuArrives, ImuHandler, InitialPose, Process, Ends, SyncNext

LEMMA SyncInvHolds == Spec => []SyncInv
<1>1. Init => SyncInv
  BY SyncInitInv DEF Init
<1>2. SyncInv /\ [Next]_vars => SyncInv'
  BY SyncStep, NodeMovesBuffers
<1> QED
  BY <1>1, <1>2, PTL DEF Spec

\* The copy of a scan that a waiting call of sync_measure keeps is the front of the buffer
\* when it is used, for any number of jumps of either clock and any callbacks in between.
THEOREM CopyStaysFront == Spec => []CopyIsFront
<1>1. SyncInv => CopyIsFront
  BY DEF SyncInv
<1> QED
  BY <1>1, SyncInvHolds, PTL
-----------------------------------------------------------------------------
(***************************************************************************)
(* Groups and scans while no clock jumps back                              *)
(***************************************************************************)
\* Samples and scans that wait are later than the scan used last, and a sample received is
\* still buffered unless the scan used last reached it.
NoJumpInv ==
  /\ lastLidar <= lastImu /\ lastLidar <= scanClock
  /\ \A i \in 1..Len(imuBuf) : imuBuf[i] >= lastLidar
  /\ \A i \in 1..Len(imuIn) : imuIn[i] <= lastLidar \/ \E j \in 1..Len(imuBuf) : imuBuf[j] = imuIn[i]
  /\ \A i \in 1..Len(lidarBuf) : lidarBuf[i].start > lastLidar /\ lidarBuf[i].end <= scanClock
  /\ \A i, j \in 1..Len(lidarBuf) : i < j => lidarBuf[i].end < lidarBuf[j].start

LEMMA NoJumpStep ==
  ASSUME MaxLoopBacks = 0, SyncInv, NoJumpInv, [SyncNext]_syncVars
  PROVE  NoJumpInv'
<1>0. /\ MaxTime \in Nat /\ loopBacks = 0
      /\ imuBuf \in Seq(Stamps) /\ lidarBuf \in Seq(Scans) /\ imuIn \in Seq(Stamps)
      /\ Len(imuBuf) \in Nat /\ Len(lidarBuf) \in Nat /\ Len(imuIn) \in Nat
      /\ scanClock \in 0..MaxTime
      /\ lastImu \in Int /\ lastLidar \in Int /\ scanClock \in Int
  BY SyncAssumption, LenProperties DEF SyncInv, SyncTypeOK, Stamps
<1>i. \A i \in 1..Len(imuBuf) : imuBuf[i] \in Int
  <2>1. \A i \in 1..Len(imuBuf) : imuBuf[i] \in Stamps
    BY <1>0, ElementOfSeq
  <2> QED
    BY <2>1 DEF Stamps
<1>l. \A i \in 1..Len(lidarBuf) : lidarBuf[i].start \in Nat /\ lidarBuf[i].end \in Nat
  <2>1. \A i \in 1..Len(lidarBuf) : lidarBuf[i] \in Scans
    BY <1>0, ElementOfSeq
  <2> QED
    BY <2>1, ScanStamps
<1>1. ASSUME NEW s \in Scans, StdMsgHandler(s) PROVE NoJumpInv'
  <2>1. s.start \in Nat /\ s.end \in Nat /\ s.start <= s.end
    BY ScanStamps
  <2>2. /\ Len(lidarBuf') = Len(lidarBuf) + 1 /\ lidarBuf'[Len(lidarBuf) + 1] = s
        /\ \A i \in 1..Len(lidarBuf) : lidarBuf'[i] = lidarBuf[i]
    BY <1>1, <1>0, AppendProperties DEF StdMsgHandler
  <2>3. s.start > scanClock /\ scanClock' = s.end
        /\ UNCHANGED <<imuBuf, lastImu, lastLidar, imuIn>>
    BY <1>1 DEF StdMsgHandler
  <2>4. ASSUME NEW i \in 1..Len(lidarBuf')
        PROVE  lidarBuf'[i].start > lastLidar' /\ lidarBuf'[i].end <= scanClock'
    <3>1. CASE i \in 1..Len(lidarBuf)
      <4>1. lidarBuf'[i] = lidarBuf[i] /\ lidarBuf[i].start > lastLidar
            /\ lidarBuf[i].end <= scanClock /\ lidarBuf[i].end \in Nat
        BY <3>1, <2>2, <1>l DEF NoJumpInv
      <4> QED
        BY <4>1, <2>1, <2>3, <1>0
    <3>2. CASE i = Len(lidarBuf) + 1
      BY <3>2, <2>1, <2>2, <2>3, <1>0 DEF NoJumpInv
    <3> QED
      BY <3>1, <3>2, <2>2, <1>0
  <2>5. ASSUME NEW i \in 1..Len(lidarBuf'), NEW j \in 1..Len(lidarBuf'), i < j
        PROVE  lidarBuf'[i].end < lidarBuf'[j].start
    <3>1. i \in 1..Len(lidarBuf)
      BY <2>5, <2>2, <1>0
    <3>2. CASE j \in 1..Len(lidarBuf)
      BY <3>1, <3>2, <2>5, <2>2 DEF NoJumpInv
    <3>3. CASE j = Len(lidarBuf) + 1
      BY <3>1, <3>3, <2>1, <2>2, <2>3, <1>0, <1>l, SMTT(30) DEF NoJumpInv
    <3> QED
      BY <3>2, <3>3, <2>2, <1>0
  <2>6. lastLidar' <= lastImu' /\ lastLidar' <= scanClock'
    BY <2>1, <2>3, <1>0 DEF NoJumpInv
  <2> QED
    BY <2>3, <2>4, <2>5, <2>6 DEF NoJumpInv
<1>2. ASSUME NEW s \in Scans, StdMsgLoopBack(s) PROVE NoJumpInv'
  BY <1>2, <1>0 DEF StdMsgLoopBack
<1>3. ASSUME NEW t \in Stamps, ImuInOrder(t) PROVE NoJumpInv'
  <2>1. /\ Len(imuBuf') = Len(imuBuf) + 1 /\ Len(imuIn') = Len(imuIn) + 1
        /\ imuBuf'[Len(imuBuf) + 1] = t /\ \A i \in 1..Len(imuBuf) : imuBuf'[i] = imuBuf[i]
        /\ imuIn'[Len(imuIn) + 1] = t /\ \A i \in 1..Len(imuIn) : imuIn'[i] = imuIn[i]
    BY <1>3, <1>0, AppendProperties DEF ImuInOrder
  <2>2. t > lastImu /\ lastImu' = t /\ t \in Int
        /\ UNCHANGED <<lidarBuf, lastLidar, scanClock>>
    BY <1>3 DEF ImuInOrder, Stamps, envVars
  <2>3. ASSUME NEW i \in 1..Len(imuBuf') PROVE imuBuf'[i] >= lastLidar'
    <3>1. CASE i \in 1..Len(imuBuf)
      BY <3>1, <2>1, <2>2 DEF NoJumpInv
    <3>2. CASE i = Len(imuBuf) + 1
      BY <3>2, <2>1, <2>2, <1>0 DEF NoJumpInv
    <3> QED
      BY <3>1, <3>2, <2>1, <1>0
  <2>4. ASSUME NEW i \in 1..Len(imuIn')
        PROVE  imuIn'[i] <= lastLidar' \/ \E j \in 1..Len(imuBuf') : imuBuf'[j] = imuIn'[i]
    <3>1. CASE i \in 1..Len(imuIn)
      <4>1. imuIn'[i] = imuIn[i] /\ lastLidar' = lastLidar
        BY <3>1, <2>1, <2>2
      <4>2. CASE imuIn[i] <= lastLidar
        BY <4>1, <4>2
      <4>3. CASE ~(imuIn[i] <= lastLidar)
        <5>1. PICK j \in 1..Len(imuBuf) : imuBuf[j] = imuIn[i]
          BY <4>3, <3>1 DEF NoJumpInv
        <5>2. j \in 1..Len(imuBuf') /\ imuBuf'[j] = imuIn'[i]
          BY <5>1, <4>1, <2>1, <1>0
        <5> QED
          BY <5>2
      <4> QED
        BY <4>2, <4>3
    <3>2. CASE i = Len(imuIn) + 1
      <4>1. Len(imuBuf) + 1 \in 1..Len(imuBuf') /\ imuBuf'[Len(imuBuf) + 1] = imuIn'[i]
        BY <3>2, <2>1, <1>0
      <4> QED
        BY <4>1
    <3> QED
      BY <3>1, <3>2, <2>1, <1>0
  <2>5. lastLidar' <= lastImu' /\ lastLidar' <= scanClock'
    BY <2>2, <1>0 DEF NoJumpInv
  <2> QED
    BY <2>2, <2>3, <2>4, <2>5 DEF NoJumpInv
<1>4. ASSUME NEW t \in Stamps, ImuLoopBack(t) PROVE NoJumpInv'
  BY <1>4, <1>0 DEF ImuLoopBack
<1>b. ASSUME lidarBuf # <<>>, lidarBuf' = Tail(lidarBuf)
      PROVE  /\ Len(lidarBuf') = Len(lidarBuf) - 1 /\ Len(lidarBuf) >= 1
             /\ \A i \in 1..Len(lidarBuf') :
                  i + 1 \in 1..Len(lidarBuf) /\ lidarBuf'[i] = lidarBuf[i + 1]
             /\ Head(lidarBuf) = lidarBuf[1]
  <2>1. Len(lidarBuf) >= 1 /\ Len(lidarBuf') = Len(lidarBuf) - 1 /\ Head(lidarBuf) = lidarBuf[1]
    BY <1>b, <1>0, EmptySeq, LenProperties, HeadTailProperties
  <2>2. ASSUME NEW i \in 1..Len(lidarBuf')
        PROVE  i + 1 \in 1..Len(lidarBuf) /\ lidarBuf'[i] = lidarBuf[i + 1]
    <3>1. i + 1 \in 1..Len(lidarBuf) /\ i \in 1..(Len(lidarBuf) - 1)
      BY <2>1, <1>0
    <3> QED
      BY <3>1, <1>b, <1>0, HeadTailProperties
  <2> QED
    BY <2>1, <2>2
<1>5. ASSUME SyncDrop PROVE NoJumpInv'
  <2>1. lidarBuf # <<>> /\ lidarBuf' = Tail(lidarBuf)
        /\ UNCHANGED <<imuBuf, lastImu, lastLidar, scanClock, imuIn>>
    BY <1>5 DEF SyncDrop, Release, HasBoth, envVars
  <2>2. ASSUME NEW i \in 1..Len(lidarBuf')
        PROVE  lidarBuf'[i].start > lastLidar' /\ lidarBuf'[i].end <= scanClock'
    BY <2>1, <1>b DEF NoJumpInv
  <2>3. ASSUME NEW i \in 1..Len(lidarBuf'), NEW j \in 1..Len(lidarBuf'), i < j
        PROVE  lidarBuf'[i].end < lidarBuf'[j].start
    <3>1. i + 1 \in 1..Len(lidarBuf) /\ j + 1 \in 1..Len(lidarBuf)
          /\ lidarBuf'[i] = lidarBuf[i + 1] /\ lidarBuf'[j] = lidarBuf[j + 1]
      BY <2>1, <1>b
    <3>2. i + 1 < j + 1
      BY <2>3
    <3> QED
      BY <3>1, <3>2 DEF NoJumpInv
  <2> QED
    BY <2>1, <2>2, <2>3 DEF NoJumpInv
<1>6. ASSUME SyncWait PROVE NoJumpInv'
  BY <1>6 DEF SyncWait, NoJumpInv, envVars
<1>7. ASSUME SyncEmit PROVE NoJumpInv'
  <2>1. PICK n \in Nat : Delivered(n)
    BY <1>7, EmitDelivers
  <2>2. lidarBuf # <<>> /\ lidarBuf' = Tail(lidarBuf)
        /\ lastImu' = lastImu /\ scanClock' = scanClock /\ imuIn' = imuIn
    BY <1>7 DEF SyncEmit, Release, HasBoth, envVars
  <2>3. /\ Len(lidarBuf') = Len(lidarBuf) - 1 /\ Len(lidarBuf) >= 1
        /\ \A i \in 1..Len(lidarBuf') :
             i + 1 \in 1..Len(lidarBuf) /\ lidarBuf'[i] = lidarBuf[i + 1]
        /\ Head(lidarBuf) = lidarBuf[1]
    BY <2>2, <1>b
  <2> DEFINE e == meas'.end
  <2>4. e = lidarBuf[1].end /\ lastLidar' = e /\ lastLidar <= e /\ e <= lastImu /\ e \in Int
    BY <2>1, <2>3 DEF Delivered, Stamps
  <2>5. lastLidar' <= lastImu' /\ lastLidar' <= scanClock'
    BY <2>2, <2>3, <2>4, <1>0 DEF NoJumpInv
  <2>6. n \in 0..Len(imuBuf) /\ Len(imuBuf') = Len(imuBuf) - n
        /\ \A i \in 1..Len(imuBuf') : imuBuf'[i] = imuBuf[i + n]
    BY <2>1 DEF Delivered
  <2>7. /\ \A i \in 1..n : imuBuf[i] <= e
        /\ \A i \in (n + 1)..Len(imuBuf) : imuBuf[i] >= e
    BY <2>1 DEF Delivered
  <2> HIDE DEF e
  <2>8. ASSUME NEW i \in 1..Len(imuBuf') PROVE imuBuf'[i] >= lastLidar'
    <3>1. i + n \in (n + 1)..Len(imuBuf)
      BY <2>6, <1>0
    <3> QED
      BY <3>1, <2>4, <2>6, <2>7
  <2>9. ASSUME NEW i \in 1..Len(imuIn')
        PROVE  imuIn'[i] <= lastLidar' \/ \E j \in 1..Len(imuBuf') : imuBuf'[j] = imuIn'[i]
    <3>1. imuIn'[i] = imuIn[i] /\ i \in 1..Len(imuIn) /\ imuIn[i] \in Int
      <4>1. imuIn[i] \in Stamps
        BY <2>2, <1>0, ElementOfSeq
      <4> QED
        BY <4>1, <2>2 DEF Stamps
    <3>2. CASE imuIn[i] <= lastLidar
      BY <3>1, <3>2, <2>4, <1>0
    <3>3. CASE ~(imuIn[i] <= lastLidar)
      <4>1. PICK j \in 1..Len(imuBuf) : imuBuf[j] = imuIn[i]
        BY <3>1, <3>3 DEF NoJumpInv
      <4>2. CASE j <= n
        <5>1. j \in 1..n
          BY <4>2, <2>6
        <5> QED
          BY <5>1, <4>1, <2>4, <2>7, <3>1
      <4>3. CASE ~(j <= n)
        <5>1. PICK k \in 1..Len(imuBuf') : k + n = j
          <6>1. j - n \in 1..Len(imuBuf') /\ (j - n) + n = j
            BY <4>3, <2>6, <1>0
          <6> QED
            BY <6>1
        <5>2. imuBuf'[k] = imuIn'[i]
          BY <5>1, <4>1, <3>1, <2>6
        <5> QED
          BY <5>2
      <4> QED
        BY <4>2, <4>3
    <3> QED
      BY <3>2, <3>3
  <2>10. ASSUME NEW i \in 1..Len(lidarBuf')
         PROVE  lidarBuf'[i].start > lastLidar' /\ lidarBuf'[i].end <= scanClock'
    <3>1. i + 1 \in 1..Len(lidarBuf) /\ lidarBuf'[i] = lidarBuf[i + 1] /\ 1 < i + 1
          /\ 1 \in 1..Len(lidarBuf)
      BY <2>3, <1>0
    <3>2. lidarBuf[1].end < lidarBuf[i + 1].start
      BY <3>1 DEF NoJumpInv
    <3> QED
      BY <3>1, <3>2, <2>2, <2>4, <1>l DEF NoJumpInv
  <2>11. ASSUME NEW i \in 1..Len(lidarBuf'), NEW j \in 1..Len(lidarBuf'), i < j
         PROVE  lidarBuf'[i].end < lidarBuf'[j].start
    <3>1. i + 1 \in 1..Len(lidarBuf) /\ j + 1 \in 1..Len(lidarBuf)
          /\ lidarBuf'[i] = lidarBuf[i + 1] /\ lidarBuf'[j] = lidarBuf[j + 1]
      BY <2>3
    <3>2. i + 1 < j + 1
      BY <2>11
    <3> QED
      BY <3>1, <3>2 DEF NoJumpInv
  <2> QED
    BY <2>5, <2>8, <2>9, <2>10, <2>11 DEF NoJumpInv
<1>8. ASSUME UNCHANGED syncVars PROVE NoJumpInv'
  BY <1>8 DEF syncVars, envVars, NoJumpInv
<1> QED
  BY <1>1, <1>2, <1>3, <1>4, <1>5, <1>6, <1>7, <1>8 DEF SyncNext

LEMMA NoJumpHolds ==
  ASSUME MaxLoopBacks = 0
  PROVE  Spec => [](SyncInv /\ NoJumpInv)
<1>1. Init => SyncInv /\ NoJumpInv
  BY SyncInitInv DEF Init, SyncInit, NoJumpInv
<1>2. SyncInv /\ NoJumpInv /\ [Next]_vars => (SyncInv /\ NoJumpInv)'
  BY SyncStep, NodeMovesBuffers, NoJumpStep
<1> QED
  BY <1>1, <1>2, PTL DEF Spec

\* While no clock jumps back, sync_measure hands over with each scan the samples of its time:
\* none from before the scan used last, none after the end, and every sample received between
\* the two, however callbacks and calls interleave and whatever is missing.
THEOREM GroupIsComplete ==
  ASSUME MaxLoopBacks = 0
  PROVE  Spec => GroupMatchesScan
<1> DEFINE Group == SyncEmit =>
                      LET taken == {meas'.imu[i] : i \in 1..Len(meas'.imu)}
                      IN /\ \A t \in taken : lastLidar <= t /\ t <= meas'.end
                         /\ \A i \in 1..Len(imuIn) :
                              lastLidar < imuIn[i] /\ imuIn[i] < meas'.end => imuIn[i] \in taken
<1>1. ASSUME SyncInv, NoJumpInv, SyncEmit PROVE Group
  <2>0. Len(imuBuf) \in Nat /\ imuBuf \in Seq(Stamps) /\ imuIn \in Seq(Stamps)
        /\ lastLidar \in Int
    BY <1>1, LenProperties, SyncAssumption DEF SyncInv, SyncTypeOK, Stamps
  <2>1. PICK n \in Nat : Delivered(n)
    BY <1>1, EmitDelivers
  <2>2. /\ n \in 0..Len(imuBuf) /\ Len(meas'.imu) = n
        /\ \A i \in 1..n : meas'.imu[i] = imuBuf[i] /\ meas'.imu[i] <= meas'.end
        /\ \A i \in (n + 1)..Len(imuBuf) : imuBuf[i] >= meas'.end
        /\ meas'.end \in Int
    BY <2>1 DEF Delivered, Stamps
  <2> DEFINE taken == {meas'.imu[i] : i \in 1..Len(meas'.imu)}
  <2>3. ASSUME NEW t \in taken PROVE lastLidar <= t /\ t <= meas'.end
    <3>1. PICK i \in 1..n : t = meas'.imu[i]
      BY <2>2
    <3>2. i \in 1..Len(imuBuf)
      BY <2>0, <2>2
    <3> QED
      BY <3>1, <3>2, <2>2, <1>1 DEF NoJumpInv
  <2>4. ASSUME NEW i \in 1..Len(imuIn), lastLidar < imuIn[i], imuIn[i] < meas'.end
        PROVE  imuIn[i] \in taken
    <3>1. imuIn[i] \in Int
      <4>1. imuIn[i] \in Stamps
        BY <2>0, ElementOfSeq
      <4> QED
        BY <4>1 DEF Stamps
    <3>2. PICK j \in 1..Len(imuBuf) : imuBuf[j] = imuIn[i]
      BY <3>1, <2>0, <2>4, <1>1 DEF NoJumpInv
    <3>3. ~(j \in (n + 1)..Len(imuBuf))
      BY <3>1, <3>2, <2>2, <2>4
    <3>4. j \in 1..n
      BY <3>3, <2>0, <2>2
    <3> QED
      BY <3>2, <3>4, <2>2
  <2> QED
    BY <2>3, <2>4
<1>2. SyncInv /\ NoJumpInv /\ [Next]_vars => [Group]_syncVars
  BY <1>1 DEF Group
<1> QED
  BY <1>2, NoJumpHolds, PTL DEF Spec, GroupMatchesScan
-----------------------------------------------------------------------------
(***************************************************************************)
(* The filter                                                              *)
(***************************************************************************)
RelocTypeOK == /\ node \in Nodes /\ ended \in BOOLEAN /\ loaded \in BOOLEAN /\ guess \in BOOLEAN
               /\ initFrames \in 0..InitFrames /\ guesses \in 0..MaxGuesses
               /\ collected \subseteq 0..guesses

FilterTypeOK == /\ stateFn \in {"waitKFInit", "waitMapInit", "process"}
                /\ imuCount \in Nat /\ frameNum \in 0..MapFrames /\ initDone \in BOOLEAN
                /\ imuTime \in Times /\ lastObs \in 0..MaxTime /\ curObs \in Times
                /\ curTime \in Times /\ fwdTime \in Times
                /\ states \in Seq(Times) /\ steps \in Seq(Steps)

\* The filter is never ahead of the scan fused last, nor, before it runs, of the scan used
\* last; what it has integrated for a scan ends with that scan; the counters of the two
\* initialisations stay below their limits until the limits are reached.
PhaseInv ==
  /\ stateFn = "waitKFInit" /\ node = "mapping" => imuCount < InitImu
  /\ stateFn # "process" => frameNum < MapFrames /\ steps = <<>>
  /\ stateFn = "waitMapInit" => IF node = "mapping" THEN imuTime <= lastLidar /\ curTime <= lastLidar
                                ELSE imuTime = -1 /\ curTime = -1
  /\ stateFn = "process" => imuTime <= lastObs /\ curTime <= lastObs
  /\ lastObs = 0 \/ lastObs <= lastLidar
  /\ IntervalsForward
  /\ \A i \in 1..Len(steps) : steps[i].to <= lastObs

EstInv == RelocTypeOK /\ FilterTypeOK /\ PhaseInv

LEMMA EstInitInv == Init => EstInv
<1> SUFFICES ASSUME Init PROVE EstInv
  OBVIOUS
<1>0. /\ MaxTime \in Nat /\ InitImu \in Nat \ {0} /\ MapFrames \in Nat \ {0}
      /\ InitFrames \in Nat \ {0} /\ MaxGuesses \in Nat
  BY SyncAssumption, EstimatorAssumption
<1>1. RelocTypeOK
  <2>1. ended \in BOOLEAN /\ guess \in BOOLEAN
    BY DEF Init
  <2>2. loaded \in BOOLEAN
    BY DEF Init
  <2> QED
    BY <2>1, <2>2, <1>0 DEF Init, RelocTypeOK
<1>2. FilterTypeOK
  <2>1. states \in Seq(Times) /\ steps \in Seq(Steps)
    BY EmptySeq DEF Init
  <2>2. initDone \in BOOLEAN
    BY DEF Init
  <2> QED
    BY <2>1, <2>2, <1>0 DEF Init, FilterTypeOK, Times
<1>3. PhaseInv
  BY <1>0 DEF Init, PhaseInv, IntervalsForward
<1> QED
  BY <1>1, <1>2, <1>3 DEF EstInv

\* The step of the filter in state function process, from what sync_measure delivers.
LEMMA StateProcessIntegrates ==
  ASSUME SyncInv, EstInv, SyncEmit, stateFn = "process", StateProcess
  PROVE  /\ [imu |-> imuTime', now |-> curTime', states |-> states', steps |-> steps'] \in Records
         /\ Len(states') >= 1 /\ states'[1] = curTime
         /\ curTime <= curTime' /\ curTime' <= meas'.end /\ imuTime' <= meas'.end
         /\ Forward(steps', lastObs)
         /\ steps' # <<>> => steps'[Len(steps')].to <= meas'.end
<1>1. PICK n \in Nat : Delivered(n)
  BY EmitDelivers
<1> DEFINE end   == meas'.end
           group == meas'.imu
           start == [imu |-> imuTime, now |-> curTime, states |-> FirstStates, steps |-> <<>>]
           a     == Integrate(start, group, lastObs, end)
<1>2. /\ end \in Stamps /\ group \in Seq(Stamps) /\ Increasing(group)
      /\ \A i \in 1..Len(group) : group[i] <= end
      /\ lastLidar <= end
  BY <1>1 DEF Delivered
<1>3. /\ curTime \in Times /\ imuTime \in Times /\ lastObs \in 0..MaxTime
      /\ curTime <= lastObs /\ imuTime <= lastObs
  BY DEF EstInv, FilterTypeOK, PhaseInv
<1>4. lastObs <= end
  <2>1. lastLidar \in Int /\ MaxTime \in Nat
    BY SyncAssumption DEF SyncInv, SyncTypeOK, Stamps
  <2> QED
    BY <2>1, <1>2, <1>3 DEF EstInv, PhaseInv, Stamps
<1>5. start = [imu |-> imuTime, now |-> curTime, states |-> <<curTime>>, steps |-> <<>>]
  BY DEF FirstStates
<1>6. imuTime' = a.imu /\ curTime' = a.now /\ states' = a.states /\ steps' = a.steps
  BY DEF StateProcess
<1> HIDE DEF start, a
<1>7. InLoop(a, curTime, lastObs, end) /\ a.imu <= end
  <2> HIDE DEF end, group
  <2> QED
    BY <1>2, <1>3, <1>4, <1>5, IntegrateKeeps DEF a
<1>8. a = [imu |-> a.imu, now |-> a.now, states |-> a.states, steps |-> a.steps]
  BY <1>7 DEF InLoop, Records
<1>9. [imu |-> imuTime', now |-> curTime', states |-> states', steps |-> steps'] \in Records
  BY <1>6, <1>7, <1>8 DEF InLoop
<1>10. steps' # <<>> => steps'[Len(steps')].to <= end
  BY <1>6, <1>7 DEF InLoop
<1> QED
  BY <1>6, <1>7, <1>9, <1>10 DEF InLoop

\* The intervals of a record that follow each other end no later than the last one.
LEMMA ForwardBounded ==
  ASSUME NEW s \in Seq(Steps), NEW obs \in Int, Forward(s, obs), NEW end \in Int,
         s # <<>> => s[Len(s)].to <= end
  PROVE  \A i \in 1..Len(s) : s[i].to <= end
<1> DEFINE Late == {i \in 1..Len(s) : s[i].to > end}
<1>0. Len(s) \in Nat /\ \A i \in 1..Len(s) : s[i].from \in Int /\ s[i].to \in Int
  <2>1. \A i \in 1..Len(s) : s[i] \in Steps
    BY ElementOfSeq
  <2>2. Times \subseteq Int
    BY SyncAssumption DEF Times
  <2> QED
    BY <2>1, <2>2, LenProperties DEF Steps
<1> DEFINE n == Len(s)
           S == {k \in 0..n : k < n => s[n - k].to <= end}
<1>1. 0 \in S
  <2>1. 0 < n => s # <<>>
    BY <1>0, EmptySeq
  <2> QED
    BY <2>1, <1>0
<1>2. ASSUME NEW k \in 1..n, k - 1 \in S PROVE k \in S
  <2>1. CASE k < n
    <3>1. n - k \in 1..(n - 1) /\ (n - k) + 1 = n - (k - 1) /\ n - (k - 1) \in 1..n
          /\ n - k \in 1..n
      BY <2>1, <1>0
    <3>2. s[n - (k - 1)].to <= end
      BY <1>2, <2>1, <1>0
    <3>3. s[n - k].to <= s[(n - k) + 1].from
      BY <3>1 DEF Forward
    <3>4. s[n - (k - 1)].from <= s[n - (k - 1)].to
      BY <3>1 DEF Forward
    <3>5. s[n - k].to \in Int /\ s[n - (k - 1)].from \in Int /\ s[n - (k - 1)].to \in Int
      BY <3>1, <1>0
    <3>6. s[n - k].to <= s[n - (k - 1)].from
      BY <3>1, <3>3
    <3>7. s[n - k].to <= end
      <4> DEFINE x == s[n - k].to
                 y == s[n - (k - 1)].from
                 z == s[n - (k - 1)].to
      <4>1. x <= y /\ y <= z /\ z <= end /\ x \in Int /\ y \in Int /\ z \in Int
        BY <3>2, <3>4, <3>5, <3>6
      <4> HIDE DEF x, y, z
      <4>2. x <= end
        BY <4>1
      <4> QED
        BY <4>2 DEF x
    <3> QED
      BY <3>7, <1>0
  <2>2. CASE ~(k < n)
    BY <2>2, <1>0
  <2> QED
    BY <2>1, <2>2
<1> HIDE DEF S
<1>3. \A k \in 0..n : k \in S
  BY <1>0, <1>1, <1>2, UpTo
<1>4. ASSUME NEW i \in 1..n PROVE s[i].to <= end
  <2>1. PICK k \in 0..n : k < n /\ n - k = i
    <3>1. n - i \in 0..n /\ n - i < n /\ n - (n - i) = i
      BY <1>0
    <3> QED
      BY <3>1
  <2>2. s[n - k].to <= end
    BY <1>3, <2>1 DEF S
  <2> QED
    BY <2>1, <2>2
<1> QED
  BY <1>4

LEMMA EstStep == SyncInv /\ EstInv /\ [Next]_vars => EstInv'
<1> SUFFICES ASSUME SyncInv, EstInv, [Next]_vars PROVE EstInv'
  OBVIOUS
<1>0. /\ MaxTime \in Nat /\ InitImu \in Nat \ {0} /\ MapFrames \in Nat \ {0}
      /\ InitFrames \in Nat \ {0} /\ MaxGuesses \in Nat
      /\ lastLidar \in Int /\ lastImu \in Int /\ 0..MaxTime \subseteq Times
  BY SyncAssumption, EstimatorAssumption DEF SyncInv, SyncTypeOK, Stamps, Times
<1>t. RelocTypeOK /\ FilterTypeOK /\ PhaseInv
  BY DEF EstInv
\* Steps that leave the filter alone.
<1>u. ASSUME UNCHANGED estVars, UNCHANGED lastLidar, UNCHANGED node PROVE FilterTypeOK' /\ PhaseInv'
  <2>1. initDone' \in BOOLEAN
    BY <1>u, <1>t DEF estVars, FilterTypeOK
  <2>2. FilterTypeOK'
    BY <1>u, <1>t, <2>1 DEF estVars, FilterTypeOK
  <2>3. PhaseInv'
    BY <1>u, <1>t DEF estVars, PhaseInv, IntervalsForward
  <2> QED
    BY <2>2, <2>3
<1>v. ASSUME UNCHANGED relocVars, ended' \in BOOLEAN PROVE RelocTypeOK'
  <2>1. loaded' \in BOOLEAN /\ guess' \in BOOLEAN
    BY <1>v, <1>t DEF relocVars, RelocTypeOK
  <2> QED
    BY <1>v, <1>t, <2>1 DEF relocVars, RelocTypeOK
<1>w. ASSUME UNCHANGED <<estVars, relocVars>>, UNCHANGED lastLidar, ended' \in BOOLEAN
      PROVE  EstInv'
  <2>1. UNCHANGED estVars /\ UNCHANGED relocVars /\ UNCHANGED node
    BY <1>w DEF relocVars
  <2> QED
    BY <1>u, <1>v, <1>w, <2>1 DEF EstInv
<1>e. ended \in BOOLEAN
  BY <1>t DEF RelocTypeOK
<1>1. CASE ScanArrives
  <2>1. UNCHANGED <<estVars, relocVars>> /\ UNCHANGED lastLidar /\ ended' = ended
    BY <1>1 DEF ScanArrives, StdMsgHandler, StdMsgLoopBack
  <2> QED
    BY <1>w, <1>e, <2>1
<1>2. CASE ImuArrives
  <2>1. PICK t \in Stamps : ImuHandler(t)
    BY <1>2 DEF ImuArrives
  <2>2. UNCHANGED relocVars /\ ended' = ended
    BY <1>2 DEF ImuArrives
  <2>3. CASE ImuLoopBack(t) /\ UNCHANGED estVars
    BY <2>2, <2>3, <1>w, <1>e DEF ImuLoopBack
  <2>4. CASE /\ ImuInOrder(t)
             /\ ForwardPredict(t)
             /\ UNCHANGED <<stateFn, imuCount, frameNum, initDone, imuTime, lastObs, curObs,
                            curTime, states, steps>>
    <3>1. RelocTypeOK'
      BY <1>v, <1>e, <2>2
    <3>2. fwdTime' \in Times
      BY <2>4, <1>t, <1>0 DEF ForwardPredict, FilterTypeOK, Stamps, Times
    <3>3. initDone' \in BOOLEAN
      BY <2>4, <1>t DEF FilterTypeOK
    <3>4. FilterTypeOK'
      BY <2>4, <1>t, <3>2, <3>3 DEF FilterTypeOK
    <3>5. PhaseInv'
      BY <2>2, <2>4, <1>t DEF PhaseInv, ImuInOrder, relocVars, IntervalsForward
    <3> QED
      BY <3>1, <3>4, <3>5 DEF EstInv
  <2> QED
    BY <2>1, <2>3, <2>4 DEF ImuHandler
<1>3. CASE InitialPose
  <2>1. UNCHANGED estVars /\ UNCHANGED lastLidar /\ UNCHANGED node
    BY <1>3 DEF InitialPose, syncVars
  <2>2. /\ guess' = TRUE /\ guesses' \in 0..MaxGuesses /\ guesses' = guesses + 1
        /\ UNCHANGED <<node, loaded, initFrames, collected, ended>> /\ guesses \in Nat
    BY <1>3, <1>t, <1>0 DEF InitialPose, RelocTypeOK
  <2>3. loaded' \in BOOLEAN /\ ended' \in BOOLEAN /\ guess' \in BOOLEAN
    BY <2>2, <1>t DEF RelocTypeOK
  <2>4. collected' \subseteq 0..guesses'
    BY <2>2, <1>t DEF RelocTypeOK
  <2>5. RelocTypeOK'
    BY <2>2, <2>3, <2>4, <1>t DEF RelocTypeOK
  <2> QED
    BY <1>u, <2>1, <2>5 DEF EstInv
<1>4. CASE Process
  <2>0. ended' \in BOOLEAN
    BY <1>4, <1>e DEF Process
  <2>1. ASSUME SyncDrop \/ SyncWait, UNCHANGED <<estVars, relocVars, mapVars>> PROVE EstInv'
    BY <2>1, <2>0, <1>w DEF SyncDrop, SyncWait
  <2>e. ASSUME SyncEmit
        PROVE  /\ meas'.end \in Stamps /\ meas'.end \in Times /\ meas'.end \in 0..MaxTime
               /\ meas'.imu \in Seq(Stamps) /\ Len(meas'.imu) \in Nat
               /\ \A i \in 1..Len(meas'.imu) : meas'.imu[i] <= meas'.end /\ meas'.imu[i] \in Stamps
               /\ lastLidar <= meas'.end /\ lastLidar' = meas'.end
    <3>1. PICK n \in Nat : Delivered(n)
      BY <2>e, EmitDelivers
    <3>2. meas'.imu \in Seq(Stamps) /\ meas'.end \in Stamps
      BY <3>1 DEF Delivered
    <3>3. /\ \A i \in 1..Len(meas'.imu) : meas'.imu[i] <= meas'.end
          /\ lastLidar <= meas'.end /\ lastLidar' = meas'.end
      BY <3>1 DEF Delivered
    <3>4. /\ \A i \in 1..Len(meas'.imu) : meas'.imu[i] \in Stamps
          /\ Len(meas'.imu) \in Nat
      BY <3>2, ElementOfSeq, LenProperties
    <3>5. meas'.end \in Times /\ meas'.end \in 0..MaxTime
      BY <3>2, <1>0 DEF Stamps, Times
    <3> QED
      BY <3>2, <3>3, <3>4, <3>5
  <2>2. ASSUME SyncEmit, stateFn = "waitKFInit", node = "mapping", KfInit PROVE EstInv'
    <3>1. RelocTypeOK' /\ node' = node
      BY <2>0, <2>2, <1>v DEF KfInit, relocVars
    <3>2. /\ imuCount' = imuCount + Len(meas'.imu) /\ imuCount' \in Nat
          /\ UNCHANGED <<frameNum, initDone, lastObs, curObs, fwdTime, states, steps>>
          /\ imuCount < InitImu /\ imuCount \in Nat
      BY <2>2, <2>e, <1>t DEF KfInit, FilterTypeOK, PhaseInv
    <3>3. initDone' \in BOOLEAN
      BY <3>2, <1>t DEF FilterTypeOK
    <3>4. lastObs = 0 \/ lastObs <= lastLidar'
      BY <2>2, <2>e, <1>t, <1>0 DEF PhaseInv, FilterTypeOK, Stamps
    <3>5. CASE imuCount' < InitImu
      <4>1. UNCHANGED <<stateFn, imuTime, curTime>>
        BY <2>2, <3>5 DEF KfInit
      <4>2. FilterTypeOK'
        BY <1>t, <3>2, <3>3, <4>1 DEF FilterTypeOK
      <4>3. PhaseInv'
        BY <1>t, <2>2, <3>1, <3>2, <3>4, <3>5, <4>1 DEF PhaseInv, IntervalsForward
      <4> QED
        BY <3>1, <4>2, <4>3 DEF EstInv
    <3>6. CASE ~(imuCount' < InitImu)
      <4>1. stateFn' = "waitMapInit" /\ imuTime' = meas'.imu[Len(meas'.imu)]
            /\ curTime' = meas'.imu[Len(meas'.imu)]
        BY <2>2, <3>6 DEF KfInit, Last
      <4>2. Len(meas'.imu) \in 1..Len(meas'.imu)
        BY <2>2, <2>e, <3>2, <3>6, <1>0
      <4>3. imuTime' <= lastLidar' /\ curTime' <= lastLidar' /\ imuTime' \in Stamps
            /\ curTime' \in Stamps
        BY <2>2, <2>e, <4>1, <4>2
      <4>4. imuTime' \in Times /\ curTime' \in Times
        BY <4>3, <1>0 DEF Stamps, Times
      <4>5. FilterTypeOK'
        BY <1>t, <3>2, <3>3, <4>1, <4>4 DEF FilterTypeOK
      <4>6. PhaseInv'
        BY <1>t, <2>2, <3>1, <3>2, <3>4, <4>1, <4>3 DEF PhaseInv, IntervalsForward
      <4> QED
        BY <3>1, <4>5, <4>6 DEF EstInv
    <3> QED
      BY <3>5, <3>6
  <2>3. ASSUME SyncEmit, stateFn = "waitKFInit", node = "relocation", RelocKfInit PROVE EstInv'
    <3>0. /\ UNCHANGED <<node, loaded, guesses, frameNum, initDone, lastObs, curObs, fwdTime,
                         states, steps>>
          /\ initFrames \in 0..InitFrames /\ guesses \in 0..MaxGuesses /\ imuCount \in Nat
          /\ collected \subseteq 0..guesses /\ guess \in BOOLEAN
      BY <2>3, <1>t DEF RelocKfInit, RelocTypeOK, FilterTypeOK
    <3>1. ASSUME Forget PROVE initFrames' \in 0..InitFrames /\ imuCount' \in Nat
                              /\ collected' \subseteq 0..guesses'
      BY <3>1, <1>0 DEF Forget
    <3>2. ASSUME Collect PROVE initFrames' \in 0..InitFrames /\ imuCount' \in Nat
                               /\ collected' \subseteq 0..guesses'
      <4>1. initFrames' \in 0..InitFrames
        BY <3>0, <3>2, <1>0 DEF Collect
      <4>2. imuCount' \in Nat
        BY <3>0, <3>2, <2>3, <2>e DEF Collect
      <4>3. guesses \in 0..guesses /\ guesses' = guesses
        BY <3>0, <1>0
      <4>4. collected' \subseteq 0..guesses'
        BY <3>0, <3>2, <4>3 DEF Collect
      <4> QED
        BY <4>1, <4>2, <4>4
    <3>3. initFrames' \in 0..InitFrames /\ imuCount' \in Nat /\ collected' \subseteq 0..guesses'
      BY <2>3, <3>1, <3>2 DEF RelocKfInit, RelocateAgain, CollectMore, AlignFails, Align
    <3>4. guess' \in BOOLEAN
      <4>1. guess' = guess \/ guess' = FALSE
        BY <2>3 DEF RelocKfInit, RelocateAgain, CollectMore, AlignFails, Align
      <4> QED
        BY <4>1, <3>0
    <3>5. loaded' \in BOOLEAN /\ initDone' \in BOOLEAN
      BY <3>0, <1>t DEF RelocTypeOK, FilterTypeOK
    <3>6. RelocTypeOK'
      BY <2>0, <3>0, <3>3, <3>4, <3>5, <1>t DEF RelocTypeOK
    <3>7. \/ UNCHANGED <<stateFn, imuTime, curTime>>
          \/ stateFn' = "waitMapInit" /\ imuTime' = -1 /\ curTime' = -1
      BY <2>3 DEF RelocKfInit, RelocateAgain, CollectMore, AlignFails, Align
    <3>8. FilterTypeOK'
      <4>1. imuTime' \in Times /\ curTime' \in Times
        BY <3>7, <1>t, <1>0 DEF FilterTypeOK, Times
      <4>2. stateFn' \in {"waitKFInit", "waitMapInit", "process"}
        BY <3>7, <1>t DEF FilterTypeOK
      <4> QED
        BY <4>1, <4>2, <3>0, <3>3, <3>5, <1>t DEF FilterTypeOK
    <3>9. lastObs = 0 \/ lastObs <= lastLidar'
      BY <2>3, <2>e, <1>t, <1>0 DEF PhaseInv, FilterTypeOK, Stamps
    <3>10. PhaseInv'
      BY <2>3, <3>0, <3>7, <3>9, <1>t DEF PhaseInv, IntervalsForward
    <3> QED
      BY <3>6, <3>8, <3>10 DEF EstInv
  <2>4. ASSUME SyncEmit, stateFn = "waitMapInit", node = "mapping", MapInit PROVE EstInv'
    <3>1. RelocTypeOK' /\ node' = node
      BY <2>0, <2>4, <1>v DEF MapInit, relocVars
    <3>2. /\ frameNum' = frameNum + 1 /\ frameNum \in Nat /\ frameNum' \in 0..MapFrames
          /\ lastObs' = meas'.end /\ lastObs' = lastLidar' /\ lastObs' \in 0..MaxTime
          /\ UNCHANGED <<imuCount, imuTime, curObs, curTime, fwdTime, states, steps>>
          /\ steps = <<>>
      BY <2>4, <2>e, <1>t, <1>0 DEF MapInit, FilterTypeOK, PhaseInv
    <3>3. imuTime <= lastLidar' /\ curTime <= lastLidar'
      <4>1. imuTime <= lastLidar /\ curTime <= lastLidar /\ imuTime \in Int /\ curTime \in Int
        BY <2>4, <1>t, <1>0 DEF PhaseInv, FilterTypeOK, Times
      <4>2. lastLidar <= lastLidar' /\ lastLidar' \in Int
        BY <2>4, <2>e DEF Stamps
      <4> QED
        BY <4>1, <4>2, <1>0
    <3>4. \/ stateFn' = "process" /\ initDone' = TRUE
          \/ UNCHANGED <<stateFn, initDone>> /\ frameNum' < MapFrames
      BY <2>4, <3>2, <1>0 DEF MapInit, MapComplete
    <3>5. initDone' \in BOOLEAN
      BY <3>4, <1>t DEF FilterTypeOK
    <3>6. FilterTypeOK'
      BY <3>2, <3>4, <3>5, <1>t DEF FilterTypeOK
    <3>7. PhaseInv'
      <4>1. steps' = <<>> /\ Len(steps') = 0
        BY <3>2
      <4>2. IntervalsForward' /\ \A i \in 1..Len(steps') : steps'[i].to <= lastObs'
        BY <4>1 DEF IntervalsForward
      <4> QED
        BY <2>4, <3>1, <3>2, <3>3, <3>4, <3>6, <4>1, <4>2 DEF PhaseInv, FilterTypeOK
    <3> QED
      BY <3>1, <3>6, <3>7 DEF EstInv
  <2>5. ASSUME SyncEmit, stateFn = "waitMapInit", node = "relocation", RelocMapInit PROVE EstInv'
    <3>1. RelocTypeOK' /\ node' = node
      BY <2>0, <2>5, <1>v DEF RelocMapInit, relocVars
    <3>2. /\ stateFn' = "process" /\ initDone' = TRUE
          /\ UNCHANGED <<imuCount, frameNum, imuTime, lastObs, curObs, curTime, fwdTime, states, steps>>
      BY <2>5 DEF RelocMapInit
    <3>3. FilterTypeOK'
      BY <3>2, <1>t DEF FilterTypeOK
    <3>4. lastObs = 0 \/ lastObs <= lastLidar'
      BY <2>5, <2>e, <1>t, <1>0 DEF PhaseInv, FilterTypeOK, Stamps
    <3>5. imuTime <= lastObs /\ curTime <= lastObs
      BY <2>5, <1>t, <1>0 DEF PhaseInv, FilterTypeOK
    <3>6. PhaseInv'
      BY <3>2, <3>4, <3>5, <1>t DEF PhaseInv, IntervalsForward
    <3> QED
      BY <3>1, <3>3, <3>6 DEF EstInv
  <2>6. ASSUME SyncEmit, stateFn = "process", StateProcess PROVE EstInv'
    <3>1. RelocTypeOK' /\ node' = node
      BY <2>0, <2>6, <1>v DEF StateProcess, relocVars
    <3>2. /\ [imu |-> imuTime', now |-> curTime', states |-> states', steps |-> steps'] \in Records
          /\ curTime' <= meas'.end /\ imuTime' <= meas'.end
          /\ Forward(steps', lastObs)
          /\ steps' # <<>> => steps'[Len(steps')].to <= meas'.end
      BY <2>6, StateProcessIntegrates
    <3>3. imuTime' \in Times /\ curTime' \in Times /\ states' \in Seq(Times) /\ steps' \in Seq(Steps)
      BY <3>2 DEF Records
    <3>4. /\ curObs' = meas'.end /\ fwdTime' = meas'.end /\ lastObs' = meas'.end
          /\ UNCHANGED <<stateFn, imuCount, frameNum, initDone>>
      BY <2>6 DEF StateProcess
    <3>5. initDone' \in BOOLEAN
      BY <3>4, <1>t DEF FilterTypeOK
    <3>6. FilterTypeOK'
      BY <2>6, <2>e, <3>3, <3>4, <3>5, <1>t DEF FilterTypeOK
    <3>7. \A i \in 1..Len(steps') : steps'[i].to <= meas'.end
      <4> DEFINE s == steps'
                 e == meas'.end
      <4>1. s \in Seq(Steps) /\ lastObs \in Int /\ Forward(s, lastObs) /\ e \in Int
            /\ (s # <<>> => s[Len(s)].to <= e)
        BY <2>6, <2>e, <3>2, <3>3, <1>t DEF FilterTypeOK
      <4> HIDE DEF s, e
      <4>2. \A i \in 1..Len(s) : s[i].to <= e
        BY <4>1, ForwardBounded
      <4> QED
        BY <4>2 DEF s, e
    <3>8. IntervalsForward'
      BY <3>2 DEF Forward, IntervalsForward
    <3>9. PhaseInv'
      BY <2>6, <2>e, <3>2, <3>4, <3>7, <3>8 DEF PhaseInv
    <3> QED
      BY <3>1, <3>6, <3>9 DEF EstInv
  <2> QED
    BY <1>4, <2>1, <2>2, <2>3, <2>4, <2>5, <2>6 DEF Process
<1>5. CASE Ends
  <2>1. UNCHANGED <<estVars, relocVars>> /\ UNCHANGED lastLidar /\ ended' = TRUE
    BY <1>5 DEF Ends, syncVars
  <2>2. ended' \in BOOLEAN
    BY <2>1
  <2> QED
    BY <1>w, <2>1, <2>2
<1>6. CASE UNCHANGED vars
  <2>1. UNCHANGED <<estVars, relocVars>> /\ UNCHANGED lastLidar /\ ended' = ended
    BY <1>6 DEF vars, syncVars
  <2> QED
    BY <1>w, <1>e, <2>1
<1> QED
  BY <1>1, <1>2, <1>3, <1>4, <1>5, <1>6 DEF Next

LEMMA EstInvHolds == Spec => [](SyncInv /\ EstInv)
<1>1. Init => SyncInv /\ EstInv
  BY SyncInitInv, EstInitInv DEF Init
<1>2. SyncInv /\ EstInv /\ [Next]_vars => (SyncInv /\ EstInv)'
  BY SyncStep, NodeMovesBuffers, EstStep
<1> QED
  BY <1>1, <1>2, PTL DEF Spec

\* Types of all variables, for every number of samples, scans, clock jumps and poses.
THEOREM TypeCorrect == Spec => []TypeOK
<1>1. SyncInv /\ EstInv => TypeOK
  <2> SUFFICES ASSUME SyncInv, EstInv PROVE TypeOK
    OBVIOUS
  <2>1. {ended, loaded, guess} \subseteq BOOLEAN
    BY DEF EstInv, RelocTypeOK
  <2>2. {imuTime, lastObs, curObs, curTime, fwdTime} \subseteq Times
    <3>1. 0..MaxTime \subseteq Times
      BY SyncAssumption DEF Times
    <3> QED
      BY <3>1 DEF EstInv, FilterTypeOK
  <2>3. steps \in Seq([from : Times, to : Times])
    BY DEF EstInv, FilterTypeOK, Steps
  <2> QED
    BY <2>1, <2>2, <2>3 DEF SyncInv, EstInv, RelocTypeOK, FilterTypeOK, TypeOK
<1> QED
  BY <1>1, EstInvHolds, PTL

\* Only stateProcess integrates.
LEMMA OnlyStateProcess ==
  ASSUME EstInv, [Next]_vars
  PROVE  \/ UNCHANGED steps /\ (stateFn = "process" => UNCHANGED curTime)
         \/ SyncEmit /\ stateFn = "process" /\ StateProcess
<1> DEFINE Goal == \/ UNCHANGED steps /\ (stateFn = "process" => UNCHANGED curTime)
                   \/ SyncEmit /\ stateFn = "process" /\ StateProcess
<1>1. CASE ScanArrives
  BY <1>1 DEF ScanArrives, estVars
<1>2. CASE ImuArrives
  BY <1>2 DEF ImuArrives, ImuHandler, estVars
<1>3. CASE InitialPose
  BY <1>3 DEF InitialPose, estVars
<1>4. CASE Process
  BY <1>4 DEF Process, estVars, KfInit, RelocKfInit, MapInit, RelocMapInit
<1>5. CASE Ends
  BY <1>5 DEF Ends, estVars
<1>6. CASE UNCHANGED vars
  BY <1>6 DEF vars, estVars
<1> QED
  BY <1>1, <1>2, <1>3, <1>4, <1>5, <1>6 DEF Next

\* The filter integrates no moment twice and never backwards, within a scan and from one
\* scan to the next, for any number of jumps of either clock, at any time.
THEOREM EachMomentOnce == Spec => MomentsIntegratedOnce
<1>1. EstInv => IntervalsForward
  BY DEF EstInv, PhaseInv
<1>2. SyncInv /\ EstInv /\ [Next]_vars =>
        [steps' # steps /\ steps # <<>> /\ steps' # <<>> => Last(steps).to <= steps'[1].from]_vars
  <2> SUFFICES ASSUME SyncInv, EstInv, [Next]_vars, steps' # steps, steps # <<>>, steps' # <<>>
               PROVE  Last(steps).to <= steps'[1].from
    OBVIOUS
  <2>1. SyncEmit /\ stateFn = "process" /\ StateProcess
    BY OnlyStateProcess
  <2>2. /\ [imu |-> imuTime', now |-> curTime', states |-> states', steps |-> steps'] \in Records
        /\ Forward(steps', lastObs)
    BY <2>1, StateProcessIntegrates
  <2>3. steps \in Seq(Steps) /\ steps' \in Seq(Steps)
    BY <2>2 DEF Records, EstInv, FilterTypeOK
  <2>4. Len(steps) \in 1..Len(steps) /\ 1 \in 1..Len(steps')
    BY <2>3, EmptySeq, LenProperties
  <2>5. steps[Len(steps)].to <= lastObs
    BY <2>4 DEF EstInv, PhaseInv
  <2>6. lastObs <= steps'[1].from
    BY <2>2, <2>4 DEF Forward
  <2>7. steps[Len(steps)].to \in Int /\ steps'[1].from \in Int /\ lastObs \in Int
    <3>1. steps[Len(steps)] \in Steps /\ steps'[1] \in Steps
      BY <2>3, <2>4, ElementOfSeq
    <3> QED
      BY <3>1, SyncAssumption DEF Steps, Times, EstInv, FilterTypeOK
  <2>8. steps[Len(steps)].to <= steps'[1].from
    <3> DEFINE x == steps[Len(steps)].to
               y == steps'[1].from
    <3>1. x <= lastObs /\ lastObs <= y /\ x \in Int /\ y \in Int /\ lastObs \in Int
      BY <2>5, <2>6, <2>7
    <3> HIDE DEF x, y
    <3>2. x <= y
      BY <3>1
    <3> QED
      BY <3>2 DEF x, y
  <2> QED
    BY <2>8 DEF Last
<1> QED
  BY <1>1, <1>2, EstInvHolds, PTL DEF Spec, MomentsIntegratedOnce

\* The stamp of the odometry never goes back once the filter runs, whatever the clocks do.
THEOREM OdomNeverBack == Spec => OdomTimeMonotone
<1>1. SyncInv /\ EstInv /\ [Next]_vars => [stateFn = "process" => curTime' >= curTime]_vars
  <2> SUFFICES ASSUME SyncInv, EstInv, [Next]_vars, stateFn = "process"
               PROVE  curTime' >= curTime
    OBVIOUS
  <2>1. curTime \in Int
    BY SyncAssumption DEF EstInv, FilterTypeOK, Times
  <2>2. CASE UNCHANGED curTime
    BY <2>1, <2>2
  <2>3. CASE SyncEmit /\ StateProcess
    <3>1. curTime <= curTime' /\ curTime' \in Times
      BY <2>3, StateProcessIntegrates DEF Records
    <3> QED
      BY <2>1, <3>1
  <2> QED
    BY <2>2, <2>3, OnlyStateProcess
<1> QED
  BY <1>1, EstInvHolds, PTL DEF Spec, OdomTimeMonotone

\* The relocalisation aligns only scans processed after the last pose, whenever it comes.
THEOREM PoseIsHeeded == Spec => []GuessHeeded
<1>1. Init => GuessHeeded
  BY DEF Init, GuessHeeded
<1>2. GuessHeeded /\ [Next]_vars => GuessHeeded'
  <2> SUFFICES ASSUME GuessHeeded, [Next]_vars PROVE GuessHeeded'
    OBVIOUS
  <2>1. ASSUME UNCHANGED <<guess, collected, guesses>> PROVE GuessHeeded'
    BY <2>1 DEF GuessHeeded
  <2>2. CASE InitialPose
    BY <2>2 DEF InitialPose, GuessHeeded
  <2>3. ASSUME RelocKfInit PROVE GuessHeeded'
    <3>1. guesses' = guesses
      BY <2>3 DEF RelocKfInit
    <3>2. ASSUME Forget PROVE GuessHeeded'
      BY <3>2 DEF Forget, GuessHeeded
    <3>3. ASSUME Collect, UNCHANGED guess PROVE GuessHeeded'
      BY <3>1, <3>3 DEF Collect, GuessHeeded
    <3> QED
      BY <2>3, <3>2, <3>3 DEF RelocKfInit, RelocateAgain, CollectMore, AlignFails, Align
  <2>4. CASE Process
    <3>1. RelocKfInit \/ UNCHANGED relocVars
      BY <2>4 DEF Process, KfInit, MapInit, RelocMapInit, StateProcess
    <3> QED
      BY <3>1, <2>1, <2>3 DEF relocVars
  <2>5. CASE ScanArrives \/ ImuArrives \/ Ends \/ UNCHANGED vars
    BY <2>1, <2>5 DEF ScanArrives, ImuArrives, Ends, vars, relocVars
  <2> QED
    BY <2>2, <2>4, <2>5 DEF Next
<1> QED
  BY <1>1, <1>2, PTL DEF Spec

-----------------------------------------------------------------------------
(***************************************************************************)
(* The filter while no clock jumps back                                    *)
(***************************************************************************)
\* The forward predictor starts only after the initialisation, and never falls behind.
ForwardInv == /\ initDone <=> stateFn = "process"
              /\ ~initDone => fwdTime = -1
              /\ ForwardAheadOfFused

\* While no clock jumps back, the forward predictor is never behind the fused state.
THEOREM ForwardNeverBehind ==
  ASSUME MaxLoopBacks = 0
  PROVE  Spec => []ForwardAheadOfFused
<1>1. Init => ForwardInv
  BY DEF Init, ForwardInv, ForwardAheadOfFused
<1>2. SyncInv /\ NoJumpInv /\ EstInv /\ ForwardInv /\ [Next]_vars => ForwardInv'
  <2> SUFFICES ASSUME SyncInv, NoJumpInv, EstInv, ForwardInv, [Next]_vars PROVE ForwardInv'
    OBVIOUS
  <2>0. /\ loopBacks = 0 /\ initDone \in BOOLEAN /\ MaxTime \in Nat
        /\ lastImu \in Int /\ lastLidar \in Int /\ lastObs \in Nat /\ fwdTime \in Int
        /\ lastLidar <= lastImu /\ (lastObs = 0 \/ lastObs <= lastLidar)
        /\ stateFn \in {"waitKFInit", "waitMapInit", "process"}
    BY SyncAssumption
       DEF SyncInv, SyncTypeOK, Stamps, EstInv, FilterTypeOK, PhaseInv, NoJumpInv, Times
  <2>1. ASSUME UNCHANGED <<stateFn, initDone, fwdTime, lastObs, lastImu>> PROVE ForwardInv'
    BY <2>1 DEF ForwardInv, ForwardAheadOfFused
  <2>2. CASE ImuArrives
    <3>1. PICK t \in Stamps : ImuHandler(t)
      BY <2>2 DEF ImuArrives
    <3>2. ImuInOrder(t) /\ ForwardPredict(t) /\ UNCHANGED <<stateFn, initDone, lastObs>>
      BY <3>1, <2>0 DEF ImuHandler, ImuLoopBack
    <3>3. t > lastImu /\ lastImu' = t /\ t \in Nat \ {0}
      BY <3>2, <2>0 DEF ImuInOrder, Stamps
    <3>4. lastObs <= t
      BY <3>3, <2>0
    <3>5. fwdTime' = t \/ fwdTime' = fwdTime
      BY <3>2 DEF ForwardPredict
    <3>6. ~initDone => fwdTime' = fwdTime
      BY <3>2 DEF ForwardPredict, ForwardOk
    <3>7. initDone /\ fwdTime < 0 => fwdTime' = t
      BY <3>2 DEF ForwardPredict
    <3>8. ForwardAheadOfFused'
      <4>1. SUFFICES ASSUME initDone', fwdTime' >= 0
                     PROVE  fwdTime' >= lastObs' /\ lastObs' <= lastImu'
        BY DEF ForwardAheadOfFused
      <4>2. CASE fwdTime' = t
        BY <4>2, <3>2, <3>3, <3>4, <2>0
      <4>3. CASE fwdTime' = fwdTime
        BY <4>1, <4>3, <3>2, <3>3, <3>4, <2>0 DEF ForwardInv, ForwardAheadOfFused
      <4> QED
        BY <4>2, <4>3, <3>5
    <3> QED
      BY <3>2, <3>6, <3>8 DEF ForwardInv
  <2>3. CASE Process
    <3>1. ASSUME SyncDrop \/ SyncWait, UNCHANGED estVars PROVE ForwardInv'
      BY <2>1, <3>1 DEF SyncDrop, SyncWait, estVars
    <3>2. ASSUME SyncEmit PROVE lastImu' = lastImu /\ meas'.end \in Nat /\ meas'.end <= lastImu
      <4>1. PICK n \in Nat : Delivered(n)
        BY <3>2, EmitDelivers
      <4> QED
        BY <3>2, <4>1, <2>0 DEF Delivered, SyncEmit, Stamps
    <3>3. ASSUME SyncEmit, KfInit, stateFn = "waitKFInit" PROVE ForwardInv'
      <4>1. UNCHANGED <<initDone, fwdTime, lastObs>> /\ stateFn' # "process"
        BY <3>3 DEF KfInit
      <4> QED
        BY <3>3, <4>1 DEF ForwardInv, ForwardAheadOfFused
    <3>4. ASSUME SyncEmit, RelocKfInit, stateFn = "waitKFInit" PROVE ForwardInv'
      <4>1. UNCHANGED <<initDone, fwdTime, lastObs>>
        BY <3>4 DEF RelocKfInit
      <4>2. stateFn' # "process"
        BY <3>4 DEF RelocKfInit, RelocateAgain, CollectMore, AlignFails, Align
      <4> QED
        BY <3>4, <4>1, <4>2 DEF ForwardInv, ForwardAheadOfFused
    <3>5. ASSUME SyncEmit, MapInit, stateFn = "waitMapInit" PROVE ForwardInv'
      <4>1. ~initDone /\ fwdTime = -1
        BY <3>5 DEF ForwardInv
      <4>2. fwdTime' = fwdTime
        BY <3>5 DEF MapInit
      <4>3. \/ stateFn' = "process" /\ initDone' = TRUE
            \/ UNCHANGED <<stateFn, initDone>>
        BY <3>5 DEF MapInit
      <4> QED
        BY <4>1, <4>2, <4>3 DEF ForwardInv, ForwardAheadOfFused
    <3>6. ASSUME SyncEmit, RelocMapInit, stateFn = "waitMapInit" PROVE ForwardInv'
      BY <3>6 DEF RelocMapInit, ForwardInv, ForwardAheadOfFused
    <3>7. ASSUME SyncEmit, StateProcess, stateFn = "process" PROVE ForwardInv'
      <4>1. /\ fwdTime' = meas'.end /\ lastObs' = meas'.end
            /\ UNCHANGED <<stateFn, initDone>>
        BY <3>7 DEF StateProcess
      <4> QED
        BY <3>2, <3>7, <4>1 DEF ForwardInv, ForwardAheadOfFused
    <3> QED
      BY <2>3, <3>1, <3>3, <3>4, <3>5, <3>6, <3>7 DEF Process
  <2>4. CASE ScanArrives \/ InitialPose \/ Ends \/ UNCHANGED vars
    BY <2>1, <2>4 DEF ScanArrives, StdMsgHandler, StdMsgLoopBack, InitialPose, Ends, vars,
                      syncVars, estVars
  <2> QED
    BY <2>2, <2>3, <2>4 DEF Next
<1>3. ForwardInv => ForwardAheadOfFused
  BY DEF ForwardInv
<1> QED
  BY <1>1, <1>2, <1>3, NoJumpHolds, EstInvHolds, PTL DEF Spec

\* In a list whose first time is before q and some time is not, two neighbours are around q.
LEMMA Neighbours ==
  ASSUME NEW s \in Seq(Int), NEW q \in Int, s # <<>>, s[1] < q,
         NEW j \in 1..Len(s), q <= s[j]
  PROVE  \E i \in 1..(Len(s) - 1) : s[i] < q /\ q <= s[i + 1]
<1>0. Len(s) \in Nat \ {0} /\ \A i \in 1..Len(s) : s[i] \in Int
  BY EmptySeq, LenProperties, ElementOfSeq
<1> DEFINE T == {i \in 1..Len(s) : q <= s[i]}
<1>1. PICK k \in T : \A y \in T : k <= y
  <2>1. T \in SUBSET Nat /\ j \in T
    BY <1>0
  <2> QED
    BY <2>1, LeastElement
<1>2. k \in 1..Len(s) /\ q <= s[k] /\ k # 1
  BY <1>0, <1>1
<1>3. PICK i \in 1..(Len(s) - 1) : i + 1 = k
  <2>1. k - 1 \in 1..(Len(s) - 1) /\ (k - 1) + 1 = k
    BY <1>0, <1>2
  <2> QED
    BY <2>1
<1>4. ~(i \in T) /\ i \in 1..Len(s)
  BY <1>0, <1>1, <1>2, <1>3
<1>5. s[i] < q
  BY <1>0, <1>4
<1> QED
  BY <1>2, <1>3, <1>5

\* While no clock jumps back, the undistortion finds for every point of a scan that is not
\* later than the last state two consecutive states around it.
THEOREM PointsBracketed ==
  ASSUME MaxLoopBacks = 0
  PROVE  Spec => UndistortBracketed
<1> DEFINE Bracketed == \A q \in meas'.start..meas'.end :
                          (\E j \in 1..Len(states') : q <= states'[j]) =>
                             \E i \in 1..(Len(states') - 1) : states'[i] < q /\ q <= states'[i + 1]
<1>1. ASSUME SyncInv, NoJumpInv, EstInv, Next, SyncEmit, stateFn = "process" PROVE Bracketed
  <2>0. /\ MaxTime \in Nat /\ lastLidar \in Int /\ lastObs \in Nat
        /\ (lastObs = 0 \/ lastObs <= lastLidar)
        /\ curTime \in Int /\ curTime <= lastObs
        /\ lidarBuf \in Seq(Scans) /\ Len(lidarBuf) \in Nat
    BY <1>1, SyncAssumption, LenProperties
       DEF SyncInv, SyncTypeOK, Stamps, EstInv, FilterTypeOK, PhaseInv, Times
  <2>1. StateProcess
    <3>1. Len(lidarBuf') = Len(lidarBuf) - 1
      BY <1>1, <2>0, EmptySeq, LenProperties, HeadTailProperties DEF SyncEmit, HasBoth, Release
    <3>2. ~UNCHANGED lidarBuf
      BY <3>1, <2>0
    <3>3. ASSUME NEW s \in Scans PROVE lidarBuf' # Append(lidarBuf, s)
      BY <3>1, <2>0, AppendProperties
    <3>4. ~ScanArrives
      BY <3>3 DEF ScanArrives, StdMsgHandler, StdMsgLoopBack
    <3>5. ~ImuArrives /\ ~InitialPose /\ ~Ends
      BY <3>2 DEF ImuArrives, ImuHandler, ImuInOrder, ImuLoopBack, InitialPose, Ends, syncVars
    <3>6. Process
      BY <1>1, <3>4, <3>5 DEF Next
    <3>7. ~SyncDrop /\ ~SyncWait
      BY <1>1 DEF SyncEmit, SyncDrop, SyncWait
    <3> QED
      BY <1>1, <3>6, <3>7 DEF Process
  <2>2. PICK n \in Nat : Delivered(n)
    BY <1>1, EmitDelivers
  <2>3. meas'.start \in Nat \ {0} /\ meas'.end \in Nat /\ meas'.start > lastLidar
    <3>1. lidarBuf # <<>>
      BY <1>1 DEF SyncEmit, HasBoth
    <3>2. Head(lidarBuf) = lidarBuf[1] /\ 1 \in 1..Len(lidarBuf)
      BY <3>1, <2>0, EmptySeq, LenProperties, HeadTailProperties
    <3>3. meas'.start = lidarBuf[1].start
      BY <3>2, <2>2 DEF Delivered
    <3> QED
      BY <3>2, <3>3, <2>2, <1>1 DEF Delivered, Stamps, NoJumpInv
  <2>4. curTime < meas'.start
    BY <2>0, <2>3
  <2>5. states' \in Seq(Times) /\ Len(states') >= 1 /\ states'[1] = curTime
    BY <1>1, <2>1, StateProcessIntegrates DEF Records
  <2>6. states' \in Seq(Int) /\ states' # <<>>
    <3>1. Times \subseteq Int
      BY <2>0 DEF Times
    <3>2. states' \in Seq(Int)
      BY <3>1, <2>5, SeqMonotonic
    <3> QED
      BY <3>2, <2>5, EmptySeq
  <2>7. ASSUME NEW q \in meas'.start..meas'.end, NEW j \in 1..Len(states'), q <= states'[j]
        PROVE  \E i \in 1..(Len(states') - 1) : states'[i] < q /\ q <= states'[i + 1]
    <3> DEFINE s == states'
    <3>1. s \in Seq(Int) /\ q \in Int /\ s # <<>> /\ s[1] < q /\ j \in 1..Len(s) /\ q <= s[j]
      BY <2>0, <2>3, <2>4, <2>5, <2>6, <2>7
    <3> HIDE DEF s
    <3>2. \E i \in 1..(Len(s) - 1) : s[i] < q /\ q <= s[i + 1]
      BY <3>1, Neighbours
    <3> QED
      BY <3>2 DEF s
  <2> QED
    BY <2>7
<1>2. SyncInv /\ NoJumpInv /\ EstInv /\ [Next]_vars => [SyncEmit /\ stateFn = "process" => Bracketed]_vars
  BY <1>1
<1> QED
  BY <1>2, NoJumpHolds, EstInvHolds, PTL DEF Spec, UndistortBracketed

-----------------------------------------------------------------------------
(***************************************************************************)
(* The map on disk                                                         *)
(***************************************************************************)
Clouds == Seq(Int)

\* f is the values of the merge up to the n-th cloud.
IsMerge(f, n, files) ==
  f = [i \in 1..n |-> IF i = 1 THEN files[i] ELSE f[i - 1] \o files[i]]

LEMMA MergeExists ==
  ASSUME NEW files, Len(files) \in Nat
  PROVE  \E f : IsMerge(f, Len(files), files)
<1> DEFINE S == {n \in Nat : \E f : IsMerge(f, n, files)}
<1>1. 0 \in S
  <2> DEFINE g == [i \in 1..0 |-> i]
  <2>1. g = [i \in 1..0 |-> IF i = 1 THEN files[i] ELSE g[i - 1] \o files[i]]
    OBVIOUS
  <2> QED
    BY <2>1 DEF IsMerge
<1>2. ASSUME NEW n \in 1..Len(files), n - 1 \in S PROVE n \in S
  <2>1. PICK g : IsMerge(g, n - 1, files)
    BY <1>2
  <2> DEFINE next == IF n = 1 THEN files[n] ELSE g[n - 1] \o files[n]
             h    == [i \in 1..n |-> IF i = n THEN next ELSE g[i]]
             k    == [i \in 1..n |-> IF i = 1 THEN files[i] ELSE h[i - 1] \o files[i]]
  <2>2. ASSUME NEW i \in 1..n PROVE h[i] = k[i]
    <3>1. CASE i = n
      <4>1. h[i] = next
        BY <3>1
      <4>2. n # 1 => n - 1 \in 1..n /\ n - 1 # n
        OBVIOUS
      <4>3. n # 1 => h[n - 1] = g[n - 1]
        BY <4>2
      <4>4. k[i] = IF n = 1 THEN files[n] ELSE h[n - 1] \o files[n]
        BY <3>1
      <4> QED
        BY <4>1, <4>3, <4>4
    <3>2. CASE i # n
      <4>1. i \in 1..(n - 1) /\ h[i] = g[i]
        BY <3>2
      <4>2. g[i] = IF i = 1 THEN files[i] ELSE g[i - 1] \o files[i]
        BY <2>1, <4>1 DEF IsMerge
      <4>3. i # 1 => i - 1 \in 1..n /\ i - 1 # n /\ h[i - 1] = g[i - 1]
        BY <4>1
      <4>4. k[i] = IF i = 1 THEN files[i] ELSE h[i - 1] \o files[i]
        OBVIOUS
      <4> QED
        BY <4>1, <4>2, <4>3, <4>4
    <3> QED
      BY <3>1, <3>2
  <2> HIDE DEF next
  <2>3. h = k
    BY <2>2
  <2>4. IsMerge(h, n, files)
    BY <2>3 DEF IsMerge
  <2> QED
    BY <2>4
<1> HIDE DEF S
<1>3. \A i \in 0..Len(files) : i \in S
  BY <1>1, <1>2, UpTo
<1>4. Len(files) \in S
  BY <1>3
<1> QED
  BY <1>4 DEF S

\* The values of the merge, one by one.
Merge(f, files) ==
  /\ f[1] = files[1]
  /\ \A i \in 2..Len(files) : f[i] = f[i - 1] \o files[i]
  /\ FlattenSeq(files) = f[Len(files)]

LEMMA FlattenIsMerge ==
  ASSUME NEW files \in Seq(Clouds), files # <<>>
  PROVE  \E f : Merge(f, files)
<1>0. Len(files) \in Nat \ {0}
  BY EmptySeq, LenProperties
<1> DEFINE f == CHOOSE g : g = [i \in 1..Len(files) |->
                                  IF i = 1 THEN files[i] ELSE g[i - 1] \o files[i]]
<1>1. f = [i \in 1..Len(files) |-> IF i = 1 THEN files[i] ELSE f[i - 1] \o files[i]]
  <2>1. PICK h : IsMerge(h, Len(files), files)
    BY <1>0, MergeExists
  <2>2. h = [i \in 1..Len(files) |-> IF i = 1 THEN files[i] ELSE h[i - 1] \o files[i]]
    BY <2>1 DEF IsMerge
  <2> QED
    BY <2>2, Zenon
<1>2. FlattenSeq(files) = f[Len(files)]
  BY <1>0 DEF FlattenSeq
<1> HIDE DEF f
<1>3. f[1] = files[1]
  BY <1>0, <1>1
<1>4. ASSUME NEW i \in 2..Len(files) PROVE f[i] = f[i - 1] \o files[i]
  <2>1. i \in 1..Len(files) /\ i # 1
    BY <1>0
  <2>2. f[i] = IF i = 1 THEN files[i] ELSE f[i - 1] \o files[i]
    BY <1>1, <2>1
  <2> QED
    BY <2>1, <2>2
<1> QED
  BY <1>2, <1>3, <1>4 DEF Merge

LEMMA MergedCloud ==
  ASSUME NEW files \in Seq(Clouds)
  PROVE  FlattenSeq(files) \in Clouds
<1>1. CASE files = <<>>
  <2>1. Len(files) = 0
    BY <1>1
  <2> QED
    BY <1>1, <2>1, EmptySeq DEF FlattenSeq, Clouds
<1>2. CASE files # <<>>
  <2>0. Len(files) \in Nat \ {0} /\ \A i \in 1..Len(files) : files[i] \in Clouds
    BY <1>2, EmptySeq, LenProperties, ElementOfSeq
  <2>1. PICK f : Merge(f, files)
    BY <1>2, FlattenIsMerge
  <2> DEFINE S == {i \in 0..Len(files) : i # 0 => f[i] \in Clouds}
  <2>2. 0 \in S
    BY <2>0
  <2>3. ASSUME NEW i \in 1..Len(files), i - 1 \in S PROVE i \in S
    <3>1. CASE i = 1
      <4>1. f[1] = files[1] /\ files[1] \in Clouds /\ 1 \in 0..Len(files)
        BY <2>0, <2>1 DEF Merge
      <4> QED
        BY <3>1, <4>1
    <3>2. CASE i # 1
      <4>1. i \in 2..Len(files) /\ f[i - 1] \in Clouds /\ files[i] \in Clouds
        BY <3>2, <2>3, <2>0
      <4>2. f[i] = f[i - 1] \o files[i]
        BY <4>1, <2>1 DEF Merge
      <4>3. f[i - 1] \o files[i] \in Clouds
        BY <4>1, ConcatProperties DEF Clouds
      <4>4. f[i] \in Clouds
        BY <4>2, <4>3
      <4>5. i \in 0..Len(files)
        BY <2>0
      <4> QED
        BY <4>4, <4>5
    <3> QED
      BY <3>1, <3>2
  <2> HIDE DEF S
  <2>4. \A i \in 0..Len(files) : i \in S
    BY <2>0, <2>2, <2>3, UpTo
  <2>5. f[Len(files)] \in Clouds
    BY <2>0, <2>4 DEF S
  <2> QED
    BY <2>1, <2>5 DEF Merge
<1> QED
  BY <1>1, <1>2

\* A cloud written as the next file is merged after the others.
LEMMA MergedWithNext ==
  ASSUME NEW files \in Seq(Clouds), NEW c \in Clouds
  PROVE  FlattenSeq(Append(files, c)) = FlattenSeq(files) \o c
<1> DEFINE all == Append(files, c)
           n   == Len(files)
<1>0. /\ n \in Nat /\ all \in Seq(Clouds) /\ Len(all) = n + 1 /\ all[n + 1] = c
      /\ \A i \in 1..n : all[i] = files[i]
  BY LenProperties, AppendProperties
<1> HIDE DEF all
<1>1. all # <<>>
  BY <1>0, EmptySeq
<1>2. PICK h : Merge(h, all)
  BY <1>0, <1>1, FlattenIsMerge
<1>3. CASE files = <<>>
  <2>1. n = 0
    BY <1>3
  <2>2. FlattenSeq(all) = c
    BY <1>0, <1>2, <2>1 DEF Merge
  <2>3. FlattenSeq(files) = <<>>
    BY <1>3, <2>1 DEF FlattenSeq
  <2>4. <<>> \o c = c
    BY ConcatEmptySeq DEF Clouds
  <2> QED
    BY <2>2, <2>3, <2>4 DEF all
<1>4. CASE files # <<>>
  <2>0. n \in Nat \ {0}
    BY <1>0, <1>4, EmptySeq
  <2>1. PICK f : Merge(f, files)
    BY <1>4, FlattenIsMerge
  <2> DEFINE S == {i \in 0..n : i # 0 => f[i] = h[i]}
  <2>2. 0 \in S
    BY <2>0
  <2>3. ASSUME NEW i \in 1..n, i - 1 \in S PROVE i \in S
    <3>1. CASE i = 1
      <4>1. f[1] = files[1] /\ h[1] = all[1] /\ 1 \in 1..n /\ 1 \in 0..n
        BY <2>0, <2>1, <1>2 DEF Merge
      <4>2. all[1] = files[1]
        BY <4>1, <1>0
      <4> QED
        BY <3>1, <4>1, <4>2
    <3>2. CASE i # 1
      <4>1. i \in 2..n /\ i \in 2..Len(all) /\ f[i - 1] = h[i - 1] /\ all[i] = files[i]
        BY <3>2, <2>3, <2>0, <1>0
      <4>2. f[i] = f[i - 1] \o files[i] /\ h[i] = h[i - 1] \o all[i]
        BY <4>1, <2>1, <1>2 DEF Merge
      <4>3. f[i] = h[i]
        BY <4>1, <4>2
      <4>4. i \in 0..n
        BY <2>0
      <4> QED
        BY <4>3, <4>4
    <3> QED
      BY <3>1, <3>2
  <2> HIDE DEF S
  <2>4. \A i \in 0..n : i \in S
    BY <2>0, <2>2, <2>3, UpTo
  <2>5. f[n] = h[n]
    BY <2>0, <2>4 DEF S
  <2>6. h[n + 1] = h[n] \o c
    <3>1. n + 1 \in 2..Len(all) /\ (n + 1) - 1 = n
      BY <1>0, <2>0
    <3>2. h[n + 1] = h[(n + 1) - 1] \o all[n + 1]
      BY <3>1, <1>2 DEF Merge
    <3> QED
      BY <3>1, <3>2, <1>0
  <2>7. FlattenSeq(files) = f[n] /\ FlattenSeq(all) = h[n + 1]
    BY <1>0, <1>2, <2>1 DEF Merge
  <2> QED
    BY <2>5, <2>6, <2>7 DEF all
<1> QED
  BY <1>3, <1>4

\* While the node runs: before the first scan is cached no file is this run's, and a map that
\* the relocalisation has loaded has left memory; from then on the fragments, in the order of
\* their numbers, and after them the cloud in memory are the fused scans.
MapsSoFar ==
  /\ interval \in Int \cup {Off} /\ prepared \in BOOLEAN
  /\ cloud \in Clouds /\ fused \in Clouds /\ saved \in Nat
  /\ stateFn # "process" => fused = <<>> /\ ~prepared
  /\ interval \in Int /\ interval < 0 =>
       (stateFn # "waitKFInit" \/ node = "mapping" => cloud = fused)
  /\ interval \in Int /\ interval >= 0 /\ ~prepared =>
       /\ fused = <<>> /\ saved = 0
       /\ stateFn # "waitKFInit" \/ node = "mapping" => cloud = <<>>
  /\ interval \in Int /\ interval >= 0 /\ prepared =>
       /\ fragments \in Seq(Clouds) /\ Len(fragments) = saved
       /\ fused = FlattenSeq(fragments) \o cloud

MapInv == (~ended => MapsSoFar) /\ MapIsThisRun

LEMMA CacheKeepsMaps ==
  ASSUME MapsSoFar, stateFn = "process", UNCHANGED <<stateFn, node>>,
         NEW scan \in Int, interval \in Int, CaceData(scan)
  PROVE  MapsSoFar'
<1>0. /\ prepared \in BOOLEAN /\ cloud \in Clouds /\ fused \in Clouds /\ saved \in Nat
      /\ stateFn' = "process" /\ interval' = interval
  BY DEF MapsSoFar, CaceData
<1>1. PICK empty \in BOOLEAN :
        LET c     == IF empty THEN cloud ELSE Append(cloud, scan)
            n     == IF empty THEN waitNum ELSE waitNum + 1
            files == IF prepared THEN fragments ELSE Emptied(fragments)
        IN
        /\ fused' = IF empty THEN fused ELSE Append(fused, scan)
        /\ IF interval < 0
           THEN cloud' = c /\ waitNum' = 0 /\ UNCHANGED <<prepared, fragments, saved>>
           ELSE /\ prepared' = TRUE
                /\ IF c # <<>> /\ n >= interval
                   THEN /\ fragments' = Written(files, saved + 1, c)
                        /\ saved' = saved + 1 /\ cloud' = <<>> /\ waitNum' = 0
                   ELSE fragments' = files /\ cloud' = c /\ waitNum' = n /\ UNCHANGED saved
  BY DEF CaceData
<1> DEFINE c     == IF empty THEN cloud ELSE Append(cloud, scan)
           files == IF prepared THEN fragments ELSE Emptied(fragments)
<1>2. c \in Clouds /\ fused' \in Clouds
  BY <1>0, <1>1, AppendProperties DEF Clouds
<1>3. CASE interval < 0
  <2>1. cloud' = c /\ UNCHANGED <<prepared, fragments, saved>>
    BY <1>1, <1>3
  <2>2. cloud = fused
    BY <1>3 DEF MapsSoFar
  <2>3. cloud' = fused'
    BY <1>1, <2>1, <2>2
  <2>4. prepared' \in BOOLEAN
    BY <1>0, <2>1
  <2> QED
    BY <1>0, <1>2, <1>3, <2>1, <2>3, <2>4 DEF MapsSoFar
<1>4. CASE ~(interval < 0)
  <2>1. files \in Seq(Clouds) /\ Len(files) = saved /\ fused = FlattenSeq(files) \o cloud
    <3>1. CASE prepared
      BY <3>1, <1>4 DEF MapsSoFar
    <3>2. CASE ~prepared
      <4>1. files = <<>> /\ fused = <<>> /\ cloud = <<>> /\ saved = 0
        BY <3>2, <1>4 DEF MapsSoFar, Emptied
      <4>2. FlattenSeq(<<>>) = <<>> /\ <<>> \o <<>> = <<>> /\ <<>> \in Seq(Clouds) /\ Len(<<>>) = 0
        BY EmptySeq, ConcatEmptySeq DEF FlattenSeq
      <4> QED
        BY <4>1, <4>2
    <3> QED
      BY <3>1, <3>2
  <2>2. FlattenSeq(files) \in Clouds
    BY <2>1, MergedCloud
  <2>3. fused' = FlattenSeq(files) \o c
    <3>1. CASE empty
      BY <3>1, <1>1, <2>1
    <3>2. CASE ~empty
      <4> DEFINE m == FlattenSeq(files)
      <4>1. m \in Seq(Int) /\ cloud \in Seq(Int) /\ fused = m \o cloud
        BY <1>0, <2>1, <2>2 DEF Clouds
      <4>2. fused' = Append(fused, scan) /\ c = Append(cloud, scan)
        BY <3>2, <1>1
      <4> HIDE DEF m, c
      <4>3. Append(m \o cloud, scan) = m \o Append(cloud, scan)
        <5>1. m \o cloud \in Seq(Int) /\ <<scan>> \in Seq(Int)
          BY <4>1, ConcatProperties
        <5>2. Append(m \o cloud, scan) = (m \o cloud) \o <<scan>>
          BY <5>1, AppendIsConcat
        <5>3. Append(cloud, scan) = cloud \o <<scan>>
          BY <4>1, AppendIsConcat
        <5>4. (m \o cloud) \o <<scan>> = m \o (cloud \o <<scan>>)
          BY <4>1, <5>1, ConcatAssociative
        <5> QED
          BY <5>2, <5>3, <5>4
      <4> QED
        BY <4>1, <4>2, <4>3 DEF m
    <3> QED
      BY <3>1, <3>2
  <2>4. prepared' = TRUE
    BY <1>1, <1>4
  <2>5. \/ fragments' = Written(files, saved + 1, c) /\ saved' = saved + 1 /\ cloud' = <<>>
        \/ fragments' = files /\ cloud' = c /\ saved' = saved
    BY <1>1, <1>4
  <2> HIDE DEF c, files
  <2>6. /\ fragments' \in Seq(Clouds) /\ Len(fragments') = saved' /\ saved' \in Nat
        /\ cloud' \in Clouds /\ fused' = FlattenSeq(fragments') \o cloud'
    <3>1. CASE fragments' = Written(files, saved + 1, c) /\ saved' = saved + 1 /\ cloud' = <<>>
      <4>1. fragments' = Append(files, c)
        BY <3>1, <2>1, <1>0 DEF Written
      <4>2. Append(files, c) \in Seq(Clouds) /\ Len(Append(files, c)) = saved + 1
        BY <1>2, <2>1, AppendProperties
      <4>3. FlattenSeq(Append(files, c)) = FlattenSeq(files) \o c
        BY <1>2, <2>1, MergedWithNext
      <4>4. fused' \o <<>> = fused' /\ <<>> \in Clouds
        BY <1>2, ConcatEmptySeq, EmptySeq DEF Clouds
      <4>5. FlattenSeq(fragments') = fused' /\ fused' \o cloud' = fused'
        BY <3>1, <4>1, <4>3, <4>4, <2>3
      <4>6. fragments' \in Seq(Clouds) /\ Len(fragments') = saved' /\ saved' \in Nat
        BY <3>1, <4>1, <4>2, <1>0
      <4>7. fused' = FlattenSeq(fragments') \o cloud'
        BY <4>5
      <4> QED
        BY <3>1, <4>4, <4>6, <4>7
    <3>2. CASE fragments' = files /\ cloud' = c /\ saved' = saved
      BY <3>2, <1>0, <1>2, <2>1, <2>3
    <3> QED
      BY <3>1, <3>2, <2>5
  <2> QED
    BY <1>0, <1>2, <1>4, <2>4, <2>6 DEF MapsSoFar
<1> QED
  BY <1>3, <1>4

\* When the node ends the map on disk has each fused scan of this run once, in order, and
\* nothing of an earlier run, for every interval and whatever the directory held.
THEOREM MapHasThisRun == Spec => []MapIsThisRun
<1>1. Init => MapInv
  <2> SUFFICES ASSUME Init PROVE MapInv
    OBVIOUS
  <2>1. interval \in Int \cup {Off}
    BY SaverAssumption DEF Init, MapSaverInit
  <2>2. cloud \in Clouds /\ fused \in Clouds
    BY EmptySeq DEF Init, MapSaverInit, Clouds, OldScan
  <2>3. node = "mapping" => cloud = <<>>
    BY DEF Init, MapSaverInit
  <2>4. prepared = FALSE /\ prepared \in BOOLEAN
    BY DEF Init, MapSaverInit
  <2>5. fused = <<>> /\ saved = 0 /\ stateFn = "waitKFInit" /\ ended = FALSE
    BY DEF Init, MapSaverInit
  <2> QED
    BY <2>1, <2>2, <2>3, <2>4, <2>5 DEF MapInv, MapsSoFar, MapIsThisRun
<1>2. SyncInv /\ MapInv /\ [Next]_vars => MapInv'
  <2> SUFFICES ASSUME SyncInv, MapInv, [Next]_vars PROVE MapInv'
    OBVIOUS
  <2>1. ASSUME UNCHANGED <<mapVars, ended, stateFn, node>> PROVE MapInv'
    <3>1. prepared' = prepared /\ UNCHANGED <<interval, cloud, fragments, saved, mapFile, fused>>
      BY <2>1 DEF mapVars
    <3>2. MapsSoFar <=> MapsSoFar'
      BY <2>1, <3>1 DEF MapsSoFar
    <3>3. MapIsThisRun'
      BY <2>1, <3>1 DEF MapIsThisRun, MapInv
    <3> QED
      BY <2>1, <3>2, <3>3 DEF MapInv
  <2>r. ASSUME MapsSoFar', ~ended' PROVE MapInv'
    BY <2>r DEF MapInv, MapIsThisRun
  <2>2. CASE ScanArrives \/ ImuArrives
    BY <2>1, <2>2 DEF ScanArrives, ImuArrives, ImuHandler, estVars, relocVars
  <2>3. CASE InitialPose
    BY <2>1, <2>3 DEF InitialPose, estVars
  <2>4. CASE Process
    <3>0. ~ended /\ ended' = ended /\ MapsSoFar
      <4>1. ~ended /\ ended' = ended
        BY <2>4 DEF Process
      <4> QED
        BY <4>1 DEF MapInv
    <3>1. ASSUME SyncDrop \/ SyncWait, UNCHANGED <<estVars, relocVars, mapVars>> PROVE MapInv'
      BY <2>1, <3>0, <3>1 DEF estVars, relocVars
    <3>2. ASSUME UNCHANGED <<mapVars, node>>,
                 stateFn' = stateFn \/ (stateFn' # "waitKFInit" /\ stateFn # "process"
                                        /\ (stateFn # "waitKFInit" \/ node = "mapping"))
          PROVE  MapInv'
      <4>1. prepared' = prepared /\ UNCHANGED <<interval, cloud, fragments, saved, fused>>
        BY <3>2 DEF mapVars
      <4>2. MapsSoFar'
        BY <3>0, <3>2, <4>1 DEF MapsSoFar
      <4> QED
        BY <2>r, <3>0, <4>2
    <3>3. ASSUME stateFn = "waitKFInit", node = "mapping", KfInit PROVE MapInv'
      <4>1. stateFn' = stateFn \/ stateFn' = "waitMapInit"
        BY <3>3 DEF KfInit
      <4> QED
        BY <3>2, <3>3, <4>1 DEF KfInit, relocVars
    <3>4. ASSUME stateFn = "waitKFInit", RelocKfInit PROVE MapInv'
      <4>1. node' = node
        BY <3>4 DEF RelocKfInit
      <4>2. CASE RelocateAgain \/ CollectMore \/ AlignFails
        BY <3>2, <4>1, <4>2 DEF RelocateAgain, CollectMore, AlignFails
      <4>3. CASE Align
        <5>1. /\ stateFn' = "waitMapInit" /\ cloud' = <<>> /\ prepared' = prepared
              /\ UNCHANGED <<interval, fragments, saved, fused>>
          BY <4>3 DEF Align
        <5>2. fused = <<>> /\ ~prepared
          BY <3>0, <3>4 DEF MapsSoFar
        <5>3. <<>> \in Clouds
          BY EmptySeq DEF Clouds
        <5>4. MapsSoFar'
          BY <3>0, <4>1, <5>1, <5>2, <5>3 DEF MapsSoFar
        <5> QED
          BY <2>r, <3>0, <5>4
      <4> QED
        BY <3>4, <4>2, <4>3 DEF RelocKfInit
    <3>5. ASSUME stateFn = "waitMapInit", MapInit PROVE MapInv'
      <4>1. stateFn' = stateFn \/ stateFn' = "process"
        BY <3>5 DEF MapInit
      <4> QED
        BY <3>2, <3>5, <4>1 DEF MapInit, relocVars
    <3>6. ASSUME stateFn = "waitMapInit", RelocMapInit PROVE MapInv'
      BY <3>2, <3>6 DEF RelocMapInit, relocVars
    <3>7. ASSUME SyncEmit, stateFn = "process", StateProcess PROVE MapInv'
      <4>1. UNCHANGED <<stateFn, node>> /\ Caches(meas'.end)
        BY <3>7 DEF StateProcess, relocVars
      <4>2. meas'.end \in Int
        <5>1. PICK n \in Nat : Delivered(n)
          BY <3>7, EmitDelivers
        <5> QED
          BY <5>1 DEF Delivered, Stamps
      <4>3. CASE interval = Off
        BY <3>0, <2>1, <4>1, <4>3 DEF Caches
      <4>4. CASE interval # Off
        <5>1. interval \in Int /\ CaceData(meas'.end)
          BY <3>0, <4>1, <4>4 DEF Caches, MapsSoFar
        <5> DEFINE e == meas'.end
        <5>2. e \in Int /\ CaceData(e)
          BY <4>2, <5>1
        <5> HIDE DEF e
        <5>3. MapsSoFar'
          BY <3>0, <3>7, <4>1, <5>1, <5>2, CacheKeepsMaps
        <5> QED
          BY <2>r, <3>0, <5>3
      <4> QED
        BY <4>3, <4>4
    <3> QED
      BY <2>4, <3>1, <3>3, <3>4, <3>5, <3>6, <3>7 DEF Process
  <2>5. CASE Ends
    <3>0. MapsSoFar /\ ended' = TRUE
      BY <2>5 DEF Ends, MapInv
    <3>1. ASSUME SaveMapMerged, fused # <<>> PROVE mapFile' = fused
      <4>1. interval \in Int /\ interval > 0
        BY <3>0, <3>1 DEF MapsSoFar, SaveMapMerged
      <4>2. prepared /\ fragments \in Seq(Clouds) /\ Len(fragments) = saved
            /\ fused = FlattenSeq(fragments) \o cloud /\ cloud \in Clouds /\ fused \in Clouds
            /\ saved \in Nat
        BY <3>0, <3>1, <4>1 DEF MapsSoFar
      <4>3. \A files \in Seq(Clouds) : files # Missing
        BY SaverAssumption DEF Clouds
      <4>4. fragments' \in Seq(Clouds) /\ FlattenSeq(fragments') = fused
        <5>1. CASE cloud # <<>>
          <6>1. fragments' = Written(fragments, saved + 1, cloud)
            BY <3>1, <4>2, <4>3, <5>1 DEF SaveMapMerged
          <6>2. fragments' = Append(fragments, cloud)
            BY <4>2, <6>1 DEF Written
          <6>3. Append(fragments, cloud) \in Seq(Clouds)
            BY <4>2, AppendProperties
          <6>4. FlattenSeq(Append(fragments, cloud)) = FlattenSeq(fragments) \o cloud
            BY <4>2, MergedWithNext
          <6> QED
            BY <4>2, <6>2, <6>3, <6>4
        <5>2. CASE cloud = <<>>
          <6>1. fragments' = fragments
            BY <3>1, <5>2 DEF SaveMapMerged
          <6>2. FlattenSeq(fragments) \in Seq(Int)
            BY <4>2, MergedCloud DEF Clouds
          <6>3. FlattenSeq(fragments) \o <<>> = FlattenSeq(fragments)
            BY <6>2, ConcatEmptySeq
          <6> QED
            BY <4>2, <5>2, <6>1, <6>3
        <5> QED
          BY <5>1, <5>2
      <4> QED
        BY <3>1, <4>3, <4>4 DEF SaveMapMerged, MergedMap
    <3>2. ASSUME SaveMapWhole, fused # <<>>, interval # 0 PROVE mapFile' = fused
      <4>1. interval \in Int /\ interval < 0
        BY <3>0, <3>2 DEF MapsSoFar, SaveMapWhole
      <4>2. cloud = fused
        BY <3>0, <3>2, <4>1 DEF MapsSoFar
      <4> QED
        BY <3>2, <4>2 DEF SaveMapWhole
    <3>3. fused' = fused /\ interval' = interval
      BY <2>5 DEF Ends, SaveMapMerged, SaveMapWhole
    <3>4. MapIsThisRun'
      BY <2>5, <3>1, <3>2, <3>3 DEF Ends, MapIsThisRun
    <3> QED
      BY <3>0, <3>4 DEF MapInv
  <2>6. CASE UNCHANGED vars
    BY <2>1, <2>6 DEF vars, estVars, relocVars
  <2> QED
    BY <2>2, <2>3, <2>4, <2>5, <2>6 DEF Next
<1>3. MapInv => MapIsThisRun
  BY DEF MapInv
<1> QED
  BY <1>1, <1>2, <1>3, SyncInvHolds, PTL DEF Spec
=============================================================================
