--------------------------- MODULE OctVoxMapProofs ---------------------------
(***************************************************************************)
(* Proofs about the voxel map.  Insertion, for every capacity, cloud and set *)
(* of keys: the hash and the list agree, and the map holds the voxels that   *)
(* were used last.  Search, for every map and query: a search that ends      *)
(* early has found the nearest points.                                     *)
(***************************************************************************)
EXTENDS VoxelMap, SequenceTheorems, FiniteSetTheorems, WellFoundedInduction, TLAPS

(* Sequences without repetition *)

\* The elements in front of place i.
Before(q, i) == {q[j] : j \in 1..(i - 1)}

\* A sequence without repetition has i - 1 elements in front of place i.
LEMMA BeforeCount ==
  ASSUME NEW q \in Seq(Keys), IsInjective(q), NEW i \in 1..Len(q)
  PROVE  IsFiniteSet(Before(q, i)) /\ Cardinality(Before(q, i)) = i - 1
<1> DEFINE n == i - 1
           f == [j \in 1..n |-> q[j]]
<1>1. n \in Nat /\ DOMAIN q = 1..Len(q) /\ Len(q) \in Nat
  OBVIOUS
<1>2. \A j \in 1..n : j \in 1..Len(q)
  BY <1>1
<1>3. f \in [1..n -> Before(q, i)]
  BY DEF Before
<1>4. ASSUME NEW a \in 1..n, NEW b \in 1..n, f[a] = f[b] PROVE a = b
  BY <1>1, <1>2, <1>4 DEF IsInjective
<1>5. \A x \in Before(q, i) : \E j \in 1..n : f[j] = x
  BY DEF Before
<1>6. f \in Bijection(1..n, Before(q, i))
  BY <1>3, <1>4, <1>5 DEF Bijection, Injection, Surjection, IsInjective
<1>7. ExistsBijection(1..n, Before(q, i))
  BY <1>6 DEF ExistsBijection
<1> HIDE DEF n, f
<1>8. IsFiniteSet(Before(q, i)) /\ Cardinality(Before(q, i)) = n
  BY <1>1, <1>7, FS_NatBijection, FS_CountingElements
<1> QED
  BY <1>8 DEF n

\* What lies where after an element was put at the front.
LEMMA PutFirst ==
  ASSUME NEW q \in Seq(Keys), NEW k \in Keys
  PROVE  /\ <<k>> \o q \in Seq(Keys) /\ Len(<<k>> \o q) = Len(q) + 1
         /\ (<<k>> \o q)[1] = k
         /\ \A i \in 2..(Len(q) + 1) : (<<k>> \o q)[i] = q[i - 1]
<1>1. <<k>> \in Seq(Keys) /\ Len(<<k>>) = 1 /\ <<k>>[1] = k /\ Len(q) \in Nat
  OBVIOUS
<1>2. /\ <<k>> \o q \in Seq(Keys) /\ Len(<<k>> \o q) = 1 + Len(q)
      /\ \A i \in 1..(1 + Len(q)) : (<<k>> \o q)[i] = IF i <= 1 THEN <<k>>[i] ELSE q[i - 1]
  <2> DEFINE s == <<k>>
  <2> HIDE DEF s
  <2>1. /\ s \o q \in Seq(Keys) /\ Len(s \o q) = Len(s) + Len(q)
        /\ \A i \in 1..(Len(s) + Len(q)) : (s \o q)[i] = IF i <= Len(s) THEN s[i] ELSE q[i - Len(s)]
    BY <1>1, ConcatProperties DEF s
  <2> QED
    BY <1>1, <2>1 DEF s
<1> QED
  BY <1>1, <1>2

\* What lies where after the element at place i has moved to the front.
LEMMA MoveFirst ==
  ASSUME NEW q \in Seq(Keys), IsInjective(q), NEW i \in 1..Len(q)
  PROVE  /\ ToFront(q, q[i]) \in Seq(Keys) /\ Len(ToFront(q, q[i])) = Len(q)
         /\ ToFront(q, q[i])[1] = q[i]
         /\ \A j \in 2..i : ToFront(q, q[i])[j] = q[j - 1]
         /\ \A j \in (i + 1)..Len(q) : ToFront(q, q[i])[j] = q[j]
<1>1. Len(q) \in Nat /\ DOMAIN q = 1..Len(q) /\ \A j \in 1..Len(q) : q[j] \in Keys
  OBVIOUS
<1>2. (CHOOSE j \in 1..Len(q) : q[j] = q[i]) = i
  BY <1>1 DEF IsInjective
<1> DEFINE left == SubSeq(q, 1, i - 1)
           right == SubSeq(q, i + 1, Len(q))
           rest == left \o right
<1>3. /\ left \in Seq(Keys) /\ Len(left) = i - 1
      /\ \A j \in 1..(i - 1) : left[j] = q[j]
  <2>1. 1 \in Int /\ i - 1 \in Int /\ \A j \in 1..(i - 1) : q[j] \in Keys
    BY <1>1
  <2>2. /\ left \in Seq(Keys)
        /\ Len(left) = IF 1 <= i - 1 THEN (i - 1) - 1 + 1 ELSE 0
        /\ \A j \in 1..((i - 1) - 1 + 1) : left[j] = q[1 + j - 1]
    BY <2>1, SubSeqProperties
  <2> HIDE DEF left
  <2> QED
    BY <1>1, <2>2
<1>4. /\ right \in Seq(Keys) /\ Len(right) = Len(q) - i
      /\ \A j \in 1..(Len(q) - i) : right[j] = q[i + j]
  <2>1. i + 1 \in Int /\ Len(q) \in Int /\ \A j \in (i + 1)..Len(q) : q[j] \in Keys
    BY <1>1
  <2>2. /\ right \in Seq(Keys)
        /\ Len(right) = IF i + 1 <= Len(q) THEN Len(q) - (i + 1) + 1 ELSE 0
        /\ \A j \in 1..(Len(q) - (i + 1) + 1) : right[j] = q[(i + 1) + j - 1]
    BY <2>1, SubSeqProperties
  <2> HIDE DEF right
  <2>3. ASSUME NEW j \in 1..(Len(q) - i) PROVE right[j] = q[i + j]
    <3>1. j \in 1..(Len(q) - (i + 1) + 1) /\ (i + 1) + j - 1 = i + j
      BY <1>1
    <3> QED
      BY <2>2, <3>1
  <2> QED
    BY <1>1, <2>2, <2>3
<1> HIDE DEF left, right
<1>5. /\ rest \in Seq(Keys) /\ Len(rest) = Len(q) - 1
      /\ \A j \in 1..(i - 1) : rest[j] = q[j]
      /\ \A j \in i..(Len(q) - 1) : rest[j] = q[j + 1]
  <2>1. /\ rest \in Seq(Keys) /\ Len(rest) = Len(left) + Len(right)
        /\ \A j \in 1..(Len(left) + Len(right)) :
             rest[j] = IF j <= Len(left) THEN left[j] ELSE right[j - Len(left)]
    BY <1>3, <1>4, ConcatProperties
  <2> HIDE DEF rest
  <2>2. ASSUME NEW j \in 1..(i - 1) PROVE rest[j] = q[j]
    <3>1. j \in 1..(Len(left) + Len(right)) /\ j <= Len(left)
      BY <1>1, <1>3, <1>4
    <3> QED
      BY <1>3, <2>1, <3>1
  <2>3. ASSUME NEW j \in i..(Len(q) - 1) PROVE rest[j] = q[j + 1]
    <3>1. /\ j \in 1..(Len(left) + Len(right)) /\ ~(j <= Len(left))
          /\ j - Len(left) \in 1..(Len(q) - i) /\ i + (j - Len(left)) = j + 1
      BY <1>1, <1>3, <1>4
    <3> QED
      BY <1>4, <2>1, <3>1
  <2> QED
    BY <1>1, <1>3, <1>4, <2>1, <2>2, <2>3
<1> DEFINE moved == <<q[i]>> \o rest
<1>6. ToFront(q, q[i]) = moved
  BY <1>2 DEF ToFront, RemoveAt, left, right
<1>7. q[i] \in Keys
  BY <1>1
<1> HIDE DEF rest
<1>8. /\ moved \in Seq(Keys) /\ Len(moved) = Len(rest) + 1
      /\ moved[1] = q[i]
      /\ \A j \in 2..(Len(rest) + 1) : moved[j] = rest[j - 1]
  BY <1>5, <1>7, PutFirst
<1> HIDE DEF moved
<1>9. /\ Len(rest) + 1 = Len(q) /\ Len(moved) = Len(q)
      /\ \A j \in 2..Len(q) : moved[j] = rest[j - 1]
  BY <1>1, <1>5, <1>8
<1>10. ASSUME NEW j \in 2..i PROVE moved[j] = q[j - 1]
  <2>1. j \in 2..Len(q) /\ j - 1 \in 1..(i - 1)
    BY <1>1
  <2> QED
    BY <1>5, <1>9, <2>1
<1>11. ASSUME NEW j \in (i + 1)..Len(q) PROVE moved[j] = q[j]
  <2>1. j \in 2..Len(q) /\ j - 1 \in i..(Len(q) - 1) /\ (j - 1) + 1 = j
    BY <1>1
  <2> QED
    BY <1>5, <1>9, <2>1
<1> QED
  BY <1>6, <1>8, <1>9, <1>10, <1>11
-----------------------------------------------------------------------------
(* The uses of a voxel *)

\* k was used last at place i of the history s.
LastUsedAt(s, k, i) == /\ i \in 1..Len(s)
                       /\ s[i] = k
                       /\ \A j \in (i + 1)..Len(s) : s[j] # k

\* UsedSince, of any history.
UsedIn(s, k) == LET last == CHOOSE i \in 1..Len(s) : s[i] = k /\ \A j \in (i + 1)..Len(s) : s[j] # k
                IN {s[j] : j \in (last + 1)..Len(s)}

LEMMA UsedSinceIsUsedIn == \A k : UsedSince(k) = UsedIn(touched, k)
BY DEF UsedSince, LastUse, UsedIn

LEMMA UsedFromPlace ==
  ASSUME NEW s \in Seq(Keys), NEW k, NEW i, LastUsedAt(s, k, i)
  PROVE  UsedIn(s, k) = {s[j] : j \in (i + 1)..Len(s)}
<1> DEFINE P(n) == s[n] = k /\ \A j \in (n + 1)..Len(s) : s[j] # k
           last == CHOOSE n \in 1..Len(s) : P(n)
<1>1. Len(s) \in Nat /\ i \in 1..Len(s) /\ P(i)
  BY DEF LastUsedAt
<1>2. last \in 1..Len(s) /\ P(last)
  <2> HIDE DEF P
  <2> QED
    BY <1>1
<1> HIDE DEF last
<1>3. last = i
  <2>1. ~(last < i) /\ ~(i < last)
    BY <1>1, <1>2
  <2> QED
    BY <1>1, <1>2, <2>1
<1> QED
  BY <1>3 DEF UsedIn, last

\* A use of k: nothing is used after k ...
LEMMA UsedAfterUse ==
  ASSUME NEW s \in Seq(Keys), NEW k \in Keys, NEW t, t = Append(s, k)
  PROVE  /\ t \in Seq(Keys) /\ ToSet(t) = ToSet(s) \cup {k}
         /\ LastUsedAt(t, k, Len(t)) /\ UsedIn(t, k) = {}
<1>1. /\ Len(s) \in Nat /\ t \in Seq(Keys) /\ Len(t) = Len(s) + 1 /\ t[Len(s) + 1] = k
      /\ \A i \in 1..Len(s) : t[i] = s[i]
  BY AppendProperties
<1>2. DOMAIN s = 1..Len(s) /\ DOMAIN t = 1..(Len(s) + 1)
  BY <1>1
<1>3. ToSet(t) = ToSet(s) \cup {k}
  <2>1. \A x \in ToSet(t) : x \in ToSet(s) \cup {k}
    BY <1>1, <1>2 DEF ToSet
  <2>2. \A x \in ToSet(s) \cup {k} : x \in ToSet(t)
    BY <1>1, <1>2 DEF ToSet
  <2> QED
    BY <2>1, <2>2
<1>4. LastUsedAt(t, k, Len(t))
  BY <1>1 DEF LastUsedAt
<1>5. UsedIn(t, k) = {}
  <2>1. UsedIn(t, k) = {t[j] : j \in (Len(t) + 1)..Len(t)}
    BY <1>1, <1>4, UsedFromPlace
  <2>2. (Len(t) + 1)..Len(t) = {}
    BY <1>1
  <2> QED
    BY <2>1, <2>2
<1> QED
  BY <1>1, <1>3, <1>4, <1>5

\* ... and k is used after every other key.
UsedToo(s, t, k, m) == UsedIn(t, m) = UsedIn(s, m) \cup {k}

LEMMA OthersAfterUse ==
  ASSUME NEW s \in Seq(Keys), NEW k \in Keys, NEW t, NEW m \in Keys, NEW i \in 1..Len(s),
         t = Append(s, k), m # k, LastUsedAt(s, m, i)
  PROVE  LastUsedAt(t, m, i) /\ UsedToo(s, t, k, m)
<1>1. /\ Len(s) \in Nat /\ t \in Seq(Keys) /\ Len(t) = Len(s) + 1 /\ t[Len(s) + 1] = k
      /\ \A p \in 1..Len(s) : t[p] = s[p]
  BY AppendProperties
<1>2. i \in 1..Len(s) /\ i \in 1..Len(t) /\ t[i] = m
  BY <1>1 DEF LastUsedAt
<1>3. ASSUME NEW j \in (i + 1)..Len(t) PROVE t[j] # m
  <2>1. CASE j \in (i + 1)..Len(s)
    BY <1>1, <1>2, <2>1 DEF LastUsedAt
  <2>2. CASE j = Len(s) + 1
    BY <1>1, <2>2
  <2> QED
    BY <1>1, <1>2, <2>1, <2>2
<1>4. LastUsedAt(t, m, i)
  BY <1>2, <1>3 DEF LastUsedAt
<1>5. /\ UsedIn(t, m) = {t[j] : j \in (i + 1)..Len(t)}
      /\ UsedIn(s, m) = {s[j] : j \in (i + 1)..Len(s)}
  BY <1>1, <1>4, UsedFromPlace
<1>6. /\ (i + 1)..Len(t) = ((i + 1)..Len(s)) \cup {Len(s) + 1}
      /\ \A j \in (i + 1)..Len(s) : t[j] = s[j]
  BY <1>1, <1>2
<1>7. {t[j] : j \in (i + 1)..Len(t)} = {s[j] : j \in (i + 1)..Len(s)} \cup {k}
  <2> DEFINE new == (i + 1)..Len(t)
             old == (i + 1)..Len(s)
  <2>1. new = old \cup {Len(s) + 1} /\ (\A j \in old : t[j] = s[j]) /\ t[Len(s) + 1] = k
    BY <1>1, <1>6
  <2> HIDE DEF new, old
  <2>2. {t[j] : j \in new} = {s[j] : j \in old} \cup {k}
    BY <2>1
  <2> QED
    BY <2>2 DEF new, old
<1> QED
  BY <1>4, <1>5, <1>7 DEF UsedToo
-----------------------------------------------------------------------------
(* The inductive invariant *)

\* The list is ordered by last use: in front of a voxel are those used after it.
Ordered(q, s) == \A i \in 1..Len(q) : q[i] \in ToSet(s) /\ UsedIn(s, q[i]) = Before(q, i)

HasLastUse(s) == \A k \in ToSet(s) : \E i \in 1..Len(s) : LastUsedAt(s, k, i)

\* A voxel that was thrown out has as many voxels used after it as the map holds.
ThrownOutLate(g, s) == \A k \in ToSet(s) \ g : /\ IsFiniteSet(UsedIn(s, k))
                                               /\ Cardinality(UsedIn(s, k)) >= Capacity - 1

MapInv == /\ GridMatchesList
          /\ Len(data) < Capacity
          /\ Ordered(data, touched)
          /\ HasLastUse(touched)
          /\ ThrownOutLate(grids, touched)

\* The elements of a sequence, and what an injective one is.
LEMMA SequenceElements ==
  ASSUME NEW q \in Seq(Keys)
  PROVE  /\ Len(q) \in Nat /\ DOMAIN q = 1..Len(q)
         /\ \A i \in 1..Len(q) : q[i] \in Keys /\ q[i] \in ToSet(q)
         /\ \A k \in ToSet(q) : \E i \in 1..Len(q) : q[i] = k
  BY DEF ToSet

\* After a use of k, the keys used after the one at place i of the list are those in
\* front of it, and k.
AndKey(q, s, i, k) == UsedIn(Append(s, k), q[i]) = Before(q, i) \cup {k}

LEMMA UseInOrder ==
  ASSUME NEW q \in Seq(Keys), NEW s \in Seq(Keys), NEW k \in Keys, NEW i \in 1..Len(q),
         Ordered(q, s), HasLastUse(s), q[i] # k
  PROVE  AndKey(q, s, i, k)
<1> DEFINE m == q[i]
           t == Append(s, k)
<1>1. m \in Keys /\ m # k /\ m \in ToSet(s) /\ UsedIn(s, m) = Before(q, i)
  BY SequenceElements DEF Ordered
<1>2. t = Append(s, k)
  OBVIOUS
<1> HIDE DEF m, t
<1>3. PICK place \in 1..Len(s) : LastUsedAt(s, m, place)
  BY <1>1 DEF HasLastUse
<1>4. UsedToo(s, t, k, m)
  BY Zenon, <1>1, <1>2, <1>3, OthersAfterUse
<1> QED
  BY <1>1, <1>4 DEF UsedToo, AndKey, m, t

\* The elements in front of place i when k was put at the front of those before it.
Shifted(q, r, i, k) == Before(r, i) = Before(q, i - 1) \cup {k}

LEMMA BeforeShifted ==
  ASSUME NEW q \in Seq(Keys), NEW r \in Seq(Keys), NEW k \in Keys, NEW i \in Nat \ {0, 1},
         r[1] = k, \A j \in 2..(i - 1) : r[j] = q[j - 1]
  PROVE  Shifted(q, r, i, k)
<1>1. ASSUME NEW x \in Before(r, i) PROVE x \in Before(q, i - 1) \cup {k}
  <2>1. PICK j \in 1..(i - 1) : r[j] = x
    BY <1>1 DEF Before
  <2>2. j = 1 \/ (j \in 2..(i - 1) /\ j - 1 \in 1..((i - 1) - 1))
    OBVIOUS
  <2> QED
    BY <2>1, <2>2 DEF Before
<1>2. ASSUME NEW x \in Before(q, i - 1) PROVE x \in Before(r, i)
  <2>1. PICK j \in 1..((i - 1) - 1) : q[j] = x
    BY <1>2 DEF Before
  <2>2. j + 1 \in 1..(i - 1) /\ j + 1 \in 2..(i - 1) /\ (j + 1) - 1 = j
    OBVIOUS
  <2> QED
    BY <2>1, <2>2 DEF Before
<1>3. k \in Before(r, i)
  <2>1. 1 \in 1..(i - 1)
    OBVIOUS
  <2> QED
    BY <2>1 DEF Before
<1> QED
  BY <1>1, <1>2, <1>3 DEF Shifted

\* A new voxel at the front: the list is longer, without repetition and in order.
LEMMA NewAtFront ==
  ASSUME NEW q \in Seq(Keys), IsInjective(q), NEW s \in Seq(Keys), NEW k \in Keys \ ToSet(q),
         Ordered(q, s), HasLastUse(s)
  PROVE  LET longer == <<k>> \o q
         IN /\ longer \in Seq(Keys) /\ Len(longer) = Len(q) + 1 /\ IsInjective(longer)
            /\ ToSet(longer) = ToSet(q) \cup {k}
            /\ Ordered(longer, Append(s, k))
<1> DEFINE longer == <<k>> \o q
           t == Append(s, k)
<1>1. /\ longer \in Seq(Keys) /\ Len(longer) = Len(q) + 1 /\ longer[1] = k
      /\ \A i \in 2..(Len(q) + 1) : longer[i] = q[i - 1]
  BY PutFirst
<1>t. k \in Keys /\ t = Append(s, k)
  OBVIOUS
<1> HIDE DEF longer, t
<1>2. /\ t \in Seq(Keys) /\ ToSet(t) = ToSet(s) \cup {k}
      /\ LastUsedAt(t, k, Len(t)) /\ UsedIn(t, k) = {}
  BY <1>t, UsedAfterUse
<1>3. /\ Len(q) \in Nat /\ DOMAIN q = 1..Len(q) /\ DOMAIN longer = 1..(Len(q) + 1)
      /\ \A i \in 1..Len(q) : q[i] \in Keys /\ q[i] # k /\ q[i] \in ToSet(q)
      /\ \A m \in ToSet(q) : \E i \in 1..Len(q) : q[i] = m
  BY <1>1, SequenceElements
<1>4. IsInjective(longer)
  <2> SUFFICES ASSUME NEW a \in 1..(Len(q) + 1), NEW b \in 1..(Len(q) + 1), longer[a] = longer[b]
               PROVE  a = b
    BY <1>3 DEF IsInjective
  <2>1. CASE a = 1 /\ b # 1
    BY <1>1, <1>3, <2>1
  <2>2. CASE a # 1 /\ b = 1
    BY <1>1, <1>3, <2>2
  <2>3. CASE a # 1 /\ b # 1
    <3>1. a - 1 \in 1..Len(q) /\ b - 1 \in 1..Len(q) /\ q[a - 1] = q[b - 1]
      BY <1>1, <1>3, <2>3
    <3> QED
      BY <1>3, <3>1, SMTT(30) DEF IsInjective
  <2> QED
    BY <2>1, <2>2, <2>3
<1>5. ToSet(longer) = ToSet(q) \cup {k}
  <2>1. ASSUME NEW x \in ToSet(longer) PROVE x \in ToSet(q) \cup {k}
    <3>1. PICK i \in 1..(Len(q) + 1) : longer[i] = x
      BY <1>3 DEF ToSet
    <3>2. i = 1 \/ (i \in 2..(Len(q) + 1) /\ i - 1 \in 1..Len(q))
      BY <1>3
    <3> QED
      BY <1>1, <1>3, <3>1, <3>2
  <2>2. ASSUME NEW x \in ToSet(q) PROVE x \in ToSet(longer)
    <3>1. PICK i \in 1..Len(q) : q[i] = x
      BY <1>3
    <3>2. i + 1 \in 1..(Len(q) + 1) /\ longer[i + 1] = x
      BY <1>1, <1>3, <3>1
    <3> QED
      BY <1>3, <3>2 DEF ToSet
  <2>3. k \in ToSet(longer)
    BY <1>1, <1>3, SMTT(30) DEF ToSet
  <2> QED
    BY <2>1, <2>2, <2>3
<1>6. ASSUME NEW i \in 1..Len(longer)
      PROVE  longer[i] \in ToSet(t) /\ UsedIn(t, longer[i]) = Before(longer, i)
  <2>1. CASE i = 1
    <3>1. Before(longer, 1) = {}
      BY DEF Before
    <3> QED
      BY <1>1, <1>2, <2>1, <3>1
  <2>2. CASE i # 1
    <3> DEFINE l == i - 1
    <3>1. /\ i \in 2..(Len(q) + 1) /\ i \in Nat \ {0, 1} /\ l \in 1..Len(q)
          /\ longer[i] = q[l] /\ q[l] # k
      BY <1>1, <1>3, <2>2
    <3>2. Before(longer, i) = Before(q, l) \cup {k}
      <4>1. \A j \in 2..(i - 1) : longer[j] = q[j - 1]
        BY <1>1, <1>3, <3>1
      <4>2. Shifted(q, longer, i, k)
        BY Zenon, <1>1, <1>t, <3>1, <4>1, BeforeShifted
      <4> QED
        BY <4>2 DEF Shifted
    <3> HIDE DEF l
    <3>3. AndKey(q, s, l, k)
      BY Zenon, <1>t, <3>1, UseInOrder
    <3>4. q[l] \in ToSet(s)
      BY <3>1 DEF Ordered
    <3> QED
      BY <1>2, <1>t, <3>1, <3>2, <3>3, <3>4 DEF AndKey
  <2> QED
    BY <2>1, <2>2
<1> QED
  BY <1>1, <1>4, <1>5, <1>6 DEF longer, t, Ordered

\* The voxel at place p to the front: the same voxels, without repetition and in order.
LEMMA OldToFront ==
  ASSUME NEW q \in Seq(Keys), IsInjective(q), NEW s \in Seq(Keys), NEW p \in 1..Len(q),
         Ordered(q, s), HasLastUse(s)
  PROVE  LET moved == ToFront(q, q[p])
         IN /\ moved \in Seq(Keys) /\ Len(moved) = Len(q) /\ IsInjective(moved)
            /\ ToSet(moved) = ToSet(q)
            /\ Ordered(moved, Append(s, q[p]))
<1> DEFINE moved == ToFront(q, q[p])
           k == q[p]
           t == Append(s, k)
           from == [j \in 1..Len(q) |-> IF j = 1 THEN p ELSE IF j <= p THEN j - 1 ELSE j]
           to   == [j \in 1..Len(q) |-> IF j = p THEN 1 ELSE IF j < p THEN j + 1 ELSE j]
<1>1. /\ moved \in Seq(Keys) /\ Len(moved) = Len(q) /\ moved[1] = k
      /\ \A j \in 2..p : moved[j] = q[j - 1]
      /\ \A j \in (p + 1)..Len(q) : moved[j] = q[j]
  BY MoveFirst
<1>2. /\ Len(q) \in Nat /\ p \in Nat /\ 1 <= p /\ p <= Len(q)
      /\ DOMAIN q = 1..Len(q) /\ DOMAIN moved = 1..Len(q)
      /\ k \in Keys /\ t = Append(s, k)
      /\ \A i \in 1..Len(q) : q[i] \in Keys /\ q[i] \in ToSet(q)
      /\ \A m \in ToSet(q) : \E i \in 1..Len(q) : q[i] = m
  <2> HIDE DEF moved
  <2> QED
    BY <1>1, SequenceElements
<1> HIDE DEF moved, t
<1>3. ASSUME NEW j \in 1..Len(q)
      PROVE  /\ from[j] \in 1..Len(q) /\ moved[j] = q[from[j]]
             /\ to[j] \in 1..Len(q) /\ from[to[j]] = j
  BY <1>1, <1>2
<1>4. ASSUME NEW a \in 1..Len(q), NEW b \in 1..Len(q), from[a] = from[b] PROVE a = b
  BY <1>2, <1>4
<1>5. ASSUME NEW j \in (p + 1)..Len(q), NEW a \in 1..(j - 1)
      PROVE  a \in 1..Len(q) /\ from[a] \in 1..(j - 1) /\ to[a] \in 1..(j - 1)
  BY <1>2
<1> HIDE DEF from, to
<1>6. IsInjective(moved)
  <2> SUFFICES ASSUME NEW a \in 1..Len(q), NEW b \in 1..Len(q), moved[a] = moved[b]
               PROVE  a = b
    BY <1>2 DEF IsInjective
  <2>1. from[a] \in 1..Len(q) /\ from[b] \in 1..Len(q) /\ q[from[a]] = q[from[b]]
    BY <1>3
  <2>2. from[a] = from[b]
    BY <1>2, <2>1 DEF IsInjective
  <2> QED
    BY <1>4, <2>2
<1>7. ToSet(moved) = ToSet(q)
  <2>1. ASSUME NEW x \in ToSet(moved) PROVE x \in ToSet(q)
    <3>1. PICK j \in 1..Len(q) : moved[j] = x
      BY <1>2 DEF ToSet
    <3> QED
      BY <1>2, <1>3, <3>1
  <2>2. ASSUME NEW x \in ToSet(q) PROVE x \in ToSet(moved)
    <3>1. PICK j \in 1..Len(q) : q[j] = x
      BY <1>2
    <3>2. to[j] \in 1..Len(q) /\ moved[to[j]] = x
      BY <1>3, <3>1
    <3> QED
      BY <1>2, <3>2 DEF ToSet
  <2> QED
    BY <2>1, <2>2
<1>8. /\ t \in Seq(Keys) /\ ToSet(t) = ToSet(s) \cup {k}
      /\ LastUsedAt(t, k, Len(t)) /\ UsedIn(t, k) = {}
  BY <1>2, UsedAfterUse
<1>9. ASSUME NEW i \in 1..Len(moved)
      PROVE  moved[i] \in ToSet(t) /\ UsedIn(t, moved[i]) = Before(moved, i)
  <2>1. CASE i = 1
    <3>1. Before(moved, 1) = {}
      BY DEF Before
    <3> QED
      BY <1>1, <1>8, <2>1, <3>1
  <2>2. CASE i \in 2..p
    <3> DEFINE l == i - 1
    <3>1. i \in Nat \ {0, 1} /\ l \in 1..Len(q) /\ l # p /\ moved[i] = q[l]
      BY <1>1, <1>2, <2>2
    <3>2. \A j \in 2..(i - 1) : moved[j] = q[j - 1]
      BY <1>1, <1>2, <2>2
    <3>3. Shifted(q, moved, i, k)
      BY Zenon, <1>1, <1>2, <3>1, <3>2, BeforeShifted
    <3>4. Before(moved, i) = Before(q, l) \cup {k}
      BY <3>3 DEF Shifted
    <3> HIDE DEF l
    <3>5. q[l] # k /\ q[l] \in ToSet(s)
      BY <1>2, <3>1 DEF IsInjective, Ordered
    <3> HIDE DEF k
    <3>6. AndKey(q, s, l, k)
      BY Zenon, <1>2, <3>1, <3>5, UseInOrder
    <3> QED
      BY <1>2, <1>8, <3>1, <3>4, <3>5, <3>6 DEF AndKey
  <2>3. CASE i \in (p + 1)..Len(q)
    <3>1. i \in 1..Len(q) /\ i # p /\ moved[i] = q[i]
      BY <1>1, <1>2, <2>3
    <3>2. q[i] # k /\ q[i] \in ToSet(s)
      BY <1>2, <3>1 DEF IsInjective, Ordered
    <3>3. AndKey(q, s, i, k)
      <4> HIDE DEF k
      <4> QED
        BY Zenon, <1>2, <3>1, <3>2, UseInOrder
    <3>4. ASSUME NEW x \in Before(moved, i) PROVE x \in Before(q, i)
      <4>1. PICK j \in 1..(i - 1) : moved[j] = x
        BY <3>4 DEF Before
      <4> QED
        BY <1>3, <1>5, <2>3, <4>1 DEF Before
    <3>5. ASSUME NEW x \in Before(q, i) PROVE x \in Before(moved, i)
      <4>1. PICK j \in 1..(i - 1) : q[j] = x
        BY <3>5 DEF Before
      <4>2. to[j] \in 1..(i - 1) /\ moved[to[j]] = x
        BY <1>3, <1>5, <2>3, <4>1
      <4> QED
        BY <4>2 DEF Before
    <3>6. k \in Before(q, i)
      BY <1>2, <2>3 DEF Before
    <3> QED
      BY <1>2, <1>8, <3>1, <3>2, <3>3, <3>4, <3>5, <3>6 DEF AndKey
  <2> QED
    BY <1>1, <1>2, <2>1, <2>2, <2>3
<1> QED
  BY <1>1, <1>6, <1>7, <1>9 DEF moved, t, Ordered
-----------------------------------------------------------------------------
\* A use keeps the last uses, and those of the voxels thrown out lie no nearer.
LEMMA LastUseKept ==
  ASSUME NEW s \in Seq(Keys), NEW k \in Keys, HasLastUse(s)
  PROVE  HasLastUse(Append(s, k))
<1> DEFINE t == Append(s, k)
<1>1. t = Append(s, k)
  OBVIOUS
<1> HIDE DEF t
<1>2. /\ t \in Seq(Keys) /\ ToSet(t) = ToSet(s) \cup {k}
      /\ LastUsedAt(t, k, Len(t))
  BY <1>1, UsedAfterUse
<1>3. SUFFICES ASSUME NEW m \in ToSet(t) PROVE \E i \in 1..Len(t) : LastUsedAt(t, m, i)
  BY <1>1 DEF HasLastUse
<1>4. CASE m = k
  BY <1>2, <1>4 DEF LastUsedAt
<1>5. CASE m # k
  <2>1. m \in ToSet(s) /\ m \in Keys
    BY <1>2, <1>5, SequenceElements
  <2>2. PICK i \in 1..Len(s) : LastUsedAt(s, m, i)
    BY <2>1 DEF HasLastUse
  <2>3. LastUsedAt(t, m, i)
    BY Zenon, <1>1, <1>5, <2>1, <2>2, OthersAfterUse
  <2> QED
    BY <2>3 DEF LastUsedAt
<1> QED
  BY <1>4, <1>5

LEMMA StillLate ==
  ASSUME NEW s \in Seq(Keys), NEW k \in Keys, NEW g, NEW h, HasLastUse(s),
         MapAssumption, ThrownOutLate(g, s), g \cup {k} \subseteq h
  PROVE  ThrownOutLate(h, Append(s, k))
<1> DEFINE t == Append(s, k)
<1>1. t = Append(s, k)
  OBVIOUS
<1> HIDE DEF t
<1>2. ToSet(t) = ToSet(s) \cup {k}
  BY <1>1, UsedAfterUse
<1>3. SUFFICES ASSUME NEW m \in ToSet(t) \ h
               PROVE  IsFiniteSet(UsedIn(t, m)) /\ Cardinality(UsedIn(t, m)) >= Capacity - 1
  BY <1>1 DEF ThrownOutLate
<1>4. m \in ToSet(s) \ g /\ m # k /\ m \in Keys
  BY <1>2, SequenceElements
<1>5. IsFiniteSet(UsedIn(s, m)) /\ Cardinality(UsedIn(s, m)) >= Capacity - 1
  BY <1>4 DEF ThrownOutLate
<1>6. PICK i \in 1..Len(s) : LastUsedAt(s, m, i)
  BY <1>4 DEF HasLastUse
<1>7. UsedToo(s, t, k, m)
  BY Zenon, <1>1, <1>4, <1>6, OthersAfterUse
<1>8. UsedIn(t, m) = UsedIn(s, m) \cup {k}
  BY <1>7 DEF UsedToo
<1>9. /\ IsFiniteSet(UsedIn(s, m) \cup {k})
      /\ Cardinality(UsedIn(s, m) \cup {k}) = IF k \in UsedIn(s, m) THEN Cardinality(UsedIn(s, m))
                                              ELSE Cardinality(UsedIn(s, m)) + 1
  BY <1>5, FS_AddElement
<1>10. Cardinality(UsedIn(s, m)) \in Nat
  BY <1>5, FS_CardinalityType
<1> QED
  BY <1>5, <1>8, <1>9, <1>10 DEF MapAssumption

\* Throwing out the voxel at the back: the others stay as they are, and as many voxels
\* were used after it as stay.
LEMMA ThrowOutBack ==
  ASSUME NEW r \in Seq(Keys), IsInjective(r), r # <<>>, NEW t \in Seq(Keys), Ordered(r, t)
  PROVE  /\ Front(r) \in Seq(Keys) /\ Len(Front(r)) = Len(r) - 1 /\ IsInjective(Front(r))
         /\ Last(r) \in Keys /\ ToSet(Front(r)) = ToSet(r) \ {Last(r)}
         /\ Ordered(Front(r), t)
         /\ IsFiniteSet(UsedIn(t, Last(r)))
         /\ Cardinality(UsedIn(t, Last(r))) = Len(r) - 1
<1> DEFINE f == Front(r)
           n == Len(r)
<1>1. /\ n \in Nat /\ n >= 1 /\ DOMAIN r = 1..n /\ Last(r) = r[n]
      /\ \A i \in 1..n : r[i] \in Keys /\ r[i] \in ToSet(r)
      /\ \A k \in ToSet(r) : \E i \in 1..n : r[i] = k
  BY SequenceElements, EmptySeq DEF Last
<1> HIDE DEF n
<1>2. f \in Seq(Keys) /\ Len(f) = n - 1 /\ \A i \in 1..(n - 1) : f[i] = r[i]
  <2>1. 1 \in Int /\ n - 1 \in Int /\ \A j \in 1..(n - 1) : r[j] \in Keys
    BY <1>1
  <2> DEFINE sub == SubSeq(r, 1, n - 1)
  <2>2. /\ sub \in Seq(Keys)
        /\ Len(sub) = IF 1 <= n - 1 THEN (n - 1) - 1 + 1 ELSE 0
        /\ \A j \in 1..((n - 1) - 1 + 1) : sub[j] = r[1 + j - 1]
    BY <2>1, SubSeqProperties
  <2>3. f = sub
    BY DEF Front, n
  <2> HIDE DEF f, sub
  <2> QED
    BY <1>1, <2>2, <2>3
<1> HIDE DEF f
<1>3. DOMAIN f = 1..(n - 1)
  BY <1>1, <1>2
<1>4. IsInjective(f)
  <2> SUFFICES ASSUME NEW a \in 1..(n - 1), NEW b \in 1..(n - 1), f[a] = f[b]
               PROVE  a = b
    BY <1>3 DEF IsInjective
  <2>1. a \in 1..n /\ b \in 1..n /\ r[a] = r[b]
    BY <1>1, <1>2
  <2> QED
    BY <1>1, <2>1 DEF IsInjective
<1>5. ToSet(f) = ToSet(r) \ {r[n]}
  <2>1. ASSUME NEW x \in ToSet(f) PROVE x \in ToSet(r) \ {r[n]}
    <3>1. PICK i \in 1..(n - 1) : f[i] = x
      BY <1>3 DEF ToSet
    <3>2. i \in 1..n /\ n \in 1..n /\ i # n /\ r[i] = x
      BY <1>1, <1>2, <3>1
    <3> QED
      BY <1>1, <3>2 DEF IsInjective
  <2>2. ASSUME NEW x \in ToSet(r), x # r[n] PROVE x \in ToSet(f)
    <3>1. PICK i \in 1..n : r[i] = x
      BY <1>1
    <3>2. i \in 1..(n - 1) /\ f[i] = x
      BY <1>1, <1>2, <2>2, <3>1
    <3> QED
      BY <1>3, <3>2 DEF ToSet
  <2> QED
    BY <2>1, <2>2
<1>6. \A i \in 1..n : r[i] \in ToSet(t) /\ UsedIn(t, r[i]) = Before(r, i)
  BY DEF Ordered, n
<1>7. Ordered(f, t)
  <2> SUFFICES ASSUME NEW i \in 1..Len(f) PROVE f[i] \in ToSet(t) /\ UsedIn(t, f[i]) = Before(f, i)
    BY DEF Ordered
  <2>1. i \in 1..n /\ f[i] = r[i] /\ \A j \in 1..(i - 1) : f[j] = r[j]
    BY <1>1, <1>2
  <2>2. Before(f, i) = Before(r, i)
    BY <2>1 DEF Before
  <2> QED
    BY <1>6, <2>1, <2>2
<1>8. /\ IsFiniteSet(UsedIn(t, r[n])) /\ Cardinality(UsedIn(t, r[n])) = n - 1
  <2>1. n \in 1..Len(r)
    BY <1>1 DEF n
  <2>2. IsFiniteSet(Before(r, n)) /\ Cardinality(Before(r, n)) = n - 1
    BY <2>1, BeforeCount
  <2>3. UsedIn(t, r[n]) = Before(r, n)
    BY <1>1, <1>6
  <2> QED
    BY <2>2, <2>3
<1> QED
  BY <1>1, <1>2, <1>4, <1>5, <1>7, <1>8 DEF f, n
-----------------------------------------------------------------------------
(* The steps *)

\* The points counted in an octant never pass MAX_POINTS_PER_SUBVOXEL.
LEMMA CountsStay ==
  ASSUME MapAssumption, TypeOK, NEW p \in Points, CreateVoxel(p) \/ UseVoxel(p),
         Last(<<p.key>> \o data) \in Keys
  PROVE  counts' \in [Keys -> [Octants -> 0..MaxPoints]]
<1>1. MaxPoints \in Nat \ {0} /\ p.key \in Keys /\ p.octant \in Octants
  BY DEF MapAssumption, Points
<1>2. counts \in [Keys -> [Octants -> 0..MaxPoints]]
  BY DEF TypeOK
<1>3. Empty \in [Octants -> 0..MaxPoints] /\ [Empty EXCEPT ![p.octant] = 1] \in [Octants -> 0..MaxPoints]
  BY <1>1 DEF Empty
<1>4. CASE CreateVoxel(p)
  <2> DEFINE filled == [counts EXCEPT ![p.key] = [Empty EXCEPT ![p.octant] = 1]]
             last   == Last(<<p.key>> \o data)
  <2>1. filled \in [Keys -> [Octants -> 0..MaxPoints]]
    BY <1>2, <1>3
  <2>2. counts' = filled \/ counts' = [filled EXCEPT ![last] = Empty]
    BY <1>4 DEF CreateVoxel
  <2> HIDE DEF filled, last
  <2> QED
    BY <1>3, <2>1, <2>2
<1>5. CASE UseVoxel(p)
  <2>1. PICK near \in BOOLEAN : counts' = [counts EXCEPT ![p.key][p.octant] = AddPoint(@, near)]
    BY <1>5 DEF UseVoxel
  <2>2. \A n \in 0..MaxPoints : AddPoint(n, near) \in 0..MaxPoints
    BY <1>1 DEF AddPoint
  <2>3. AddPoint(counts[p.key][p.octant], near) \in 0..MaxPoints
    BY <1>1, <1>2, <2>2
  <2> QED
    BY <1>1, <1>2, <2>1, <2>3
<1> QED
  BY <1>4, <1>5

\* A new voxel, and the last one leaves when the list has become too long.
LEMMA CreateStep ==
  ASSUME MapAssumption, MapInv, NEW p \in Points, CreateVoxel(p),
         cloud' \in Seq(Points), touched' = Append(touched, p.key)
  PROVE  MapInv'
<1> DEFINE k == p.key
           longer == <<k>> \o data
           t == Append(touched, k)
           last == Last(longer)
<1>1. /\ data \in Seq(Keys) /\ IsInjective(data) /\ grids = ToSet(data) /\ touched \in Seq(Keys)
      /\ k \in Keys \ ToSet(data) /\ Len(data) \in Nat /\ Len(data) < Capacity
      /\ Ordered(data, touched) /\ HasLastUse(touched) /\ ThrownOutLate(grids, touched)
  BY DEF MapInv, GridMatchesList, TypeOK, CreateVoxel, Points
<1>2. /\ longer \in Seq(Keys) /\ Len(longer) = Len(data) + 1 /\ IsInjective(longer)
      /\ ToSet(longer) = ToSet(data) \cup {k} /\ Ordered(longer, t)
  <2> HIDE DEF k
  <2> QED
    BY <1>1, NewAtFront
<1>3. t \in Seq(Keys) /\ HasLastUse(t) /\ touched' = t
  BY <1>1, LastUseKept
<1>4. ThrownOutLate(ToSet(longer), t)
  <2> DEFINE h == ToSet(longer)
  <2>1. grids \cup {k} \subseteq h
    BY <1>1, <1>2
  <2> HIDE DEF h, k
  <2> QED
    BY <1>1, <2>1, StillLate DEF h
<1>5. longer # <<>>
  BY <1>1, <1>2
<1> HIDE DEF longer
<1>6. /\ Front(longer) \in Seq(Keys) /\ Len(Front(longer)) = Len(longer) - 1
      /\ IsInjective(Front(longer)) /\ last \in Keys
      /\ ToSet(Front(longer)) = ToSet(longer) \ {last} /\ Ordered(Front(longer), t)
      /\ IsFiniteSet(UsedIn(t, last)) /\ Cardinality(UsedIn(t, last)) = Len(longer) - 1
  <2> HIDE DEF t
  <2> QED
    BY <1>2, <1>3, <1>5, ThrowOutBack
<1>7. counts' \in [Keys -> [Octants -> 0..MaxPoints]]
  BY <1>6, CountsStay DEF MapInv, GridMatchesList, longer
<1>8. /\ (~TooLong(longer) /\ data' = longer /\ grids' = grids \cup {k})
         \/ (TooLong(longer) /\ data' = Front(longer) /\ grids' = Forget(grids \cup {k}, last))
  BY DEF CreateVoxel, longer
<1> HIDE DEF last, t
<1>9. CASE ~TooLong(longer) /\ data' = longer /\ grids' = grids \cup {k}
  <2>1. Len(longer) < Capacity /\ grids' = ToSet(longer)
    BY <1>1, <1>2, <1>9 DEF TooLong, MapAssumption
  <2> QED
    BY <1>1, <1>2, <1>3, <1>4, <1>7, <1>9, <2>1 DEF MapInv, GridMatchesList, TypeOK
<1>10. CASE TooLong(longer) /\ data' = Front(longer) /\ grids' = Forget(grids \cup {k}, last)
  <2>1. /\ Len(longer) >= Capacity /\ Len(Front(longer)) < Capacity
        /\ grids' = ToSet(longer) \ {last} /\ grids' = ToSet(Front(longer))
    BY <1>1, <1>2, <1>6, <1>10 DEF TooLong, Forget, MapAssumption
  <2>2. ThrownOutLate(grids', t)
    BY <1>1, <1>2, <1>4, <1>6, <2>1 DEF ThrownOutLate, MapAssumption
  <2>3. /\ data' \in Seq(Keys) /\ IsInjective(data') /\ Len(data') < Capacity
        /\ grids' = ToSet(data') /\ Ordered(data', touched') /\ ThrownOutLate(grids', touched')
    BY <1>3, <1>6, <1>10, <2>1, <2>2
  <2>4. grids' \subseteq Keys /\ touched' \in Seq(Keys) /\ HasLastUse(touched')
    <3>1. grids' \subseteq grids \cup {k} /\ grids \subseteq Keys
      BY <1>10 DEF Forget, MapInv, GridMatchesList, TypeOK
    <3> QED
      BY <1>1, <1>3, <3>1
  <2> QED
    BY <1>7, <2>3, <2>4 DEF MapInv, GridMatchesList, TypeOK
<1> QED
  BY <1>8, <1>9, <1>10

\* A voxel that is in use already moves to the front.
LEMMA UseStep ==
  ASSUME MapAssumption, MapInv, NEW p \in Points, UseVoxel(p),
         cloud' \in Seq(Points), touched' = Append(touched, p.key)
  PROVE  MapInv'
<1> DEFINE k == p.key
           t == Append(touched, k)
<1>1. /\ data \in Seq(Keys) /\ IsInjective(data) /\ grids = ToSet(data) /\ touched \in Seq(Keys)
      /\ k \in Keys /\ Len(data) \in Nat /\ Len(data) < Capacity
      /\ Ordered(data, touched) /\ HasLastUse(touched) /\ ThrownOutLate(grids, touched)
      /\ k \in ToSet(data)
  BY DEF MapInv, GridMatchesList, TypeOK, UseVoxel, Points
<1>2. PICK i \in 1..Len(data) : data[i] = k
  BY <1>1, SequenceElements
<1> DEFINE moved == ToFront(data, k)
<1>3. /\ moved \in Seq(Keys) /\ Len(moved) = Len(data) /\ IsInjective(moved)
      /\ ToSet(moved) = ToSet(data) /\ Ordered(moved, t)
  BY <1>1, <1>2, OldToFront
<1>4. t \in Seq(Keys) /\ HasLastUse(t) /\ touched' = t
  BY <1>1, LastUseKept
<1>5. ThrownOutLate(grids, t)
  BY <1>1, StillLate
<1>6. Last(<<k>> \o data) \in Keys
  <2> DEFINE longer == <<k>> \o data
  <2>1. longer \in Seq(Keys) /\ Len(longer) = Len(data) + 1
    BY <1>1, PutFirst
  <2> HIDE DEF longer
  <2> QED
    BY <1>1, <2>1 DEF Last, longer
<1>7. counts' \in [Keys -> [Octants -> 0..MaxPoints]]
  BY <1>6, CountsStay DEF MapInv, GridMatchesList
<1>8. data' = moved /\ grids' = grids
  BY DEF UseVoxel
<1> HIDE DEF moved, t
<1> QED
  BY <1>1, <1>3, <1>4, <1>5, <1>7, <1>8 DEF MapInv, GridMatchesList, TypeOK

LEMMA InitMapInv == MapAssumption /\ Init => MapInv
<1> SUFFICES ASSUME MapAssumption, Init PROVE MapInv
  OBVIOUS
<1>1. TypeOK
  BY DEF Init, TypeOK, Empty, MapAssumption
<1>2. ToSet(<<>>) = {} /\ IsInjective(<<>>)
  BY DEF ToSet, IsInjective
<1>3. data = <<>> /\ touched = <<>> /\ grids = {}
  BY DEF Init
<1>4. Ordered(data, touched) /\ HasLastUse(touched) /\ ThrownOutLate(grids, touched)
  BY <1>2, <1>3 DEF Ordered, HasLastUse, ThrownOutLate
<1> QED
  BY <1>1, <1>2, <1>3, <1>4 DEF MapInv, GridMatchesList, MapAssumption

\* Every step of insert(), and every call of it, keeps the invariant.
LEMMA NextMapInv == MapAssumption /\ MapInv /\ [Next]_vars => MapInv'
<1> SUFFICES ASSUME MapAssumption, MapInv, [Next]_vars PROVE MapInv'
  OBVIOUS
<1>1. CASE InsertPoint
  <2> DEFINE p == Head(cloud)
  <2>1. p \in Points /\ cloud' \in Seq(Points) /\ touched' = Append(touched, p.key)
    BY <1>1 DEF InsertPoint, MapInv, GridMatchesList, TypeOK
  <2>2. CreateVoxel(p) \/ UseVoxel(p)
    BY <1>1 DEF InsertPoint
  <2> HIDE DEF p
  <2> QED
    BY <2>1, <2>2, CreateStep, UseStep
<1>2. ASSUME NEW c \in Clouds, Insert(c) PROVE MapInv'
  <2>1. c \in Seq(Points)
    BY DEF Clouds, MapAssumption
  <2>2. cloud' = c /\ UNCHANGED <<data, grids, counts, touched>>
    BY <1>2 DEF Insert
  <2> QED
    BY <2>1, <2>2 DEF MapInv, GridMatchesList, TypeOK
<1>3. CASE UNCHANGED vars
  BY <1>3 DEF vars, MapInv, GridMatchesList, TypeOK
<1> QED
  BY <1>1, <1>2, <1>3 DEF Next

LEMMA MapInvHolds == Spec => []MapInv
<1>1. Init => MapInv
  BY InitMapInv, MapAssumption
<1>2. MapInv /\ [Next]_vars => MapInv'
  BY NextMapInv, MapAssumption
<1> QED
  BY <1>1, <1>2, PTL DEF Spec
-----------------------------------------------------------------------------
\* The hash and the list know the same voxels, each once, and no octant is overfull,
\* whatever the capacity, the clouds and the order in which the voxels come.
THEOREM HashMatchesList == Spec => []GridMatchesList
<1>1. MapInv => GridMatchesList
  BY DEF MapInv
<1> QED
  BY <1>1, MapInvHolds, PTL

\* insert() throws out the voxel that was used longest ago and no other: the map holds
\* the Capacity - 1 voxels used last.
THEOREM LastUsedStay == Spec => []RecentVoxelsKept
<1>1. ASSUME MapInv PROVE RecentVoxelsKept
  <2>1. /\ data \in Seq(Keys) /\ IsInjective(data) /\ grids = ToSet(data)
        /\ Len(data) \in Nat /\ Len(data) < Capacity
        /\ Ordered(data, touched) /\ ThrownOutLate(grids, touched)
    BY <1>1 DEF MapInv, GridMatchesList, TypeOK
  <2>2. ASSUME NEW k \in grids
        PROVE  k \in ToSet(touched) /\ Cardinality(UsedIn(touched, k)) < Capacity - 1
    <3>1. PICK i \in 1..Len(data) : data[i] = k
      BY <2>1, SequenceElements
    <3>2. k \in ToSet(touched) /\ UsedIn(touched, k) = Before(data, i)
      BY <2>1, <3>1 DEF Ordered
    <3>3. Cardinality(Before(data, i)) = i - 1
      BY <2>1, BeforeCount
    <3> QED
      BY <2>1, <3>2, <3>3, MapAssumption DEF MapAssumption
  <2>3. ASSUME NEW k \in ToSet(touched), k \notin grids
        PROVE  ~(Cardinality(UsedIn(touched, k)) < Capacity - 1)
    <3>1. /\ IsFiniteSet(UsedIn(touched, k))
          /\ Cardinality(UsedIn(touched, k)) >= Capacity - 1
      BY <2>1, <2>3 DEF ThrownOutLate
    <3>2. Cardinality(UsedIn(touched, k)) \in Nat
      BY <3>1, FS_CardinalityType
    <3> QED
      BY <3>1, <3>2, MapAssumption DEF MapAssumption
  <2>4. \A k : UsedSince(k) = UsedIn(touched, k)
    BY UsedSinceIsUsedIn
  <2> QED
    BY <2>2, <2>3, <2>4 DEF RecentVoxelsKept
<1> QED
  BY <1>1, MapInvHolds, PTL
-----------------------------------------------------------------------------
(***************************************************************************)
(* The heap of the nearest points                                          *)
(***************************************************************************)
\* update_worst_unrolled finds a largest of the five distances.
LEMMA WorstIs ==
  ASSUME NEW d \in [1..K -> Nat]
  PROVE  Worst(d) \in 1..K /\ \A i \in 1..K : d[i] <= d[Worst(d)]
<1> DEFINE a == IF d[1] > d[2] THEN 1 ELSE 2
           b == IF d[3] > d[4] THEN 3 ELSE 4
           c == IF d[a] > d[b] THEN a ELSE b
           e == IF d[c] > d[5] THEN c ELSE 5
<1>1. /\ d[1] \in Nat /\ d[2] \in Nat /\ d[3] \in Nat /\ d[4] \in Nat /\ d[5] \in Nat
      /\ 1..K = {1, 2, 3, 4, 5} /\ Worst(d) = e
  BY DEF K, Worst
<1>2. a \in {1, 2} /\ d[1] <= d[a] /\ d[2] <= d[a] /\ d[a] \in Nat
  BY <1>1
<1>3. b \in {3, 4} /\ d[3] <= d[b] /\ d[4] <= d[b] /\ d[b] \in Nat
  BY <1>1
<1> HIDE DEF a, b
<1>4. c \in {1, 2, 3, 4} /\ d[a] <= d[c] /\ d[b] <= d[c] /\ d[c] \in Nat
  BY <1>2, <1>3
<1> HIDE DEF c
<1>5. e \in {1, 2, 3, 4, 5} /\ d[c] <= d[e] /\ d[5] <= d[e] /\ d[e] \in Nat
  BY <1>1, <1>4
<1> HIDE DEF e
<1>6. d[1] <= d[c] /\ d[2] <= d[c] /\ d[3] <= d[c] /\ d[4] <= d[c]
  BY <1>1, <1>2, <1>3, <1>4, SMTT(30)
<1>7. d[1] <= d[e] /\ d[2] <= d[e] /\ d[3] <= d[e] /\ d[4] <= d[e] /\ d[5] <= d[e]
  BY <1>1, <1>4, <1>5, <1>6
<1> QED
  BY <1>1, <1>5, <1>7

HeapFields == {"count", "worst", "max", "dist", "points"}
HeapTypes(h) == /\ DOMAIN h = HeapFields /\ h.count \in 0..K /\ h.worst \in 1..K /\ h.max \in Nat
                /\ h.dist \in [1..K -> Nat] /\ DOMAIN h.points = 1..K

\* The heap has points of these cells of map m, each once and with its distance.
Holds(h, m, seen) ==
  /\ \A i \in 1..h.count : h.points[i] \in seen /\ h.dist[i] = m[h.points[i]]
  /\ \A i, j \in 1..h.count : h.points[i] = h.points[j] => i = j

\* worst_ is the place of a point as far as any.
WorstKnown(h) == /\ \A i \in 1..h.count : h.dist[i] <= h.max
                 /\ IF h.count = 0 THEN h.max = 0 /\ h.worst = 1
                    ELSE h.worst \in 1..h.count /\ h.max = h.dist[h.worst]

\* No cell left out is nearer.
Nearest(h, m, seen) ==
  \A c \in seen : \/ \E i \in 1..h.count : h.points[i] = c
                  \/ h.count = K /\ h.max <= m[c]

HeapOf(h, m, seen) == HeapTypes(h) /\ Holds(h, m, seen) /\ WorstKnown(h) /\ Nearest(h, m, seen)

\* A point put into a free place.
LEMMA InsertFree ==
  ASSUME NEW h, NEW seen, HeapOf(h, map, seen), NEW c, c \notin seen, map[c] \in Nat, h.count < K,
         \A x \in seen : map[x] \in Nat
  PROVE  HeapOf(TryInsert(h, map[c], c), map, seen \cup {c})
<1> DEFINE n == h.count + 1
           d == map[c]
           g == TryInsert(h, d, c)
<1>1. /\ DOMAIN h = HeapFields /\ h.count \in 0..K /\ h.worst \in 1..K /\ h.max \in Nat
      /\ h.dist \in [1..K -> Nat] /\ DOMAIN h.points = 1..K /\ K \in Nat /\ h.count # K
      /\ n \in 1..K /\ n \in Nat /\ h.count \in Nat /\ d \in Nat
  BY DEF HeapOf, HeapTypes, K
<1>2. /\ DOMAIN g = HeapFields /\ g.count = n /\ g.dist = [h.dist EXCEPT ![n] = d]
      /\ g.points = [h.points EXCEPT ![n] = c]
      /\ g.worst = (IF d > h.max THEN n ELSE h.worst)
      /\ g.max = (IF d > h.max THEN g.dist[g.worst] ELSE h.max)
  BY <1>1 DEF TryInsert, HeapFields
<1> HIDE DEF g, n, d
<1>3. HeapTypes(g)
  BY <1>1, <1>2 DEF HeapTypes
<1>8. /\ \A i \in 1..h.count : i \in 1..K /\ i # n /\ i \in 1..n
      /\ \A i \in 1..n : i = n \/ i \in 1..h.count
  BY <1>1, SMTT(30) DEF n
<1>4. /\ g.points[n] = c /\ g.dist[n] = d
      /\ \A i \in 1..h.count : g.points[i] = h.points[i] /\ g.dist[i] = h.dist[i]
      /\ \A i \in 1..h.count : i \in 1..K /\ i # n /\ i \in 1..n
      /\ \A i \in 1..n : i = n \/ i \in 1..h.count
  BY <1>1, <1>2, <1>8
<1>5. Holds(g, map, seen \cup {c})
  <2>1. \A i \in 1..h.count : h.points[i] \in seen /\ h.dist[i] = map[h.points[i]] /\ h.points[i] # c
    BY DEF HeapOf, Holds
  <2>2. \A i, j \in 1..h.count : h.points[i] = h.points[j] => i = j
    BY DEF HeapOf, Holds
  <2> QED
    BY <1>2, <1>4, <2>1, <2>2 DEF Holds, d
<1>6. WorstKnown(g)
  <2>1. /\ \A i \in 1..h.count : h.dist[i] <= h.max /\ h.dist[i] \in Nat
        /\ IF h.count = 0 THEN h.max = 0 /\ h.worst = 1
           ELSE h.worst \in 1..h.count /\ h.max = h.dist[h.worst]
    BY <1>1, <1>4 DEF HeapOf, WorstKnown
  <2>2. CASE d > h.max
    <3>1. g.worst = n /\ g.max = d /\ g.max = g.dist[g.worst] /\ n # 0 /\ n \in 1..n
      BY <1>1, <1>2, <1>4, <2>2
    <3>2. ASSUME NEW i \in 1..n PROVE g.dist[i] <= g.max
      <4>1. CASE i = n
        BY <1>1, <1>4, <3>1, <4>1
      <4>2. CASE i # n
        <5>1. i \in 1..h.count
          BY <1>4, <4>2
        <5>2. g.dist[i] <= h.max /\ g.dist[i] \in Nat
          BY <1>4, <2>1, <5>1
        <5>3. h.max \in Nat /\ d \in Nat /\ h.max < d
          BY <1>1, <2>2
        <5>4. g.max = d
          BY <3>1
        <5> QED
          BY <5>2, <5>3, <5>4
      <4> QED
        BY <4>1, <4>2
    <3> QED
      BY <1>2, <3>1, <3>2 DEF WorstKnown
  <2>3. CASE ~(d > h.max)
    <3>1. g.worst = h.worst /\ g.max = h.max /\ d <= h.max
      BY <1>1, <1>2, <2>3
    <3>2. CASE h.count = 0
      <4>1. h.max = 0 /\ d = 0 /\ n = 1
        BY <1>1, <2>1, <3>1, <3>2 DEF n
      <4>2. g.worst = n /\ g.dist[n] = 0 /\ g.max = 0 /\ n \in 1..n
        BY <1>4, <2>1, <3>1, <3>2, <4>1
      <4>3. g.count # 0 /\ g.worst \in 1..g.count /\ g.max = g.dist[g.worst]
        BY <1>2, <4>1, <4>2
      <4>4. ASSUME NEW i \in 1..g.count PROVE g.dist[i] <= g.max
        <5>1. i = n
          BY <1>2, <4>1, <4>4
        <5> QED
          BY <4>2, <5>1
      <4> QED
        BY <4>3, <4>4 DEF WorstKnown
    <3>3. CASE h.count # 0
      <4>1. h.worst \in 1..h.count /\ g.max = g.dist[g.worst] /\ g.worst \in 1..n
        BY <1>1, <1>4, <2>1, <3>1, <3>3 DEF n
      <4> QED
        BY <1>1, <1>2, <1>4, <2>1, <3>1, <4>1 DEF WorstKnown
    <3> QED
      BY <3>2, <3>3
  <2> QED
    BY <2>2, <2>3
<1>7. Nearest(g, map, seen \cup {c})
  <2>1. \A x \in seen : \E i \in 1..h.count : h.points[i] = x
    BY <1>1 DEF HeapOf, Nearest
  <2>2. ASSUME NEW x \in seen \cup {c} PROVE \E i \in 1..n : g.points[i] = x
    <3>1. CASE x = c
      <4>1. n \in 1..n
        BY <1>1
      <4> QED
        BY <1>4, <3>1, <4>1
    <3>2. CASE x # c
      BY <1>4, <2>1, <3>2
    <3> QED
      BY <3>1, <3>2
  <2> QED
    BY <1>2, <2>2 DEF Nearest
<1> QED
  BY <1>3, <1>5, <1>6, <1>7 DEF HeapOf, g, d

\* A full heap keeps its five, or gives up the worst of them.
LEMMA InsertFull ==
  ASSUME NEW h, NEW seen, HeapOf(h, map, seen), NEW c, c \notin seen, map[c] \in Nat, h.count = K,
         \A x \in seen : map[x] \in Nat
  PROVE  HeapOf(TryInsert(h, map[c], c), map, seen \cup {c})
<1> DEFINE d == map[c]
           w == h.worst
           g == TryInsert(h, d, c)
<1>1. /\ DOMAIN h = HeapFields /\ w \in 1..K /\ h.max \in Nat
      /\ h.dist \in [1..K -> Nat] /\ DOMAIN h.points = 1..K /\ K \in Nat /\ K # 0
      /\ h.count = K /\ d \in Nat /\ ~(h.count < K) /\ (\A i \in 1..K : h.dist[i] \in Nat)
  BY DEF HeapOf, HeapTypes, K
<1>2. /\ \A i \in 1..K : h.points[i] \in seen /\ h.dist[i] = map[h.points[i]] /\ h.points[i] # c
      /\ \A i, j \in 1..K : h.points[i] = h.points[j] => i = j
  BY DEF HeapOf, Holds
<1>3. (\A i \in 1..K : h.dist[i] <= h.max) /\ h.max = h.dist[w]
  BY <1>1 DEF HeapOf, WorstKnown
<1>4. \A x \in seen : (\E i \in 1..K : h.points[i] = x) \/ h.max <= map[x]
  BY DEF HeapOf, Nearest
<1>5. CASE d >= h.max
  <2>1. g = h
    BY <1>1, <1>5 DEF TryInsert
  <2>2. Holds(h, map, seen \cup {c})
    BY <1>1, <1>2 DEF Holds
  <2>3. Nearest(h, map, seen \cup {c})
    BY <1>1, <1>4, <1>5 DEF Nearest
  <2> QED
    BY <2>1, <2>2, <2>3 DEF HeapOf
<1>6. CASE ~(d >= h.max)
  <2>1. /\ DOMAIN g = HeapFields /\ g.count = K /\ g.dist = [h.dist EXCEPT ![w] = d]
        /\ g.points = [h.points EXCEPT ![w] = c]
        /\ g.worst = Worst(g.dist) /\ g.max = g.dist[g.worst]
    BY <1>1, <1>6 DEF TryInsert, HeapFields
  <2> HIDE DEF g, d, w
  <2>2. /\ g.points[w] = c /\ g.dist[w] = d /\ d < h.max
        /\ \A i \in 1..K : i # w => g.points[i] = h.points[i] /\ g.dist[i] = h.dist[i]
        /\ g.dist \in [1..K -> Nat]
    BY <1>1, <1>6, <2>1
  <2>3. Worst(g.dist) \in 1..K /\ \A i \in 1..K : g.dist[i] <= g.dist[Worst(g.dist)]
    BY <2>2, WorstIs
  <2>4. HeapTypes(g)
    <3>1. g.dist[Worst(g.dist)] \in Nat
      BY <2>2, <2>3
    <3> QED
      BY <1>1, <2>1, <2>2, <2>3, <3>1 DEF HeapTypes
  <2>5. Holds(g, map, seen \cup {c})
    <3>1. ASSUME NEW i \in 1..K PROVE g.points[i] \in seen \cup {c} /\ g.dist[i] = map[g.points[i]]
      <4>1. CASE i = w
        BY <2>2, <4>1 DEF d
      <4>2. CASE i # w
        BY <1>2, <2>2, <4>2
      <4> QED
        BY <4>1, <4>2
    <3>2. ASSUME NEW i \in 1..K, NEW j \in 1..K, g.points[i] = g.points[j] PROVE i = j
      <4>1. CASE i = w
        BY <1>2, <2>2, <3>2, <4>1
      <4>2. CASE i # w
        <5>1. g.points[i] = h.points[i] /\ h.points[i] # c
          BY <1>2, <2>2, <4>2
        <5>2. j # w /\ g.points[j] = h.points[j]
          BY <2>2, <3>2, <5>1
        <5> QED
          BY <1>2, <3>2, <5>1, <5>2
      <4> QED
        BY <4>1, <4>2
    <3> QED
      BY <2>1, <3>1, <3>2 DEF Holds
  <2>6. WorstKnown(g)
    BY <1>1, <2>1, <2>3 DEF WorstKnown
  <2>7. g.max <= h.max /\ g.max \in Nat
    <3>1. g.max = g.dist[g.worst] /\ g.worst \in 1..K /\ g.dist[g.worst] \in Nat
      BY <2>1, <2>2, <2>3
    <3>2. CASE g.worst = w
      BY <1>1, <2>2, <3>1, <3>2
    <3>3. CASE g.worst # w
      BY <1>3, <2>2, <3>1, <3>3
    <3> QED
      BY <3>2, <3>3
  <2>8. Nearest(g, map, seen \cup {c})
    <3>1. ASSUME NEW x \in seen PROVE (\E i \in 1..K : g.points[i] = x) \/ g.max <= map[x]
      <4>1. CASE \E i \in 1..K : h.points[i] = x
        <5>1. PICK i \in 1..K : h.points[i] = x
          BY <4>1
        <5>2. CASE i # w
          BY <2>2, <5>1, <5>2
        <5>3. CASE i = w
          <6>1. map[x] = h.max
            BY <1>2, <1>3, <5>1, <5>3
          <6> QED
            BY <2>7, <6>1
        <5> QED
          BY <5>2, <5>3
      <4>2. CASE h.max <= map[x]
        BY <1>1, <2>7, <4>2
      <4> QED
        BY <1>4, <4>1, <4>2
    <3>2. g.points[w] = c /\ w \in 1..K
      BY <1>1, <2>2
    <3> QED
      BY <2>1, <3>1, <3>2 DEF Nearest
  <2> QED
    BY <2>4, <2>5, <2>6, <2>8 DEF HeapOf, g, d
<1> QED
  BY <1>5, <1>6 DEF g, d

-----------------------------------------------------------------------------
(***************************************************************************)
(* The cells of a group, one after another                                  *)
(***************************************************************************)
LEMMA LeastElement ==
  ASSUME NEW T \in SUBSET Nat, T # {}
  PROVE  \E x \in T : \A y \in T : x <= y
<1> DEFINE R == OpToRel(<, Nat)
<1>1. IsWellFoundedOn(R, Nat)
  BY NatLessThanWellFounded
<1> HIDE DEF R
<1>2. PICK x \in T : \A y \in T : ~(<<y, x>> \in R)
  BY <1>1, WFMin
<1>3. ASSUME NEW y \in T PROVE x <= y
  <2>1. <<y, x>> \in R <=> y < x
    BY DEF R, OpToRel
  <2>2. ~(y < x) /\ x \in Nat /\ y \in Nat
    BY <1>2, <2>1
  <2> QED
    BY <2>2
<1> QED
  BY <1>3

\* A set that has 0 and with each number below n the next one has all up to n.
LEMMA UpTo ==
  ASSUME NEW n \in Nat, NEW S, 0 \in S,
         \A i \in 1..n : i - 1 \in S => i \in S
  PROVE  \A i \in 0..n : i \in S
<1> DEFINE Outside == {i \in Nat : i <= n /\ ~(i \in S)}
<1> SUFFICES ASSUME Outside # {} PROVE FALSE
  <2>1. ASSUME NEW i \in 0..n PROVE i \in S
    <3>1. ~(i \in Outside)
      OBVIOUS
    <3> QED
      BY <3>1
  <2> QED
    BY <2>1
<1> HIDE DEF Outside
<1>1. Outside \in SUBSET Nat
  BY DEF Outside
<1>2. PICK x \in Outside : \A y \in Outside : x <= y
  BY <1>1, LeastElement
<1>3. x \in Nat /\ x <= n /\ ~(x \in S) /\ x # 0
  BY <1>2 DEF Outside
<1>4. x \in 1..n /\ x - 1 \in Nat /\ x - 1 <= n
  BY <1>3
<1>5. ~(x - 1 \in S)
  BY <1>3, <1>4
<1>6. x - 1 \in Outside
  BY <1>4, <1>5 DEF Outside
<1>7. x <= x - 1
  BY <1>2, <1>6
<1> QED
  BY <1>3, <1>7

\* d has the heap after each of the first n cells.
IsTrying(d, n, g, cells) == d = [i \in 0..n |-> IF i = 0 THEN g ELSE TryCell(d[i - 1], cells[i])]

LEMMA TryingExists ==
  ASSUME NEW g, NEW cells, Len(cells) \in Nat
  PROVE  \E d : IsTrying(d, Len(cells), g, cells)
<1> DEFINE S == {n \in Nat : \E d : IsTrying(d, n, g, cells)}
<1>1. 0 \in S
  <2> DEFINE d == [i \in 0..0 |-> g]
  <2>1. d = [i \in 0..0 |-> IF i = 0 THEN g ELSE TryCell(d[i - 1], cells[i])]
    OBVIOUS
  <2> QED
    BY <2>1 DEF IsTrying
<1>2. ASSUME NEW n \in 1..Len(cells), n - 1 \in S PROVE n \in S
  <2>1. PICK d : IsTrying(d, n - 1, g, cells)
    BY <1>2
  <2> DEFINE next == TryCell(d[n - 1], cells[n])
             h    == [i \in 0..n |-> IF i = n THEN next ELSE d[i]]
             k    == [i \in 0..n |-> IF i = 0 THEN g ELSE TryCell(h[i - 1], cells[i])]
  <2>2. ASSUME NEW i \in 0..n PROVE h[i] = k[i]
    <3>1. CASE i = n
      <4>1. h[i] = next /\ n # 0 /\ n - 1 \in 0..n /\ n - 1 # n
        BY <3>1
      <4>2. h[n - 1] = d[n - 1]
        BY <4>1
      <4>3. k[i] = TryCell(h[n - 1], cells[n])
        BY <3>1, <4>1
      <4> QED
        BY <4>1, <4>2, <4>3
    <3>2. CASE i # n
      <4>1. i \in 0..(n - 1) /\ h[i] = d[i]
        BY <3>2
      <4>2. d[i] = IF i = 0 THEN g ELSE TryCell(d[i - 1], cells[i])
        BY <2>1, <4>1 DEF IsTrying
      <4>3. i # 0 => i - 1 \in 0..n /\ i - 1 # n /\ h[i - 1] = d[i - 1]
        BY <4>1
      <4>4. k[i] = IF i = 0 THEN g ELSE TryCell(h[i - 1], cells[i])
        OBVIOUS
      <4> QED
        BY <4>1, <4>2, <4>3, <4>4
    <3> QED
      BY <3>1, <3>2
  <2> HIDE DEF next
  <2>3. h = k
    BY <2>2
  <2>4. IsTrying(h, n, g, cells)
    BY <2>3 DEF IsTrying
  <2> QED
    BY <2>4
<1> HIDE DEF S
<1>3. \A i \in 0..Len(cells) : i \in S
  BY <1>1, <1>2, UpTo
<1>4. Len(cells) \in S
  BY <1>3
<1> QED
  BY <1>4 DEF S


\* The heaps after the cells, one by one.
Tries(d, g, cells) ==
  /\ d[0] = g
  /\ \A i \in 1..Len(cells) : d[i] = TryCell(d[i - 1], cells[i])
  /\ HeapAfter(g, cells) = d[Len(cells)]

LEMMA HeapAfterIsTries ==
  ASSUME NEW g, NEW cells, Len(cells) \in Nat
  PROVE  \E d : Tries(d, g, cells)
<1> DEFINE d == CHOOSE a : a = [i \in 0..Len(cells) |-> IF i = 0 THEN g ELSE TryCell(a[i - 1], cells[i])]
<1>1. d = [i \in 0..Len(cells) |-> IF i = 0 THEN g ELSE TryCell(d[i - 1], cells[i])]
  <2>1. PICK h : IsTrying(h, Len(cells), g, cells)
    BY TryingExists
  <2>2. h = [i \in 0..Len(cells) |-> IF i = 0 THEN g ELSE TryCell(h[i - 1], cells[i])]
    BY <2>1 DEF IsTrying
  <2> QED
    BY <2>2, Zenon
<1>2. HeapAfter(g, cells) = d[Len(cells)]
  BY DEF HeapAfter
<1> HIDE DEF d
<1>3. d[0] = g
  BY <1>1
<1>4. ASSUME NEW i \in 1..Len(cells) PROVE d[i] = TryCell(d[i - 1], cells[i])
  BY <1>1
<1> QED
  BY <1>2, <1>3, <1>4 DEF Tries

\* The cells that have a point.
Held(m, cells) == cells \cap DOMAIN m
FirstOf(cells, n) == {cells[i] : i \in 1..n}

\* After a group that brings new cells the heap is the heap of those too.
LEMMA GroupVisited ==
  ASSUME \A c \in DOMAIN map : map[c] \in Nat, NEW cells, Len(cells) \in Nat,
         \A i, j \in 1..Len(cells) : cells[i] = cells[j] => i = j,
         NEW seen, \A i \in 1..Len(cells) : cells[i] \notin seen, NEW h, HeapOf(h, map, Held(map, seen))
  PROVE  HeapOf(HeapAfter(h, cells), map, Held(map, seen \cup FirstOf(cells, Len(cells))))
<1>1. PICK d : Tries(d, h, cells)
  BY HeapAfterIsTries
<1> DEFINE S == {n \in 0..Len(cells) : HeapOf(d[n], map, Held(map, seen \cup FirstOf(cells, n)))}
<1>2. 0 \in S
  <2>1. seen \cup FirstOf(cells, 0) = seen
    <3>1. FirstOf(cells, 0) = {}
      BY DEF FirstOf
    <3> QED
      BY <3>1
  <2>2. d[0] = h /\ 0 \in 0..Len(cells)
    BY <1>1 DEF Tries
  <2>3. HeapOf(d[0], map, Held(map, seen \cup FirstOf(cells, 0)))
    BY <2>1, <2>2
  <2> QED
    BY <2>2, <2>3
<1>3. ASSUME NEW n \in 1..Len(cells), n - 1 \in S PROVE n \in S
  <2> DEFINE c == cells[n]
             old == Held(map, seen \cup FirstOf(cells, n - 1))
             new == Held(map, seen \cup FirstOf(cells, n))
  <2>1. FirstOf(cells, n) = FirstOf(cells, n - 1) \cup {c}
    <3>1. 1..n = 1..(n - 1) \cup {n}
      OBVIOUS
    <3> QED
      BY <3>1 DEF FirstOf
  <2>2. c \notin FirstOf(cells, n - 1) /\ c \notin seen
    <3>1. \A i \in 1..(n - 1) : i \in 1..Len(cells) /\ i # n
      OBVIOUS
    <3> QED
      BY <3>1 DEF FirstOf
  <2>3. d[n] = TryCell(d[n - 1], c) /\ HeapOf(d[n - 1], map, old)
    BY <1>1, <1>3 DEF Tries
  <2>4. n \in 0..Len(cells)
    OBVIOUS
  <2>5. CASE c \in DOMAIN map
    <3>1. new = old \cup {c} /\ c \notin old /\ map[c] \in Nat /\ \A x \in old : map[x] \in Nat
      BY <2>1, <2>2, <2>5 DEF Held
    <3>2. d[n] = TryInsert(d[n - 1], map[c], c)
      BY <2>3, <2>5 DEF TryCell
    <3> DEFINE b == d[n - 1]
    <3> HIDE DEF c, old, new, b
    <3>3. b.count < K \/ b.count = K
      <4>1. b.count \in 0..K
        BY <2>3 DEF HeapOf, HeapTypes, b
      <4> QED
        BY <4>1 DEF K
    <3>4. HeapOf(d[n], map, new)
      <4>1. HeapOf(TryInsert(b, map[c], c), map, old \cup {c})
        BY <2>3, <3>1, <3>3, InsertFree, InsertFull DEF b
      <4> QED
        BY <3>1, <3>2, <4>1 DEF b
    <3> QED
      BY <2>4, <3>4 DEF new
  <2>6. CASE c \notin DOMAIN map
    <3>1. new = old
      BY <2>1, <2>6 DEF Held
    <3>2. d[n] = d[n - 1]
      BY <2>3, <2>6 DEF TryCell
    <3> QED
      BY <2>3, <2>4, <3>1, <3>2
  <2> QED
    BY <2>5, <2>6
<1> HIDE DEF S
<1>4. \A i \in 0..Len(cells) : i \in S
  BY <1>2, <1>3, UpTo
<1>5. Len(cells) \in S
  BY <1>4
<1> QED
  BY <1>1, <1>5 DEF S, Tries
-----------------------------------------------------------------------------
(***************************************************************************)
(* The search                                                              *)
(***************************************************************************)
\* The heap is that of the groups visited, and the search has ended only where it may.
SearchInv ==
  \/ NoSearch
  \/ /\ map \in Maps /\ query \in 0..7 /\ group \in 1..LastGroup /\ found \in BOOLEAN
     /\ ~found => HeapOf(heap, map, Held(map, SeenBy(query, group - 1)))
     /\ found => /\ HeapOf(heap, map, Held(map, SeenBy(query, group)))
                 /\ group = LastGroup \/ (heap.count = K /\ heap.max < MinDis2[group])

LEMMA EmptyHeapOf == HeapOf(EmptyHeap, map, {})
BY DEF HeapOf, HeapTypes, HeapFields, Holds, WorstKnown, Nearest, EmptyHeap, K

LEMMA SearchStarts == SearchInit => SearchInv
<1> SUFFICES ASSUME SearchInit PROVE SearchInv
  OBVIOUS
<1>1. SeenBy(query, 0) = {} /\ Held(map, {}) = {}
  BY DEF SeenBy, Held
<1>3. group - 1 = 0
  BY DEF SearchInit
<1>2. map \in Maps /\ query \in 0..7 /\ group = 1 /\ found = FALSE /\ heap = EmptyHeap
  BY SearchAssumption DEF SearchInit
<1> QED
  <2>1. HeapOf(heap, map, Held(map, SeenBy(query, group - 1)))
    BY <1>1, <1>2, <1>3, EmptyHeapOf
  <2>2. group \in 1..LastGroup
    BY <1>2 DEF LastGroup
  <2>3. found \in BOOLEAN /\ ~found
    BY <1>2, Zenon
  <2> QED
    BY <1>2, <2>1, <2>2, <2>3, Zenon DEF SearchInv

LEMMA SearchGoesOn ==
  ASSUME SearchInv, VisitGroup
  PROVE  SearchInv'
<1>1. /\ ~found /\ map \in Maps /\ query \in 0..7 /\ group \in 1..LastGroup
      /\ HeapOf(heap, map, Held(map, SeenBy(query, group - 1)))
  BY DEF SearchInv, VisitGroup, NoSearch
<1> DEFINE cells == Cells[query][group]
           h     == HeapAfter(heap, cells)
<1>2. /\ heap' = h /\ map' = map /\ query' = query
      /\ IF group = LastGroup \/ (h.count = K /\ h.max < MinDis2[group])
         THEN found' = TRUE /\ group' = group ELSE group' = group + 1 /\ found' = found
  BY DEF VisitGroup
<1>3. /\ cells \in Seq([Axes -> Int])
      /\ \A i, j \in 1..Len(cells) : cells[i] = cells[j] => i = j
      /\ \A i \in 1..Len(cells) : cells[i] \notin SeenBy(query, group - 1)
  BY <1>1, TablesFit
<1>4. Len(cells) \in Nat /\ FirstOf(cells, Len(cells)) = ToSet(cells)
  BY <1>3 DEF FirstOf, ToSet
<1>5. SeenBy(query, group) = SeenBy(query, group - 1) \cup ToSet(cells)
  <2>1. 1..group = 1..(group - 1) \cup {group}
    BY <1>1
  <2> QED
    BY <2>1 DEF SeenBy
<1> HIDE DEF cells
<1>6. HeapOf(h, map, Held(map, SeenBy(query, group)))
  BY <1>1, <1>3, <1>4, <1>5, SearchAssumption, GroupVisited
<1> HIDE DEF h
<1>7. HeapOf(heap', map', Held(map', SeenBy(query', group)))
  BY <1>2, <1>6
<1>8. CASE group = LastGroup \/ (h.count = K /\ h.max < MinDis2[group])
  BY <1>1, <1>2, <1>7, <1>8 DEF SearchInv
<1>9. CASE ~(group = LastGroup \/ (h.count = K /\ h.max < MinDis2[group]))
  <2>1. group' = group + 1 /\ found' = FALSE /\ group' - 1 = group /\ group' \in 1..LastGroup
    BY <1>1, <1>2, <1>9 DEF LastGroup
  <2> QED
    BY <1>1, <1>2, <1>7, <2>1 DEF SearchInv
<1> QED
  BY <1>8, <1>9

\* A cell with a coordinate beyond three is out of reach.
LEMMA FarAway ==
  ASSUME NEW c \in [Axes -> Int], c \notin [Axes -> -3..3]
  PROVE  Gap(c) >= Reach
<1>1. PICK a \in Axes : c[a] \notin -3..3
  OBVIOUS
<1>2. c[1] \in Int /\ c[2] \in Int /\ c[3] \in Int /\ a \in {1, 2, 3} /\ c[a] \in Int
  BY DEF Axes
<1>3. ASSUME NEW x \in Int PROVE Between(x) \in Nat /\ (x \notin -3..3 => Between(x) >= 3)
  BY DEF Between
<1>4. ASSUME NEW b \in Nat PROVE b * b \in Nat /\ (b >= 3 => b * b >= 9)
  BY <1>4
<1> DEFINE s1 == Between(c[1]) * Between(c[1])
           s2 == Between(c[2]) * Between(c[2])
           s3 == Between(c[3]) * Between(c[3])
<1>5. s1 \in Nat /\ s2 \in Nat /\ s3 \in Nat /\ (s1 >= 9 \/ s2 >= 9 \/ s3 >= 9)
  <2>1. s1 \in Nat /\ s2 \in Nat /\ s3 \in Nat
    BY <1>2, <1>3, <1>4
  <2>2. Between(c[a]) * Between(c[a]) >= 9
    BY <1>1, <1>2, <1>3, <1>4
  <2> QED
    BY <1>2, <2>1, <2>2
<1>6. Gap(c) = 2 * (s1 + s2 + s3)
  BY DEF Gap
<1> HIDE DEF s1, s2, s3
<1> QED
  BY <1>5, <1>6 DEF Reach

LEMMA GapTypes ==
  ASSUME NEW c \in [Axes -> Int]
  PROVE  Gap(c) \in Nat
<1>1. ASSUME NEW x \in Int PROVE Between(x) \in Nat
  BY DEF Between
<1>2. ASSUME NEW b \in Nat PROVE b * b \in Nat
  BY <1>2
<1> DEFINE s1 == Between(c[1]) * Between(c[1])
           s2 == Between(c[2]) * Between(c[2])
           s3 == Between(c[3]) * Between(c[3])
<1>3. s1 \in Nat /\ s2 \in Nat /\ s3 \in Nat
  BY <1>1, <1>2 DEF Axes
<1>4. Gap(c) = 2 * (s1 + s2 + s3)
  BY DEF Gap
<1> HIDE DEF s1, s2, s3
<1> QED
  BY <1>3, <1>4

\* What the groups have left out is as far as the limit, or out of reach.
LEMMA LeftOutIsFar ==
  ASSUME NEW q \in 0..7, NEW g \in 1..LastGroup, NEW c \in [Axes -> Int], c \notin SeenBy(q, g)
  PROVE  OutOfReach(c) \/ (g # LastGroup /\ Gap(c) >= MinDis2[g])
<1>1. CASE c \notin [Axes -> -3..3]
  BY <1>1, FarAway DEF OutOfReach
<1>2. CASE c \in [Axes -> -3..3]
  <2>1. ~(Gap(c) < (IF g = LastGroup THEN Reach ELSE MinDis2[g]))
    BY <1>2, TablesFit
  <2>2. Gap(c) \in Nat /\ Reach \in Nat /\ (g # LastGroup => MinDis2[g] \in Nat)
    BY GapTypes DEF Reach, MinDis2, LastGroup
  <2> QED
    BY <2>1, <2>2 DEF OutOfReach
<1> QED
  BY <1>1, <1>2

LEMMA SearchFound == SearchInv => SearchFindsNearest
<1> SUFFICES ASSUME SearchInv PROVE SearchFindsNearest
  OBVIOUS
<1> DEFINE places  == 1..heap.count
           results == {heap.points[i] : i \in places}
<1>1. CASE NoSearch
  BY <1>1 DEF NoSearch, SearchFindsNearest, SearchTypeOK, EmptyHeap, LastGroup, K
<1>2. CASE ~NoSearch
  <2> DEFINE seen == SeenBy(query, IF found THEN group ELSE group - 1)
  <2>1. /\ map \in Maps /\ query \in 0..7 /\ group \in 1..LastGroup /\ found \in BOOLEAN
        /\ HeapOf(heap, map, Held(map, seen))
        /\ found => group = LastGroup \/ (heap.count = K /\ heap.max < MinDis2[group])
    BY <1>2 DEF SearchInv
  <2> HIDE DEF seen
  <2>7. heap.count \in 0..K /\ heap.worst \in 1..K /\ heap.dist \in [1..K -> Nat] /\ heap.max \in Nat
    BY <2>1 DEF HeapOf, HeapTypes
  <2>8. Holds(heap, map, Held(map, seen)) /\ WorstKnown(heap) /\ Nearest(heap, map, Held(map, seen))
    BY <2>1 DEF HeapOf
  <2>9. \A i \in places : heap.points[i] \in Held(map, seen) /\ heap.dist[i] = map[heap.points[i]]
    BY <2>8 DEF Holds
  <2>10. \A i, j \in places : heap.points[i] = heap.points[j] => i = j
    BY <2>8 DEF Holds
  <2>11. \A i \in places : heap.dist[i] <= heap.max
    BY <2>8 DEF WorstKnown
  <2>12. \A c \in Held(map, seen) : (\E i \in places : heap.points[i] = c)
                                    \/ (heap.count = K /\ heap.max <= map[c])
    BY <2>8 DEF Nearest
  <2>2. /\ heap.count \in 0..K /\ heap.worst \in 1..K /\ heap.dist \in [1..K -> Nat] /\ heap.max \in Nat
        /\ \A i \in places : heap.points[i] \in DOMAIN map /\ heap.dist[i] = map[heap.points[i]]
        /\ \A i, j \in places : heap.points[i] = heap.points[j] => i = j
        /\ \A i \in places : heap.dist[i] <= heap.max
        /\ \A c \in Held(map, seen) : (\E i \in places : heap.points[i] = c)
                                      \/ (heap.count = K /\ heap.max <= map[c])
    BY <2>7, <2>9, <2>10, <2>11, <2>12 DEF Held
  <2>3. SearchTypeOK
    BY <2>1, <2>2 DEF SearchTypeOK
  <2>4. Cardinality(results) = heap.count
    <3> DEFINE n == heap.count
               p == [i \in 1..n |-> heap.points[i]]
    <3>1. n \in Nat
      BY <2>2 DEF K
    <3>2. p \in Bijection(1..n, results)
      BY <2>2 DEF Bijection, Injection, Surjection, IsInjective
    <3>3. ExistsBijection(1..n, results)
      BY <3>2 DEF ExistsBijection
    <3> HIDE DEF n, p, results
    <3>4. Cardinality(results) = n
      BY <3>1, <3>3, FS_NatBijection, FS_CountingElements
    <3> QED
      BY <3>4 DEF n
  <2>5. ASSUME found, NEW c \in DOMAIN map \ results
        PROVE  OutOfReach(c) \/ (heap.count = K /\ \A i \in places : heap.dist[i] <= map[c])
    <3>1. c \in [Axes -> Int] /\ map[c] \in Nat /\ map[c] >= Gap(c) /\ Gap(c) \in Nat
      BY <2>1, <2>5, SearchAssumption, GapTypes
    <3>2. ASSUME heap.count = K, heap.max <= map[c] PROVE \A i \in places : heap.dist[i] <= map[c]
      <4>1. ASSUME NEW i \in places PROVE heap.dist[i] <= map[c]
        <5>1. heap.dist[i] <= heap.max /\ heap.dist[i] \in Nat
          BY <2>2, <3>2
        <5> QED
          BY <2>2, <3>1, <3>2, <5>1
      <4> QED
        BY <4>1
    <3>3. CASE c \in seen
      <4>1. c \in Held(map, seen) /\ ~(\E i \in places : heap.points[i] = c)
        BY <2>5, <3>3 DEF Held
      <4> QED
        BY <2>2, <3>2, <4>1
    <3>4. CASE c \notin seen
      <4>1. c \notin SeenBy(query, group)
        BY <2>5, <3>4 DEF seen
      <4>2. OutOfReach(c) \/ (group # LastGroup /\ Gap(c) >= MinDis2[group])
        BY <2>1, <3>1, <4>1, LeftOutIsFar
      <4>3. CASE group # LastGroup /\ Gap(c) >= MinDis2[group]
        <5>1. heap.count = K /\ heap.max < MinDis2[group] /\ MinDis2[group] \in Nat
          BY <2>1, <2>5, <4>3 DEF MinDis2, LastGroup
        <5>2. heap.max <= map[c]
          BY <2>2, <3>1, <4>3, <5>1
        <5> QED
          BY <3>2, <5>1, <5>2
      <4> QED
        BY <4>2, <4>3
    <3> QED
      BY <3>3, <3>4
  <2>6. results \subseteq DOMAIN map
    BY <2>2
  <2> QED
    BY <2>2, <2>3, <2>4, <2>5, <2>6 DEF SearchFindsNearest
<1> QED
  BY <1>1, <1>2

\* For every map around the query the search ends with the five nearest points within its
\* reach, however early it ends: what TLC finds of the tables (TablesFit) and what the heap
\* does with the cells, in whatever order they come, are enough.
THEOREM SearchIsNearest == MapSpec => []SearchFindsNearest
<1>1. MapInit => SearchInv
  BY SearchStarts DEF MapInit, SearchInv
<1>2. SearchInv /\ [MapNext]_<<vars, searchVars>> => SearchInv'
  <2> SUFFICES ASSUME SearchInv, [MapNext]_<<vars, searchVars>> PROVE SearchInv'
    OBVIOUS
  <2>1. VisitGroup \/ UNCHANGED searchVars
    BY DEF MapNext
  <2>2. CASE UNCHANGED searchVars
    BY <2>2 DEF searchVars, SearchInv, NoSearch
  <2> QED
    BY <2>1, <2>2, SearchGoesOn
<1> QED
  BY <1>1, <1>2, SearchFound, PTL DEF MapSpec
=============================================================================
