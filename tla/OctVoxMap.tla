----------------------------- MODULE OctVoxMap -----------------------------
(***************************************************************************)
(* The voxel map of Super-LIO (OctVoxMap.hpp): a list of voxels ordered by  *)
(* last use, and a hash from the key of a voxel to its place in the list.   *)
(* insert() moves the voxel of each point to the front, or creates it there *)
(* and throws out the one at the back when the list has become too long.    *)
(*                                                                         *)
(* A point is the key of its voxel and its octant; whether it lies near the *)
(* mean of that octant's points is left open.  Keys are unique in the list, *)
(* so an iterator is the key it points at.                                  *)
(***************************************************************************)
EXTENDS Integers, Sequences, SequencesExt

CONSTANTS Keys,         \* voxel keys
          Octants,      \* the eight parts of a voxel
          Capacity,     \* capacity_
          MaxPoints,    \* MAX_POINTS_PER_SUBVOXEL
          MaxCloud,     \* bound on the points of one scan
          MaxTouches    \* bound on the points inserted

ASSUME MapAssumption == /\ Capacity \in Nat \ {0}
                        /\ MaxPoints \in Nat \ {0}
                        /\ MaxCloud \in Nat \ {0}
                        /\ MaxTouches \in Nat

VARIABLES
  data,       \* data_: the keys of the voxels, last used first
  grids,      \* grids_: the keys the hash knows
  counts,     \* counts_ of each voxel
  cloud,      \* the points that the running insert() has before it
  touched     \* history: the keys of the points inserted

vars == <<data, grids, counts, cloud, touched>>

Points == [key : Keys, octant : Octants]
Empty  == [o \in Octants |-> 0]

TypeOK == /\ data \in Seq(Keys)
          /\ grids \subseteq Keys
          /\ counts \in [Keys -> [Octants -> 0..MaxPoints]]
          /\ cloud \in Seq(Points)
          /\ touched \in Seq(Keys)

Init == /\ data = <<>>
        /\ grids = {}
        /\ counts = [k \in Keys |-> Empty]
        /\ cloud = <<>>
        /\ touched = <<>>
-----------------------------------------------------------------------------
\* A call of insert(), by map_init or UpdateMap.
Insert(c) == /\ cloud = <<>>
             /\ Len(touched) + Len(c) <= MaxTouches
             /\ cloud' = c
             /\ UNCHANGED <<data, grids, counts, touched>>

\* AddPoint: the number of points in the octant, n, after one more.
AddPointUnlimited(n, near) == IF n = 0 \/ near THEN n + 1 ELSE n     \* mutant
AddPoint(n, near) == IF n = 0 \/ (n < MaxPoints /\ near) THEN n + 1 ELSE n

\* The new voxel is at the front; the list has become too long when it has Capacity
\* voxels.
TooLongLater(q) == Len(q) > Capacity + 1     \* mutant
TooLong(q) == Len(q) >= Capacity

\* The key at the back leaves the list and the hash.
ForgetNothing(known, k) == known     \* mutant: the hash keeps the key
Forget(known, k) == known \ {k}

CreateVoxel(p) ==
  LET longer == <<p.key>> \o data
      last   == Last(longer)
      filled == [counts EXCEPT ![p.key] = [Empty EXCEPT ![p.octant] = 1]]
  IN /\ p.key \notin grids
     /\ \/ /\ ~TooLong(longer)
           /\ data' = longer
           /\ grids' = grids \cup {p.key}
           /\ counts' = filled
        \/ /\ TooLong(longer)
           /\ data' = Front(longer)
           /\ grids' = Forget(grids \cup {p.key}, last)
           /\ counts' = [filled EXCEPT ![last] = Empty]

\* splice: the voxel that the iterator points at moves to the front.
ToFrontNot(q, k) == q     \* mutant: eviction by age
ToFront(q, k) == <<k>> \o RemoveAt(q, CHOOSE i \in 1..Len(q) : q[i] = k)

UseVoxel(p) ==
  /\ p.key \in grids
  /\ \E near \in BOOLEAN : counts' = [counts EXCEPT ![p.key][p.octant] = AddPoint(@, near)]
  /\ data' = ToFront(data, p.key)
  /\ UNCHANGED grids

\* One turn of the loop of insert().
InsertPoint ==
  /\ cloud # <<>>
  /\ CreateVoxel(Head(cloud)) \/ UseVoxel(Head(cloud))
  /\ cloud' = Tail(cloud)
  /\ touched' = Append(touched, Head(cloud).key)

Clouds == UNION {[1..n -> Points] : n \in 1..MaxCloud}

Next == InsertPoint \/ \E c \in Clouds : Insert(c)

Spec == Init /\ [][Next]_vars
-----------------------------------------------------------------------------
(***************************************************************************)
(* Properties                                                              *)
(***************************************************************************)
\* The hash and the list know the same voxels, each once: getTopK never follows an
\* iterator to a voxel that was thrown out, and no voxel in the list is out of reach.  No
\* octant has more points than it has room for.
GridMatchesList == TypeOK /\ IsInjective(data) /\ grids = ToSet(data)

\* The keys used after the last use of k.
LastUse(k)    == CHOOSE i \in 1..Len(touched) :
                   touched[i] = k /\ \A j \in (i + 1)..Len(touched) : touched[j] # k
UsedSince(k)  == {touched[j] : j \in (LastUse(k) + 1)..Len(touched)}

\* The map holds the Capacity - 1 voxels used last, no other and no fewer: a voxel in
\* use is not thrown out while older ones stay.
RecentVoxelsKept ==
  grids = {k \in ToSet(touched) : Cardinality(UsedSince(k)) < Capacity - 1}
=============================================================================
