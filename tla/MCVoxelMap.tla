----------------------------- MODULE MCVoxelMap -----------------------------
(* Instances of VoxelMap for TLC: four keys that may be exchanged, and for   *)
(* the search ten cells, of every group and out of reach, each empty or with  *)
(* a point at one or two distances.                                          *)
EXTENDS VoxelMap

CONSTANTS k1, k2, k3, k4, o1, o2

FourKeys   == {k1, k2, k3, k4}
TwoOctants == {o1, o2}
Symmetry   == Permutations(FourKeys) \cup Permutations(TwoOctants)

Around == << [cell |-> <<0,0,0>>,   at |-> {1}],     [cell |-> <<1,-1,0>>, at |-> {1, 7}],
             [cell |-> <<0,1,1>>,   at |-> {3, 13}], [cell |-> <<2,0,0>>,  at |-> {3, 11}],
             [cell |-> <<0,-2,1>>,  at |-> {3, 9}],  [cell |-> <<2,-2,0>>, at |-> {5, 9}],
             [cell |-> <<-2,-2,2>>, at |-> {7, 11}], [cell |-> <<0,3,0>>,  at |-> {9, 11}],
             [cell |-> <<3,2,0>>,   at |-> {11}],    [cell |-> <<5,0,0>>, at |-> {33}] >>

MapsAround ==
  FoldLeft(LAMBDA maps, place :
             maps \cup UNION {{m @@ (place.cell :> d) : m \in maps} : d \in place.at},
           {<<>>}, Around) \ {<<>>}
=============================================================================
