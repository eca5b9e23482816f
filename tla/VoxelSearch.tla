----------------------------- MODULE VoxelSearch -----------------------------
(***************************************************************************)
(* The search for the five nearest points of the voxel map (getTopK and      *)
(* KNNHeap of OctVoxMap.hpp, the tables of HKNN_list60_gem.h).  The octants   *)
(* around the query are visited in six groups, from near to far, and the     *)
(* search ends as soon as no later group can have a nearer point.            *)
(*                                                                         *)
(* A cell is one octant of one voxel, given by its offset from the octant    *)
(* of the query; it holds one point, the mean of its points, or none.        *)
(* Squared distances are in halves of the square of an octant's side.        *)
(***************************************************************************)
EXTENDS Integers, Sequences, SequencesExt, FiniteSets

CONSTANTS
  Maps,      \* the maps around the query: functions from cells to squared distances
  Queries    \* the octants of its voxel that the query may lie in

K == 5
Axes == 1..3
LastGroup == 6

\* The squared distance that a point of the cell has at least from any query.
Between(x) == IF x = 0 THEN 0 ELSE IF x < 0 THEN -x - 1 ELSE x - 1
Gap(c) == 2 * (Between(c[1]) * Between(c[1]) + Between(c[2]) * Between(c[2])
                 + Between(c[3]) * Between(c[3]))

ASSUME SearchAssumption ==
  /\ \A m \in Maps : \A c \in DOMAIN m : c \in [Axes -> Int] /\ m[c] \in Nat /\ m[c] >= Gap(c)
  /\ Queries \subseteq 0..7

VARIABLES
  map,     \* what the cells around the query hold
  query,   \* local_idx of the query
  group,   \* group_idx + 1
  heap,    \* top_K: count, worst_, max_dist2_, dist2_ and points_, which are cells here
  found    \* the search is over

searchVars == <<map, query, group, heap, found>>

EmptyHeap == [count |-> 0, worst |-> 1, max |-> 0,
              dist |-> [i \in 1..K |-> 0], points |-> [i \in 1..K |-> <<>>]]

SearchTypeOK == /\ group \in 1..LastGroup /\ found \in BOOLEAN
                /\ heap.count \in 0..K /\ heap.worst \in 1..K
                /\ heap.dist \in [1..K -> Nat]

SearchInit == /\ map \in Maps /\ query \in Queries
              /\ group = 1 /\ heap = EmptyHeap /\ found = FALSE

NoSearch == map = <<>> /\ query = 0 /\ group = 1 /\ heap = EmptyHeap /\ found = TRUE
-----------------------------------------------------------------------------
\* update_worst_unrolled.
WorstOfFour(d) ==      \* mutant: the last place is not compared
  LET a == IF d[1] > d[2] THEN 1 ELSE 2
      b == IF d[3] > d[4] THEN 3 ELSE 4
  IN IF d[a] > d[b] THEN a ELSE b
Worst(d) ==
  LET a == IF d[1] > d[2] THEN 1 ELSE 2
      b == IF d[3] > d[4] THEN 3 ELSE 4
      c == IF d[a] > d[b] THEN a ELSE b
  IN IF d[c] > d[5] THEN c ELSE 5

\* try_insert: a full heap replaces its worst point by a nearer one.
TryInsert(h, d, point) ==
  LET i       == IF h.count < K THEN h.count + 1 ELSE h.worst
      dist    == [h.dist EXCEPT ![i] = d]
      points  == [h.points EXCEPT ![i] = point]
      worst   == IF h.count = K THEN Worst(dist) ELSE IF d > h.max THEN i ELSE h.worst
  IN IF h.count = K /\ d >= h.max THEN h
     ELSE [count |-> IF h.count < K THEN h.count + 1 ELSE K, worst |-> worst,
           max |-> IF h.count = K \/ d > h.max THEN dist[worst] ELSE h.max,
           dist |-> dist, points |-> points]

\* orders_min_dis2, for voxels of half a metre, which every configuration has: smaller ones
\* would need smaller limits.
MinDis2 == <<2, 4, 8, 10, 12, 3200>>

NeighborVoxel ==
  <<<<0,0,0>>, <<0,-1,0>>, <<0,0,-1>>, <<-1,0,0>>, <<-1,0,-1>>, <<0,-1,-1>>, <<-1,-1,0>>,
    <<-1,-1,-1>>, <<1,0,0>>, <<0,1,0>>, <<0,0,1>>, <<0,-1,1>>, <<1,-1,0>>, <<1,0,-1>>,
    <<0,1,-1>>, <<-1,1,0>>, <<-1,0,1>>, <<-1,-1,1>>, <<-1,1,-1>>, <<1,-1,-1>>, <<0,0,-2>>,
    <<0,1,1>>, <<1,1,0>>, <<1,0,1>>, <<-2,0,0>>, <<0,-2,0>>, <<-2,0,-1>>, <<-1,0,-2>>,
    <<-1,-2,0>>, <<-2,-1,0>>, <<0,-2,-1>>, <<1,1,-1>>, <<-1,1,1>>, <<1,-1,1>>, <<0,-1,-2>>,
    <<-2,-1,-1>>, <<-1,-1,-2>>, <<-1,-2,-1>>, <<-2,1,0>>, <<1,-2,0>>, <<0,-2,1>>, <<0,1,-2>>,
    <<1,0,-2>>, <<1,1,1>>, <<-2,0,1>>, <<1,-1,-2>>, <<1,-2,-1>>, <<-2,1,-1>>, <<-2,-1,1>>,
    <<-1,1,-2>>, <<-1,-2,1>>, <<0,-2,-2>>, <<-2,0,-2>>, <<-2,1,1>>, <<1,1,-2>>, <<1,-2,1>>,
    <<-2,-2,0>>, <<-2,-1,-2>>, <<-2,-2,-1>>, <<-1,-2,-2>>>>

\* flat_search_order: for each group the voxels, by their place above, and their octants.
SearchOrder ==
  <<<<<<0,<<0,1,2,3,4,5,6,7>>>>, <<1,<<2,3,6,7>>>>, <<2,<<4,5,6,7>>>>, <<3,<<1,3,5,7>>>>,
     <<4,<<5,7>>>>, <<5,<<6,7>>>>, <<6,<<3,7>>>>, <<7,<<7>>>>>>,
    <<<<1,<<0,1,4,5>>>>, <<2,<<0,1,2,3>>>>, <<3,<<0,2,4,6>>>>, <<4,<<1,3,4,6>>>>, <<5,<<2,3,4,5>>>>,
     <<6,<<1,2,5,6>>>>, <<7,<<3,5,6>>>>, <<8,<<0,2,4,6>>>>, <<9,<<0,1,4,5>>>>,
     <<10,<<0,1,2,3>>>>, <<11,<<2,3>>>>, <<12,<<2,6>>>>, <<13,<<4,6>>>>, <<14,<<4,5>>>>,
     <<15,<<1,5>>>>, <<16,<<1,3>>>>, <<17,<<3>>>>, <<18,<<5>>>>, <<19,<<6>>>>>>,
    <<<<4,<<0,2>>>>, <<5,<<0,1>>>>, <<6,<<0,4>>>>, <<7,<<0,1,2,4>>>>, <<11,<<0,1>>>>, <<12,<<0,4>>>>,
     <<13,<<0,2>>>>, <<14,<<0,1>>>>, <<15,<<0,4>>>>, <<16,<<0,2>>>>, <<17,<<0,1,2>>>>,
     <<18,<<0,1,4>>>>, <<19,<<0,2,4>>>>, <<21,<<0,1>>>>, <<22,<<0,4>>>>, <<23,<<0,2>>>>,
     <<31,<<0,4>>>>, <<32,<<0,1>>>>, <<33,<<0,2>>>>, <<43,<<0>>>>>>,
    <<<<8,<<1,3,5,7>>>>, <<9,<<2,3,6,7>>>>, <<10,<<4,5,6,7>>>>, <<11,<<6,7>>>>, <<12,<<3,7>>>>,
     <<13,<<5,7>>>>, <<14,<<6,7>>>>, <<15,<<3,7>>>>, <<16,<<5,7>>>>, <<17,<<7>>>>, <<18,<<7>>>>,
     <<19,<<7>>>>, <<20,<<4,5,6,7>>>>, <<24,<<1,3,5,7>>>>, <<25,<<2,3,6,7>>>>, <<26,<<5,7>>>>,
     <<27,<<5,7>>>>, <<28,<<3,7>>>>, <<29,<<3,7>>>>, <<30,<<6,7>>>>, <<34,<<6,7>>>>,
     <<35,<<7>>>>, <<36,<<7>>>>, <<37,<<7>>>>>>,
    <<<<11,<<4,5>>>>, <<12,<<1,5>>>>, <<13,<<1,3>>>>, <<14,<<2,3>>>>, <<15,<<2,6>>>>, <<16,<<4,6>>>>,
     <<17,<<5,6>>>>, <<18,<<3,6>>>>, <<19,<<3,5>>>>, <<21,<<2,3,4,5>>>>, <<22,<<1,2,5,6>>>>,
     <<23,<<1,3,4,6>>>>, <<26,<<1,3>>>>, <<27,<<4,6>>>>, <<28,<<2,6>>>>, <<29,<<1,5>>>>,
     <<30,<<2,3>>>>, <<31,<<5,6>>>>, <<32,<<3,5>>>>, <<33,<<3,6>>>>, <<34,<<4,5>>>>,
     <<35,<<3,5>>>>, <<36,<<5,6>>>>, <<37,<<3,6>>>>, <<38,<<1,5>>>>, <<39,<<2,6>>>>,
     <<40,<<2,3>>>>, <<41,<<4,5>>>>, <<42,<<4,6>>>>, <<44,<<1,3>>>>, <<45,<<6>>>>, <<46,<<6>>>>,
     <<47,<<5>>>>, <<48,<<3>>>>, <<49,<<5>>>>, <<50,<<3>>>>>>,
    <<<<17,<<4>>>>, <<18,<<2>>>>, <<19,<<1>>>>, <<21,<<6,7>>>>, <<22,<<3,7>>>>, <<23,<<5,7>>>>,
     <<31,<<1,2,7>>>>, <<32,<<2,4,7>>>>, <<33,<<1,4,7>>>>, <<35,<<1>>>>, <<36,<<4>>>>,
     <<37,<<2>>>>, <<38,<<3,7>>>>, <<39,<<3,7>>>>, <<40,<<6,7>>>>, <<41,<<6,7>>>>,
     <<42,<<5,7>>>>, <<43,<<1,2,4>>>>, <<44,<<5,7>>>>, <<45,<<4,7>>>>, <<46,<<2,7>>>>,
     <<47,<<1,7>>>>, <<48,<<1,7>>>>, <<49,<<4,7>>>>, <<50,<<2,7>>>>, <<51,<<6,7>>>>,
     <<52,<<5,7>>>>, <<53,<<1>>>>, <<54,<<4>>>>, <<55,<<2>>>>, <<56,<<3,7>>>>, <<57,<<7>>>>,
     <<58,<<7>>>>, <<59,<<7>>>>>>>>

Bit(n, a) == (n \div 2^(a - 1)) % 2

\* The cell that an entry means for a query in octant q: voxels are mirrored away from the
\* query's side, and octants likewise, by an exclusive or.
Mirror(q, n, o, a) ==
  2 * (1 - 2 * Bit(q, a)) * NeighborVoxel[n + 1][a] + ((Bit(o, a) + Bit(q, a)) % 2) - Bit(q, a)

CellsOfRow(q, row) ==
  [i \in 1..Len(row[2]) |-> [a \in Axes |-> Mirror(q, row[1], row[2][i], a)]]
Cells == [q \in 0..7 |-> [g \in 1..LastGroup |->
            FlattenSeq([i \in 1..Len(SearchOrder[g]) |-> CellsOfRow(q, SearchOrder[g][i])])]]
SeenBy(q, g) == UNION {ToSet(Cells[q][h]) : h \in 1..g}

\* The table ends at three octants, 0.75 m.
Reach == 2 * (3 * 3)

\* What the search needs of the tables: no cell comes twice, and what is left out of a group
\* and those before it is no nearer than its limit, and of all groups no nearer than the reach.
\* Cells with a coordinate beyond three are out of reach.
ASSUME TablesFit ==
  \A q \in 0..7 :
    /\ \A g \in 1..LastGroup :
         /\ Cells[q][g] \in Seq([Axes -> Int])
         /\ \A i, j \in 1..Len(Cells[q][g]) : Cells[q][g][i] = Cells[q][g][j] => i = j
         /\ \A i \in 1..Len(Cells[q][g]) : Cells[q][g][i] \notin SeenBy(q, g - 1)
    /\ \A g \in 1..LastGroup, c \in [Axes -> -3..3] :
         Gap(c) < (IF g = LastGroup THEN Reach ELSE MinDis2[g]) => c \in SeenBy(q, g)

\* One turn of the loop of getTopK: all cells of a group, and the test whether to go on.
TryCell(h, c) == IF c \in DOMAIN map THEN TryInsert(h, map[c], c) ELSE h
HeapAfter(h, cells) ==
  LET top[n \in 0..Len(cells)] == IF n = 0 THEN h ELSE TryCell(top[n - 1], cells[n])
  IN top[Len(cells)]
VisitGroup ==
  LET h == HeapAfter(heap, Cells[query][group]) IN
  /\ ~found
  /\ heap' = h
  /\ IF group = LastGroup \/ (h.count = K /\ h.max < MinDis2[group])
     THEN found' = TRUE /\ UNCHANGED group
     ELSE group' = group + 1 /\ UNCHANGED found
  /\ UNCHANGED <<map, query>>
-----------------------------------------------------------------------------
(***************************************************************************)
(* Properties                                                              *)
(***************************************************************************)
OutOfReach(c) == Gap(c) >= Reach

\* However early the search ends, and in whatever order the points come to the heap, it
\* holds the five nearest points, or all if there are not more, each once and with its
\* distance: no cell that was left out has a nearer one, unless it is out of reach.  No place
\* outside the heap is written.
SearchFindsNearest ==
  LET places  == 1..heap.count
      results == {heap.points[i] : i \in places}
  IN /\ SearchTypeOK
     /\ found /\ map # <<>> =>
          /\ Cardinality(results) = heap.count /\ results \subseteq DOMAIN map
          /\ \A i \in places : heap.dist[i] = map[heap.points[i]]
          /\ \A c \in DOMAIN map \ results :
               OutOfReach(c) \/ (heap.count = K /\ \A i \in places : heap.dist[i] <= map[c])
=============================================================================
