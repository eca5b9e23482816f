------------------------------ MODULE VoxelMap ------------------------------
(***************************************************************************)
(* The voxel map as a whole.  Insertion and search never overlap: Observe    *)
(* searches, then UpdateMap inserts, one after the other, and the threads of *)
(* a search only read.  So each is checked by itself, insertion from the     *)
(* empty map and search on whatever map insertion may leave.                 *)
(***************************************************************************)
EXTENDS OctVoxMap, VoxelSearch

MapInit == Init /\ (NoSearch \/ SearchInit)
MapNext == \/ map = <<>> /\ Next /\ UNCHANGED searchVars
           \/ VisitGroup /\ UNCHANGED vars
MapSpec == MapInit /\ [][MapNext]_<<vars, searchVars>>
=============================================================================
