------------------------------ MODULE MapSaver ------------------------------
(***************************************************************************)
(* The point cloud map that Super-LIO writes to disk (caceData, saveMap and *)
(* ProcessCaceMap of super_lio.cpp).  Fused scans are collected in memory;   *)
(* every so many of them go to a fragment file, and the fragments are merged *)
(* into the map when the node ends.  Earlier runs may have left fragments.   *)
(* A cloud is the sequence of its scans; down-sampling is left out.          *)
(***************************************************************************)
EXTENDS Integers, Sequences, SequencesExt

CONSTANTS SaveIntervals,  \* what g_pcd_save_interval may be
          Off,            \* in place of an interval: g_save_map is not set
          Missing         \* in place of files: there is no PCD directory

ASSUME SaverAssumption == /\ SaveIntervals \subseteq Int \cup {Off}
                          /\ Off \notin Int /\ Missing \notin Seq(Seq(Int))

OldScan == 0              \* a scan of an earlier run; this run's are their stamps

VARIABLES
  interval,   \* g_pcd_save_interval
  cloud,      \* point_map_
  waitNum,    \* scan_wait_num of caceData
  prepared,   \* rm_PCD_dir of caceData
  fragments,  \* the files of the PCD directory, in the order of their numbers
  saved,      \* pcd_index_ + 1: files written by this run
  mapFile,    \* the map on disk
  fused       \* history: the scans that belong into the map

mapVars == <<interval, cloud, waitNum, prepared, fragments, saved, mapFile, fused>>

\* The map of an earlier run is on disk, and relocalisation may have loaded it into point_map_.
MapSaverInit(loaded) ==
  /\ interval \in SaveIntervals
  /\ cloud = IF loaded THEN <<OldScan>> ELSE <<>>
  /\ waitNum = 0 /\ prepared = FALSE /\ saved = 0
  /\ fragments \in IF interval = Off THEN {Missing}
                   ELSE {Missing, <<>>, <<<<OldScan>>, <<OldScan>>>>}
  /\ mapFile = <<OldScan>>
  /\ fused = <<>>

\* A numbered file is written over one that an earlier run has left.
Written(files, n, c) == IF n <= Len(files) THEN [files EXCEPT ![n] = c] ELSE Append(files, c)

\* rm -rf and mkdir -p of the directory.
EmptiedNot(files) == IF files = Missing THEN <<>> ELSE files      \* mutant: mkdir -p alone
Emptied(files) == <<>>

\* caceData: the scan is collected, unless no point of it is left.  Without an interval all
\* stays in memory; the first scan with one empties the directory.
CaceData(scan) ==
  \E empty \in BOOLEAN :
    LET c     == IF empty THEN cloud ELSE Append(cloud, scan)
        n     == IF empty THEN waitNum ELSE waitNum + 1
        files == IF prepared THEN fragments ELSE Emptied(fragments)
    IN
    /\ fused' = IF empty THEN fused ELSE Append(fused, scan)
    /\ IF interval < 0
       THEN cloud' = c /\ waitNum' = 0 /\ UNCHANGED <<prepared, fragments, saved>>
       ELSE /\ prepared' = TRUE
            /\ IF c # <<>> /\ n >= interval
               THEN /\ fragments' = Written(files, saved + 1, c)
                    /\ saved' = saved + 1 /\ cloud' = <<>> /\ waitNum' = 0
               ELSE fragments' = files /\ cloud' = c /\ waitNum' = n /\ UNCHANGED saved
    /\ UNCHANGED <<interval, mapFile>>

Caches(scan) == IF interval = Off THEN UNCHANGED mapVars ELSE CaceData(scan)

\* ProcessCaceMap merges what the directory holds; an empty cloud is not written.
MergedMap(files) == IF files = Missing \/ FlattenSeq(files) = <<>> THEN mapFile
                    ELSE FlattenSeq(files)

\* saveMap, with an interval: what is in memory becomes the last fragment.  Without a
\* directory writing and merging fail.
SaveMapMerged ==
  /\ interval # Off /\ interval > 0
  /\ IF cloud # <<>> /\ fragments # Missing
     THEN /\ fragments' = Written(fragments, saved + 1, cloud)
          /\ saved' = saved + 1 /\ cloud' = <<>>
     ELSE UNCHANGED <<fragments, saved, cloud>>
  /\ mapFile' = MergedMap(fragments')
  /\ UNCHANGED <<interval, waitNum, prepared, fused>>

SaveMapWhole ==
  /\ interval # Off /\ interval <= 0
  /\ mapFile' = IF cloud # <<>> THEN cloud ELSE mapFile
  /\ UNCHANGED <<interval, cloud, waitNum, prepared, fragments, saved, fused>>
=============================================================================
