--------------------------- MODULE OrphanScanProofs ---------------------------
(***************************************************************************)
(* Proofs about OrphanScan, for any documents, assets and other keys and   *)
(* any number of scanners at once: no scan deletes the file of a document  *)
(* that has a row.                                                         *)
(***************************************************************************)
EXTENDS OrphanScan, TLAPS

LEMMA InitEstablishesScanInv == ScanInit => ScanInv
  BY DEF ScanInit, ScanInv, ScanTypeOK, FilesHaveRows, ListedFilesAreKnown,
         Scan, NoScan, ObjectPath

\* A step that gives some scan a new memory keeps its invariant when the files
\* in that memory have rows, all of them known once it deletes.
LEMMA ScanStepKeeps ==
  ASSUME ScanInv, NEW s \in Scanner, NEW stage \in {"idle", "listed", "deleting"},
         NEW object_paths \in SUBSET ObjectPath, NEW db_paths \in SUBSET ObjectPath,
         Goto(s, stage, object_paths, db_paths), UNCHANGED <<documents, assets, putting>>,
         objects' \subseteq objects,
         \A d \in Doc : d \in object_paths =>
            /\ documents[d] # "new"
            /\ stage = "deleting" /\ documents[d] = "row" => d \in db_paths
  PROVE  ScanInv'
  <1>1. scan' = [scan EXCEPT ![s] = [stage |-> stage, object_paths |-> object_paths,
                                     db_paths |-> db_paths]]
    BY DEF Goto
  <1>2. ScanTypeOK'
    BY <1>1 DEF ScanInv, ScanTypeOK, Scan
  <1>3. FilesHaveRows'
    BY DEF ScanInv, FilesHaveRows
  <1>4. ListedFilesAreKnown'
    <2> SUFFICES ASSUME NEW r \in Scanner, NEW d \in Doc, d \in scan'[r].object_paths
                 PROVE  /\ documents'[d] # "new"
                        /\ scan'[r].stage = "deleting" /\ documents'[d] = "row"
                           => d \in scan'[r].db_paths
      BY DEF ListedFilesAreKnown
    <2>1. CASE r = s
      BY <1>1, <2>1 DEF ScanInv, ScanTypeOK, Scan
    <2>2. CASE r # s
      BY <1>1, <2>2 DEF ScanInv, ScanTypeOK, ListedFilesAreKnown
    <2> QED BY <2>1, <2>2
  <1> QED BY <1>2, <1>3, <1>4 DEF ScanInv

LEMMA NextKeepsScanInv == ScanInv /\ [ScanNext]_scanVars => ScanInv'
  <1> SUFFICES ASSUME ScanInv, [ScanNext]_scanVars PROVE ScanInv'
    OBVIOUS
  <1>t. /\ documents \in [Doc -> {"new", "row", "deleted"}]
        /\ assets \in [Asset -> {"new", "object", "row", "undone"}]
        /\ putting \subseteq Doc /\ objects \subseteq ObjectPath
        /\ scan \in [Scanner -> Scan]
    BY DEF ScanInv, ScanTypeOK
  <1>p. Doc \subseteq ObjectPath /\ Asset \subseteq ObjectPath /\ OtherKey \subseteq ObjectPath
    BY DEF ObjectPath
  <1>1. ASSUME NEW d \in Doc, CreateDocument(d) \/ DeleteWorkspace(d) PROVE ScanInv'
    BY <1>t, <1>1 DEF CreateDocument, DeleteWorkspace, ScanInv, ScanTypeOK, FilesHaveRows,
                      ListedFilesAreKnown
  <1>2. ASSUME NEW d \in Doc, BeginPut(d) \/ FinishPut(d) PROVE ScanInv'
    BY <1>t, <1>p, <1>2 DEF BeginPut, FinishPut, ScanInv, ScanTypeOK, FilesHaveRows,
                            ListedFilesAreKnown
  <1>3. ASSUME NEW a \in Asset, MirrorAsset(a) \/ StoreAssetRow(a) \/ UndoAsset(a) PROVE ScanInv'
    BY <1>t, <1>p, <1>3, ScanAssumption
    DEF MirrorAsset, StoreAssetRow, UndoAsset, ScanInv, ScanTypeOK, FilesHaveRows,
        ListedFilesAreKnown
  <1>4. ASSUME NEW key \in OtherKey, PutOther(key) PROVE ScanInv'
    BY <1>t, <1>p, <1>4, ScanAssumption
    DEF PutOther, ScanInv, ScanTypeOK, FilesHaveRows, ListedFilesAreKnown
  <1>5. ASSUME NEW s \in Scanner, ScanStep(s) PROVE ScanInv'
    <2>s. /\ scan[s].object_paths \subseteq ObjectPath /\ scan[s].db_paths \subseteq ObjectPath
          /\ \A d \in Doc : d \in scan[s].object_paths =>
                /\ documents[d] # "new"
                /\ scan[s].stage = "deleting" /\ documents[d] = "row" => d \in scan[s].db_paths
      BY <1>t DEF Scan, ScanInv, ListedFilesAreKnown
    <2>1. CASE ListObjects(s)
      <3>1. \A d \in Doc : d \in objects => documents[d] # "new"
        BY DEF ScanInv, FilesHaveRows
      <3> QED BY <1>t, <2>1, <3>1, ScanStepKeeps DEF ListObjects
    <2>2. CASE FetchPaths(s)
      <3>1. DocumentPaths \subseteq ObjectPath
        BY <1>p DEF DocumentPaths
      <3>2. \A d \in Doc : documents[d] = "row" => d \in DocumentPaths
        BY DEF DocumentPaths
      <3> QED BY <2>s, <2>2, <3>1, <3>2, ScanStepKeeps DEF FetchPaths
    <2>3. CASE EndScan(s)
      BY <2>3, ScanStepKeeps DEF EndScan
    <2>4. ASSUME NEW path \in ObjectPath, DeleteOrphan(s, path) \/ SkipPath(s, path) PROVE ScanInv'
      <3>1. /\ Goto(s, "deleting", scan[s].object_paths \ {path}, scan[s].db_paths)
            /\ UNCHANGED <<documents, assets, putting>> /\ objects' \subseteq objects
            /\ scan[s].stage = "deleting"
        BY <2>4 DEF DeleteOrphan, SkipPath
      <3>2. scan[s].object_paths \ {path} \in SUBSET ObjectPath
        BY <2>s
      <3> QED BY <2>s, <3>1, <3>2, ScanStepKeeps
    <2> QED BY <1>5, <2>1, <2>2, <2>3, <2>4 DEF ScanStep
  <1>6. CASE UNCHANGED scanVars
    BY <1>6 DEF scanVars, ScanInv, ScanTypeOK, FilesHaveRows, ListedFilesAreKnown
  <1> QED BY <1>1, <1>2, <1>3, <1>4, <1>5, <1>6 DEF ScanNext

\* A file is written only after its row was committed, and a scan that deletes
\* knows every row of the files it listed.
THEOREM ScanInvariant == ScanSpec => []ScanInv
  <1> QED BY InitEstablishesScanInv, NextKeepsScanInv, PTL DEF ScanSpec

\* What a scan deletes has no row now, though its listing may be long stale: it
\* had no row when the paths were fetched, and a row never comes after its file.
LEMMA NextSparesLiveFiles ==
  ASSUME ScanInv, ScanNext
  PROVE  /\ \A d \in Doc : documents[d] = "row" /\ d \in objects => d \in objects'
         /\ OtherKey \cap objects \subseteq objects'
  <1>1. ASSUME NEW s \in Scanner, NEW path \in ObjectPath, DeleteOrphan(s, path)
        PROVE  /\ \A d \in Doc : documents[d] = "row" /\ d \in objects => d \in objects'
               /\ OtherKey \cap objects \subseteq objects'
    <2>1. /\ scan[s].stage = "deleting" /\ path \in scan[s].object_paths
          /\ path \notin scan[s].db_paths /\ Segments(path) >= 4
          /\ objects' = objects \ {path}
      BY <1>1 DEF DeleteOrphan, Orphan, DeepEnough
    <2>2. path \in Doc => documents[path] # "row"
      BY <2>1 DEF ScanInv, ListedFilesAreKnown
    <2>3. path \notin OtherKey
      BY <2>1, ScanAssumption DEF Segments
    <2> QED BY <2>1, <2>2, <2>3
  <1>2. CASE ~ \E s \in Scanner, path \in ObjectPath : DeleteOrphan(s, path)
    <2>1. ASSUME NEW a \in Asset, UndoAsset(a) 
          PROVE  \E gone \in SUBSET {a} : objects' = objects \ gone
      BY <2>1 DEF UndoAsset
    <2>2. (\E a \in Asset : UndoAsset(a)) \/ objects \subseteq objects'
      BY <1>2 DEF ScanNext, CreateDocument, BeginPut, FinishPut, DeleteWorkspace, MirrorAsset,
                  StoreAssetRow, PutOther, ScanStep, ListObjects, FetchPaths, EndScan, SkipPath
    <2> QED BY <2>1, <2>2, ScanAssumption
  <1> QED BY <1>1, <1>2

\* No scan deletes the file of a document with a row, a profile image or a part
\* of a publish upload.
THEOREM LiveFilesSpared == ScanSpec => ScanSparesLiveFiles
  <1>1. ScanInv /\ [ScanNext]_scanVars
        => [/\ \A d \in Doc : documents[d] = "row" /\ d \in objects => d \in objects'
            /\ OtherKey \cap objects \subseteq objects']_scanVars
    BY NextSparesLiveFiles
  <1> QED BY <1>1, ScanInvariant, PTL DEF ScanSpec, ScanSparesLiveFiles
==============================================================================
