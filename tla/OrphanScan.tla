------------------------------ MODULE OrphanScan ------------------------------
(***************************************************************************)
(* The daily scan of a worker for objects nobody refers to: list the       *)
(* store, fetch the object_path of every document, delete what was listed, *)
(* is not among those paths and lies deep enough in the store.             *)
(*                                                                         *)
(* The three steps are far apart in time, and meanwhile documents are      *)
(* created and their files uploaded, workers mirror assets, workspaces are *)
(* deleted with their rows, and other keys come and go.  (Soft deletion    *)
(* keeps the row and deletes its own objects: that is CleanupQueue.)       *)
(***************************************************************************)
EXTENDS Naturals

CONSTANTS
    Doc,        \* documents, and the object_path of each
    Asset,      \* mirrored assets, and the object key of each
    AssetOf,    \* AssetOf[a]: the document a belongs to
    OtherKey,   \* keys of profile images and of parts of a publish upload
    Scanner     \* worker processes

ASSUME ScanAssumption ==
    /\ AssetOf \in [Asset -> Doc]
    /\ OtherKey \cap (Doc \cup Asset) = {} /\ Doc \cap Asset = {}

VARIABLES
    documents,  \* documents[d]: is its row not there yet, there, or deleted
    assets,     \* assets[a]: not there, object only, object and row, given up
    putting,    \* documents whose upload PUT has read the row
    objects,    \* the keys in the object store
    scan        \* scan[s]: the run of maybe_run in s

scanVars == <<documents, assets, putting, objects, scan>>

ObjectPath == Doc \cup Asset \cup OtherKey

\* {owner}/{workspace}/{document}/{filename},
\* {owner}/{workspace}/{document}/assets/{asset}.{ext},
\* user-profile/{user}/{kind}.{ext} and publish/{upload}/part-{n}.json
Segments(path) == IF path \in Doc THEN 4 ELSE IF path \in Asset THEN 5 ELSE 3

Scan == [stage : {"idle", "listed", "deleting"},
         object_paths : SUBSET ObjectPath, db_paths : SUBSET ObjectPath]

NoScan == [stage |-> "idle", object_paths |-> {}, db_paths |-> {}]

ScanTypeOK ==
    /\ documents \in [Doc -> {"new", "row", "deleted"}]
    /\ assets \in [Asset -> {"new", "object", "row", "undone"}]
    /\ putting \subseteq Doc
    /\ objects \subseteq ObjectPath
    /\ scan \in [Scanner -> Scan]

ScanInit ==
    /\ documents = [d \in Doc |-> "new"]
    /\ assets = [a \in Asset |-> "new"]
    /\ putting = {}
    /\ objects = {}
    /\ scan = [s \in Scanner |-> NoScan]

------------------------------------------------------------------------------
(* What else writes rows and objects                                        *)

\* create_document: the row and its object_path, before any upload.
CreateDocument(d) ==
    /\ documents[d] = "new"
    /\ documents' = [documents EXCEPT ![d] = "row"]
    /\ UNCHANGED <<assets, putting, objects, scan>>

\* (mutant) the file is accepted before the row is committed.
BeginPutBeforeRow(d) ==
    /\ documents[d] \in {"new", "row"} /\ putting' = putting \cup {d}
    /\ UNCHANGED <<documents, assets, objects, scan>>

\* put_uploaded_document: the row is read, then the file is written.
BeginPut(d) ==
    /\ documents[d] = "row" /\ putting' = putting \cup {d}
    /\ UNCHANGED <<documents, assets, objects, scan>>

FinishPut(d) ==
    /\ d \in putting /\ putting' = putting \ {d}
    /\ objects' = objects \cup {d}
    /\ UNCHANGED <<documents, assets, scan>>

\* persist_document_assets: the object under a new asset_id, by a worker that
\* has seen the row of the document, which may be gone by now ...
MirrorAsset(a) ==
    /\ documents[AssetOf[a]] # "new" /\ assets[a] = "new"
    /\ assets' = [assets EXCEPT ![a] = "object"]
    /\ objects' = objects \cup {a}
    /\ UNCHANGED <<documents, putting, scan>>

\* ... then its row, or, when that fails, the object is deleted again.
StoreAssetRow(a) ==
    /\ documents[AssetOf[a]] = "row" /\ assets[a] = "object"
    /\ assets' = [assets EXCEPT ![a] = "row"]
    /\ UNCHANGED <<documents, putting, objects, scan>>

UndoAsset(a) ==
    /\ assets[a] = "object"
    /\ assets' = [assets EXCEPT ![a] = "undone"]
    /\ \E gone \in SUBSET {a} : objects' = objects \ gone
    /\ UNCHANGED <<documents, putting, scan>>

\* delete_workspace: the rows of documents cascade; those of document_assets,
\* which has no foreign key, stay, and so do all objects.
DeleteWorkspace(d) ==
    /\ documents[d] = "row"
    /\ documents' = [documents EXCEPT ![d] = "deleted"]
    /\ UNCHANGED <<assets, putting, objects, scan>>

PutOther(key) ==
    /\ objects' = objects \cup {key}
    /\ UNCHANGED <<documents, assets, putting, scan>>

------------------------------------------------------------------------------
(* maybe_run                                                                *)

Goto(s, stage, object_paths, db_paths) ==
    scan' = [scan EXCEPT ![s] = [stage |-> stage, object_paths |-> object_paths,
                                 db_paths |-> db_paths]]

\* An empty listing ends the scan.
ListObjects(s) ==
    /\ scan[s].stage = "idle" /\ objects # {}
    /\ Goto(s, "listed", objects, {})
    /\ UNCHANGED <<documents, assets, putting, objects>>

\* (mutant) without the role of super_admin row-level security hides every row.
PathsWithoutRole == {}

\* fetch_document_object_paths
DocumentPaths == {d \in Doc : documents[d] = "row"}

FetchPaths(s) ==
    /\ scan[s].stage = "listed"
    /\ Goto(s, "deleting", scan[s].object_paths, DocumentPaths)
    /\ UNCHANGED <<documents, assets, putting, objects>>

\* (mutant) off by one: the file of a document is not deep enough.
DeeperThanFiles(path) == Segments(path) > 4

DeepEnough(path) == Segments(path) >= 4

Orphan(s, path) == path \notin scan[s].db_paths /\ DeepEnough(path)

\* Deleting what is already gone is no error either.
DeleteOrphan(s, path) ==
    /\ scan[s].stage = "deleting" /\ path \in scan[s].object_paths /\ Orphan(s, path)
    /\ objects' = objects \ {path}
    /\ Goto(s, "deleting", scan[s].object_paths \ {path}, scan[s].db_paths)
    /\ UNCHANGED <<documents, assets, putting>>

\* A path that is no orphan, or whose delete failed, which is only logged.
SkipPath(s, path) ==
    /\ scan[s].stage = "deleting" /\ path \in scan[s].object_paths
    /\ Goto(s, "deleting", scan[s].object_paths \ {path}, scan[s].db_paths)
    /\ UNCHANGED <<documents, assets, putting, objects>>

\* The end of the loop, an error of list or fetch, or the end of the process.
EndScan(s) ==
    /\ scan[s].stage # "idle"
    /\ Goto(s, "idle", {}, {})
    /\ UNCHANGED <<documents, assets, putting, objects>>

ScanStep(s) ==
    \/ ListObjects(s) \/ FetchPaths(s) \/ EndScan(s)
    \/ \E path \in ObjectPath : DeleteOrphan(s, path) \/ SkipPath(s, path)

ScanNext ==
    \/ \E d \in Doc : CreateDocument(d) \/ BeginPut(d) \/ FinishPut(d) \/ DeleteWorkspace(d)
    \/ \E a \in Asset : MirrorAsset(a) \/ StoreAssetRow(a) \/ UndoAsset(a)
    \/ \E key \in OtherKey : PutOther(key)
    \/ \E s \in Scanner : ScanStep(s)

ScanSpec == ScanInit /\ [][ScanNext]_scanVars

\* Every interval a scan starts; list, fetch and delete may fail, not for ever.
ScanFairness ==
    \A s \in Scanner :
        /\ WF_scanVars(ListObjects(s) \/ EndScan(s))
        /\ SF_scanVars(FetchPaths(s))
        /\ \A path \in ObjectPath : SF_scanVars(DeleteOrphan(s, path))

FairScanSpec == ScanSpec /\ ScanFairness

------------------------------------------------------------------------------
(* Properties                                                               *)

\* No scan deletes the file of a document that has a row, however old its
\* listing is, nor a profile image or a part of a publish upload.
\* (List first, fetch the paths of every owner second; the row is committed
\* before the upload.  orphan_scan_preserves_in_flight_document_object.)
ScanSparesLiveFiles ==
    [][/\ \A d \in Doc : documents[d] = "row" /\ d \in objects => d \in objects'
       /\ OtherKey \cap objects \subseteq objects']_scanVars

\* Why: no file is written before its document has a row, and when a scan has
\* the paths of the rows, the files it has listed have no row it does not know.
\* (create_document commits before put_uploaded_document reads the row.)
FilesHaveRows ==
    \A d \in Doc : d \in objects \cup putting => documents[d] # "new"

ListedFilesAreKnown ==
    \A s \in Scanner, d \in Doc : d \in scan[s].object_paths =>
        /\ documents[d] # "new"
        /\ scan[s].stage = "deleting" /\ documents[d] = "row" => d \in scan[s].db_paths

ScanInv == ScanTypeOK /\ FilesHaveRows /\ ListedFilesAreKnown

\* The file a deleted workspace left behind does not stay for good.
OrphansAreDeleted ==
    \A d \in Doc : documents[d] = "deleted" /\ d \in objects ~> d \notin objects

\* Not a property of the code: an asset's key has five segments, not four, and
\* its storage_path is not among the fetched paths.
\* "only delete objects that match the expected path pattern
\* {owner_user_id}/{workspace_id}/{document_id}/{filename}".
OnlyExpectedPattern ==
    [][\A a \in Asset : assets[a] = "row" /\ a \in objects => a \in objects']_scanVars
==============================================================================
