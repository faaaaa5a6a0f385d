-------------------------- MODULE MCDocumentPipeline --------------------------
(* Instances of DocumentPipeline for TLC: one document, an ingest task and a *)
(* reindex task.                                                             *)
EXTENDS DocumentPipeline, TLC

CONSTANTS w1, w2, c1, t1, t2, d1, a1, here, there

MCDocOf == [t \in Task |-> d1]
MCKey == [t \in Task |-> t]
MCEnqueuedAt == [t \in Task |-> IF t = t1 THEN 1 ELSE 2]
MCWorkspaceOf == [t \in Task |-> IF t = t1 THEN here ELSE CHOOSE ws \in Workspace : ws # here \/ Workspace = {here}]
MCTaskGroup == [t \in Task |-> "default"]
MCWorkerGroup == [w \in Worker |-> "default"]

Symmetry == Permutations({w1, w2})
==============================================================================
