--------------------------- MODULE MCIngestionQueue ---------------------------
(* Instances of IngestionQueue for TLC.                                     *)
EXTENDS IngestionQueue, TLC

CONSTANTS w1, w2, w3, t1, t2, t3, t4, d1, d2

\* t1 and t2 are two submissions of d1 under one idempotency key, with equal
\* enqueued_at; t3 is an older task of d2, served by another queue group; t4
\* is a later task of d2 that competes with t1 and t2 for the same workers.
MCDocOf == (t1 :> d1) @@ (t2 :> d1) @@ (t3 :> d2) @@ (t4 :> d2)
MCKey == (t1 :> "k1") @@ (t2 :> "k1") @@ (t3 :> "k2") @@ (t4 :> "k3")
MCEnqueuedAt == (t1 :> 2) @@ (t2 :> 2) @@ (t3 :> 1) @@ (t4 :> 3)
MCTaskGroup == (t1 :> "default") @@ (t2 :> "default") @@ (t3 :> "other") @@ (t4 :> "default")
MCWorkerGroup == (w1 :> "default") @@ (w2 :> "default") @@ (w3 :> "other")
===============================================================================
