---------------------------- MODULE MCDocumentLock ----------------------------
(* Instance of DocumentLock: one call that holds the Redis lock or releases  *)
(* it, one that has fallen back to the advisory lock, and one that asks.     *)
EXTENDS DocumentLock
===============================================================================
