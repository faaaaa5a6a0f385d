---------------------------- MODULE MCCleanupQueue ----------------------------
(* Instances of CleanupQueue for TLC: the sets are model values of the cfg.  *)
EXTENDS CleanupQueue

CONSTANTS c1, c2, d1, a1, a2, here, there
==============================================================================
