---------------------------- MODULE MCQuickStart ----------------------------
(* Instances of QuickStart for TLC; the job identifiers are model values.  *)
EXTENDS QuickStart

CONSTANTS j1, j2
=============================================================================
