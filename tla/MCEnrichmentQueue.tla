-------------------------- MODULE MCEnrichmentQueue --------------------------
(***************************************************************************)
(* Small instances of EnrichmentQueue.                                     *)
(***************************************************************************)
EXTENDS EnrichmentQueue

CONSTANTS e1, e2, l1, l2, c1, b1

=============================================================================
