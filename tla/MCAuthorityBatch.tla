-------------------------- MODULE MCAuthorityBatch --------------------------
(***************************************************************************)
(* Small instances of AuthorityBatch.                                      *)
(***************************************************************************)
EXTENDS AuthorityBatch

CONSTANTS v1, v2, w1, w2, i1, i2, q1

=============================================================================
