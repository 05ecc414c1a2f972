--------------------------- MODULE MCCoauthorship ---------------------------
(***************************************************************************)
(* Small instances of Coauthorship.                                        *)
(***************************************************************************)
EXTENDS Coauthorship

CONSTANTS e1, e2, e3, s1, s2, w1, w2, r1, r2

=============================================================================
