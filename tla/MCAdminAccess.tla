---------------------------- MODULE MCAdminAccess ----------------------------
(* Two requests at a time, resets, an import and restarts. *)
EXTENDS AdminAccess, TLC

CONSTANTS r1, r2, p1, p2

Symmetric == Permutations({r1, r2}) \cup Permutations({p1, p2})
=============================================================================
