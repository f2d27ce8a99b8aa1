---------------------------- MODULE MCSamCallers ----------------------------
(***************************************************************************)
(* The symmetry of the callers for TLC: commands and workers are told      *)
(* apart by nothing but their identity.                                    *)
(***************************************************************************)
EXTENDS SamCallers, TLC

Symmetry == Permutations(Ids) \union Permutations(DtxWorkers)
=============================================================================
