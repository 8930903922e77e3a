----------------------------- MODULE MCRegistry -----------------------------
(***************************************************************************)
(* Instances of Registry for TLC. Idents, definitions and clients are      *)
(* interchangeable.                                                        *)
(***************************************************************************)
EXTENDS Registry, TLC

CONSTANTS c1, c2, c3, name, email, one, many

Symmetry == Permutations({c1, c2, c3}) \cup Permutations({name, email})
                \cup Permutations({one, many})
=============================================================================
