------------------------------- MODULE MCUDFs -------------------------------
(***************************************************************************)
(* UDFs for TLC: goroutines and connections are interchangeable.           *)
(***************************************************************************)
EXTENDS UDFs, TLC

Symmetry == Permutations(Clients) \cup Permutations(Conns)
=============================================================================
