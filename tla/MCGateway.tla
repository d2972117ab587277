----------------------------- MODULE MCGateway ------------------------------
(***************************************************************************)
(* Gateway with the symmetry that TLC may use: no definition tells two     *)
(* connections, two session identifiers or two engines apart, and the runs *)
(* that use it check invariants only.                                      *)
(***************************************************************************)
EXTENDS Gateway, TLC

Symmetry ==
  Permutations(Conns) \cup Permutations(Sids) \cup Permutations(Engines)
=============================================================================
