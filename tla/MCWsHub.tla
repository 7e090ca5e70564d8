------------------------------ MODULE MCWsHub ------------------------------
(* WsHub for TLC. *)
EXTENDS WsHub, TLC

Symmetry == Permutations(Conns)
=============================================================================
