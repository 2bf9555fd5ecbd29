---------------------------- MODULE MCH2Streams ----------------------------
(* H2Streams for TLC. Requests are interchangeable.                        *)
EXTENDS H2Streams, TLC

Symmetry == Permutations(Requests)
=============================================================================
