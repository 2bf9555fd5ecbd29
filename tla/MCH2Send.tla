------------------------------ MODULE MCH2Send ------------------------------
(* H2Send for TLC. Requests are interchangeable.                           *)
EXTENDS H2Send, TLC

MCDeclared == {-1, 1}
NoneDeclared == {-1}
Symmetry == Permutations(Requests)
=============================================================================
