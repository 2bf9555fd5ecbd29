--------------------------- MODULE MCH2Connection ---------------------------
(* H2Connection for TLC.                                                   *)
EXTENDS H2Connection
=============================================================================
