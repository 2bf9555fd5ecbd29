------------------------------ MODULE MCHttp1 ------------------------------
(* Http1 for TLC.                                                          *)
EXTENDS Http1
=============================================================================
