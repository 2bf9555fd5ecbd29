----------------------------- MODULE MCNetPool -----------------------------
(* NetPool for TLC.                                                        *)
EXTENDS NetPool
=============================================================================
