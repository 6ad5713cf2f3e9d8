------------------------------- MODULE MCLog -------------------------------
(* Instance of Log for TLC: the values of the constants are in the cfg.    *)
EXTENDS Log
=============================================================================
