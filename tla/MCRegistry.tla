------------------------------ MODULE MCRegistry ------------------------------
(* Registry with two interfaces that receive, a call and the pairing mode.  *)
EXTENDS Registry
=============================================================================
