----------------------------- MODULE MCInterfaces -----------------------------
(* Interfaces with two sticks in turn and three calls of a gateway.         *)
EXTENDS Interfaces
=============================================================================
