---------------------------- MODULE MCRollingCode ----------------------------
(* RollingCode with two calling threads; and with a worker beside them.     *)
EXTENDS RollingCode, TLC
=============================================================================
