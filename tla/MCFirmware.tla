------------------------------ MODULE MCFirmware ------------------------------
(* Firmware, and with it Meshing, with three peers, one of which can repeat  *)
(* and be repeated.  Checks and calls are combined with a restart, and       *)
(* updates with a check and a call.                                          *)
EXTENDS Firmware

MCBudgets ==
  {[checks |-> 1, calls |-> 2, restarts |-> 0, updates |-> 0],
   [checks |-> 1, calls |-> 1, restarts |-> 1, updates |-> 0],
   [checks |-> 0, calls |-> 0, restarts |-> 1, updates |-> 2],
   [checks |-> 0, calls |-> 1, restarts |-> 0, updates |-> 1],
   [checks |-> 1, calls |-> 0, restarts |-> 0, updates |-> 1]}
=============================================================================
