---------------------------- MODULE MCInboundCode ----------------------------
(* InboundCode with two interfaces.  Races are followed while the device's  *)
(* number is at most MaxRaced: no property speaks of them, but what a       *)
(* teach-in makes of the states they leave behind is checked.               *)
EXTENDS InboundCode, TLC

CONSTANT MaxRaced

(* Threads differ in nothing but their names.                               *)
Symmetry == Permutations(Thread)

Followed == raced => sent <= MaxRaced
=============================================================================
