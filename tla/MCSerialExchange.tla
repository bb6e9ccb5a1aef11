--------------------------- MODULE MCSerialExchange ---------------------------
(* SerialExchange on a small instance: two threads and three request        *)
(* objects, so that up to three acknowledgements can be late at once.       *)
EXTENDS SerialExchange, TLC
=============================================================================
