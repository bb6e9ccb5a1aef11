---------------------------- MODULE MCRadioLiveness ----------------------------
(* RadioExchange, one kind of telegram: two threads that call for the same   *)
(* device, one with two chunks, the other with one chunk and one retry.      *)
EXTENDS RadioExchange, TLC

CONSTANTS c1, c2, d1, ping

MCTelegram == [device : {d1}, function : {ping}]
MCChunks == c1 :> 1 @@ c2 :> 1
MCRetries == c1 :> 1 @@ c2 :> 0
=============================================================================
