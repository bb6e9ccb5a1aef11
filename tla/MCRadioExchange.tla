---------------------------- MODULE MCRadioExchange ----------------------------
(* RadioExchange with two threads that call for the same device and with     *)
(* telegrams of two remote management functions: one thread sends two        *)
(* chunks, the other one chunk with one retry.                               *)
EXTENDS RadioExchange, TLC

CONSTANTS c1, c2, d1, ping, path

MCTelegram == [device : {d1}, function : {ping, path}]
MCChunks == c1 :> 2 @@ c2 :> 1
MCRetries == c1 :> 0 @@ c2 :> 1
=============================================================================
