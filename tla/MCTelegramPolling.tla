-------------------------- MODULE MCTelegramPolling --------------------------
(* Instances of TelegramPolling for TLC. *)
EXTENDS TelegramPolling, TLC

CONSTANTS w1, w2, w3, procA, procB, b1, b2, s1, s2, s3, webhook

(* A worker, its replacement in the same process, and another process. *)
OwnerNames == w1 :> procA @@ w2 :> procA @@ w3 :> procB

(* Two settings with the token of one bot, and one with another bot's. *)
Tokens == s1 :> b1 @@ s2 :> b1 @@ s3 :> b2 @@ webhook :> NoBot

(* The bot of the second token has sent few updates so far. *)
UpdateIds == b1 :> {3, 4} @@ b2 :> {1, 2}
=============================================================================
