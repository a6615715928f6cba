-------- MODULE MCOrderAdmission --------
(* A small instance of OrderAdmission for TLC: an order, its retry and an *)
(* after-market order without a key.                                      *)
EXTENDS OrderAdmission, TLC

CONSTANTS order, retry, amo, key

KeysOfSubmissions == order :> key @@ retry :> key @@ amo :> NoKey
====================
