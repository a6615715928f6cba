-------- MODULE MCOrderSubmission --------
(* Small instances of OrderSubmission for TLC. *)
EXTENDS OrderSubmission, TLC

CONSTANTS alice, bob

R(account, side, kind, quantity, limit) ==
    [account |-> account, side |-> side, kind |-> kind, quantity |-> quantity, limit |-> limit]

\* A stop that the third order can trigger, or a paper order; a sell of two; a
\* buy of one at a price above the sell's.
StopSellAndBuy ==
    <<{R(bob, "buy", "stop", 1, 2), R(alice, "sell", "paper", 1, 1)},
      {R(alice, "sell", "limit", 2, 1)},
      {R(bob, "buy", "limit", 1, 2)}>>

SmallMargin == (alice :> 4) @@ (bob :> 4)
TwoHeld == (alice :> 2) @@ (bob :> 0)
====================
