-------- MODULE MCOrderBookCore --------
(* Small instances of OrderBookCore for TLC. *)
EXTENDS OrderBookCore

R(side, type, limit, trigger, quantity) ==
    [side |-> side, type |-> type, limit |-> limit, trigger |-> trigger, quantity |-> quantity]

Limits(prices, quantities) ==
    {R(s, "Limit", p, NoPrice, q) : s \in Sides, p \in prices, q \in quantities}

\* A market order has no limit to speak of; the wire carries one all the same.
Markets(quantities) == {R(s, "Market", 1, NoPrice, q) : s \in Sides, q \in quantities}

\* Live orders at three prices, one of no quantity among them.
LiveMenu ==
    Limits(1 .. 3, {1}) \cup Limits({2}, {2}) \cup Markets({2}) \cup
    {R("Buy", "Limit", 3, NoPrice, 0)}

\* Stop orders of both sides and types, over liquidity at two prices.
StopMenu ==
    Limits({1, 2}, {1}) \cup Markets({1}) \cup
    {R("Sell", "StopLossMarket", 1, 1, 1), R("Sell", "StopLossMarket", 1, 2, 2),
     R("Sell", "StopLossLimit", 2, 1, 1), R("Sell", "StopLossLimit", 1, 1, 2),
     R("Buy", "StopLossMarket", 1, 2, 1), R("Buy", "StopLossLimit", 2, 1, 2)}

\* Two sell stops that trigger one after the other as sells walk down the book.
CascadeMenu ==
    Limits({1, 2}, {1}) \cup
    {R("Sell", "StopLossMarket", 1, 1, 1), R("Sell", "StopLossMarket", 1, 2, 1)}

\* A stop order without a trigger price, as the wire format allows.
UntriggerableMenu ==
    Limits({1}, {1}) \cup {R("Sell", "StopLossMarket", 1, NoPrice, 1),
                           R("Sell", "StopLossMarket", 1, 1, 1)}

\* What clients submit over one behaviour comes from one of these.
Menus == {LiveMenu, StopMenu, CascadeMenu, UntriggerableMenu}
AnyMenu == UNION Menus
WithinOneMenu == \E menu \in Menus : ToSet(requests) \subseteq menu
====================
