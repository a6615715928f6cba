-------- MODULE MCLedgerService --------
(* A small instance of LedgerService for TLC. *)
EXTENDS LedgerService, TLC

CONSTANTS client, w1, w2, d1, m1, x1, wallet

Names == {w1, w2, d1, m1, x1, wallet}
Withdrawals == w1 :> [account |-> client, amount |-> 2] @@ w2 :> [account |-> client, amount |-> 1]
OneWithdrawal == w1 :> [account |-> client, amount |-> 2]
Deposits == d1 :> [account |-> client, amount |-> 2]
Mandates == m1 :> [account |-> client, amount |-> 1]
NoMandates == <<>>

\* A trade the client pays for through the firm's clearing account.
Settlement == x1 :> Moves(client, Firm, 1)

\* The client and the firm each have a wallet in dollars; a dollar is two rupees, so that
\* one rupee rounds up to a dollar.
Foreign == <<client, "USD">> :> "client:USD" @@ <<Firm, "USD">> :> "firm:USD"
NoForeign == <<>>
Rates == <<"INR", "USD">> :> 1 @@ <<"USD", "INR">> :> 4
Others == {"client:USD", "firm:USD", "cash", "clearing"}

Overlapping == Permutations(Confirmations) \union Permutations(WalletRequests)
====================
