----------------------------- MODULE MCSolTrade ------------------------------
(* Instances of SolTrade for TLC. *)
EXTENDS SolTrade, TLC

Threads == Permutations(Traders)

Trade(side, amount, slippage, tip) ==
  [side |-> side, amount |-> amount, slippage |-> slippage, tip |-> tip]

\* A sell of the whole position and buys; with a tip, a trade is preflighted.
MixedTrades ==
  {Trade("buy", 10, 3, 0), Trade("buy", 10, 0, 1), Trade("sell", 5, 3, 0), Trade("sell", 5, 0, 1)}

\* Enough to open, close and reopen the account, and a sell of a part.
OpenAndClose ==
  {Trade("buy", 10, 3, 0), Trade("sell", 5, 4, 1), Trade("sell", 3, 4, 0)}

EvenPool == [quote |-> 20, token |-> 20]
=============================================================================
