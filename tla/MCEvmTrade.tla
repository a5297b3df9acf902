------------------------------ MODULE MCEvmTrade -----------------------------
(* An instance of EvmTrade for TLC. *)
EXTENDS EvmTrade, TLC

Asked(op, amount, slippage, price) ==
  [op |-> op, amount |-> amount, slippage |-> slippage, price |-> price]

\* A buy, sells of all and of a part of the position, and a transfer; a swap
\* may pay more than approvals and transfers, or less.
AllKinds ==
  {Asked("buy", 150, 3, 2), Asked("sell", 60, 3, 2), Asked("sell", 20, 3, 0),
   Asked("send", 1, 0, 0)}

FairPool == [quote |-> 200, token |-> 200]
=============================================================================
