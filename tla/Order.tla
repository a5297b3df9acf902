-------------------------------- MODULE Order --------------------------------
(***************************************************************************)
(* What a network promises to those who trade on it with one wallet,       *)
(* through Transact and GetTransaction, whichever chain is behind it.  An  *)
(* order is refused or sent.  One that was sent takes effect once, as a    *)
(* whole, or never; the wallet's tokens change in no other way; and what   *)
(* the network tells of an order is what became of it.                     *)
(*                                                                         *)
(* There is no promise that an order sent is ever settled, that one whose  *)
(* Transact failed has not been sent, or that a later transaction of the   *)
(* wallet does not take its place.  SolTrade and EvmTrade are shown to     *)
(* implement it.                                                           *)
(***************************************************************************)
EXTENDS Integers

CONSTANTS
  Clients,      \* those who place the orders, one at a time each
  Terms         \* what may be ordered: [side, amount]

VARIABLES
  holdings,     \* the wallet's tokens
  terms,        \* what each client has ordered
  stage,        \* what has become of its order
  answer,       \* what Transact answered
  told          \* what GetTransaction told last

vars == <<holdings, terms, stage, answer, told>>

NoTerms == [none |-> TRUE]

Init ==
  /\ holdings \in Nat
  /\ terms = [c \in Clients |-> NoTerms]
  /\ stage = [c \in Clients |-> "idle"]
  /\ answer = [c \in Clients |-> "none"]
  /\ told = [c \in Clients |-> "none"]

Sent == {c \in Clients : stage[c] = "sent"}

\* The orders in lost will never take effect: their transactions failed, came
\* too late, or had their place taken.
AllVoid(lost) == [c \in Clients |-> IF c \in lost THEN "void" ELSE stage[c]]

Place(c) ==
  /\ stage[c] = "idle"
  /\ stage' = [stage EXCEPT ![c] = "open"]
  /\ \E t \in Terms : terms' = [terms EXCEPT ![c] = t]
  /\ UNCHANGED <<holdings, answer, told>>

\* The order comes to nothing.  A transaction that prepared it may have taken
\* the place of others.
Refuse(c) ==
  /\ stage[c] = "open"
  /\ \E lost \in SUBSET Sent : stage' = [AllVoid(lost) EXCEPT ![c] = "refused"]
  /\ answer' = [answer EXCEPT ![c] = "error"]
  /\ UNCHANGED <<holdings, terms, told>>

\* The order is sent, whether Transact learns of it or not.
Submit(c) ==
  /\ stage[c] = "open"
  /\ \E lost \in SUBSET Sent : stage' = [AllVoid(lost) EXCEPT ![c] = "sent"]
  /\ \E a \in {"ok", "error"} : answer' = [answer EXCEPT ![c] = a]
  /\ UNCHANGED <<holdings, terms, told>>

\* What an order does to the wallet's tokens.
Effect(t, before, after) ==
  CASE t.side = "buy"  -> after >= before
    [] t.side = "sell" -> after = before - t.amount
    [] OTHER           -> after = before

Fill(c) ==
  /\ stage[c] = "sent"
  /\ stage' = [stage EXCEPT ![c] = "filled"]
  /\ holdings' \in Nat /\ Effect(terms[c], holdings, holdings')
  /\ UNCHANGED <<terms, answer, told>>

Lose(lost) ==
  /\ stage' = AllVoid(lost)
  /\ UNCHANGED <<holdings, terms, answer, told>>

\* What GetTransaction may tell of an order, other than that it does not know.
Tellable(s) ==
  CASE s = "filled" -> {"filled"}
    [] s = "void"   -> {"failed", "notLanded"}
    [] OTHER        -> {"notLanded"}

Inquire(c) ==
  /\ stage[c] \in {"sent", "filled", "void"}
  /\ \E a \in Tellable(stage[c]) \union {"unknown"} : told' = [told EXCEPT ![c] = a]
  /\ UNCHANGED <<holdings, terms, stage, answer>>

\* The client is done with its order.
Retire(c) ==
  /\ stage[c] \in {"refused", "filled", "void"}
  /\ stage' = [stage EXCEPT ![c] = "idle"]
  /\ terms' = [terms EXCEPT ![c] = NoTerms]
  /\ answer' = [answer EXCEPT ![c] = "none"]
  /\ told' = [told EXCEPT ![c] = "none"]
  /\ UNCHANGED holdings

Next ==
  \/ \E c \in Clients :
       Place(c) \/ Refuse(c) \/ Submit(c) \/ Fill(c) \/ Inquire(c) \/ Retire(c)
  \/ \E lost \in SUBSET Sent : Lose(lost)

Safety == Init /\ [][Next]_vars

\* An order reported as sent has been sent, and one reported as filled, or as
\* failed, is that and stays it.
Honest ==
  \A c \in Clients :
    /\ answer[c] = "ok" => stage[c] \in {"sent", "filled", "void"}
    /\ told[c] = "filled" => stage[c] = "filled"
    /\ told[c] = "failed" => stage[c] = "void"
    /\ answer[c] # "none" => stage[c] \notin {"idle", "open"}
=============================================================================
