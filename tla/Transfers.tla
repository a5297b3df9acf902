------------------------------ MODULE Transfers ------------------------------
(***************************************************************************)
(* Sending the native coin: SendTransfer and SendTransferBatch of          *)
(* sol/transfer.go behind SendNative, SendNativeBatch and Withdraw of      *)
(* sol/solana.go, and TransferETHBatch of evm/native.go.  A batch pays the *)
(* same amount to all its recipients; amounts are not negative.            *)
(***************************************************************************)
EXTENDS Integers

CONSTANTS
  MaxRecipientCount,    \* of sol/transfer.go
  MaxBills,             \* bound: no request has more bills
  BillAmounts,          \* the amounts of its bills
  AmountWord            \* 2^64, what a uint64 wraps at

ASSUME TransfersAssumption ==
  /\ MaxRecipientCount \in Nat /\ MaxBills \in Nat
  /\ BillAmounts \subseteq Nat /\ AmountWord \in Nat \ {0}

VARIABLES
  bills,        \* the request: what sends it, its bills and the other wallets they
                \* pay, the amount of each, and whether the texts of the private
                \* key and of the recipients are keys
  hash,         \* the block hash SendTransferBatch signs with: "none", "zero", "set"
  transfer      \* what became of it

transferVars == <<bills, hash, transfer>>

Single == {"Withdraw", "SendNative"}
Senders == Single \cup {"SendNativeBatch", "TransferETHBatch"}

Requests == {r \in [sender : Senders, count : 0 .. MaxBills, wallets : 0 .. MaxBills,
                    amount : BillAmounts, signer : BOOLEAN, payees : BOOLEAN] :
               /\ r.wallets <= r.count
               /\ r.sender \in Single => r.count = 1
               /\ r.count = 0 \/ r.sender = "TransferETHBatch" => r.payees}

Pending == [kind |-> "pending"]
Refusal == [kind |-> "error"]
Panicked == [kind |-> "panicked"]

\* A solana packet: signature, header, block hash and the counts; the keys of
\* the wallets, of the payer and of the system program; for each bill an
\* instruction with two accounts and a tag and an amount as its data.
PacketLimit == 1232
PacketSize(r) == (1 + 64) + 3 + 32 + 2 + 32 * (r.wallets + 2) + 17 * r.count

\* The gas a node asks of a transaction with the payload of multiTransfer:
\* a selector and two lists, each of their bytes at 4 or at 16.
Payload(r) == 4 + 2 * 32 + 2 * (32 + 32 * r.count)
IntrinsicGas(r, perByte) == 21000 + perByte * Payload(r)

NoBills == [sender |-> "SendNativeBatch", count |-> 0, wallets |-> 0]

TransfersInit ==
  /\ bills = NoBills
  /\ hash = "none"
  /\ transfer = Pending

\* The watcher's block hash, or zero when it has none that is fresh.
BillsCome ==
  /\ transfer = Pending /\ bills = NoBills
  /\ bills' \in Requests
  /\ hash' \in IF bills'.sender = "TransferETHBatch" THEN {"none"} ELSE {"zero", "set"}
  /\ transfer' = Pending

\* Mutant of BatchAccepted: one bill more is let through.
BatchAcceptedOneMore(r) ==
  r.sender \in Single \/ r.count <= MaxRecipientCount + 1

\* A single transfer is not counted.
BatchAccepted(r) == r.sender \in Single \/ r.count <= MaxRecipientCount

\* A text that is no key: Withdraw refuses it, the others panic, the batch over
\* a recipient once it has been counted.
TextsRefused ==
  /\ transfer = Pending /\ hash # "none"
  /\ ~(bills.signer /\ bills.payees)
  /\ \/ /\ bills.sender = "Withdraw"
        /\ transfer' = Refusal
     \/ /\ bills.sender # "Withdraw"
        /\ bills.signer => BatchAccepted(bills)
        /\ transfer' = Panicked
  /\ UNCHANGED <<bills, hash>>

BatchRefused ==
  /\ transfer = Pending /\ hash # "none"
  /\ bills.signer /\ ~BatchAccepted(bills)
  /\ transfer' = Refusal
  /\ UNCHANGED <<bills, hash>>

Sendable(r) == r.signer /\ r.payees /\ BatchAccepted(r)

\* GetLatestBlockhash, where the hash is zero.
HashFetched ==
  /\ transfer = Pending /\ hash = "zero"
  /\ Sendable(bills)
  /\ \/ hash' = "set" /\ UNCHANGED transfer
     \/ transfer' = Refusal /\ UNCHANGED hash
  /\ UNCHANGED bills

\* What is sent, Uint64() of the amount.
Lamports(r) == r.amount % AmountWord

\* NewTransaction refuses an empty list.  The node may refuse what it is sent.
BatchSent ==
  /\ transfer = Pending /\ hash = "set"
  /\ Sendable(bills)
  /\ \/ /\ bills.count # 0
        /\ transfer' = [kind |-> "sent", size |-> PacketSize(bills),
                        lamports |-> Lamports(bills)]
     \/ transfer' = Refusal
  /\ UNCHANGED <<bills, hash>>

\* TransferETHBatch: 21000 for each bill; a limit of zero is estimated.
EvmGas(r) == 21000 * r.count

EvmBatchSent ==
  /\ transfer = Pending /\ bills.sender = "TransferETHBatch"
  /\ \/ transfer' = [kind |-> "offered", gas |-> EvmGas(bills)]
     \/ transfer' = Refusal
  /\ UNCHANGED <<bills, hash>>

TransfersNext ==
  \/ BillsCome \/ TextsRefused \/ BatchRefused \/ HashFetched \/ BatchSent
  \/ EvmBatchSent

TransfersSpec == TransfersInit /\ [][TransfersNext]_transferVars

-----------------------------------------------------------------------------
\* MaxRecipientCount is as large as it can be: every batch it lets through
\* fits into one packet, and one bill more to a wallet of its own would not.
\* The gas of an EVM batch covers what its payload costs if there are two
\* bills or more, and of a single bill never.
BatchFits ==
  /\ transfer.kind = "sent" =>
       /\ transfer.size <= PacketLimit
       /\ bills.wallets = MaxRecipientCount =>
            PacketSize([bills EXCEPT !.wallets = @ + 1, !.count = @ + 1]) > PacketLimit
  /\ transfer.kind = "offered" =>
       /\ bills.count >= 2 => transfer.gas >= IntrinsicGas(bills, 16)
       /\ bills.count = 1 => transfer.gas < IntrinsicGas(bills, 4)
=============================================================================
