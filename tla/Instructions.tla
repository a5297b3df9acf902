----------------------------- MODULE Instructions ----------------------------
(***************************************************************************)
(* The instructions of sol/pumpfun and sol/raydium: the builders, codecs   *)
(* and account layouts of the pumpfun program, and the accounts that the   *)
(* trades and the launch hand to both programs.                            *)
(*                                                                         *)
(* A builder takes up to 17 arguments in order, most of them public keys,  *)
(* so two in the wrong place still compile; and the callers use Build,     *)
(* which validates nothing.                                                *)
(***************************************************************************)
EXTENDS Naturals, Sequences

VARIABLES
  inst,         \* an instruction from its builder to its decoder
  account,      \* an account as its readers see it
  trade         \* the instructions of a trade or launch, until it is signed

instructionVars == <<inst, account, trade>>

-----------------------------------------------------------------------------
(* The six instructions: the slot and privileges of each account, as its   *)
(* setter and getter have them; the parameters in the order they are       *)
(* written and read; the parameters and slots that must be set; and the    *)
(* order in which New...Instruction takes its arguments.                   *)

R(n) == [name |-> n, write |-> FALSE, sign |-> FALSE]
W(n) == [name |-> n, write |-> TRUE, sign |-> FALSE]
WS(n) == [name |-> n, write |-> TRUE, sign |-> TRUE]

InitializeAccounts == <<W("global"), WS("user"), R("systemProgram")>>
InitializeRequired == [params |-> {}, slots |-> 1 .. 3]
InitializeWritten == <<>>
InitializeRead == <<>>
InitializeFormal == <<"global", "user", "systemProgram">>

SetParamsAccounts ==
  <<W("global"), WS("user"), R("systemProgram"), R("eventAuthority"), R("program")>>
SetParamsRequired ==
  [params |-> {"feeRecipient", "initialVirtualTokenReserves", "initialVirtualSolReserves",
               "initialRealTokenReserves", "tokenTotalSupply", "feeBasisPoints"},
   slots |-> 1 .. 5]
SetParamsWritten ==
  <<"feeRecipient", "initialVirtualTokenReserves", "initialVirtualSolReserves",
    "initialRealTokenReserves", "tokenTotalSupply", "feeBasisPoints">>

\* Mutant of SetParamsRead: the two virtual reserves are read the other way round.
SetParamsReadSwapped ==
  <<"feeRecipient", "initialVirtualSolReserves", "initialVirtualTokenReserves",
    "initialRealTokenReserves", "tokenTotalSupply", "feeBasisPoints">>

SetParamsRead ==
  <<"feeRecipient", "initialVirtualTokenReserves", "initialVirtualSolReserves",
    "initialRealTokenReserves", "tokenTotalSupply", "feeBasisPoints">>
SetParamsFormal ==
  <<"feeRecipient", "initialVirtualTokenReserves", "initialVirtualSolReserves",
    "initialRealTokenReserves", "tokenTotalSupply", "feeBasisPoints",
    "global", "user", "systemProgram", "eventAuthority", "program">>

CreateAccounts ==
  <<WS("mint"), R("mintAuthority"), W("bondingCurve"), W("associatedBondingCurve"),
    R("global"), R("mplTokenMetadata"), W("metadata"), WS("user"), R("systemProgram"),
    R("tokenProgram"), R("associatedTokenProgram"), R("rent"), R("eventAuthority"),
    R("program")>>
CreateRequired == [params |-> {"name", "symbol", "uri"}, slots |-> 1 .. 14]
CreateWritten == <<"name", "symbol", "uri">>
CreateRead == <<"name", "symbol", "uri">>
CreateFormal ==
  <<"name", "symbol", "uri", "mint", "mintAuthority", "bondingCurve",
    "associatedBondingCurve", "global", "mplTokenMetadata", "metadata", "user",
    "systemProgram", "tokenProgram", "associatedTokenProgram", "rent",
    "eventAuthority", "program">>

BuyAccounts ==
  <<R("global"), W("feeRecipient"), R("mint"), W("bondingCurve"),
    W("associatedBondingCurve"), W("associatedUser"), WS("user"), R("systemProgram"),
    R("tokenProgram"), R("rent"), R("eventAuthority"), R("program")>>
BuyRequired == [params |-> {"amount", "maxSolCost"}, slots |-> 1 .. 12]
BuyWritten == <<"amount", "maxSolCost">>
BuyRead == <<"amount", "maxSolCost">>
BuyFormal ==
  <<"amount", "maxSolCost", "global", "feeRecipient", "mint", "bondingCurve",
    "associatedBondingCurve", "associatedUser", "user", "systemProgram",
    "tokenProgram", "rent", "eventAuthority", "program">>

SellAccounts ==
  <<R("global"), W("feeRecipient"), R("mint"), W("bondingCurve"),
    W("associatedBondingCurve"), W("associatedUser"), WS("user"), R("systemProgram"),
    R("associatedTokenProgram"), R("tokenProgram"), R("eventAuthority"), R("program")>>
SellRequired == [params |-> {"amount", "minSolOutput"}, slots |-> 1 .. 12]
SellWritten == <<"amount", "minSolOutput">>
SellRead == <<"amount", "minSolOutput">>
SellFormal ==
  <<"amount", "minSolOutput", "global", "feeRecipient", "mint", "bondingCurve",
    "associatedBondingCurve", "associatedUser", "user", "systemProgram",
    "associatedTokenProgram", "tokenProgram", "eventAuthority", "program">>

WithdrawAccounts ==
  <<R("global"), R("mint"), W("bondingCurve"), W("associatedBondingCurve"),
    W("associatedUser"), WS("user"), R("systemProgram"), R("tokenProgram"), R("rent"),
    R("eventAuthority"), R("program")>>
WithdrawRequired == [params |-> {}, slots |-> 1 .. 11]
WithdrawWritten == <<>>
WithdrawRead == <<>>
WithdrawFormal ==
  <<"global", "mint", "bondingCurve", "associatedBondingCurve", "associatedUser",
    "user", "systemProgram", "tokenProgram", "rent", "eventAuthority", "program">>

Layout(accounts, required, written, readBack, formal) ==
  [accounts |-> accounts, required |-> required, written |-> written,
   readBack |-> readBack, formal |-> formal]

Layouts ==
  [Initialize |-> Layout(InitializeAccounts, InitializeRequired, InitializeWritten,
                         InitializeRead, InitializeFormal),
   SetParams |-> Layout(SetParamsAccounts, SetParamsRequired, SetParamsWritten,
                        SetParamsRead, SetParamsFormal),
   Create |-> Layout(CreateAccounts, CreateRequired, CreateWritten, CreateRead, CreateFormal),
   Buy |-> Layout(BuyAccounts, BuyRequired, BuyWritten, BuyRead, BuyFormal),
   Sell |-> Layout(SellAccounts, SellRequired, SellWritten, SellRead, SellFormal),
   Withdraw |-> Layout(WithdrawAccounts, WithdrawRequired, WithdrawWritten,
                       WithdrawRead, WithdrawFormal)]

Kinds == DOMAIN Layouts

TypeID ==
  [Initialize |-> <<175, 175, 109, 31, 13, 152, 155, 237>>,
   SetParams |-> <<27, 234, 178, 52, 147, 2, 187, 141>>,
   Create |-> <<24, 30, 200, 40, 5, 28, 7, 119>>,
   Buy |-> <<102, 6, 61, 18, 1, 218, 235, 234>>,
   Sell |-> <<51, 230, 133, 164, 1, 127, 131, 173>>,
   Withdraw |-> <<183, 18, 70, 156, 148, 109, 161, 34>>]

-----------------------------------------------------------------------------
(* Building, encoding and decoding.  A value or key is a tuple of its name *)
(* and, for an address that is derived, of what it is derived from.        *)

Unset == <<"unset">>
InOrder(formal, args) == [n \in {formal[i] : i \in DOMAIN formal} |->
                            args[CHOOSE i \in DOMAIN formal : formal[i] = n]]

\* A builder on which the setters of the names of given were called.
Built(k, given) ==
  LET set(n) == IF n \in DOMAIN given THEN given[n] ELSE Unset
      accounts == Layouts[k].accounts
  IN [kind |-> k,
      params |-> [p \in Layouts[k].required.params |-> set(p)],
      metas |-> [i \in DOMAIN accounts |->
                   [key |-> set(accounts[i].name),
                    write |-> accounts[i].write, sign |-> accounts[i].sign]]]

New(k, args) == Built(k, InOrder(Layouts[k].formal, args))

Validate(d) ==
  /\ \A p \in Layouts[d.kind].required.params : d.params[p] # Unset
  /\ \A i \in Layouts[d.kind].required.slots : d.metas[i].key # Unset

\* Accounts and Data: what goes into the transaction.
Accounts(d) == d.metas
Data(d) ==
  [id |-> TypeID[d.kind],
   fields |-> [i \in DOMAIN Layouts[d.kind].written |-> d.params[Layouts[d.kind].written[i]]]]

\* InstructionImplDef: the variant whose discriminator the data starts with.
DecodedKind(data) == CHOOSE k \in Kinds : TypeID[k] = data.id

DecodeInstruction(metas, data) ==
  LET k == DecodedKind(data) IN
  [kind |-> k, params |-> InOrder(Layouts[k].readBack, data.fields), metas |-> metas]

Untouched == [stage |-> "none"]

\* A builder with every setter called, or all but one.
BuilderUsed ==
  /\ inst.stage = "none"
  /\ \E k \in Kinds :
       LET names == {Layouts[k].formal[i] : i \in DOMAIN Layouts[k].formal}
       IN \E given \in {names} \union {names \ {n} : n \in names} :
            inst' = [stage |-> "drafted", whole |-> given = names,
                     draft |-> Built(k, [n \in given |-> <<n>>])]
  /\ UNCHANGED <<account, trade>>

\* ValidateAndBuild.
ValidatedAndBuilt ==
  /\ inst.stage = "drafted"
  /\ inst' = [inst EXCEPT !.stage = IF Validate(inst.draft) THEN "built" ELSE "refused"]
  /\ UNCHANGED <<account, trade>>

Decoded ==
  /\ inst.stage = "built"
  /\ inst' = [stage |-> "decoded", whole |-> inst.whole, draft |-> inst.draft,
              back |-> DecodeInstruction(Accounts(inst.draft), Data(inst.draft))]
  /\ UNCHANGED <<account, trade>>

-----------------------------------------------------------------------------
(* Accounts are read by two readers: borsh by the order of a struct, whose *)
(* first field takes the discriminator unchecked; and a decoder.           *)

Bool(n) == [name |-> n, width |-> 1]
U64(n) == [name |-> n, width |-> 8]
Key32(n) == [name |-> n, width |-> 32]

GlobalStruct ==
  <<U64("blob1"), Bool("initialized"), Key32("authority"), Key32("feeRecipient"),
    U64("initialVirtualTokenReserves"), U64("initialVirtualSolReserves"),
    U64("initialRealTokenReserves"), U64("tokenTotalSupply"), U64("feeBasisPoints")>>
GlobalMarshal ==
  <<U64("discriminator"), Bool("initialized"), Key32("authority"), Key32("feeRecipient"),
    U64("initialVirtualTokenReserves"), U64("initialVirtualSolReserves"),
    U64("initialRealTokenReserves"), U64("tokenTotalSupply"), U64("feeBasisPoints")>>
GlobalUnmarshal ==
  <<U64("discriminator"), Bool("initialized"), Key32("authority"), Key32("feeRecipient"),
    U64("initialVirtualTokenReserves"), U64("initialVirtualSolReserves"),
    U64("initialRealTokenReserves"), U64("tokenTotalSupply"), U64("feeBasisPoints")>>

BondingCurveStruct ==
  <<U64("blob1"), U64("virtualTokenReserves"), U64("virtualSolReserves"),
    U64("realTokenReserves"), U64("realSolReserves"), U64("tokenTotalSupply"),
    Bool("complete")>>
BondingCurveMarshal ==
  <<U64("discriminator"), U64("virtualTokenReserves"), U64("virtualSolReserves"),
    U64("realTokenReserves"), U64("realSolReserves"), U64("tokenTotalSupply"),
    Bool("complete")>>
BondingCurveUnmarshal ==
  <<U64("discriminator"), U64("virtualTokenReserves"), U64("virtualSolReserves"),
    U64("realTokenReserves"), U64("realSolReserves"), U64("tokenTotalSupply"),
    Bool("complete")>>

\* raydium's Pool: 42 numbers (those the code uses have their names), the
\* vaults, the mints, the market.
PoolStruct ==
  [i \in 1 .. 42 |-> U64(CASE i = 5 -> "baseDecimal" [] i = 6 -> "quoteDecimal"
                           [] i = 29 -> "poolOpenTime" [] OTHER -> "number")]
  \o <<Key32("baseVault"), Key32("quoteVault"), Key32("baseMint"), Key32("quoteMint"),
       Key32("lpMint"), Key32("openOrders"), Key32("marketId"), Key32("marketProgramId"),
       Key32("targetOrders"), Key32("withdrawQueue"), Key32("lpVault"), Key32("owner"),
       U64("lpReserve"), U64("padding")>>

\* The filters of GetRaydiumPoolByToken.
PoolFilters == [baseMint |-> 400, quoteMint |-> 432]

\* Where a reader that goes through the layout finds the field.
Starts(layout) ==
  LET start[i \in 1 .. Len(layout)] ==
        IF i = 1 THEN 0 ELSE start[i - 1] + layout[i - 1].width
  IN start
Span(layout, n) ==
  LET i == CHOOSE j \in DOMAIN layout : layout[j].name = n
  IN [from |-> Starts(layout)[i], width |-> layout[i].width]
Fields(layout) == {layout[i].name : i \in DOMAIN layout} \ {"blob1", "discriminator", "number"}
Spans(layout) == [n \in Fields(layout) |-> Span(layout, n)]

AccountRead ==
  /\ account.stage = "none"
  /\ \/ account' = [stage |-> "state", struct |-> Spans(GlobalStruct),
                    written |-> Spans(GlobalMarshal), decoded |-> Spans(GlobalUnmarshal)]
     \/ account' = [stage |-> "state", struct |-> Spans(BondingCurveStruct),
                    written |-> Spans(BondingCurveMarshal),
                    decoded |-> Spans(BondingCurveUnmarshal)]
     \/ account' = [stage |-> "pool", struct |-> Spans(PoolStruct)]
  /\ UNCHANGED <<inst, trade>>

-----------------------------------------------------------------------------
(* The accounts that the trades and the launch hand over.                  *)

Wallet == <<"wallet">>
Mint == <<"mint">>
SolMint == <<"SolMint">>
Market == <<"market">>
Wsol == <<"wsolTokenAccount">>
GlobalPubKey == <<"GlobalPubKey">>
GlobalFeeRecipient == <<"GlobalFeeRecipient">>
eventAuthority == <<"eventAuthority">>
PumpProgram == <<"pumpfun.ProgramID">>
SystemProgramID == <<"SystemProgramID">>
TokenProgramID == <<"TokenProgramID">>
AssociatedTokenProgramID == <<"SPLAssociatedTokenAccountProgramID">>
SysVarRent == <<"SysVarRentPubkey">>
OpenBookProgramID == <<"OpenBookProgramID">>
AuthorityV4 == <<"AuthorityV4">>

FindBondingCurve(mint) == <<"bonding-curve", mint>>
FindMetadata(mint) == <<"metadata", mint>>
FindAta(owner, mint) == <<"ata", owner, mint>>

PumpBuy ==
  New("Buy",
    <<<<"tokenAmount">>, <<"solAmount">>, GlobalPubKey, GlobalFeeRecipient, Mint,
      FindBondingCurve(Mint), FindAta(FindBondingCurve(Mint), Mint), FindAta(Wallet, Mint),
      Wallet, SystemProgramID, TokenProgramID, SysVarRent, eventAuthority, PumpProgram>>)

\* Mutant of PumpSell: the programs as a buy has them.
PumpSellProgramsOfBuy ==
  New("Sell",
    <<<<"tokenAmount">>, <<"solAmount">>, GlobalPubKey, GlobalFeeRecipient, Mint,
      FindBondingCurve(Mint), FindAta(FindBondingCurve(Mint), Mint), FindAta(Wallet, Mint),
      Wallet, SystemProgramID, TokenProgramID, AssociatedTokenProgramID, eventAuthority,
      PumpProgram>>)

PumpSell ==
  New("Sell",
    <<<<"tokenAmount">>, <<"solAmount">>, GlobalPubKey, GlobalFeeRecipient, Mint,
      FindBondingCurve(Mint), FindAta(FindBondingCurve(Mint), Mint), FindAta(Wallet, Mint),
      Wallet, SystemProgramID, AssociatedTokenProgramID, TokenProgramID, eventAuthority,
      PumpProgram>>)

LaunchCreate ==
  New("Create",
    <<<<"nameText">>, <<"symbolText">>, <<"uriText">>, Mint, <<"MINT_AUTHORITY">>,
      FindBondingCurve(Mint), FindAta(FindBondingCurve(Mint), Mint), GlobalPubKey,
      <<"TokenMetadataProgramID">>, FindMetadata(Mint), Wallet, SystemProgramID,
      TokenProgramID, AssociatedTokenProgramID, SysVarRent, eventAuthority, PumpProgram>>)

LaunchBuy ==
  New("Buy",
    <<<<"tokenAmount">>, <<"solAmount">>, GlobalPubKey, GlobalFeeRecipient, Mint,
      FindBondingCurve(Mint), FindAta(FindBondingCurve(Mint), Mint), FindAta(Wallet, Mint),
      Wallet, SystemProgramID, TokenProgramID, SysVarRent, eventAuthority, PumpProgram>>)

\* FindAmmId and its like: addresses raydium derives from the market.
FindAmm(seed, market) == <<seed, market>>

FindVaultSigner(market) == <<"vaultSigner", market.id, market.program>>

Meta(key, write, sign) == [key |-> key, write |-> write, sign |-> sign]

CreateSwapInstruction(p) ==
  [kind |-> "Swap", amounts |-> <<p.amountIn, p.minAmountOut>>,
   metas |->
     <<Meta(TokenProgramID, FALSE, FALSE),
       Meta(FindAmm("amm_associated_seed", p.market.id), TRUE, FALSE),
       Meta(AuthorityV4, FALSE, FALSE),
       Meta(FindAmm("open_order_associated_seed", p.market.id), TRUE, FALSE),
       Meta(FindAmm("target_associated_seed", p.market.id), TRUE, FALSE),
       Meta(FindAmm("coin_vault_associated_seed", p.market.id), TRUE, FALSE),
       Meta(FindAmm("pc_vault_associated_seed", p.market.id), TRUE, FALSE),
       Meta(OpenBookProgramID, FALSE, FALSE),
       Meta(p.market.id, TRUE, FALSE),
       Meta(p.market.bids, TRUE, FALSE),
       Meta(p.market.asks, TRUE, FALSE),
       Meta(p.market.eventQueue, TRUE, FALSE),
       Meta(p.market.baseVault, TRUE, FALSE),
       Meta(p.market.quoteVault, TRUE, FALSE),
       Meta(p.vaultSigner, FALSE, FALSE),
       Meta(p.source, TRUE, FALSE),
       Meta(p.dest, TRUE, FALSE),
       Meta(p.maker, TRUE, TRUE)>>]

CreateIdempotentInstruction(mint, wallet) ==
  [kind |-> "CreateAta",
   metas |-> <<Meta(wallet, TRUE, TRUE), Meta(FindAta(wallet, mint), TRUE, FALSE),
               Meta(wallet, FALSE, FALSE), Meta(mint, FALSE, FALSE),
               Meta(SystemProgramID, FALSE, FALSE), Meta(TokenProgramID, FALSE, FALSE)>>]

\* The mint of the token: the one of the market that is not SOL.
TokenMint(market) == IF market.baseMint = SolMint THEN market.quoteMint ELSE market.baseMint

RaydiumBuy(market) ==
  CreateSwapInstruction(
    [market |-> market, maker |-> Wallet, amountIn |-> <<"solAmount">>,
     minAmountOut |-> <<"tokenAmount">>, vaultSigner |-> FindVaultSigner(market),
     source |-> Wsol, dest |-> FindAta(Wallet, TokenMint(market))])

RaydiumSell(market) ==
  CreateSwapInstruction(
    [market |-> market, maker |-> Wallet, amountIn |-> <<"tokenAmount">>,
     minAmountOut |-> <<"solAmount">>, vaultSigner |-> FindVaultSigner(market),
     source |-> FindAta(Wallet, TokenMint(market)), dest |-> Wsol])

\* The markets of a token, on OpenBook or on an older program.
Markets ==
  {[id |-> Market, program |-> p, baseMint |-> m[1], quoteMint |-> m[2], bids |-> <<"bids">>,
    asks |-> <<"asks">>, eventQueue |-> <<"eventQueue">>, baseVault |-> <<"baseVault">>,
    quoteVault |-> <<"quoteVault">>] :
     p \in {OpenBookProgramID, <<"anotherMarketProgram">>},
     m \in {<<Mint, SolMint>>, <<SolMint, Mint>>}}

NoMarket == [id |-> Unset]

\* The callbacks of Sign: the trades return the wallet's key for any account,
\* the launch the key of the wallet or the mint, and nothing for others.
TradeSigner(key) == <<"keyOf", Wallet>>
LaunchSigner(key) == IF key \in {Wallet, Mint} THEN <<"keyOf", key>> ELSE Unset

\* The instructions a trade builds itself, next to those for compute units,
\* wrapped SOL, fees and tips.
TradeAssembled ==
  /\ trade.stage = "none"
  /\ \E market \in Markets :
       \E i \in {<<PumpBuy>>, <<PumpSell>>, <<RaydiumSell(market)>>, <<RaydiumBuy(market)>>,
                 <<CreateIdempotentInstruction(TokenMint(market), Wallet), RaydiumBuy(market)>>} :
         trade' = [stage |-> "assembled", site |-> "trade", market |-> market, insts |-> i]
  /\ UNCHANGED <<inst, account>>

\* Of the libraries: the account of the wallet for the mint, and a transfer.
NewCreateAta(mint) == [CreateIdempotentInstruction(mint, Wallet) EXCEPT !.kind = "CreateAta"]
NewTransfer(amount, to) ==
  [kind |-> "Transfer", amount |-> amount,
   metas |-> <<Meta(Wallet, TRUE, TRUE), Meta(to, TRUE, FALSE)>>]

\* CreateAndBuy: buys if there is SOL left for it, and pays what is not zero.
LaunchInstructions(buys, fee, tip) ==
  <<LaunchCreate>>
  \o (IF buys THEN <<NewCreateAta(Mint), LaunchBuy>> ELSE <<>>)
  \o (IF fee THEN <<NewTransfer("fee", <<"botFeeRecipient">>)>> ELSE <<>>)
  \o (IF tip THEN <<NewTransfer("tip", <<"JitoTipPaymentAccount">>)>> ELSE <<>>)

\* Launch, on pumpfun only; the global account and the block hash are asked for.
Launched ==
  /\ trade.stage = "none"
  /\ \E dex \in 0 .. 1, buys, fee, tip \in BOOLEAN :
       \/ /\ dex = 1
          /\ trade' = [stage |-> "assembled", site |-> "launch", market |-> NoMarket,
                       insts |-> LaunchInstructions(buys, fee, tip)]
       \/ trade' = [stage |-> "refused", dex |-> dex]
  /\ UNCHANGED <<inst, account>>

\* Sign asks for the key of each signer.
Signers(insts) ==
  UNION {{insts[i].metas[s].key : s \in {t \in DOMAIN insts[i].metas : insts[i].metas[t].sign}} :
           i \in DOMAIN insts}

Signed ==
  /\ trade.stage = "assembled"
  /\ trade' = [stage |-> "signed", site |-> trade.site, market |-> trade.market,
               insts |-> trade.insts,
               keys |-> [k \in Signers(trade.insts) |->
                           IF trade.site = "launch" THEN LaunchSigner(k) ELSE TradeSigner(k)]]
  /\ UNCHANGED <<inst, account>>

-----------------------------------------------------------------------------
InstructionsInit == inst = Untouched /\ account = Untouched /\ trade = Untouched

InstructionsNext ==
  \/ BuilderUsed \/ ValidatedAndBuilt \/ Decoded
  \/ AccountRead
  \/ TradeAssembled \/ Launched \/ Signed

InstructionsSpec == InstructionsInit /\ [][InstructionsNext]_instructionVars

-----------------------------------------------------------------------------
\* A builder is refused exactly if a setter was left out.  What is built comes
\* back from its accounts and data as it was, each parameter and account under
\* its own name.  Both readers of an account find every field where it was
\* written, and the filters of the pool lookup are where the mints are.
InstructionsReadBack ==
  /\ inst.stage = "refused" => ~inst.whole
  /\ inst.stage \in {"built", "decoded"} => inst.whole
  /\ inst.stage = "decoded" =>
       /\ inst.back = inst.draft
       /\ \A n \in DOMAIN inst.back.params : inst.back.params[n] = <<n>>
       /\ \A i \in DOMAIN inst.back.metas :
            inst.back.metas[i].key = <<Layouts[inst.back.kind].accounts[i].name>>
  /\ account.stage = "state" =>
       account.struct = account.written /\ account.decoded = account.written
  /\ account.stage = "pool" =>
       \A n \in DOMAIN PoolFilters :
         account.struct[n] = [from |-> PoolFilters[n], width |-> 32]

\* What the pumpfun program wants under each name.
PumpWants ==
  [global |-> GlobalPubKey, feeRecipient |-> GlobalFeeRecipient, mint |-> Mint,
   mintAuthority |-> <<"MINT_AUTHORITY">>, bondingCurve |-> FindBondingCurve(Mint),
   associatedBondingCurve |-> FindAta(FindBondingCurve(Mint), Mint),
   associatedUser |-> FindAta(Wallet, Mint), user |-> Wallet,
   mplTokenMetadata |-> <<"TokenMetadataProgramID">>, metadata |-> FindMetadata(Mint),
   systemProgram |-> SystemProgramID, tokenProgram |-> TokenProgramID,
   associatedTokenProgram |-> AssociatedTokenProgramID, rent |-> SysVarRent,
   eventAuthority |-> eventAuthority, program |-> PumpProgram,
   amount |-> <<"tokenAmount">>, maxSolCost |-> <<"solAmount">>,
   minSolOutput |-> <<"solAmount">>, name |-> <<"nameText">>,
   symbol |-> <<"symbolText">>, uri |-> <<"uriText">>]

\* What raydium wants in each slot of a swap that pays amounts[1] for amounts[2].
SwapWants(market, amounts) ==
  LET paysSol == amounts[1] = <<"solAmount">>
      ata == FindAta(Wallet, Mint)
      amm(seed) == FindAmm(seed, market.id)
  IN <<TokenProgramID, amm("amm_associated_seed"), AuthorityV4,
       amm("open_order_associated_seed"), amm("target_associated_seed"),
       amm("coin_vault_associated_seed"), amm("pc_vault_associated_seed"),
       market.program, market.id, market.bids, market.asks, market.eventQueue,
       market.baseVault, market.quoteVault, FindVaultSigner(market),
       IF paysSol THEN Wsol ELSE ata, IF paysSol THEN ata ELSE Wsol, Wallet>>

\* Whether i is what its program wants; but of a swap on a market that is not
\* OpenBook's, whose program slot 8 does not name, this says nothing.
Wanted(i, market) ==
  CASE i.kind \in Kinds ->
         /\ \A n \in DOMAIN i.params : i.params[n] = PumpWants[n]
         /\ \A s \in DOMAIN i.metas :
              i.metas[s].key = PumpWants[Layouts[i.kind].accounts[s].name]
    [] i.kind = "Swap" ->
         market.program = OpenBookProgramID =>
           \A s \in 1 .. 18 : i.metas[s].key = SwapWants(market, i.amounts)[s]
    [] i.kind = "CreateAta" ->
         [s \in 1 .. 4 |-> i.metas[s].key] = <<Wallet, FindAta(Wallet, Mint), Wallet, Mint>>
    [] i.kind = "Transfer" ->
         /\ i.metas[1].key = Wallet
         /\ i.metas[2].key = IF i.amount = "fee" THEN <<"botFeeRecipient">>
                             ELSE <<"JitoTipPaymentAccount">>

\* Every instruction of a trade or launch, built without validation from
\* arguments in order, has each account and parameter where its program wants
\* it, whichever mint of its market the token is, provided that the market of a
\* raydium swap is OpenBook's: CreateSwapInstruction names that program whatever
\* the market.  And whoever must sign is signed for with its own key.
AccountsInPlace ==
  trade.stage = "signed" =>
    /\ \A i \in DOMAIN trade.insts : Wanted(trade.insts[i], trade.market)
    /\ \A k \in DOMAIN trade.keys : trade.keys[k] = <<"keyOf", k>>
=============================================================================
