------------------------------- MODULE EvmPools ------------------------------
(***************************************************************************)
(* The pool of an EVM token: GetPool of evm/evm.go with                    *)
(* CalculatePoolAddress and sortAddressess of evm/misc.go.                 *)
(*                                                                         *)
(* A pair orders its two tokens by address.  Which of them is the token is *)
(* decided by comparing texts, and an address has several.                 *)
(***************************************************************************)
EXTENDS Integers

CONSTANTS
  TokenAddresses,       \* addresses of tokens, as numbers
  WrapNativeToken,      \* the address of the wrapped native token
  MaxReserve            \* bound: no reserve is larger

ASSUME EvmPoolsAssumption ==
  /\ TokenAddresses \subseteq Nat \ {WrapNativeToken}
  /\ WrapNativeToken \in Nat /\ MaxReserve \in Nat

VARIABLES
  pair,         \* pair[a]: what the pair at address a holds, on the chain
  poolReq,      \* the token text GetPool was called with
  poolAns       \* what it answered, if it has, and the pair is still so

evmPoolsVars == <<pair, poolReq, poolAns>>

\* The texts of an address: what String() prints, another mix of cases, and
\* one without 0x.  HexToAddress reads all of them.
Forms == {"checksum", "othercase", "bare"}
AllAddresses == TokenAddresses \union {WrapNativeToken}
AddressTexts == [address : AllAddresses, form : Forms]
String(a) == [address |-> a, form |-> "checksum"]
HexToAddress(s) == s.address

sortAddressess(a, b) == IF a > b THEN <<b, a>> ELSE <<a, b>>

\* A hash of the sorted addresses, the factory and its init code: as good as
\* the sorted addresses.
CalculatePoolAddress(a, b) == sortAddressess(a, b)

\* Mutant of IsToken0: compared with the second token.
IsToken0Second(s) == s = String(sortAddressess(HexToAddress(s), WrapNativeToken)[2])

IsToken0(s) == s = String(sortAddressess(HexToAddress(s), WrapNativeToken)[1])

\* The factory made one pair of each two tokens, the smaller address first.
Pairs == {p \in AllAddresses \X AllAddresses : p[1] < p[2]}
Reserves == [reserve0 : 0 .. MaxReserve, reserve1 : 0 .. MaxReserve]
Absent == [kind |-> "none"]
Asked == [kind |-> "asked"]

EvmPoolsInit ==
  /\ pair = [p \in Pairs |-> [reserve0 |-> 0, reserve1 |-> 0]]
  /\ poolReq = String(WrapNativeToken)
  /\ poolAns = Absent

\* Liquidity is added, traded and withdrawn; a pair has both or neither.
PairMoves ==
  /\ \E p \in Pairs, r \in Reserves :
       /\ r.reserve0 = 0 <=> r.reserve1 = 0
       /\ pair' = [pair EXCEPT ![p] = r]
  /\ poolAns' = IF poolAns = Asked THEN Asked ELSE Absent
  /\ UNCHANGED poolReq

PoolAsked ==
  /\ poolAns # Asked
  /\ \E s \in AddressTexts : poolReq' = s
  /\ poolAns' = Asked
  /\ UNCHANGED pair

\* One multicall reads the pair and the balances in one block; without a pair
\* at the address, it fails.  The price divides by the token's reserve, and a
\* division by zero panics.
PoolAnswered ==
  /\ poolAns = Asked
  /\ LET token == HexToAddress(poolReq)
         at == CalculatePoolAddress(WrapNativeToken, token)
         isToken0 == IsToken0(poolReq)
     IN IF at \notin Pairs
        THEN poolAns' = [kind |-> "error"]
        ELSE LET r == pair[at]
                 TokenReserve == IF isToken0 THEN r.reserve0 ELSE r.reserve1
                 QuoteReserve == IF isToken0 THEN r.reserve1 ELSE r.reserve0
             IN poolAns' = IF TokenReserve = 0 THEN [kind |-> "panic"]
                           ELSE [kind |-> "pool", token |-> TokenReserve, quote |-> QuoteReserve]
  /\ UNCHANGED <<pair, poolReq>>

\* One of the requests fails, as those to a token that is no contract do.
PoolFails ==
  /\ poolAns = Asked
  /\ poolAns' = [kind |-> "error"]
  /\ UNCHANGED <<pair, poolReq>>

EvmPoolsNext == PairMoves \/ PoolAsked \/ PoolAnswered \/ PoolFails

EvmPoolsSpec == EvmPoolsInit /\ [][EvmPoolsNext]_evmPoolsVars

-----------------------------------------------------------------------------
\* The reserve the uniswap pair of the token and the wrapped native token
\* keeps of address a.
Held(a) ==
  LET b == poolReq.address
      w == WrapNativeToken
  IN IF b < w THEN IF a = b THEN pair[<<b, w>>].reserve0 ELSE pair[<<b, w>>].reserve1
     ELSE IF a = b THEN pair[<<w, b>>].reserve1 ELSE pair[<<w, b>>].reserve0

\* GetPool answers from the pair of the token, the right way round, for every
\* address in the form String() prints and, if the token's address is the
\* larger one, in any form; it panics only over a pair that holds nothing.
ReservesOriented ==
  /\ poolAns.kind = "pool" /\ (poolReq.form = "checksum" \/ poolReq.address > WrapNativeToken) =>
       poolAns.token = Held(poolReq.address) /\ poolAns.quote = Held(WrapNativeToken)
  /\ poolAns.kind = "panic" => Held(poolReq.address) = 0
=============================================================================
