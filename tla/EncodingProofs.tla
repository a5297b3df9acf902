---------------------------- MODULE EncodingProofs ---------------------------
(***************************************************************************)
(* Proofs about Names, for any letters and length of name, and about       *)
(* Instructions, whose tables are the code's own.                          *)
(***************************************************************************)
EXTENDS Names, Instructions, TLAPS, WellFoundedInduction, SequenceTheorems

(* Least and greatest elements, which stand in for induction: a set of     *)
(* counterexamples that is not empty has a least one.                      *)

\* A set of naturals that is not empty has a least element.
LEMMA LeastOf ==
  ASSUME NEW T, T \subseteq Nat, T # {}
  PROVE  \E x \in T : \A y \in T : x <= y
<1>1. PICK x \in T : \A y \in T : <<y, x>> \notin OpToRel(<, Nat)
  BY WFMin, NatLessThanWellFounded, Zenon
<1>2. \A y \in T : <<y, x>> \in OpToRel(<, Nat) <=> y < x
  BY DEF OpToRel
<1>3. \A y \in T : ~ (y < x)
  BY <1>1, <1>2, Zenon
<1> QED BY <1>3

\* One that is bounded has a greatest.
LEMMA GreatestOf ==
  ASSUME NEW n \in Nat, NEW T, T \subseteq 0 .. n, T # {}
  PROVE  \E x \in T : \A y \in T : y <= x
<1> DEFINE D == {n - i : i \in T}
<1>1. D \subseteq Nat
  <2>1. ASSUME NEW i \in T PROVE n - i \in Nat
    OBVIOUS
  <2> QED BY <2>1
<1>a. D # {}
  <2>1. PICK i \in T : TRUE
    OBVIOUS
  <2>2. n - i \in D
    BY <2>1
  <2> QED BY <2>2
<1>2. PICK d \in D : \A e \in D : d <= e
  <2> HIDE DEF D
  <2> QED BY <1>1, <1>a, LeastOf
<1>3. PICK x \in T : d = n - x
  OBVIOUS
<1>4. ASSUME NEW y \in T PROVE y <= x
  <2>1. n - y \in D
    OBVIOUS
  <2>2. d <= n - y
    BY <1>2, <2>1, Zenon
  <2> QED BY <1>3, <2>2
<1> QED BY <1>4

(* Names. *)

\* Between goes from the first to the last byte other than drop: all it leaves
\* out is padding.
LEMMA BetweenSpans ==
  ASSUME NEW s \in Seq(Bytes), NEW drop, \E i \in DOMAIN s : s[i] # drop
  PROVE  \E a, b \in DOMAIN s :
           /\ Between(s, drop) = SubSeq(s, a, b)
           /\ a <= b /\ s[a] # drop /\ s[b] # drop
           /\ \A i \in DOMAIN s : s[i] # drop => a <= i /\ i <= b
<1> DEFINE kept == {i \in DOMAIN s : s[i] # drop}
<1> DEFINE a == CHOOSE i \in kept : \A j \in kept : i <= j
<1> DEFINE b == CHOOSE i \in kept : \A j \in kept : j <= i
<1>1. Len(s) \in Nat /\ DOMAIN s = 1 .. Len(s)
  BY LenProperties
<1>2. kept \subseteq Nat /\ kept \subseteq 0 .. Len(s) /\ kept # {}
  BY <1>1
<1>3. Between(s, drop) = SubSeq(s, a, b)
  BY <1>2 DEF Between
<1>4. a \in kept /\ \A j \in kept : a <= j
  <2> HIDE DEF kept
  <2> QED BY <1>2, LeastOf
<1>5. b \in kept /\ \A j \in kept : j <= b
  <2> HIDE DEF kept
  <2> QED BY <1>1, <1>2, GreatestOf
<1>6. a <= b
  BY <1>4, <1>5
<1> HIDE DEF a, b
<1> QED BY <1>3, <1>4, <1>5, <1>6

\* What is between is a name again.
LEMMA BetweenIsSeq ==
  ASSUME NEW s \in Seq(Bytes), NEW drop
  PROVE  Between(s, drop) \in Seq(Bytes)
<1>1. CASE \A i \in DOMAIN s : s[i] = drop
  <2>1. Between(s, drop) = <<>>
    BY <1>1 DEF Between
  <2> QED BY <2>1, EmptySeq
<1>2. CASE \E i \in DOMAIN s : s[i] # drop
  <2>1. PICK a \in DOMAIN s, b \in DOMAIN s : Between(s, drop) = SubSeq(s, a, b)
    BY <1>2, BetweenSpans
  <2>2. Len(s) \in Nat /\ DOMAIN s = 1 .. Len(s) /\ s \in [1 .. Len(s) -> Bytes]
    BY LenProperties
  <2>3. a \in Int /\ b \in Int /\ \A i \in a .. b : s[i] \in Bytes
    BY <2>2
  <2>4. SubSeq(s, a, b) \in Seq(Bytes)
    BY <2>3, SubSeqProperties
  <2> QED BY <2>1, <2>4
<1> QED BY <1>1, <1>2

\* The slice between the indices of the two loops is the name without its zero
\* padding - but nothing at all if only the first byte is not zero.
LEMMA SliceTrimsZeros ==
  ASSUME NEW t \in Seq(Bytes)
  PROVE  SubSeq(t, StartOf(t) + 1, EndOf(t)) =
           IF {i \in DOMAIN t : t[i] # "zero"} = {1} THEN <<>> ELSE Between(t, "zero")
<1> DEFINE kept == {i \in DOMAIN t : t[i] # "zero"}
<1> DEFINE above == {i \in 2 .. Len(t) : t[i] # "zero"}
<1>1. Len(t) \in Nat /\ DOMAIN t = 1 .. Len(t)
  BY LenProperties
<1>2. above = kept \ {1} /\ kept \subseteq Nat \ {0}
  BY <1>1
<1>3. CASE above = {}
  <2>1. EndOf(t) = 0
    BY <1>3 DEF EndOf
  <2>2. StartOf(t) = 0
    <3>1. CASE kept = {}
      BY <3>1 DEF StartOf
    <3>2. CASE kept = {1}
      <4>1. (CHOOSE i \in kept : \A j \in kept : i <= j) = 1
        <5> HIDE DEF kept
        <5> QED BY <3>2
      <4> QED BY <3>2, <4>1 DEF StartOf
    <3> HIDE DEF kept, above
    <3> QED BY <1>2, <1>3, <3>1, <3>2
  <2>3. SubSeq(t, 1, 0) = <<>>
    BY SubSeqEmpty
  <2>4. kept # {1} => kept = {}
    BY <1>2, <1>3
  <2>5. kept = {} => Between(t, "zero") = <<>>
    BY DEF Between
  <2>6. SubSeq(t, StartOf(t) + 1, EndOf(t)) = <<>>
    BY <2>1, <2>2, <2>3
  <2>7. IF kept = {1} THEN TRUE ELSE Between(t, "zero") = <<>>
    <3> HIDE DEF kept
    <3> QED BY <2>4, <2>5
  <2> QED BY <2>6, <2>7
<1>4. CASE above # {}
  <2> DEFINE a == CHOOSE i \in kept : \A j \in kept : i <= j
  <2> DEFINE b == CHOOSE i \in kept : \A j \in kept : j <= i
  <2>1. kept # {} /\ kept # {1}
    BY <1>2, <1>4
  <2>2. a \in Nat
    <3>1. \E i \in kept : \A j \in kept : i <= j
      <4> HIDE DEF kept
      <4> QED BY <1>2, <2>1, LeastOf
    <3> HIDE DEF kept
    <3> QED BY <1>2, <3>1
  <2>3. StartOf(t) + 1 = a
    <3>1. StartOf(t) = a - 1
      BY <2>1 DEF StartOf
    <3> HIDE DEF a
    <3> QED BY <2>2, <3>1
  <2>4. (CHOOSE i \in above : \A j \in above : j <= i) = b
    <3>1. \A i : (i \in above /\ \A j \in above : j <= i) <=> (i \in kept /\ \A j \in kept : j <= i)
      <4> HIDE DEF kept, above
      <4>1. PICK m \in above : TRUE
        BY <1>4
      <4>a. m \in Nat \ {0} /\ m # 1
        BY <1>2
      <4>2. ASSUME NEW i \in kept, \A j \in kept : j <= i PROVE i \in above
        BY <1>2, <4>a, <4>2
      <4>3. ASSUME NEW i \in above, \A j \in above : j <= i, NEW j \in kept PROVE j <= i
        BY <1>2, <4>3
      <4> QED BY <1>2, <4>2, <4>3
    <3> HIDE DEF kept, above
    <3> QED BY <3>1
  <2>5. EndOf(t) = b
    BY <1>4, <2>4 DEF EndOf
  <2>6. Between(t, "zero") = SubSeq(t, a, b)
    BY <2>1 DEF Between
  <2> QED BY <2>1, <2>3, <2>5, <2>6
<1> QED BY <1>3, <1>4

\* Every cleaned name is the whole name between its padding, or was one byte.
THEOREM NamesAlwaysTrimmed == NamesSpec => []NamesTrimmed
<1>1. ASSUME NEW s \in Seq(Bytes)
      PROVE  TrimSpace(s) =
               LET first == {i \in DOMAIN Between(s, "space") : Between(s, "space")[i] # "zero"}
               IN IF first = {1} THEN <<>> ELSE Between(Between(s, "space"), "zero")
  BY BetweenIsSeq, SliceTrimsZeros DEF TrimSpace
<1>2. NamesInit => NamesTrimmed
  <2>1. ASSUME NEW drop PROVE Between(<<>>, drop) = <<>>
    BY DEF Between
  <2> QED BY <2>1 DEF NamesInit, NamesTrimmed
<1>3. RawNames \subseteq Seq(Bytes)
  BY NamesAssumption DEF RawNames
<1>4. NamesTrimmed /\ [NamesNext]_nameVars => NamesTrimmed'
  <2>1. CASE NameCleaned
    <3>1. PICK s \in RawNames : raw' = s /\ trimmed' = TrimSpace(s)
      BY <2>1 DEF NameCleaned
    <3> QED BY <1>1, <1>3, <3>1 DEF NamesTrimmed
  <2>2. CASE UNCHANGED nameVars
    BY <2>2 DEF nameVars, NamesTrimmed
  <2> QED BY <2>1, <2>2 DEF NamesNext
<1> QED BY <1>2, <1>4, PTL DEF NamesSpec

(* Instructions: from a builder to its decoder. *)

\* The names in a tuple of names, and those of the slots of an account list.
NamesOf(tuple) == {tuple[i] : i \in DOMAIN tuple}
SlotNames(accounts) == {accounts[i].name : i \in DOMAIN accounts}
Distinct(tuple) == \A i, j \in DOMAIN tuple : tuple[i] = tuple[j] => i = j

\* What the tables of an instruction owe each other: each argument is named
\* once, and is a parameter or an account; every slot must be set; and the
\* parameters are read as they are written.
LaidOut(k) ==
  LET l == Layouts[k] IN
  /\ Distinct(l.formal) /\ "unset" \notin NamesOf(l.formal)
  /\ NamesOf(l.formal) = l.required.params \union SlotNames(l.accounts)
  /\ l.required.slots = DOMAIN l.accounts
  /\ l.written = l.readBack /\ Distinct(l.written)
  /\ NamesOf(l.written) = l.required.params

\* The tables of each of the six instructions are laid out.
LEMMA InitializeLaidOut == LaidOut("Initialize")
<1>1. LET l == Layouts["Initialize"]
      IN /\ l.accounts = InitializeAccounts /\ l.required = InitializeRequired
         /\ l.written = InitializeWritten /\ l.readBack = InitializeRead /\ l.formal = InitializeFormal
  BY DEF Layouts, Layout
<1>2. Distinct(InitializeFormal) /\ "unset" \notin NamesOf(InitializeFormal)
  BY DEF Distinct, NamesOf, InitializeFormal
<1>3. NamesOf(InitializeFormal) = InitializeRequired.params \union SlotNames(InitializeAccounts)
  BY DEF NamesOf, SlotNames, InitializeFormal, InitializeAccounts, InitializeRequired, R, W, WS
<1>4. InitializeRequired.slots = DOMAIN InitializeAccounts
  BY DEF InitializeRequired, InitializeAccounts
<1>5. InitializeWritten = InitializeRead /\ Distinct(InitializeWritten)
  BY DEF Distinct, InitializeWritten, InitializeRead
<1>6. NamesOf(InitializeWritten) = InitializeRequired.params
  BY DEF NamesOf, InitializeWritten, InitializeRequired
<1> QED BY <1>1, <1>2, <1>3, <1>4, <1>5, <1>6 DEF LaidOut

\* The tables of SetParams.
LEMMA SetParamsLaidOut == LaidOut("SetParams")
<1>1. LET l == Layouts["SetParams"]
      IN /\ l.accounts = SetParamsAccounts /\ l.required = SetParamsRequired
         /\ l.written = SetParamsWritten /\ l.readBack = SetParamsRead /\ l.formal = SetParamsFormal
  BY DEF Layouts, Layout
<1>2. Distinct(SetParamsFormal) /\ "unset" \notin NamesOf(SetParamsFormal)
  BY DEF Distinct, NamesOf, SetParamsFormal
<1>3. NamesOf(SetParamsFormal) = SetParamsRequired.params \union SlotNames(SetParamsAccounts)
  BY DEF NamesOf, SlotNames, SetParamsFormal, SetParamsAccounts, SetParamsRequired, R, W, WS
<1>4. SetParamsRequired.slots = DOMAIN SetParamsAccounts
  BY DEF SetParamsRequired, SetParamsAccounts
<1>5. SetParamsWritten = SetParamsRead /\ Distinct(SetParamsWritten)
  BY DEF Distinct, SetParamsWritten, SetParamsRead
<1>6. NamesOf(SetParamsWritten) = SetParamsRequired.params
  BY DEF NamesOf, SetParamsWritten, SetParamsRequired
<1> QED BY <1>1, <1>2, <1>3, <1>4, <1>5, <1>6 DEF LaidOut

\* The tables of Create.
LEMMA CreateLaidOut == LaidOut("Create")
<1>1. LET l == Layouts["Create"]
      IN /\ l.accounts = CreateAccounts /\ l.required = CreateRequired
         /\ l.written = CreateWritten /\ l.readBack = CreateRead /\ l.formal = CreateFormal
  BY DEF Layouts, Layout
<1>2. Distinct(CreateFormal) /\ "unset" \notin NamesOf(CreateFormal)
  BY DEF Distinct, NamesOf, CreateFormal
<1>3. NamesOf(CreateFormal) = CreateRequired.params \union SlotNames(CreateAccounts)
  BY DEF NamesOf, SlotNames, CreateFormal, CreateAccounts, CreateRequired, R, W, WS
<1>4. CreateRequired.slots = DOMAIN CreateAccounts
  BY DEF CreateRequired, CreateAccounts
<1>5. CreateWritten = CreateRead /\ Distinct(CreateWritten)
  BY DEF Distinct, CreateWritten, CreateRead
<1>6. NamesOf(CreateWritten) = CreateRequired.params
  BY DEF NamesOf, CreateWritten, CreateRequired
<1> QED BY <1>1, <1>2, <1>3, <1>4, <1>5, <1>6 DEF LaidOut

\* The tables of Buy.
LEMMA BuyLaidOut == LaidOut("Buy")
<1>1. LET l == Layouts["Buy"]
      IN /\ l.accounts = BuyAccounts /\ l.required = BuyRequired
         /\ l.written = BuyWritten /\ l.readBack = BuyRead /\ l.formal = BuyFormal
  BY DEF Layouts, Layout
<1>2. Distinct(BuyFormal) /\ "unset" \notin NamesOf(BuyFormal)
  BY DEF Distinct, NamesOf, BuyFormal
<1>3. NamesOf(BuyFormal) = BuyRequired.params \union SlotNames(BuyAccounts)
  BY DEF NamesOf, SlotNames, BuyFormal, BuyAccounts, BuyRequired, R, W, WS
<1>4. BuyRequired.slots = DOMAIN BuyAccounts
  BY DEF BuyRequired, BuyAccounts
<1>5. BuyWritten = BuyRead /\ Distinct(BuyWritten)
  BY DEF Distinct, BuyWritten, BuyRead
<1>6. NamesOf(BuyWritten) = BuyRequired.params
  BY DEF NamesOf, BuyWritten, BuyRequired
<1> QED BY <1>1, <1>2, <1>3, <1>4, <1>5, <1>6 DEF LaidOut

\* The tables of Sell.
LEMMA SellLaidOut == LaidOut("Sell")
<1>1. LET l == Layouts["Sell"]
      IN /\ l.accounts = SellAccounts /\ l.required = SellRequired
         /\ l.written = SellWritten /\ l.readBack = SellRead /\ l.formal = SellFormal
  BY DEF Layouts, Layout
<1>2. Distinct(SellFormal) /\ "unset" \notin NamesOf(SellFormal)
  BY DEF Distinct, NamesOf, SellFormal
<1>3. NamesOf(SellFormal) = SellRequired.params \union SlotNames(SellAccounts)
  BY DEF NamesOf, SlotNames, SellFormal, SellAccounts, SellRequired, R, W, WS
<1>4. SellRequired.slots = DOMAIN SellAccounts
  BY DEF SellRequired, SellAccounts
<1>5. SellWritten = SellRead /\ Distinct(SellWritten)
  BY DEF Distinct, SellWritten, SellRead
<1>6. NamesOf(SellWritten) = SellRequired.params
  BY DEF NamesOf, SellWritten, SellRequired
<1> QED BY <1>1, <1>2, <1>3, <1>4, <1>5, <1>6 DEF LaidOut

\* The tables of Withdraw.
LEMMA WithdrawLaidOut == LaidOut("Withdraw")
<1>1. LET l == Layouts["Withdraw"]
      IN /\ l.accounts = WithdrawAccounts /\ l.required = WithdrawRequired
         /\ l.written = WithdrawWritten /\ l.readBack = WithdrawRead /\ l.formal = WithdrawFormal
  BY DEF Layouts, Layout
<1>2. Distinct(WithdrawFormal) /\ "unset" \notin NamesOf(WithdrawFormal)
  BY DEF Distinct, NamesOf, WithdrawFormal
<1>3. NamesOf(WithdrawFormal) = WithdrawRequired.params \union SlotNames(WithdrawAccounts)
  BY DEF NamesOf, SlotNames, WithdrawFormal, WithdrawAccounts, WithdrawRequired, R, W, WS
<1>4. WithdrawRequired.slots = DOMAIN WithdrawAccounts
  BY DEF WithdrawRequired, WithdrawAccounts
<1>5. WithdrawWritten = WithdrawRead /\ Distinct(WithdrawWritten)
  BY DEF Distinct, WithdrawWritten, WithdrawRead
<1>6. NamesOf(WithdrawWritten) = WithdrawRequired.params
  BY DEF NamesOf, WithdrawWritten, WithdrawRequired
<1> QED BY <1>1, <1>2, <1>3, <1>4, <1>5, <1>6 DEF LaidOut

\* So are those of any instruction.
LEMMA KindsLaidOut == \A k \in Kinds : LaidOut(k)
<1>1. Kinds = {"Initialize", "SetParams", "Create", "Buy", "Sell", "Withdraw"}
  BY DEF Kinds, Layouts
<1> QED BY <1>1, InitializeLaidOut, SetParamsLaidOut, CreateLaidOut, BuyLaidOut,
           SellLaidOut, WithdrawLaidOut

\* Arguments in order arrive under the names of the order.
LEMMA InOrderAt ==
  ASSUME NEW tuple, Distinct(tuple), NEW args, NEW i \in DOMAIN tuple
  PROVE  InOrder(tuple, args)[tuple[i]] = args[i]
<1>1. (CHOOSE j \in DOMAIN tuple : tuple[j] = tuple[i]) = i
  BY DEF Distinct
<1> QED BY <1>1 DEF InOrder

\* A draft on which the setters of given were called, each with its own name.
Draft(k, given) == Built(k, [n \in given |-> <<n>>])

\* The kind and parameters of a draft.
LEMMA DraftFields ==
  ASSUME NEW k \in Kinds, NEW given \in SUBSET NamesOf(Layouts[k].formal)
  PROVE  LET d == Draft(k, given) IN
         /\ d.kind = k
         /\ d.params = [p \in Layouts[k].required.params |->
                          IF p \in given THEN <<p>> ELSE Unset]
         /\ d = [kind |-> d.kind, params |-> d.params, metas |-> d.metas]
BY DEF Draft, Built

\* The accounts of a draft.
LEMMA DraftMetas ==
  ASSUME NEW k \in Kinds, NEW given \in SUBSET NamesOf(Layouts[k].formal)
  PROVE  /\ DOMAIN Draft(k, given).metas = DOMAIN Layouts[k].accounts
         /\ \A i \in DOMAIN Layouts[k].accounts :
              Draft(k, given).metas[i].key =
                IF Layouts[k].accounts[i].name \in given
                THEN <<Layouts[k].accounts[i].name>> ELSE Unset
BY DEF Draft, Built

\* A draft is valid exactly if no setter was left out.
LEMMA ValidIfWhole ==
  ASSUME NEW k \in Kinds, NEW given \in SUBSET NamesOf(Layouts[k].formal)
  PROVE  Validate(Draft(k, given)) <=> given = NamesOf(Layouts[k].formal)
<1> DEFINE d == Draft(k, given)
<1> DEFINE accounts == Layouts[k].accounts
<1>1. LaidOut(k)
  BY KindsLaidOut
<1>2. \A n \in NamesOf(Layouts[k].formal) : <<n>> # Unset
  BY <1>1 DEF LaidOut, Unset
<1>3. \A p \in Layouts[k].required.params : d.params[p] # Unset <=> p \in given
  <2>1. d.params = [p \in Layouts[k].required.params |-> IF p \in given THEN <<p>> ELSE Unset]
    BY DraftFields
  <2> HIDE DEF d
  <2> QED BY <1>1, <1>2, <2>1 DEF LaidOut
<1>4. \A i \in DOMAIN accounts : accounts[i].name \in NamesOf(Layouts[k].formal)
  BY <1>1 DEF LaidOut, SlotNames
<1>5. \A i \in DOMAIN accounts : d.metas[i].key # Unset <=> accounts[i].name \in given
  <2>1. /\ DOMAIN d.metas = DOMAIN accounts
        /\ \A i \in DOMAIN accounts :
             d.metas[i].key = IF accounts[i].name \in given THEN <<accounts[i].name>> ELSE Unset
    BY DraftMetas, Zenon
  <2> HIDE DEF d, accounts
  <2> QED BY <1>2, <1>4, <2>1
<1>6. Validate(d) <=> /\ \A p \in Layouts[k].required.params : p \in given
                      /\ \A i \in DOMAIN accounts : accounts[i].name \in given
  <2>1. d.kind = k
    BY DraftFields
  <2> HIDE DEF d, accounts
  <2> QED BY <1>1, <1>3, <1>5, <2>1 DEF LaidOut, Validate, accounts
<1> HIDE DEF d
<1> QED BY <1>1, <1>6 DEF LaidOut, SlotNames, d

\* The discriminators tell the instructions apart.
LEMMA DiscriminatorsDiffer == \A j, k \in Kinds : TypeID[j] = TypeID[k] => j = k
<1>1. Kinds = {"Initialize", "SetParams", "Create", "Buy", "Sell", "Withdraw"}
  BY DEF Kinds, Layouts
<1>2. /\ TypeID["Initialize"][1] = 175 /\ TypeID["SetParams"][1] = 27
      /\ TypeID["Create"][1] = 24 /\ TypeID["Buy"][1] = 102
      /\ TypeID["Sell"][1] = 51 /\ TypeID["Withdraw"][1] = 183
  BY DEF TypeID
<1> HIDE DEF TypeID
<1> QED BY <1>1, <1>2

\* A whole draft comes back from its accounts and data, and has each parameter
\* and account under its own name.
LEMMA DraftReadBack ==
  ASSUME NEW k \in Kinds
  PROVE  LET d == Draft(k, NamesOf(Layouts[k].formal)) IN
         /\ DecodeInstruction(Accounts(d), Data(d)) = d
         /\ \A n \in DOMAIN d.params : d.params[n] = <<n>>
         /\ \A i \in DOMAIN d.metas : d.metas[i].key = <<Layouts[d.kind].accounts[i].name>>
<1> DEFINE all == NamesOf(Layouts[k].formal)
<1> DEFINE d == Draft(k, all)
<1> DEFINE written == Layouts[k].written
<1>1. LaidOut(k)
  BY KindsLaidOut
<1>2. \A i \in DOMAIN Layouts[k].accounts : Layouts[k].accounts[i].name \in all
  BY <1>1 DEF LaidOut, SlotNames
<1>3. d.kind = k /\ d = [kind |-> d.kind, params |-> d.params, metas |-> d.metas]
  BY DraftFields
<1>4. d.params = [p \in Layouts[k].required.params |-> <<p>>]
  <2>1. d.params = [p \in Layouts[k].required.params |-> IF p \in all THEN <<p>> ELSE Unset]
    BY DraftFields
  <2> QED BY <1>1, <2>1 DEF LaidOut
<1>5. \A i \in DOMAIN d.metas : d.metas[i].key = <<Layouts[k].accounts[i].name>>
  <2>1. /\ DOMAIN d.metas = DOMAIN Layouts[k].accounts
        /\ \A i \in DOMAIN Layouts[k].accounts :
             d.metas[i].key = IF Layouts[k].accounts[i].name \in all
                              THEN <<Layouts[k].accounts[i].name>> ELSE Unset
    BY DraftMetas, Zenon
  <2> HIDE DEF d, all
  <2> QED BY <1>2, <2>1
<1>6. Data(d).id = TypeID[k] /\ Data(d).fields = [i \in DOMAIN written |-> d.params[written[i]]]
  <2> HIDE DEF d
  <2> QED BY <1>3 DEF Data
<1>7. DecodedKind(Data(d)) = k
  <2> HIDE DEF d
  <2> QED BY <1>6, DiscriminatorsDiffer DEF DecodedKind
<1>8. InOrder(Layouts[k].readBack, Data(d).fields) = d.params
  <2> DEFINE params == InOrder(written, Data(d).fields)
  <2>1. params = [n \in NamesOf(written) |-> params[n]]
    BY DEF InOrder, NamesOf
  <2>2. ASSUME NEW n \in NamesOf(written) PROVE params[n] = <<n>>
    <3>1. PICK i \in DOMAIN written : n = written[i]
      BY DEF NamesOf
    <3>2. params[n] = Data(d).fields[i]
      <4>1. Distinct(written)
        BY <1>1 DEF LaidOut
      <4> HIDE DEF written, d
      <4> QED BY <3>1, <4>1, InOrderAt
    <3>3. Data(d).fields[i] = d.params[n]
      BY <1>6, <3>1
    <3>4. d.params[n] = <<n>>
      BY <1>1, <1>4 DEF LaidOut
    <3> QED BY <3>2, <3>3, <3>4
  <2>3. params = [n \in NamesOf(written) |-> <<n>>]
    <3> HIDE DEF params
    <3> QED BY <2>1, <2>2
  <2> QED BY <1>1, <1>4, <2>3 DEF LaidOut
<1>9. DecodeInstruction(Accounts(d), Data(d)) = d
  <2> HIDE DEF d
  <2> QED BY <1>3, <1>7, <1>8 DEF DecodeInstruction, Accounts
<1>10. \A n \in DOMAIN d.params : d.params[n] = <<n>>
  <2> HIDE DEF d
  <2> QED BY <1>4
<1> QED BY <1>3, <1>5, <1>9, <1>10

\* What an instruction is while it goes from its builder to its decoder.
InstInv ==
  LET all(k) == NamesOf(Layouts[k].formal) IN
  /\ inst.stage \in {"none", "drafted", "refused", "built", "decoded"}
  /\ inst.stage \in {"drafted", "refused", "built"} =>
       inst = [stage |-> inst.stage, whole |-> inst.whole, draft |-> inst.draft]
  /\ inst.stage # "none" =>
       \E k \in Kinds : \E given \in SUBSET all(k) :
         inst.draft = Draft(k, given) /\ inst.whole = (given = all(k))
  /\ inst.stage = "refused" => ~inst.whole
  /\ inst.stage \in {"built", "decoded"} => inst.whole
  /\ inst.stage = "decoded" =>
       inst.back = DecodeInstruction(Accounts(inst.draft), Data(inst.draft))

\* Every step keeps what is known of an instruction.
LEMMA InstInvNext == InstInv /\ [InstructionsNext]_instructionVars => InstInv'
<1> SUFFICES ASSUME InstInv, [InstructionsNext]_instructionVars PROVE InstInv'
    OBVIOUS
<1>1. CASE BuilderUsed
  <2>1. PICK k \in Kinds : \E given \in SUBSET NamesOf(Layouts[k].formal) :
          inst' = [stage |-> "drafted", whole |-> given = NamesOf(Layouts[k].formal),
                   draft |-> Draft(k, given)]
    BY <1>1 DEF BuilderUsed, NamesOf, Draft
  <2> QED BY <2>1 DEF InstInv
<1>2. CASE ValidatedAndBuilt
  <2>1. PICK k \in Kinds : \E given \in SUBSET NamesOf(Layouts[k].formal) :
          inst.draft = Draft(k, given) /\ inst.whole = (given = NamesOf(Layouts[k].formal))
    BY <1>2 DEF InstInv, ValidatedAndBuilt
  <2>2. Validate(inst.draft) <=> inst.whole
    BY <2>1, ValidIfWhole
  <2>3. inst' = [stage |-> IF Validate(inst.draft) THEN "built" ELSE "refused",
                 whole |-> inst.whole, draft |-> inst.draft]
    BY <1>2 DEF InstInv, ValidatedAndBuilt
  <2>4. inst'.whole = inst.whole /\ inst'.draft = inst.draft
    BY <2>3
  <2> QED BY <2>1, <2>2, <2>3, <2>4 DEF InstInv
<1>3. CASE Decoded
  <2>1. PICK k \in Kinds : \E given \in SUBSET NamesOf(Layouts[k].formal) :
          inst.draft = Draft(k, given) /\ inst.whole = (given = NamesOf(Layouts[k].formal))
    BY <1>3 DEF InstInv, Decoded
  <2>2. inst' = [stage |-> "decoded", whole |-> inst.whole, draft |-> inst.draft,
                 back |-> DecodeInstruction(Accounts(inst.draft), Data(inst.draft))]
    BY <1>3 DEF Decoded
  <2>3. inst.whole
    BY <1>3 DEF InstInv, Decoded
  <2> QED BY <2>1, <2>2, <2>3 DEF InstInv
<1>4. CASE UNCHANGED inst
  BY <1>4 DEF InstInv
<1> QED BY <1>1, <1>2, <1>3, <1>4 DEF InstructionsNext, instructionVars, AccountRead,
           TradeAssembled, Launched, Signed

(* Instructions: the readers of an account. *)

\* Layouts that differ in the name of their first field only, which is not one
\* of those looked for, have every field in the same place.
LEMMA SpansAgree ==
  ASSUME NEW l, NEW m, NEW len \in Nat \ {0},
         Len(l) = len /\ DOMAIN l = 1 .. len,
         Len(m) = len /\ DOMAIN m = 1 .. len,
         \A i \in 1 .. len : l[i].width = m[i].width,
         \A i \in 2 .. len : l[i].name = m[i].name,
         {l[1].name, m[1].name} \subseteq {"blob1", "discriminator", "number"}
  PROVE  Spans(l) = Spans(m)
<1>1. Starts(l) = Starts(m)
  <2>1. \A i \in 1 .. len : i # 1 => l[i - 1].width = m[i - 1].width
    OBVIOUS
  <2>2. ASSUME NEW start
        PROVE  [i \in 1 .. len |-> IF i = 1 THEN 0 ELSE start[i - 1] + l[i - 1].width]
                 = [i \in 1 .. len |-> IF i = 1 THEN 0 ELSE start[i - 1] + m[i - 1].width]
    BY <2>1
  <2> QED BY <2>2 DEF Starts
<1>2. Fields(l) = Fields(m)
  BY DEF Fields
<1>3. ASSUME NEW n \in Fields(l) PROVE Span(l, n) = Span(m, n)
  <2>1. \A j \in 1 .. len : l[j].name = n <=> m[j].name = n
    BY DEF Fields
  <2>2. (CHOOSE j \in DOMAIN l : l[j].name = n) = (CHOOSE j \in DOMAIN m : m[j].name = n)
    BY <2>1
  <2>3. (CHOOSE j \in DOMAIN l : l[j].name = n) \in 1 .. len
    BY DEF Fields
  <2> QED BY <1>1, <2>2, <2>3 DEF Span
<1> QED BY <1>2, <1>3 DEF Spans

\* The readers of the global account agree with its writer.
LEMMA GlobalSpansAgree ==
  Spans(GlobalStruct) = Spans(GlobalMarshal) /\ Spans(GlobalUnmarshal) = Spans(GlobalMarshal)
<1>1. GlobalUnmarshal = GlobalMarshal
  BY DEF GlobalUnmarshal, GlobalMarshal
<1>2. Spans(GlobalStruct) = Spans(GlobalMarshal)
  <2>1. /\ Len(GlobalStruct) = 9 /\ Len(GlobalMarshal) = 9
        /\ DOMAIN GlobalStruct = 1 .. 9 /\ DOMAIN GlobalMarshal = 1 .. 9
    BY DEF GlobalStruct, GlobalMarshal
  <2>2. \A i \in 1 .. 9 : GlobalStruct[i].width = GlobalMarshal[i].width
    BY DEF GlobalStruct, GlobalMarshal, U64, Key32, Bool
  <2>3. \A i \in 2 .. 9 : GlobalStruct[i].name = GlobalMarshal[i].name
    BY DEF GlobalStruct, GlobalMarshal, U64, Key32, Bool
  <2>4. GlobalStruct[1].name = "blob1" /\ GlobalMarshal[1].name = "discriminator"
    BY DEF GlobalStruct, GlobalMarshal, U64
  <2>5. {GlobalStruct[1].name, GlobalMarshal[1].name} \subseteq {"blob1", "discriminator", "number"}
    BY <2>4
  <2>6. 9 \in Nat \ {0}
    OBVIOUS
  <2> HIDE DEF GlobalStruct, GlobalMarshal
  <2> QED BY <2>1, <2>2, <2>3, <2>5, <2>6, SpansAgree, Zenon
<1> QED BY <1>1, <1>2

\* So do those of a bonding curve.
LEMMA CurveSpansAgree ==
  /\ Spans(BondingCurveStruct) = Spans(BondingCurveMarshal)
  /\ Spans(BondingCurveUnmarshal) = Spans(BondingCurveMarshal)
<1>1. BondingCurveUnmarshal = BondingCurveMarshal
  BY DEF BondingCurveUnmarshal, BondingCurveMarshal
<1>2. Spans(BondingCurveStruct) = Spans(BondingCurveMarshal)
  <2>1. /\ Len(BondingCurveStruct) = 7 /\ Len(BondingCurveMarshal) = 7
        /\ DOMAIN BondingCurveStruct = 1 .. 7 /\ DOMAIN BondingCurveMarshal = 1 .. 7
    BY DEF BondingCurveStruct, BondingCurveMarshal
  <2>2. \A i \in 1 .. 7 : BondingCurveStruct[i].width = BondingCurveMarshal[i].width
    BY DEF BondingCurveStruct, BondingCurveMarshal, U64, Bool
  <2>3. \A i \in 2 .. 7 : BondingCurveStruct[i].name = BondingCurveMarshal[i].name
    BY DEF BondingCurveStruct, BondingCurveMarshal, U64, Bool
  <2>4. BondingCurveStruct[1].name = "blob1" /\ BondingCurveMarshal[1].name = "discriminator"
    BY DEF BondingCurveStruct, BondingCurveMarshal, U64
  <2>5. {BondingCurveStruct[1].name, BondingCurveMarshal[1].name} \subseteq {"blob1", "discriminator", "number"}
    BY <2>4
  <2>6. 7 \in Nat \ {0}
    OBVIOUS
  <2> HIDE DEF BondingCurveStruct, BondingCurveMarshal
  <2> QED BY <2>1, <2>2, <2>3, <2>5, <2>6, SpansAgree, Zenon
<1> QED BY <1>1, <1>2

\* A layout has one table of starts: whatever adds up the widths is it.
LEMMA StartsUnique ==
  ASSUME NEW l, NEW len \in Nat, Len(l) = len,
         NEW g \in [1 .. len -> Nat],
         \A i \in 1 .. len : g[i] = IF i = 1 THEN 0 ELSE g[i - 1] + l[i - 1].width
  PROVE  Starts(l) = g
<1> DEFINE IsTable(start) ==
      start = [i \in 1 .. len |-> IF i = 1 THEN 0 ELSE start[i - 1] + l[i - 1].width]
<1>1. IsTable(g)
  OBVIOUS
<1>2. IsTable(Starts(l))
  <2>1. Starts(l) = CHOOSE start : IsTable(start)
    BY DEF Starts
  <2> HIDE DEF IsTable
  <2> QED BY <1>1, <2>1
<1>3. ASSUME NEW i \in 1 .. len, Starts(l)[i] # g[i] PROVE FALSE
  <2> DEFINE T == {j \in 1 .. len : Starts(l)[j] # g[j]}
  <2>1. T \subseteq Nat /\ i \in T
    BY <1>3
  <2>2. PICK j \in T : \A o \in T : j <= o
    <3> HIDE DEF T
    <3> QED BY <2>1, LeastOf
  <2>3. Starts(l)[j] = IF j = 1 THEN 0 ELSE Starts(l)[j - 1] + l[j - 1].width
    BY <1>2, Zenon
  <2>4. j # 1 => j - 1 \in 1 .. len /\ j - 1 \notin T
    BY <2>2
  <2> QED BY <2>3, <2>4
<1> QED BY <1>2, <1>3

\* Where the fields of raydium's pool start.
PoolStarts ==
  [i \in 1 .. 56 |-> IF i <= 43 THEN 8 * (i - 1) ELSE IF i <= 55 THEN 336 + 32 * (i - 43) ELSE 728]

\* The widths of the pool's fields, and which of them are the mints.
LEMMA PoolFieldsAt ==
  /\ Len(PoolStruct) = 56 /\ DOMAIN PoolStruct = 1 .. 56
  /\ \A i \in 1 .. 56 :
       /\ PoolStruct[i].name = "baseMint" <=> i = 45
       /\ PoolStruct[i].name = "quoteMint" <=> i = 46
       /\ PoolStruct[i].width = IF i \in 43 .. 54 THEN 32 ELSE 8
<1> DEFINE numbers == [i \in 1 .. 42 |-> U64(CASE i = 5 -> "baseDecimal" [] i = 6 -> "quoteDecimal"
                           [] i = 29 -> "poolOpenTime" [] OTHER -> "number")]
<1> DEFINE keys ==
      <<Key32("baseVault"), Key32("quoteVault"), Key32("baseMint"), Key32("quoteMint"),
       Key32("lpMint"), Key32("openOrders"), Key32("marketId"), Key32("marketProgramId"),
       Key32("targetOrders"), Key32("withdrawQueue"), Key32("lpVault"), Key32("owner"),
       U64("lpReserve"), U64("padding")>>
<1> DEFINE All == {numbers[i] : i \in 1 .. 42} \union {keys[i] : i \in 1 .. 14}
<1>1. PoolStruct = numbers \o keys
  BY DEF PoolStruct
<1>2. numbers \in Seq(All) /\ Len(numbers) = 42
  <2>1. DOMAIN numbers = 1 .. 42 /\ numbers = [i \in 1 .. 42 |-> numbers[i]]
    OBVIOUS
  <2> HIDE DEF numbers, keys
  <2>2. numbers \in [1 .. 42 -> All]
    BY <2>1
  <2> HIDE DEF All
  <2> QED BY <2>1, <2>2
<1>3. keys \in Seq(All) /\ Len(keys) = 14
  <2>1. DOMAIN keys = 1 .. 14 /\ Len(keys) = 14 /\ keys = [i \in 1 .. 14 |-> keys[i]]
    BY DEF Key32, U64
  <2> HIDE DEF numbers, keys
  <2>2. keys \in [1 .. 14 -> All]
    BY <2>1
  <2> HIDE DEF All
  <2> QED BY <2>1, <2>2
<1>4. /\ \A i \in 1 .. 42 : numbers[i].width = 8 /\ numbers[i].name \notin {"baseMint", "quoteMint"}
      /\ \A i \in 1 .. 14 : keys[i].width = IF i <= 12 THEN 32 ELSE 8
      /\ \A i \in 1 .. 14 : keys[i].name = "baseMint" <=> i = 3
      /\ \A i \in 1 .. 14 : keys[i].name = "quoteMint" <=> i = 4
  BY DEF U64, Key32
<1> HIDE DEF numbers, keys, All
<1>5. /\ PoolStruct \in Seq(All) /\ Len(PoolStruct) = 42 + 14
      /\ \A i \in 1 .. 42 + 14 : PoolStruct[i] = IF i <= 42 THEN numbers[i] ELSE keys[i - 42]
  <2>1. /\ numbers \o keys \in Seq(All) /\ Len(numbers \o keys) = Len(numbers) + Len(keys)
        /\ \A i \in 1 .. Len(numbers) + Len(keys) :
             (numbers \o keys)[i] = IF i <= Len(numbers) THEN numbers[i] ELSE keys[i - Len(numbers)]
    BY <1>2, <1>3, ConcatProperties
  <2>2. Len(numbers) = 42 /\ Len(keys) = 14
    BY <1>2, <1>3
  <2> QED BY <1>1, <2>1, <2>2, Zenon
<1>6. Len(PoolStruct) = 56 /\ DOMAIN PoolStruct = 1 .. 56
  BY <1>5, LenProperties
<1>7. ASSUME NEW i \in 1 .. 56
      PROVE  /\ PoolStruct[i].name = "baseMint" <=> i = 45
             /\ PoolStruct[i].name = "quoteMint" <=> i = 46
             /\ PoolStruct[i].width = IF i \in 43 .. 54 THEN 32 ELSE 8
  <2>1. PoolStruct[i] = IF i <= 42 THEN numbers[i] ELSE keys[i - 42]
    <3>1. 42 + 14 = 56
      OBVIOUS
    <3> QED BY <1>5, <3>1, Zenon
  <2>2. CASE i <= 42
    <3>1. PoolStruct[i] = numbers[i] /\ i \in 1 .. 42
      BY <2>1, <2>2
    <3>2. numbers[i].width = 8 /\ numbers[i].name \notin {"baseMint", "quoteMint"}
      BY <1>4, <3>1, Zenon
    <3> QED BY <2>2, <3>1, <3>2
  <2>3. CASE i > 42
    <3>1. PoolStruct[i] = keys[i - 42] /\ i - 42 \in 1 .. 14
      BY <2>1, <2>3
    <3>2. /\ keys[i - 42].name = "baseMint" <=> i - 42 = 3
          /\ keys[i - 42].name = "quoteMint" <=> i - 42 = 4
          /\ keys[i - 42].width = IF i - 42 <= 12 THEN 32 ELSE 8
      BY <1>4, <3>1, Zenon
    <3>3. (i - 42 = 3 <=> i = 45) /\ (i - 42 = 4 <=> i = 46) /\ (i - 42 <= 12 <=> i \in 43 .. 54)
      BY <2>3
    <3> QED BY <3>1, <3>2, <3>3, Zenon
  <2> QED BY <2>2, <2>3
<1> QED BY <1>6, <1>7

\* The filters of the pool lookup are where the mints are.
LEMMA FiltersFindMints ==
  \A n \in DOMAIN PoolFilters :
    Spans(PoolStruct)[n] = [from |-> PoolFilters[n], width |-> 32]
<1>1. Starts(PoolStruct) = PoolStarts
  <2>1. PoolStarts \in [1 .. 56 -> Nat]
    BY DEF PoolStarts
  <2>2. ASSUME NEW i \in 1 .. 56
        PROVE  PoolStarts[i] = IF i = 1 THEN 0 ELSE PoolStarts[i - 1] + PoolStruct[i - 1].width
    <3>1. i # 1 => i - 1 \in 1 .. 56 /\ PoolStruct[i - 1].width = IF i - 1 \in 43 .. 54 THEN 32 ELSE 8
      BY PoolFieldsAt
    <3> QED BY <3>1 DEF PoolStarts
  <2>3. 56 \in Nat /\ Len(PoolStruct) = 56
    BY PoolFieldsAt
  <2> HIDE DEF PoolStarts
  <2> QED BY <2>1, <2>2, <2>3, StartsUnique, Zenon
<1>2. PoolStarts[45] = 400 /\ PoolStarts[46] = 432
  BY DEF PoolStarts
<1>3. 45 \in 1 .. 56 /\ 46 \in 1 .. 56 /\ 45 \in 43 .. 54 /\ 46 \in 43 .. 54
  OBVIOUS
<1> HIDE DEF PoolStarts
<1>4. Span(PoolStruct, "baseMint") = [from |-> 400, width |-> 32]
  <2>1. (CHOOSE j \in DOMAIN PoolStruct : PoolStruct[j].name = "baseMint") = 45
    BY <1>3, PoolFieldsAt
  <2>2. Span(PoolStruct, "baseMint") = [from |-> Starts(PoolStruct)[45], width |-> PoolStruct[45].width]
    BY <2>1, Zenon DEF Span
  <2>3. PoolStruct[45].width = 32
    BY <1>3, PoolFieldsAt
  <2> QED BY <1>1, <1>2, <2>2, <2>3
<1>5. Span(PoolStruct, "quoteMint") = [from |-> 432, width |-> 32]
  <2>1. (CHOOSE j \in DOMAIN PoolStruct : PoolStruct[j].name = "quoteMint") = 46
    BY <1>3, PoolFieldsAt
  <2>2. Span(PoolStruct, "quoteMint") = [from |-> Starts(PoolStruct)[46], width |-> PoolStruct[46].width]
    BY <2>1, Zenon DEF Span
  <2>3. PoolStruct[46].width = 32
    BY <1>3, PoolFieldsAt
  <2> QED BY <1>1, <1>2, <2>2, <2>3
<1>6. {"baseMint", "quoteMint"} \subseteq Fields(PoolStruct)
  BY <1>3, PoolFieldsAt DEF Fields
<1>7. DOMAIN PoolFilters = {"baseMint", "quoteMint"}
      /\ PoolFilters["baseMint"] = 400 /\ PoolFilters["quoteMint"] = 432
  BY DEF PoolFilters
<1> QED BY <1>4, <1>5, <1>6, <1>7 DEF Spans

\* Whatever is read of an account is what was written.
AccountInv ==
  /\ account.stage \in {"none", "state", "pool"}
  /\ account.stage = "state" =>
       account.struct = account.written /\ account.decoded = account.written
  /\ account.stage = "pool" => account.struct = Spans(PoolStruct)

\* Every step keeps what is known of an account.
LEMMA AccountInvNext == AccountInv /\ [InstructionsNext]_instructionVars => AccountInv'
<1> SUFFICES ASSUME AccountInv, [InstructionsNext]_instructionVars PROVE AccountInv'
    OBVIOUS
<1>1. CASE AccountRead
  BY <1>1, GlobalSpansAgree, CurveSpansAgree DEF AccountRead, AccountInv
<1>2. CASE UNCHANGED account
  BY <1>2 DEF AccountInv
<1> QED BY <1>1, <1>2 DEF InstructionsNext, instructionVars, BuilderUsed,
           ValidatedAndBuilt, Decoded, TradeAssembled, Launched, Signed

\* Builders refuse exactly the incomplete, instructions come back as they were
\* built, and both readers of an account find its fields where they are.
THEOREM InstructionsAlwaysReadBack == InstructionsSpec => []InstructionsReadBack
<1>1. InstructionsInit => InstInv /\ AccountInv
  BY DEF InstructionsInit, InstInv, AccountInv, Untouched
<1>2. InstInv /\ AccountInv => InstructionsReadBack
  <2> SUFFICES ASSUME InstInv, AccountInv PROVE InstructionsReadBack
      OBVIOUS
  <2>1. ASSUME inst.stage = "decoded"
        PROVE  /\ inst.back = inst.draft
               /\ \A n \in DOMAIN inst.back.params : inst.back.params[n] = <<n>>
               /\ \A i \in DOMAIN inst.back.metas :
                    inst.back.metas[i].key = <<Layouts[inst.back.kind].accounts[i].name>>
    <3>1. PICK k \in Kinds : inst.draft = Draft(k, NamesOf(Layouts[k].formal))
      BY <2>1 DEF InstInv
    <3>2. inst.back = DecodeInstruction(Accounts(inst.draft), Data(inst.draft))
      BY <2>1 DEF InstInv
    <3> QED BY <3>1, <3>2, DraftReadBack
  <2> QED BY <2>1, FiltersFindMints DEF InstInv, AccountInv, InstructionsReadBack
<1> QED BY <1>1, <1>2, InstInvNext, AccountInvNext, PTL DEF InstructionsSpec

(* Instructions: the accounts of a trade or launch. *)

\* Who must sign an instruction, and whether it is what its program wants and
\* signed by no one but those of who.
SignersOf(i) == {i.metas[s].key : s \in {t \in DOMAIN i.metas : i.metas[t].sign}}
InPlace(i, market, who) == Wanted(i, market) /\ SignersOf(i) \subseteq who

\* The instructions of other programs are none of pumpfun's six.
LEMMA OtherKinds == {"Swap", "CreateAta", "Transfer"} \intersect Kinds = {}
BY DEF Kinds, Layouts

\* A builder whose arguments are, in order, what pumpfun wants, has them there.
LEMMA PumpInPlace ==
  ASSUME NEW k \in Kinds, NEW args, NEW market, NEW who,
         \A i \in DOMAIN Layouts[k].formal : args[i] = PumpWants[Layouts[k].formal[i]],
         \A s \in DOMAIN Layouts[k].accounts :
           Layouts[k].accounts[s].sign => PumpWants[Layouts[k].accounts[s].name] \in who
  PROVE  InPlace(New(k, args), market, who)
<1> DEFINE formal == Layouts[k].formal
<1> DEFINE accounts == Layouts[k].accounts
<1> DEFINE params == Layouts[k].required.params
<1> DEFINE given == InOrder(formal, args)
<1> DEFINE d == New(k, args)
<1>1. LaidOut(k)
  BY KindsLaidOut
<1>2. DOMAIN given = NamesOf(formal)
  BY DEF InOrder, NamesOf
<1>3. ASSUME NEW n \in NamesOf(formal) PROVE given[n] = PumpWants[n]
  <2>1. PICK i \in DOMAIN formal : n = formal[i]
    BY DEF NamesOf
  <2>2. Distinct(formal)
    BY <1>1 DEF LaidOut
  <2>3. given[n] = args[i]
    <3> HIDE DEF formal
    <3> QED BY <2>1, <2>2, InOrderAt
  <2> QED BY <2>1, <2>3
<1> HIDE DEF given
<1>4. \A p \in params : p \in NamesOf(formal)
  BY <1>1 DEF LaidOut
<1>5. \A s \in DOMAIN accounts : accounts[s].name \in NamesOf(formal)
  BY <1>1 DEF LaidOut, SlotNames
<1>6. d.kind = k /\ d.params = [p \in params |-> IF p \in DOMAIN given THEN given[p] ELSE Unset]
  BY DEF New, Built, given
<1>7. /\ DOMAIN d.metas = DOMAIN accounts
      /\ \A s \in DOMAIN accounts :
           /\ d.metas[s].sign = accounts[s].sign
           /\ d.metas[s].key = IF accounts[s].name \in DOMAIN given THEN given[accounts[s].name] ELSE Unset
  BY DEF New, Built, given
<1> HIDE DEF d, formal, accounts, params
<1>8. \A n \in DOMAIN d.params : d.params[n] = PumpWants[n]
  BY <1>2, <1>3, <1>4, <1>6
<1>9. \A s \in DOMAIN d.metas : d.metas[s].key = PumpWants[accounts[s].name]
  BY <1>2, <1>3, <1>5, <1>7
<1>10. Wanted(d, market)
  BY <1>6, <1>8, <1>9, OtherKinds DEF Wanted, accounts
<1>11. SignersOf(d) \subseteq who
  BY <1>7, <1>9 DEF SignersOf, accounts
<1> QED BY <1>10, <1>11 DEF InPlace, d

\* The pumpfun trades hand over what the program wants.
LEMMA PumpTradesInPlace ==
  ASSUME NEW market
  PROVE  InPlace(PumpBuy, market, {Wallet}) /\ InPlace(PumpSell, market, {Wallet})
<1>1. "Buy" \in Kinds /\ "Sell" \in Kinds
  BY DEF Kinds, Layouts
<1>2. /\ Layouts["Buy"].formal = BuyFormal /\ Layouts["Buy"].accounts = BuyAccounts
      /\ Layouts["Sell"].formal = SellFormal /\ Layouts["Sell"].accounts = SellAccounts
  BY DEF Layouts, Layout
<1> DEFINE buys ==
      <<<<"tokenAmount">>, <<"solAmount">>, GlobalPubKey, GlobalFeeRecipient, Mint,
        FindBondingCurve(Mint), FindAta(FindBondingCurve(Mint), Mint), FindAta(Wallet, Mint),
        Wallet, SystemProgramID, TokenProgramID, SysVarRent, eventAuthority, PumpProgram>>
<1> DEFINE sells ==
      <<<<"tokenAmount">>, <<"solAmount">>, GlobalPubKey, GlobalFeeRecipient, Mint,
        FindBondingCurve(Mint), FindAta(FindBondingCurve(Mint), Mint), FindAta(Wallet, Mint),
        Wallet, SystemProgramID, AssociatedTokenProgramID, TokenProgramID, eventAuthority,
        PumpProgram>>
<1>3. \A i \in DOMAIN BuyFormal : buys[i] = PumpWants[BuyFormal[i]]
  BY DEF BuyFormal, PumpWants
<1>4. \A i \in DOMAIN SellFormal : sells[i] = PumpWants[SellFormal[i]]
  BY DEF SellFormal, PumpWants
<1>5. \A s \in DOMAIN BuyAccounts : BuyAccounts[s].sign => BuyAccounts[s].name = "user"
  BY DEF BuyAccounts, R, W, WS
<1>6. \A s \in DOMAIN SellAccounts : SellAccounts[s].sign => SellAccounts[s].name = "user"
  BY DEF SellAccounts, R, W, WS
<1>7. PumpWants["user"] = Wallet
  BY DEF PumpWants
<1>8. PumpBuy = New("Buy", buys) /\ PumpSell = New("Sell", sells)
  BY DEF PumpBuy, PumpSell
<1> HIDE DEF buys, sells
<1>9. InPlace(New("Buy", buys), market, {Wallet})
  BY <1>1, <1>2, <1>3, <1>5, <1>7, PumpInPlace
<1>10. InPlace(New("Sell", sells), market, {Wallet})
  BY <1>1, <1>2, <1>4, <1>6, <1>7, PumpInPlace
<1> QED BY <1>8, <1>9, <1>10

\* So does the launch, whose mint signs too.
LEMMA LaunchInPlace ==
  ASSUME NEW market
  PROVE  InPlace(LaunchCreate, market, {Wallet, Mint}) /\ InPlace(LaunchBuy, market, {Wallet, Mint})
<1>1. "Create" \in Kinds
  BY DEF Kinds, Layouts
<1>2. Layouts["Create"].formal = CreateFormal /\ Layouts["Create"].accounts = CreateAccounts
  BY DEF Layouts, Layout
<1> DEFINE creates ==
      <<<<"nameText">>, <<"symbolText">>, <<"uriText">>, Mint, <<"MINT_AUTHORITY">>,
        FindBondingCurve(Mint), FindAta(FindBondingCurve(Mint), Mint), GlobalPubKey,
        <<"TokenMetadataProgramID">>, FindMetadata(Mint), Wallet, SystemProgramID,
        TokenProgramID, AssociatedTokenProgramID, SysVarRent, eventAuthority, PumpProgram>>
<1>3. \A i \in DOMAIN CreateFormal : creates[i] = PumpWants[CreateFormal[i]]
  BY DEF CreateFormal, PumpWants
<1>4. \A s \in DOMAIN CreateAccounts :
        CreateAccounts[s].sign => CreateAccounts[s].name \in {"user", "mint"}
  BY DEF CreateAccounts, R, W, WS
<1>5. PumpWants["user"] = Wallet /\ PumpWants["mint"] = Mint
  BY DEF PumpWants
<1>6. LaunchCreate = New("Create", creates)
  BY DEF LaunchCreate
<1> HIDE DEF creates
<1>7. InPlace(New("Create", creates), market, {Wallet, Mint})
  BY <1>1, <1>2, <1>3, <1>4, <1>5, PumpInPlace
<1>8. LaunchBuy = PumpBuy
  BY DEF LaunchBuy, PumpBuy
<1>9. InPlace(PumpBuy, market, {Wallet, Mint})
  BY PumpTradesInPlace DEF InPlace
<1> QED BY <1>6, <1>7, <1>8, <1>9

\* A swap has its accounts where raydium wants them, whichever mint of the
\* market is the token, provided that the market is OpenBook's.
LEMMA SwapsInPlace ==
  ASSUME NEW market \in Markets
  PROVE  /\ InPlace(RaydiumBuy(market), market, {Wallet})
         /\ InPlace(RaydiumSell(market), market, {Wallet})
<1>1. TokenMint(market) = Mint
  BY DEF Markets, TokenMint, Mint, SolMint
<1>2. <<"solAmount">> # <<"tokenAmount">>
  OBVIOUS
<1> DEFINE swaps(i) ==
      /\ i.kind = "Swap"
      /\ \A s \in 1 .. 18 : s # 8 => i.metas[s].key = SwapWants(market, i.amounts)[s]
      /\ i.metas[8].key = OpenBookProgramID /\ SwapWants(market, i.amounts)[8] = market.program
      /\ DOMAIN i.metas = 1 .. 18
      /\ \A s \in 1 .. 18 : i.metas[s].sign => s = 18
      /\ i.metas[18].key = Wallet
<1>3. swaps(RaydiumBuy(market))
  BY <1>1, <1>2 DEF RaydiumBuy, CreateSwapInstruction, Meta, SwapWants
<1>4. swaps(RaydiumSell(market))
  BY <1>1, <1>2 DEF RaydiumSell, CreateSwapInstruction, Meta, SwapWants
<1>5. ASSUME NEW i, swaps(i) PROVE InPlace(i, market, {Wallet})
  <2>1. market.program = OpenBookProgramID =>
          \A s \in 1 .. 18 : i.metas[s].key = SwapWants(market, i.amounts)[s]
    BY <1>5
  <2>2. Wanted(i, market)
    BY <1>5, <2>1, OtherKinds DEF Wanted
  <2>3. SignersOf(i) \subseteq {Wallet}
    BY <1>5 DEF SignersOf
  <2> QED BY <2>2, <2>3 DEF InPlace
<1> HIDE DEF swaps
<1> QED BY <1>3, <1>4, <1>5

\* The token account that is created is the wallet's.
LEMMA AtaInPlace ==
  ASSUME NEW market
  PROVE  /\ InPlace(CreateIdempotentInstruction(Mint, Wallet), market, {Wallet})
         /\ InPlace(NewCreateAta(Mint), market, {Wallet, Mint})
<1> DEFINE i == CreateIdempotentInstruction(Mint, Wallet)
<1>1. NewCreateAta(Mint) = i
  <2>1. ASSUME NEW m
        PROVE  [[kind |-> "CreateAta", metas |-> m] EXCEPT !.kind = "CreateAta"] =
                 [kind |-> "CreateAta", metas |-> m]
    OBVIOUS
  <2> QED BY <2>1 DEF NewCreateAta, CreateIdempotentInstruction
<1>2. /\ i.kind = "CreateAta" /\ DOMAIN i.metas = 1 .. 6
      /\ [s \in 1 .. 4 |-> i.metas[s].key] = <<Wallet, FindAta(Wallet, Mint), Wallet, Mint>>
      /\ \A s \in 1 .. 6 : i.metas[s].sign => i.metas[s].key = Wallet
  BY DEF CreateIdempotentInstruction, Meta
<1> HIDE DEF i
<1>3. Wanted(i, market)
  BY <1>2, OtherKinds DEF Wanted
<1>4. SignersOf(i) \subseteq {Wallet}
  BY <1>2 DEF SignersOf
<1> QED BY <1>1, <1>3, <1>4 DEF InPlace, i

\* The fee and the tip go where they belong.
LEMMA TransfersInPlace ==
  ASSUME NEW market
  PROVE  /\ InPlace(NewTransfer("fee", <<"botFeeRecipient">>), market, {Wallet, Mint})
         /\ InPlace(NewTransfer("tip", <<"JitoTipPaymentAccount">>), market, {Wallet, Mint})
<1>1. ASSUME NEW amount \in {"fee", "tip"}, NEW to,
             to = IF amount = "fee" THEN <<"botFeeRecipient">> ELSE <<"JitoTipPaymentAccount">>
      PROVE  InPlace(NewTransfer(amount, to), market, {Wallet, Mint})
  <2> DEFINE i == NewTransfer(amount, to)
  <2>1. /\ i.kind = "Transfer" /\ i.amount = amount /\ DOMAIN i.metas = 1 .. 2
        /\ i.metas[1].key = Wallet /\ i.metas[2].key = to /\ ~i.metas[2].sign
    BY DEF NewTransfer, Meta
  <2> HIDE DEF i
  <2>2. Wanted(i, market)
    BY <1>1, <2>1, OtherKinds DEF Wanted
  <2>3. SignersOf(i) \subseteq {Wallet}
    BY <2>1 DEF SignersOf
  <2> QED BY <2>2, <2>3 DEF InPlace, i
<1> QED BY <1>1

\* What is known of a trade's or launch's instructions from assembly on.
TradeInv ==
  /\ trade.stage \in {"assembled", "signed"} =>
       /\ trade.site \in {"trade", "launch"}
       /\ \A i \in DOMAIN trade.insts :
            InPlace(trade.insts[i], trade.market,
                    IF trade.site = "launch" THEN {Wallet, Mint} ELSE {Wallet})
  /\ trade.stage = "signed" => \A k \in DOMAIN trade.keys : trade.keys[k] = <<"keyOf", k>>

\* A trade is assembled of such instructions.
LEMMA AssembledInPlace == TradeAssembled => TradeInv'
<1> SUFFICES ASSUME TradeAssembled PROVE TradeInv'
    OBVIOUS
<1>1. PICK market \in Markets :
        \E i \in {<<PumpBuy>>, <<PumpSell>>, <<RaydiumSell(market)>>, <<RaydiumBuy(market)>>,
                  <<CreateIdempotentInstruction(TokenMint(market), Wallet), RaydiumBuy(market)>>} :
          trade' = [stage |-> "assembled", site |-> "trade", market |-> market, insts |-> i]
  BY DEF TradeAssembled
<1>2. TokenMint(market) = Mint
  BY DEF Markets, TokenMint, Mint, SolMint
<1> DEFINE Mine == {i \in {PumpBuy, PumpSell, RaydiumSell(market), RaydiumBuy(market),
                           CreateIdempotentInstruction(Mint, Wallet)} : TRUE}
<1>3. \A i \in Mine : InPlace(i, market, {Wallet})
  BY PumpTradesInPlace, SwapsInPlace, AtaInPlace
<1>4. PICK insts : /\ trade' = [stage |-> "assembled", site |-> "trade", market |-> market, insts |-> insts]
                   /\ \A i \in DOMAIN insts : insts[i] \in Mine
  BY <1>1, <1>2
<1> HIDE DEF Mine
<1> QED BY <1>3, <1>4 DEF TradeInv

\* So is a launch, whatever it leaves out.
LEMMA LaunchedInPlace == Launched => TradeInv'
<1> SUFFICES ASSUME Launched PROVE TradeInv'
    OBVIOUS
<1>1. CASE \E dex \in 0 .. 1 : trade' = [stage |-> "refused", dex |-> dex]
  BY <1>1 DEF TradeInv
<1>2. CASE \E buys, fee, tip \in BOOLEAN :
             trade' = [stage |-> "assembled", site |-> "launch", market |-> NoMarket,
                       insts |-> LaunchInstructions(buys, fee, tip)]
  <2>1. PICK buys \in BOOLEAN, fee \in BOOLEAN, tip \in BOOLEAN :
          trade' = [stage |-> "assembled", site |-> "launch", market |-> NoMarket,
                    insts |-> LaunchInstructions(buys, fee, tip)]
    BY <1>2
  <2> DEFINE Mine == {LaunchCreate, NewCreateAta(Mint), LaunchBuy,
                      NewTransfer("fee", <<"botFeeRecipient">>),
                      NewTransfer("tip", <<"JitoTipPaymentAccount">>)}
  <2> DEFINE bought == IF buys THEN <<NewCreateAta(Mint), LaunchBuy>> ELSE <<>>
  <2> DEFINE paid == IF fee THEN <<NewTransfer("fee", <<"botFeeRecipient">>)>> ELSE <<>>
  <2> DEFINE tipped == IF tip THEN <<NewTransfer("tip", <<"JitoTipPaymentAccount">>)>> ELSE <<>>
  <2>2. \A i \in Mine : InPlace(i, NoMarket, {Wallet, Mint})
    BY LaunchInPlace, AtaInPlace, TransfersInPlace
  <2>3. /\ <<LaunchCreate>> \in Seq(Mine) /\ bought \in Seq(Mine)
        /\ paid \in Seq(Mine) /\ tipped \in Seq(Mine)
    <3>1. \A a, b \in Mine : <<a>> \in Seq(Mine) /\ <<a, b>> \in Seq(Mine) /\ <<>> \in Seq(Mine)
      <4> HIDE DEF Mine
      <4> QED OBVIOUS
    <3>2. /\ LaunchCreate \in Mine /\ NewCreateAta(Mint) \in Mine /\ LaunchBuy \in Mine
          /\ NewTransfer("fee", <<"botFeeRecipient">>) \in Mine
          /\ NewTransfer("tip", <<"JitoTipPaymentAccount">>) \in Mine
      OBVIOUS
    <3> HIDE DEF Mine
    <3> QED BY <3>1, <3>2
  <2>4. LaunchInstructions(buys, fee, tip) = <<LaunchCreate>> \o bought \o paid \o tipped
    BY DEF LaunchInstructions
  <2> HIDE DEF Mine, bought, paid, tipped
  <2>5. LaunchInstructions(buys, fee, tip) \in Seq(Mine)
    BY <2>3, <2>4, ConcatProperties
  <2>6. \A i \in DOMAIN LaunchInstructions(buys, fee, tip) :
          LaunchInstructions(buys, fee, tip)[i] \in Mine
    BY <2>5, LenProperties
  <2> QED BY <2>1, <2>2, <2>6 DEF TradeInv
<1> QED BY <1>1, <1>2 DEF Launched

\* Whoever must sign is signed for with its own key.
LEMMA SignedInPlace == TradeInv /\ Signed => TradeInv'
<1> SUFFICES ASSUME TradeInv, Signed PROVE TradeInv'
    OBVIOUS
<1>1. /\ trade'.stage = "signed" /\ trade'.site = trade.site
      /\ trade'.market = trade.market /\ trade'.insts = trade.insts
      /\ trade'.keys = [k \in Signers(trade.insts) |->
                          IF trade.site = "launch" THEN LaunchSigner(k) ELSE TradeSigner(k)]
  BY DEF Signed
<1>2. trade.stage = "assembled"
  BY DEF Signed
<1>3. ASSUME NEW k \in Signers(trade.insts)
      PROVE  k \in IF trade.site = "launch" THEN {Wallet, Mint} ELSE {Wallet}
  <2>1. PICK i \in DOMAIN trade.insts : k \in SignersOf(trade.insts[i])
    BY DEF Signers, SignersOf
  <2> QED BY <1>2, <2>1 DEF TradeInv, InPlace
<1>4. \A k \in DOMAIN trade'.keys : trade'.keys[k] = <<"keyOf", k>>
  BY <1>1, <1>3 DEF LaunchSigner, TradeSigner
<1> QED BY <1>1, <1>2, <1>4 DEF TradeInv

\* Every trade and launch hands its programs the accounts they want, raydium on
\* a market of OpenBook's, signed by the keys of the accounts that must sign.
THEOREM AccountsAlwaysInPlace == InstructionsSpec => []AccountsInPlace
<1>1. InstructionsInit => TradeInv
  BY DEF InstructionsInit, TradeInv, Untouched
<1>2. TradeInv /\ [InstructionsNext]_instructionVars => TradeInv'
  <2>1. UNCHANGED trade /\ TradeInv => TradeInv'
    BY DEF TradeInv
  <2> QED BY <2>1, AssembledInPlace, LaunchedInPlace, SignedInPlace
          DEF InstructionsNext, instructionVars, BuilderUsed, ValidatedAndBuilt,
              Decoded, AccountRead
<1>3. TradeInv => AccountsInPlace
  BY DEF TradeInv, AccountsInPlace, InPlace
<1> QED BY <1>1, <1>2, <1>3, PTL DEF InstructionsSpec
=============================================================================
