--------------------------- MODULE IssuanceProofs ---------------------------
(***************************************************************************)
(* Theorems about Issuance, for every value of its constants.              *)
(***************************************************************************)
EXTENDS Issuance, RegistryProofs

-----------------------------------------------------------------------------
(* Types.                                                                  *)

\* The type of a COMMITMENTS map.
CommitmentsOK(commitments) ==
    /\ DOMAIN commitments \subseteq Sender
    /\ commitments \in [DOMAIN commitments -> CommitmentRecord]

\* A commitment is stored at the current time.
LEMMA CommitType ==
    ASSUME NEW commitments, CommitmentsOK(commitments), now \in 0..MaxTime,
           NEW s \in Sender, NEW commitment \in Commitment
    PROVE  CommitmentsOK(Commit(commitments, s, commitment))
<1> DEFINE record == [commitment |-> commitment, createdAt |-> now]
<1>1. record \in CommitmentRecord
  BY DEF CommitmentRecord
<1> HIDE DEF record
<1>2. CommitmentsOK(Save(commitments, s, record))
  BY <1>1, SaveType DEF CommitmentsOK
<1> QED BY <1>2 DEF Commit, record

\* Using one up and sweeping some keep the type of the map.
LEMMA FewerType ==
    ASSUME NEW commitments, CommitmentsOK(commitments), NEW s, NEW terms, NEW limit
    PROVE  /\ CommitmentsOK(Delete(commitments, s))
           /\ CommitmentsOK(CleanExpired(commitments, terms, limit))
<1>1. CommitmentsOK(Delete(commitments, s))
  BY DeleteType DEF CommitmentsOK
<1>2. ASSUME NEW kept \in SUBSET DOMAIN commitments
      PROVE  CommitmentsOK(Restrict(commitments, kept))
  BY DEF CommitmentsOK, Restrict
<1> QED BY <1>1, <1>2 DEF CleanExpired

\* The contract passes on exactly what it is sent, so the treasury is paid by
\* the sender and the contract's own balance is the same as before.
LEMMA PaidThrough ==
    ASSUME balance \in [Addr -> Coins], NEW terms \in Terms, NEW s \in Addr,
           NEW funds \in Coins, NEW price \in Nat,
           PaysTreasury(terms, s, funds, price)
    PROVE  /\ balance' = Moved(balance, s, terms.treasury, OneCoin(terms.denom, price))
           /\ balance' \in [Addr -> Coins]
<1> DEFINE coins == OneCoin(terms.denom, price)
           paid  == Moved(balance, s, terms.contract, funds)
<1>1. terms.contract \in Addr /\ terms.treasury \in Addr /\ terms.denom \in Denom
  BY DEF Terms
<1>2. /\ ExpectExactPayment(funds, terms.denom, price)
      /\ Covers(balance, s, funds)
      /\ Covers(paid, terms.contract, coins)
      /\ balance' = Moved(paid, terms.contract, terms.treasury, coins)
  BY DEF PaysTreasury, CanSend
<1>3. funds = coins /\ coins \in Coins
  BY <1>1, <1>2, ExactPaymentIsOneCoin
<1>4. paid \in [Addr -> Coins]
  BY <1>1, <1>2, MovedType
<1> HIDE DEF coins
<1>5. balance' = Moved(balance, s, terms.treasury, coins)
  BY <1>1, <1>2, <1>3, PassThrough
<1>6. balance' \in [Addr -> Coins]
  <2> HIDE DEF paid
  <2> QED BY <1>1, <1>2, <1>3, <1>4, MovedType
<1> QED BY <1>5, <1>6 DEF coins

-----------------------------------------------------------------------------
(* What the messages that sell do.                                         *)

\* `s` buys `n` for `owner` in the contract of `terms`, using up his commitment.
Sold(commitments, terms, s, n, owner, price) ==
    /\ s \in DOMAIN commitments
    /\ Revealable(commitments[s], terms)
    /\ commitments[s].commitment[1] = owner /\ commitments[s].commitment[2] = n
    /\ DOMAIN names' \ DOMAIN names = {n} /\ names'[n].owner = owner
    /\ balance' = Moved(balance, s, terms.treasury, OneCoin(terms.denom, price))
    /\ sender' = terms.contract

\* A sale, whichever of the two contracts makes it.
LEMMA SaleEffect ==
    ASSUME TypeOK, NEW commitments, NEW terms \in Terms, NEW s \in Sender,
           NEW n \in Name, NEW owner \in Addr, NEW secret, NEW funds \in Coins, NEW price \in Nat,
           HoldsCommitment(commitments, terms, s, owner, n, secret),
           PaysTreasury(terms, s, funds, price), Mint(terms.contract, n, owner)
    PROVE  TypeOK' /\ Sold(commitments, terms, s, n, owner, price)
<1>1. s \in Addr /\ terms.contract \in Addr /\ balance \in [Addr -> Coins]
  BY RegistryAssumption DEF Terms, TypeOK
<1>2. /\ balance' = Moved(balance, s, terms.treasury, OneCoin(terms.denom, price))
      /\ balance' \in [Addr -> Coins]
  BY <1>1, PaidThrough
<1>3. n \in Seq(Spelling)
  BY NamesAssumption DEF Name
<1>4. TypeOK'
  <2>1. AdminTypeOK' /\ NamesTypeOK' /\ SubTypeOK'
    BY <1>1, <1>3, MintType
  <2> QED BY <1>2, <2>1 DEF TypeOK, AdminTypeOK, NamesTypeOK, SubTypeOK
<1>5. NormalizeName(n) = n
  BY NormalForm DEF Mint
<1>6. DOMAIN names' \ DOMAIN names = {n} /\ names'[n].owner = owner /\ sender' = terms.contract
  BY <1>5, MintAddsOne DEF Mint
<1> QED BY <1>2, <1>4, <1>6 DEF Sold, HoldsCommitment, DeriveCommitment

\* Register, the whole message.
LEMMA RegisterSells ==
    ASSUME TypeOK, RegistrarTypeOK, NEW s \in Sender, NEW raw \in NameInput,
           NEW owner \in AddrInput, NEW secret, NEW funds \in FundsInput,
           Register(s, raw, owner, secret, funds)
    PROVE  /\ TypeOK'
           /\ \E n : Sold(registrarCommitments, RegistrarTerms, s, n, owner, registrarConfig.price)
           /\ registrarCommitments' = Delete(registrarCommitments, s)
           /\ UNCHANGED <<now, registrarConfig>>
<1> DEFINE n == NormalizeName(raw)
           price == registrarConfig.price
<1>1. /\ n # Invalid
      /\ HoldsCommitment(registrarCommitments, RegistrarTerms, s, owner, n, secret)
      /\ PaysTreasury(RegistrarTerms, s, funds, price)
      /\ registrarCommitments' = Delete(registrarCommitments, s)
      /\ Mint(RegistrarTerms.contract, n, owner)
      /\ UNCHANGED <<now, registrarConfig>>
  BY DEF Register
<1>2. n \in Name /\ owner \in Addr /\ funds \in Coins
  BY <1>1, NormalizeNameType, RegistryAssumption
<1>3. price \in Nat /\ RegistrarTerms \in Terms
  BY RegistrarAssumption DEF RegistrarTypeOK
<1> HIDE DEF n, price
<1>4. TypeOK' /\ Sold(registrarCommitments, RegistrarTerms, s, n, owner, price)
  BY <1>1, <1>2, <1>3, SaleEffect
<1> QED BY <1>1, <1>4 DEF price

\* RegisterTld: the name is the normalised label alone.
LEMMA RegisterTldSells ==
    ASSUME TypeOK, NEW s \in Sender, NEW raw \in LabelInput,
           NEW owner \in AddrInput, NEW secret, NEW funds \in FundsInput,
           RegisterTld(s, raw, owner, secret, funds)
    PROVE  /\ TypeOK'
           /\ \E n : /\ Sold(tldCommitments, TldTerms, s, n, owner, TldInstantiate.tldPrice)
                     /\ n[1] \notin reserved
           /\ tldCommitments' = Delete(tldCommitments, s)
           /\ UNCHANGED <<now, tldConfig, reserved>>
<1> DEFINE l == NormalizeLabel(raw)
           n == <<l>>
           price == TldInstantiate.tldPrice
<1>1. /\ l # Invalid
      /\ l \notin reserved
      /\ HoldsCommitment(tldCommitments, TldTerms, s, owner, n, secret)
      /\ PaysTreasury(TldTerms, s, funds, price)
      /\ tldCommitments' = Delete(tldCommitments, s)
      /\ Mint(TldTerms.contract, n, owner)
      /\ UNCHANGED <<now, tldConfig, reserved>>
  BY DEF RegisterTld
<1>2. l \in Label /\ owner \in Addr /\ funds \in Coins
  BY <1>1, LabelType, RegistryAssumption
<1>3. price \in Nat /\ TldTerms \in Terms
  BY TldManagerAssumption
<1> HIDE DEF l, price
<1>4. n \in Name /\ n[1] = l
  BY <1>2 DEF Name
<1> HIDE DEF n
<1>5. TypeOK' /\ Sold(tldCommitments, TldTerms, s, n, owner, price)
  BY <1>1, <1>2, <1>3, <1>4, SaleEffect
<1> QED BY <1>1, <1>4, <1>5 DEF price

-----------------------------------------------------------------------------
(* Type correctness.                                                       *)

\* The registrar's state is well typed after any of its messages.
LEMMA RegistrarStepType ==
    ASSUME IssuanceTypeOK, RegistrarNext
    PROVE  TypeOK' /\ RegistrarTypeOK'
<1> USE DEF IssuanceTypeOK
<1>0. CommitmentsOK(registrarCommitments)
  BY DEF RegistrarTypeOK, CommitmentsOK
<1>a. ASSUME UNCHANGED registrarConfig, CommitmentsOK(registrarCommitments')
      PROVE  RegistrarTypeOK'
  BY <1>a DEF RegistrarTypeOK, CommitmentsOK
<1>b. ASSUME UNCHANGED vars
      PROVE  TypeOK'
  BY <1>b DEF TypeOK, vars, registryVars, adminVars, configVars, nameVars, subVars
<1>1. ASSUME NEW s \in Sender, RegistrarAdminister(s) PROVE TypeOK' /\ RegistrarTypeOK'
  <2>0. s \in Addr /\ RegistrarAdminInput \subseteq Addr /\ RegistrarPriceInput \subseteq Nat
    BY RegistryAssumption, RegistrarAssumption
  <2>1. UNCHANGED <<vars, registrarCommitments>>
    BY <1>1 DEF RegistrarAdminister, RegistrarTransferAdmin, RegistrarAcceptAdmin,
                UpdatePricing, deskVars
  <2>2. registrarConfig' \in [admin : Addr, pendingAdmin : Addr \cup {None}, price : Nat]
    <3>1. registrarConfig \in [admin : Addr, pendingAdmin : Addr \cup {None}, price : Nat]
      BY DEF RegistrarTypeOK
    <3>2. CASE \E a \in RegistrarAdminInput : RegistrarTransferAdmin(s, a)
      BY <2>0, <3>1, <3>2 DEF RegistrarTransferAdmin, Nominate
    <3>3. CASE RegistrarAcceptAdmin(s)
      BY <2>0, <3>1, <3>3 DEF RegistrarAcceptAdmin, AcceptNomination
    <3>4. CASE \E price \in RegistrarPriceInput : UpdatePricing(s, price)
      BY <2>0, <3>1, <3>4 DEF UpdatePricing
    <3> QED BY <1>1, <3>2, <3>3, <3>4 DEF RegistrarAdminister
  <2> QED BY <1>b, <2>1, <2>2 DEF RegistrarTypeOK
<1>2. ASSUME NEW c \in RegistrarCommitInput, RegistrarCommit(c[1], c[2])
      PROVE  TypeOK' /\ RegistrarTypeOK'
  <2>1. c[1] \in Sender /\ c[2] \in Commitment
    BY RegistrarAssumption
  <2> QED BY <1>0, <1>2, <1>a, <1>b, <2>1, CommitType DEF RegistrarCommit, deskVars
<1>3. ASSUME NEW s \in Sender, NEW raw \in NameInput, NEW a \in AddrInput, NEW x \in Secret,
             NEW f \in FundsInput, Register(s, raw, a, x, f)
      PROVE  TypeOK' /\ RegistrarTypeOK'
  BY <1>0, <1>3, <1>a, RegisterSells, FewerType
<1>4. ASSUME NEW limit, RegistrarCleanExpired(limit) PROVE TypeOK' /\ RegistrarTypeOK'
  BY <1>0, <1>4, <1>a, <1>b, FewerType DEF RegistrarCleanExpired, deskVars
<1> QED BY <1>1, <1>2, <1>3, <1>4 DEF RegistrarNext

\* And so is the TLD manager's.
LEMMA TldStepType ==
    ASSUME IssuanceTypeOK, TldNext
    PROVE  TypeOK' /\ TldTypeOK'
<1> USE DEF IssuanceTypeOK
<1>0. CommitmentsOK(tldCommitments)
  BY DEF TldTypeOK, CommitmentsOK
<1>a. ASSUME UNCHANGED <<tldConfig, reserved>>, CommitmentsOK(tldCommitments')
      PROVE  TldTypeOK'
  BY <1>a DEF TldTypeOK, CommitmentsOK
<1>b. ASSUME UNCHANGED vars
      PROVE  TypeOK'
  BY <1>b DEF TypeOK, vars, registryVars, adminVars, configVars, nameVars, subVars
<1>1. ASSUME NEW s \in Sender, TldAdminister(s) PROVE TypeOK' /\ TldTypeOK'
  <2>0. s \in Addr /\ TldAdminInput \subseteq Addr /\ LabelInput \subseteq Spelling
    BY RegistryAssumption, TldManagerAssumption
  <2>1. UNCHANGED <<vars, tldCommitments>>
    BY <1>1 DEF TldAdminister, TldTransferAdmin, TldAcceptAdmin, SetReserved, deskVars
  <2>2. tldConfig' \in Office /\ reserved' \subseteq Label
    <3>1. tldConfig \in Office /\ reserved \subseteq Label
      BY DEF TldTypeOK
    <3>2. CASE \E a \in TldAdminInput : TldTransferAdmin(s, a)
      BY <2>0, <3>1, <3>2 DEF TldTransferAdmin, Nominate, Office
    <3>3. CASE TldAcceptAdmin(s)
      BY <2>0, <3>1, <3>3 DEF TldAcceptAdmin, AcceptNomination, Office
    <3>4. ASSUME NEW l \in LabelInput, NEW keep \in BOOLEAN, SetReserved(s, l, keep)
          PROVE  tldConfig' \in Office /\ reserved' \subseteq Label
      BY <2>0, <3>1, <3>4, LabelType DEF SetReserved
    <3> QED BY <1>1, <3>2, <3>3, <3>4 DEF TldAdminister
  <2> QED BY <1>b, <2>1, <2>2 DEF TldTypeOK
<1>2. ASSUME NEW c \in TldCommitInput, TldCommit(c[1], c[2])
      PROVE  TypeOK' /\ TldTypeOK'
  <2>1. c[1] \in Sender /\ c[2] \in Commitment
    BY TldManagerAssumption
  <2> QED BY <1>0, <1>2, <1>a, <1>b, <2>1, CommitType DEF TldCommit, deskVars
<1>3. ASSUME NEW s \in Sender, NEW raw \in LabelInput, NEW a \in AddrInput, NEW x \in Secret,
             NEW f \in FundsInput, RegisterTld(s, raw, a, x, f)
      PROVE  TypeOK' /\ TldTypeOK'
  BY <1>0, <1>3, <1>a, RegisterTldSells, FewerType
<1>4. ASSUME NEW limit, TldCleanExpired(limit) PROVE TypeOK' /\ TldTypeOK'
  BY <1>0, <1>4, <1>a, <1>b, FewerType DEF TldCleanExpired, deskVars
<1> QED BY <1>1, <1>2, <1>3, <1>4 DEF TldNext

\* The clock stands still while a contract handles a message.
LEMMA ClockStands ==
    ASSUME RegistrarNext \/ TldNext
    PROVE  now' = now
<1>1. CASE RegistrarNext
  BY <1>1 DEF RegistrarNext, RegistrarAdminister, RegistrarTransferAdmin, RegistrarAcceptAdmin,
              UpdatePricing, RegistrarCommit, Register, RegistrarCleanExpired, deskVars
<1>2. CASE TldNext
  BY <1>2 DEF TldNext, TldAdminister, TldTransferAdmin, TldAcceptAdmin, SetReserved,
              TldCommit, RegisterTld, TldCleanExpired, deskVars
<1> QED BY <1>1, <1>2

\* Registry, registrar and TLD manager always have the types they declare,
\* however their messages and the clock interleave.
THEOREM IssuanceTypeCorrect == IssuanceSpec => []IssuanceTypeOK
<1>1. IssuanceInit => IssuanceTypeOK
  <2> SUFFICES ASSUME IssuanceInit PROVE IssuanceTypeOK
    OBVIOUS
  <2>1. TypeOK /\ now \in 0..MaxTime
    BY TypeInitially, CommitRevealAssumption DEF IssuanceInit
  <2>2. RegistrarTypeOK
    BY RegistrarAssumption DEF IssuanceInit, RegistrarInit, RegistrarTypeOK
  <2>3. TldTypeOK
    BY TldManagerAssumption DEF IssuanceInit, TldInit, TldTypeOK, InOffice, Office
  <2> QED BY <2>1, <2>2, <2>3 DEF IssuanceTypeOK
<1>2. IssuanceTypeOK /\ [IssuanceNext]_issuanceVars => IssuanceTypeOK'
  <2> SUFFICES ASSUME IssuanceTypeOK, [IssuanceNext]_issuanceVars PROVE IssuanceTypeOK'
    OBVIOUS
  <2>a. ASSUME UNCHANGED registrarVars PROVE RegistrarTypeOK'
    BY <2>a DEF registrarVars, RegistrarTypeOK, IssuanceTypeOK
  <2>b. ASSUME UNCHANGED tldVars PROVE TldTypeOK'
    BY <2>b DEF tldVars, TldTypeOK, IssuanceTypeOK
  <2>1. CASE [Next]_vars /\ UNCHANGED <<now, registrarVars, tldVars>>
    BY <2>1, <2>a, <2>b, TypeStep DEF IssuanceTypeOK
  <2>2. CASE RegistrarNext
    BY <2>2, <2>b, RegistrarStepType, ClockStands DEF RegistrarNext, IssuanceTypeOK
  <2>3. CASE TldNext
    BY <2>3, <2>a, TldStepType, ClockStands DEF TldNext, IssuanceTypeOK
  <2>4. CASE Tick /\ UNCHANGED <<vars, registrarVars, tldVars>>
    <3>1. now' \in 0..MaxTime
      BY <2>4, CommitRevealAssumption DEF Tick, IssuanceTypeOK
    <3> QED BY <2>4, <2>a, <2>b, <3>1, TypeStep DEF IssuanceTypeOK
  <2> QED BY <2>1, <2>2, <2>3, <2>4 DEF IssuanceNext, issuanceVars, deskVars
<1> QED BY <1>1, <1>2, PTL DEF IssuanceSpec

-----------------------------------------------------------------------------
(* What a step of the system is, seen from one contract.                   *)

\* A message of the contract of `terms`: it takes a commitment, sweeps some, or
\* sells a name that is not among the `barred`, and `later` are its commitments then.
DeskStep(terms, commitments, later, price, barred) ==
    \/ \E s \in Sender, c \in Commitment :
          /\ later = Commit(commitments, s, c)
          /\ asked' = asked \cup {Asked(terms.contract, s, c)}
          /\ UNCHANGED deskVars
    \/ \E limit \in Nat :
          /\ later = CleanExpired(commitments, terms, limit)
          /\ UNCHANGED <<deskVars, asked>>
    \/ \E s \in Sender : \E n, owner :
          /\ Sold(commitments, terms, s, n, owner, price) /\ n[1] \notin barred
          /\ later = Delete(commitments, s)
          /\ Redeem(terms.contract, s)
          /\ now' = now

\* Administration of a contract and the clock: nothing is committed or sold.
Idle ==
    /\ UNCHANGED <<vars, registrarCommitments, tldCommitments, asked>>
    /\ now' \in {now, now + 1}

\* A message to the registry itself, which does not come from a contract that
\* sells.
RegistryStep ==
    /\ UNCHANGED <<now, registrarVars, tldVars, asked>>
    /\ sender' \in Sender

\* Every step of the system is a step of one of the contracts.
LEMMA IssuanceSteps ==
    ASSUME IssuanceTypeOK, [IssuanceNext]_issuanceVars
    PROVE  \/ Idle
           \/ RegistryStep
           \/ /\ DeskStep(RegistrarTerms, registrarCommitments, registrarCommitments',
                          registrarConfig.price, {})
              /\ UNCHANGED tldVars
           \/ /\ DeskStep(TldTerms, tldCommitments, tldCommitments',
                          TldInstantiate.tldPrice, reserved)
              /\ UNCHANGED registrarVars
<1> USE DEF IssuanceTypeOK
<1>1. CASE Next /\ UNCHANGED <<now, registrarVars, tldVars, asked>>
  <2>1. PICK s \in Sender : Unpriced(s) \/ Priced(s)
    BY <1>1 DEF Next
  <2> QED BY <1>1, <2>1, NameSteps DEF RegistryStep
<1>2. CASE RegistrarNext
  <2>1. ASSUME NEW s \in Sender, RegistrarAdminister(s), UNCHANGED <<tldVars, asked>> PROVE Idle
    BY <2>1 DEF RegistrarAdminister, RegistrarTransferAdmin, RegistrarAcceptAdmin,
                UpdatePricing, deskVars, tldVars, Idle
  <2>2. ASSUME NEW c \in RegistrarCommitInput, RegistrarCommit(c[1], c[2]),
               Remember(RegistrarTerms.contract, c[1], c[2])
        PROVE  DeskStep(RegistrarTerms, registrarCommitments, registrarCommitments',
                        registrarConfig.price, {})
    <3>1. c[1] \in Sender /\ c[2] \in Commitment
      BY RegistrarAssumption
    <3> QED BY <2>2, <3>1 DEF RegistrarCommit, Remember, DeskStep
  <2>3. ASSUME NEW s \in Sender, NEW raw \in NameInput, NEW a \in AddrInput, NEW x \in Secret,
               NEW f \in FundsInput, Register(s, raw, a, x, f), Redeem(RegistrarTerms.contract, s)
        PROVE  DeskStep(RegistrarTerms, registrarCommitments, registrarCommitments',
                        registrarConfig.price, {})
    <3>1. PICK n : Sold(registrarCommitments, RegistrarTerms, s, n, a, registrarConfig.price)
      BY <2>3, RegisterSells
    <3>2. registrarCommitments' = Delete(registrarCommitments, s) /\ now' = now
      BY <2>3, RegisterSells
    <3> QED BY <2>3, <3>1, <3>2 DEF DeskStep
  <2>4. ASSUME NEW limit \in LimitInput, RegistrarCleanExpired(limit), UNCHANGED asked
        PROVE  DeskStep(RegistrarTerms, registrarCommitments, registrarCommitments',
                        registrarConfig.price, {})
    <3>1. limit \in Nat
      BY CommitRevealAssumption
    <3> QED BY <2>4, <3>1 DEF RegistrarCleanExpired, DeskStep
  <2> QED BY <1>2, <2>1, <2>2, <2>3, <2>4 DEF RegistrarNext
<1>3. CASE TldNext
  <2>1. ASSUME NEW s \in Sender, TldAdminister(s), UNCHANGED <<registrarVars, asked>> PROVE Idle
    BY <2>1 DEF TldAdminister, TldTransferAdmin, TldAcceptAdmin, SetReserved,
                deskVars, registrarVars, Idle
  <2>2. ASSUME NEW c \in TldCommitInput, TldCommit(c[1], c[2]),
               Remember(TldTerms.contract, c[1], c[2])
        PROVE  DeskStep(TldTerms, tldCommitments, tldCommitments',
                        TldInstantiate.tldPrice, reserved)
    <3>1. c[1] \in Sender /\ c[2] \in Commitment
      BY TldManagerAssumption
    <3> QED BY <2>2, <3>1 DEF TldCommit, Remember, DeskStep
  <2>3. ASSUME NEW s \in Sender, NEW raw \in LabelInput, NEW a \in AddrInput, NEW x \in Secret,
               NEW f \in FundsInput, RegisterTld(s, raw, a, x, f), Redeem(TldTerms.contract, s)
        PROVE  DeskStep(TldTerms, tldCommitments, tldCommitments',
                        TldInstantiate.tldPrice, reserved)
    <3>1. PICK n : /\ Sold(tldCommitments, TldTerms, s, n, a, TldInstantiate.tldPrice)
                   /\ n[1] \notin reserved
      BY <2>3, RegisterTldSells
    <3>2. tldCommitments' = Delete(tldCommitments, s) /\ now' = now
      BY <2>3, RegisterTldSells
    <3> QED BY <2>3, <3>1, <3>2 DEF DeskStep
  <2>4. ASSUME NEW limit \in LimitInput, TldCleanExpired(limit), UNCHANGED asked
        PROVE  DeskStep(TldTerms, tldCommitments, tldCommitments',
                        TldInstantiate.tldPrice, reserved)
    <3>1. limit \in Nat
      BY CommitRevealAssumption
    <3> QED BY <2>4, <3>1 DEF TldCleanExpired, DeskStep
  <2> QED BY <1>3, <2>1, <2>2, <2>3, <2>4 DEF TldNext
<1>4. CASE Tick /\ UNCHANGED <<vars, registrarVars, tldVars, asked>>
  BY <1>4 DEF Tick, Idle, registrarVars, tldVars
<1>5. CASE UNCHANGED issuanceVars
  BY <1>5 DEF issuanceVars, deskVars, registrarVars, tldVars, Idle
<1> QED BY <1>1, <1>2, <1>3, <1>4, <1>5 DEF IssuanceNext

\* The two contracts send their mints under two different accounts, and under
\* neither does anybody send messages.
LEMMA TwoContracts ==
    /\ RegistrarTerms.contract # TldTerms.contract
    /\ RegistrarTerms.contract \notin Sender /\ TldTerms.contract \notin Sender
  BY RegistrarAssumption, TldManagerAssumption, IssuanceAssumption

\* The commitments of the contract of `terms`, and the labels it does not sell
CommitmentsAt(terms) == IF terms = RegistrarTerms THEN registrarCommitments ELSE tldCommitments
BarredAt(terms) == IF terms = RegistrarTerms THEN {} ELSE reserved

\* A name that comes from one of the contracts was sold by it in this step.
LEMMA OnlySalesIssue ==
    ASSUME IssuanceTypeOK, [IssuanceNext]_issuanceVars,
           NEW n \in DOMAIN names' \ DOMAIN names, NEW terms \in Desks,
           sender' = terms.contract
    PROVE  \E s \in Sender : \E owner :
              /\ Sold(CommitmentsAt(terms), terms, s, n, owner, PriceAt(terms))
              /\ n[1] \notin BarredAt(terms)
              /\ Redeem(terms.contract, s)
              /\ now' = now
<1>1. UNCHANGED deskVars => UNCHANGED names
  BY DEF deskVars, vars, registryVars, nameVars
<1>2. ~Idle
  BY DEF Idle, vars, registryVars, nameVars
<1>3. ~RegistryStep
  BY TwoContracts DEF RegistryStep, Desks
<1>4. ASSUME DeskStep(RegistrarTerms, registrarCommitments, registrarCommitments',
                      registrarConfig.price, {})
      PROVE  \E s \in Sender : \E owner :
                /\ Sold(registrarCommitments, RegistrarTerms, s, n, owner, registrarConfig.price)
                /\ Redeem(RegistrarTerms.contract, s)
                /\ now' = now
  BY <1>1, <1>4 DEF DeskStep, Sold
<1>5. ASSUME DeskStep(TldTerms, tldCommitments, tldCommitments',
                      TldInstantiate.tldPrice, reserved)
      PROVE  \E s \in Sender : \E owner :
                /\ Sold(tldCommitments, TldTerms, s, n, owner, TldInstantiate.tldPrice)
                /\ Redeem(TldTerms.contract, s)
                /\ now' = now
                /\ n[1] \notin reserved
  BY <1>1, <1>5 DEF DeskStep, Sold
<1>6. CASE terms = RegistrarTerms
  <2>1. ~DeskStep(TldTerms, tldCommitments, tldCommitments', TldInstantiate.tldPrice, reserved)
    BY <1>5, <1>6, TwoContracts DEF Sold
  <2> QED BY <1>2, <1>3, <1>4, <1>6, <2>1, IssuanceSteps
          DEF PriceAt, CommitmentsAt, BarredAt
<1>7. CASE terms = TldTerms
  <2>1. ~DeskStep(RegistrarTerms, registrarCommitments, registrarCommitments',
                  registrarConfig.price, {})
    BY <1>4, <1>7, TwoContracts DEF Sold
  <2>2. TldTerms # RegistrarTerms
    BY TwoContracts
  <2> QED BY <1>2, <1>3, <1>5, <1>7, <2>1, <2>2, IssuanceSteps
          DEF PriceAt, CommitmentsAt, BarredAt
<1> QED BY <1>6, <1>7 DEF Desks

-----------------------------------------------------------------------------
(* The properties.                                                         *)

\* Whoever's commitment is used up pays the price in force, and the treasury
\* receives all of it.
THEOREM AlwaysPaidInFull == IssuanceSpec => PaidInFull
<1> DEFINE Paid == \A n \in DOMAIN names' \ DOMAIN names, terms \in Desks :
                      sender' = terms.contract =>
                      \A x \in asked \ asked' :
                         balance' = Moved(balance, x.by, terms.treasury,
                                          OneCoin(terms.denom, PriceAt(terms)))
<1>1. IssuanceTypeOK /\ [IssuanceNext]_issuanceVars => [Paid]_issuanceVars
  <2> SUFFICES ASSUME IssuanceTypeOK, [IssuanceNext]_issuanceVars,
                      NEW n \in DOMAIN names' \ DOMAIN names, NEW terms \in Desks,
                      sender' = terms.contract, NEW x \in asked \ asked'
               PROVE  balance' = Moved(balance, x.by, terms.treasury,
                                       OneCoin(terms.denom, PriceAt(terms)))
    OBVIOUS
  <2>1. PICK s \in Sender : \E owner :
             /\ Sold(CommitmentsAt(terms), terms, s, n, owner, PriceAt(terms))
             /\ Redeem(terms.contract, s)
    BY OnlySalesIssue
  <2>2. x.by = s
    BY <2>1 DEF Redeem
  <2> QED BY <2>1, <2>2 DEF Sold
<1> QED BY <1>1, IssuanceTypeCorrect, PTL DEF IssuanceSpec, PaidInFull

\* The TLD manager never sells a label that is reserved when it is sold.
THEOREM ReservedNeverSold == IssuanceSpec => ReservedNotSold
<1> DEFINE Open == \A n \in DOMAIN names' \ DOMAIN names :
                      sender' = TldTerms.contract => n[1] \notin reserved
<1>1. IssuanceTypeOK /\ [IssuanceNext]_issuanceVars => [Open]_issuanceVars
  <2> SUFFICES ASSUME IssuanceTypeOK, [IssuanceNext]_issuanceVars,
                      NEW n \in DOMAIN names' \ DOMAIN names,
                      sender' = TldTerms.contract
               PROVE  n[1] \notin reserved
    OBVIOUS
  <2>1. n[1] \notin BarredAt(TldTerms)
    BY OnlySalesIssue DEF Desks
  <2> QED BY <2>1, TwoContracts DEF BarredAt
<1> QED BY <1>1, IssuanceTypeCorrect, PTL DEF IssuanceSpec, ReservedNotSold

\* What a contract does to its commitments while it sells nothing leaves those
\* that can still be revealed.
LEMMA DeskKeeps ==
    ASSUME now \in 0..MaxTime, NEW terms \in Terms, NEW commitments, CommitmentsOK(commitments),
           NEW later, NEW price, NEW barred, DeskStep(terms, commitments, later, price, barred)
    PROVE  Kept(commitments, later, terms)
<1>1. ASSUME NEW s, NEW c, later = Commit(commitments, s, c)
      PROVE  Kept(commitments, later, terms)
  BY <1>1 DEF Commit, Save, Kept
<1>2. ASSUME NEW limit, later = CleanExpired(commitments, terms, limit)
      PROVE  Kept(commitments, later, terms)
  <2>1. DOMAIN later = DOMAIN commitments \
            {a \in FirstKeys(commitments, limit) : Age(commitments[a]) > terms.maxCommitAge}
    BY <1>2 DEF CleanExpired, Restrict
  <2>2. \A a \in DOMAIN commitments \ DOMAIN later : Age(commitments[a]) > terms.maxCommitAge
    BY <2>1
  <2>3. \A a \in DOMAIN commitments : Age(commitments[a]) \in Int
    BY CommitRevealAssumption DEF CommitmentsOK, CommitmentRecord, Age
  <2>4. terms.maxCommitAge \in Nat
    BY DEF Terms
  <2> QED BY <2>2, <2>3, <2>4 DEF Kept
<1>3. ASSUME NEW s, NEW n, NEW owner, Sold(commitments, terms, s, n, owner, price)
      PROVE  Kept(commitments, later, terms)
  BY <1>3 DEF Sold, Kept
<1> QED BY <1>1, <1>2, <1>3 DEF DeskStep

\* Neither contract ever loses a commitment that could still be revealed,
\* except to a registration.
THEOREM LiveCommitmentsKept == IssuanceSpec => CleanKeepsLive
<1> DEFINE Keeps == /\ Kept(registrarCommitments, registrarCommitments', RegistrarTerms)
                    /\ Kept(tldCommitments, tldCommitments', TldTerms)
<1>1. IssuanceTypeOK /\ [IssuanceNext]_issuanceVars => [Keeps]_issuanceVars
  <2> SUFFICES ASSUME IssuanceTypeOK, [IssuanceNext]_issuanceVars
               PROVE  Keeps
    OBVIOUS
  <2>0. \A commitments, terms : Kept(commitments, commitments, terms)
    BY DEF Kept
  <2>1. /\ now \in 0..MaxTime
        /\ CommitmentsOK(registrarCommitments) /\ CommitmentsOK(tldCommitments)
        /\ RegistrarTerms \in Terms /\ TldTerms \in Terms
    BY RegistrarAssumption, TldManagerAssumption
       DEF IssuanceTypeOK, RegistrarTypeOK, TldTypeOK, CommitmentsOK
  <2>2. CASE UNCHANGED <<registrarCommitments, tldCommitments>>
    BY <2>0, <2>2
  <2>3. CASE /\ DeskStep(RegistrarTerms, registrarCommitments, registrarCommitments',
                         registrarConfig.price, {})
             /\ UNCHANGED tldVars
    BY <2>0, <2>1, <2>3, DeskKeeps DEF tldVars
  <2>4. CASE /\ DeskStep(TldTerms, tldCommitments, tldCommitments',
                         TldInstantiate.tldPrice, reserved)
             /\ UNCHANGED registrarVars
    BY <2>0, <2>1, <2>4, DeskKeeps DEF registrarVars
  <2> QED BY <2>2, <2>3, <2>4, IssuanceSteps DEF Idle, RegistryStep, registrarVars, tldVars
<1> QED BY <1>1, IssuanceTypeCorrect, PTL DEF IssuanceSpec, CleanKeepsLive

-----------------------------------------------------------------------------
(* Waiting.                                                                *)

\* What `s` has asked of the contract of `terms`, according to `log`
AskedBy(log, terms, s) == {x \in log : x.contract = terms.contract /\ x.by = s}

\* A stored commitment is the last one its sender has sent to this contract
\* since he last registered there, and it is as old as that message.
Heard(log, commitments, terms) ==
    \A s \in DOMAIN commitments :
        \E x \in AskedBy(log, terms, s) :
            /\ x.commitment = commitments[s].commitment
            /\ x.at = commitments[s].createdAt
            /\ \A y \in AskedBy(log, terms, s) : y.at <= x.at

\* The invariant behind RevealedAfterWaiting
WaitInv ==
    /\ \A x \in asked : x.at \in 0..now
    /\ Heard(asked, registrarCommitments, RegistrarTerms)
    /\ Heard(asked, tldCommitments, TldTerms)

\* A message to a contract leaves it with commitments it was sent.
LEMMA DeskHears ==
    ASSUME WaitInv, now \in Nat, NEW terms, NEW commitments, NEW later, NEW price, NEW barred,
           Heard(asked, commitments, terms),
           DeskStep(terms, commitments, later, price, barred)
    PROVE  Heard(asked', later, terms)
<1>1. ASSUME NEW s \in Sender, NEW c \in Commitment, later = Commit(commitments, s, c),
             asked' = asked \cup {Asked(terms.contract, s, c)}
      PROVE  Heard(asked', later, terms)
  <2> DEFINE new == Asked(terms.contract, s, c)
  <2>1. /\ DOMAIN later = DOMAIN commitments \cup {s}
        /\ later[s].commitment = c /\ later[s].createdAt = now
        /\ \A r \in DOMAIN commitments \ {s} : later[r] = commitments[r]
    BY <1>1 DEF Commit, Save
  <2>2. /\ new.contract = terms.contract /\ new.by = s
        /\ new.commitment = c /\ new.at = now
    BY DEF Asked
  <2> HIDE DEF new
  <2>3. AskedBy(asked', terms, s) = AskedBy(asked, terms, s) \cup {new}
    BY <1>1, <2>2 DEF AskedBy, new
  <2>4. \A r : r # s => AskedBy(asked', terms, r) = AskedBy(asked, terms, r)
    BY <1>1, <2>2 DEF AskedBy, new
  <2>5. \A y \in AskedBy(asked', terms, s) : y.at <= now
    BY <2>2, <2>3 DEF WaitInv, AskedBy
  <2>6. \A r \in DOMAIN commitments \ {s} :
           \E x \in AskedBy(asked', terms, r) :
              /\ x.commitment = later[r].commitment
              /\ x.at = later[r].createdAt
              /\ \A y \in AskedBy(asked', terms, r) : y.at <= x.at
    BY <2>1, <2>4 DEF Heard
  <2>7. \E x \in AskedBy(asked', terms, s) :
              /\ x.commitment = later[s].commitment
              /\ x.at = later[s].createdAt
              /\ \A y \in AskedBy(asked', terms, s) : y.at <= x.at
    BY <2>1, <2>2, <2>3, <2>5
  <2> QED BY <2>1, <2>6, <2>7 DEF Heard
<1>2. ASSUME NEW limit, later = CleanExpired(commitments, terms, limit), UNCHANGED asked
      PROVE  Heard(asked', later, terms)
  <2>1. DOMAIN later \subseteq DOMAIN commitments /\ \A s \in DOMAIN later : later[s] = commitments[s]
    BY <1>2 DEF CleanExpired, Restrict
  <2> QED BY <1>2, <2>1 DEF Heard
<1>3. ASSUME NEW s, later = Delete(commitments, s), Redeem(terms.contract, s)
      PROVE  Heard(asked', later, terms)
  <2>1. DOMAIN later = DOMAIN commitments \ {s} /\ \A r \in DOMAIN later : later[r] = commitments[r]
    BY <1>3 DEF Delete
  <2>2. \A r : r # s => AskedBy(asked', terms, r) = AskedBy(asked, terms, r)
    BY <1>3 DEF Redeem, AskedBy
  <2> QED BY <2>1, <2>2 DEF Heard
<1> QED BY <1>1, <1>2, <1>3 DEF DeskStep

\* What one contract is sent is nothing to the other.
LEMMA OtherHears ==
    ASSUME NEW terms, NEW other, terms.contract # other.contract,
           NEW commitments, NEW later, NEW price, NEW barred,
           DeskStep(terms, commitments, later, price, barred),
           NEW kept, Heard(asked, kept, other)
    PROVE  Heard(asked', kept, other)
<1>1. \A r : AskedBy(asked', other, r) = AskedBy(asked, other, r)
  <2>1. ASSUME NEW s, NEW c, asked' = asked \cup {Asked(terms.contract, s, c)}
        PROVE  \A r : AskedBy(asked', other, r) = AskedBy(asked, other, r)
    <3>1. Asked(terms.contract, s, c).contract = terms.contract
      BY DEF Asked
    <3> QED BY <2>1, <3>1 DEF AskedBy
  <2>2. ASSUME NEW s, Redeem(terms.contract, s)
        PROVE  \A r : AskedBy(asked', other, r) = AskedBy(asked, other, r)
    BY <2>2 DEF Redeem, AskedBy
  <2> QED BY <2>1, <2>2 DEF DeskStep
<1> QED BY <1>1 DEF Heard

\* Nothing in the log is from the future.
LEMMA LogPast ==
    ASSUME WaitInv, now \in Nat, NEW terms, NEW commitments, NEW later, NEW price, NEW barred,
           DeskStep(terms, commitments, later, price, barred)
    PROVE  \A x \in asked' : x.at \in 0..now'
<1>1. now' = now
  BY DEF DeskStep, deskVars
<1>2. \A contract, s, c : Asked(contract, s, c).at = now
  BY DEF Asked
<1>3. \A x \in asked' : x \in asked \/ \E s, c : x = Asked(terms.contract, s, c)
  BY DEF DeskStep, Redeem
<1> QED BY <1>1, <1>2, <1>3 DEF WaitInv

\* The stored commitments are always ones their senders have asked for, at the
\* time it says.
LEMMA AlwaysHeard == IssuanceSpec => []WaitInv
<1>1. IssuanceInit => WaitInv
  BY DEF IssuanceInit, RegistrarInit, TldInit, WaitInv, Heard
<1>2. IssuanceTypeOK /\ WaitInv /\ [IssuanceNext]_issuanceVars => WaitInv'
  <2> SUFFICES ASSUME IssuanceTypeOK, WaitInv, [IssuanceNext]_issuanceVars
               PROVE  WaitInv'
    OBVIOUS
  <2>0. now \in Nat
    BY DEF IssuanceTypeOK
  <2>1. CASE UNCHANGED <<registrarCommitments, tldCommitments, asked>> /\ now' \in {now, now + 1}
    <3>1. \A x \in asked' : x.at \in 0..now'
      BY <2>0, <2>1 DEF WaitInv
    <3> QED BY <2>1, <3>1 DEF WaitInv, Heard, AskedBy
  <2>2. CASE /\ DeskStep(RegistrarTerms, registrarCommitments, registrarCommitments',
                         registrarConfig.price, {})
             /\ UNCHANGED tldVars
    <3>1. Heard(asked', registrarCommitments', RegistrarTerms)
      BY <2>0, <2>2, DeskHears DEF WaitInv
    <3>2. Heard(asked', tldCommitments', TldTerms)
      BY <2>2, OtherHears, TwoContracts DEF WaitInv, tldVars
    <3> QED BY <2>0, <2>2, <3>1, <3>2, LogPast DEF WaitInv, Heard, AskedBy
  <2>3. CASE /\ DeskStep(TldTerms, tldCommitments, tldCommitments',
                         TldInstantiate.tldPrice, reserved)
             /\ UNCHANGED registrarVars
    <3>1. Heard(asked', tldCommitments', TldTerms)
      BY <2>0, <2>3, DeskHears DEF WaitInv
    <3>2. Heard(asked', registrarCommitments', RegistrarTerms)
      BY <2>3, OtherHears, TwoContracts DEF WaitInv, registrarVars
    <3> QED BY <2>0, <2>3, <3>1, <3>2, LogPast DEF WaitInv, Heard, AskedBy
  <2> QED BY <2>1, <2>2, <2>3, IssuanceSteps DEF Idle, RegistryStep, registrarVars, tldVars
<1> QED BY <1>1, <1>2, IssuanceTypeCorrect, PTL DEF IssuanceSpec

\* A name is only ever sold to whoever has waited for it: the last commitment of
\* the account that pays, unused so far, to this name and owner, and of the age
\* the contract asks for.
THEOREM AlwaysRevealedAfterWaiting == IssuanceSpec => RevealedAfterWaiting
<1> DEFINE Waited ==
      \A n \in DOMAIN names' \ DOMAIN names, terms \in Desks :
         sender' = terms.contract =>
         \E x \in asked \ asked' :
            /\ x.contract = terms.contract
            /\ x.commitment[1] = names'[n].owner /\ x.commitment[2] = n
            /\ now - x.at \in terms.minCommitAge..terms.maxCommitAge
            /\ \A y \in asked : y.contract = x.contract /\ y.by = x.by => y.at <= x.at
<1>1. IssuanceTypeOK /\ WaitInv /\ [IssuanceNext]_issuanceVars => [Waited]_issuanceVars
  <2> SUFFICES ASSUME IssuanceTypeOK, WaitInv, [IssuanceNext]_issuanceVars,
                      NEW n \in DOMAIN names' \ DOMAIN names, NEW terms \in Desks,
                      sender' = terms.contract
               PROVE  \E x \in asked \ asked' :
                         /\ x.contract = terms.contract
                         /\ x.commitment[1] = names'[n].owner /\ x.commitment[2] = n
                         /\ now - x.at \in terms.minCommitAge..terms.maxCommitAge
                         /\ \A y \in asked : y.contract = x.contract /\ y.by = x.by
                                            => y.at <= x.at
    OBVIOUS
  <2> DEFINE commitments == CommitmentsAt(terms)
  <2>1. PICK s \in Sender : \E owner :
             /\ Sold(commitments, terms, s, n, owner, PriceAt(terms))
             /\ Redeem(terms.contract, s)
    BY OnlySalesIssue
  <2>2. Heard(asked, commitments, terms)
    BY DEF WaitInv, CommitmentsAt, Desks
  <2> HIDE DEF commitments
  <2>3. PICK x \in AskedBy(asked, terms, s) :
             /\ x.commitment = commitments[s].commitment
             /\ x.at = commitments[s].createdAt
             /\ \A y \in AskedBy(asked, terms, s) : y.at <= x.at
    BY <2>1, <2>2 DEF Sold, Heard
  <2>4. x \in asked \ asked' /\ x.contract = terms.contract /\ x.by = s
    BY <2>1, <2>3 DEF AskedBy, Redeem
  <2>5. x.commitment[1] = names'[n].owner /\ x.commitment[2] = n
    BY <2>1, <2>3 DEF Sold
  <2>6. now - x.at \in terms.minCommitAge..terms.maxCommitAge
    <3>1. now \in Nat /\ x.at \in Nat
      BY <2>4 DEF IssuanceTypeOK, WaitInv
    <3>2. terms.minCommitAge \in Nat /\ terms.maxCommitAge \in Nat
      BY RegistrarAssumption, TldManagerAssumption DEF Desks, Terms
    <3>3. now - x.at >= terms.minCommitAge /\ now - x.at <= terms.maxCommitAge
      BY <2>1, <2>3 DEF Sold, Revealable, Age
    <3> QED BY <3>1, <3>2, <3>3
  <2>7. \A y \in asked : y.contract = x.contract /\ y.by = x.by => y.at <= x.at
    BY <2>3, <2>4 DEF AskedBy
  <2> QED BY <2>4, <2>5, <2>6, <2>7
<1> QED BY <1>1, IssuanceTypeCorrect, AlwaysHeard, PTL DEF IssuanceSpec, RevealedAfterWaiting

-----------------------------------------------------------------------------
(* The registry, with two contracts that send it mints.                    *)

\* Each step of the system is a step of the registry by itself or a mint by one
\* of the contracts.
LEMMA RegistryOrMint ==
    ASSUME IssuanceTypeOK, [IssuanceNext]_issuanceVars
    PROVE  \/ [Next]_vars
           \/ \E terms \in Desks, n \in Name, owner \in Addr : Mint(terms.contract, n, owner)
<1> DEFINE Mints == \E terms \in Desks, n \in Name, owner \in Addr :
                       Mint(terms.contract, n, owner)
<1>1. ASSUME RegistrarNext PROVE [Next]_vars \/ Mints
  <2>1. ASSUME NEW s \in Sender, NEW raw \in NameInput, NEW a \in AddrInput, NEW x \in Secret,
               NEW f \in FundsInput, Register(s, raw, a, x, f)
        PROVE  Mints
    <3>1. NormalizeName(raw) \in Name /\ a \in Addr
      BY <2>1, NormalizeNameType, RegistryAssumption DEF Register
    <3>2. Mint(RegistrarTerms.contract, NormalizeName(raw), a)
      BY <2>1 DEF Register
    <3> QED BY <3>1, <3>2 DEF Desks
  <2> HIDE DEF Mints
  <2> QED BY <1>1, <2>1 DEF RegistrarNext, RegistrarAdminister, RegistrarTransferAdmin,
             RegistrarAcceptAdmin, UpdatePricing, RegistrarCommit, RegistrarCleanExpired, deskVars
<1>2. ASSUME TldNext PROVE [Next]_vars \/ Mints
  <2>1. ASSUME NEW s \in Sender, NEW l \in LabelInput, NEW a \in AddrInput, NEW x \in Secret,
               NEW f \in FundsInput, RegisterTld(s, l, a, x, f)
        PROVE  Mints
    <3>1. NormalizeLabel(l) \in Label /\ a \in Addr
      BY <2>1, LabelType, RegistryAssumption DEF RegisterTld
    <3>2. <<NormalizeLabel(l)>> \in Name
      BY <3>1 DEF Name
    <3>3. Mint(TldTerms.contract, <<NormalizeLabel(l)>>, a)
      BY <2>1 DEF RegisterTld
    <3> QED BY <3>1, <3>2, <3>3 DEF Desks
  <2> HIDE DEF Mints
  <2> QED BY <1>2, <2>1 DEF TldNext, TldAdminister, TldTransferAdmin, TldAcceptAdmin,
             SetReserved, TldCommit, TldCleanExpired, deskVars
<1> HIDE DEF Mints
<1>3. [Next]_vars \/ Mints
  BY <1>1, <1>2 DEF IssuanceNext, issuanceVars, deskVars
<1> QED BY <1>3 DEF Mints

\* So it is one of the six effects on the tables.
LEMMA IssuanceTables ==
    ASSUME IssuanceTypeOK, [IssuanceNext]_issuanceVars
    PROVE  TableStep
<1>1. ASSUME NEW terms \in Desks, NEW n \in Name, NEW owner \in Addr, Mint(terms.contract, n, owner)
      PROVE  TableStep
  <2>1. terms.contract \in Addr
    BY RegistrarAssumption, TldManagerAssumption DEF Desks, Terms
  <2>2. n \in Seq(Spelling)
    BY NamesAssumption DEF Name
  <2> QED BY <1>1, <2>1, <2>2, MintSteps DEF TableStep, NameStep
<1> QED BY <1>1, RegistryOrMint, RegistrySteps DEF IssuanceTypeOK

\* A name sold by a contract is issued by right as the registry understands it:
\* the contract is its operator, or its admin, at that moment.
THEOREM SoldByRight == IssuanceSpec => IssuanceAuthority
<1>1. IssuanceTypeOK /\ [IssuanceNext]_issuanceVars => [IssuesRight]_vars
  BY RegistryOrMint, AlwaysIssuesRight, MintIssues DEF IssuanceTypeOK, IssuesRight
<1> QED BY <1>1, IssuesRightMeans, IssuanceTypeCorrect, PTL DEF IssuanceSpec, IssuanceAuthority

\* However commitments, sales and the clock interleave with the registry's own
\* messages, its tables agree.
LEMMA IssuanceKeepsTables == IssuanceSpec => []TablesAgree
<1>1. IssuanceInit => TablesAgree
  BY TablesAgreeInitially DEF IssuanceInit
<1>2. IssuanceTypeOK /\ TablesAgree /\ [IssuanceNext]_issuanceVars => TablesAgree'
  BY IssuanceTables, TablesStayAgreed DEF IssuanceTypeOK
<1> QED BY <1>1, <1>2, IssuanceTypeCorrect, PTL DEF IssuanceSpec

\* And its clients see the ledger: a sale is one Issue.
THEOREM IssuanceImplementsLedger == IssuanceSpec => LedgerSpec
<1>1. IssuanceInit => Init
  BY DEF IssuanceInit
<1>2. IssuanceTypeOK /\ [IssuanceNext]_issuanceVars => TypeOK /\ TableStep
  BY IssuanceTables DEF IssuanceTypeOK
<1> QED
  BY <1>1, <1>2, LedgerInitially, LedgerSteps, IssuanceTypeCorrect, IssuanceKeepsTables, PTL
     DEF IssuanceSpec, LedgerSpec, Ledger!Spec
=============================================================================
