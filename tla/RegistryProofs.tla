--------------------------- MODULE RegistryProofs ---------------------------
(***************************************************************************)
(* Theorems about Registry, for every value of its constants.              *)
(***************************************************************************)
EXTENDS Registry, TLAPS

-----------------------------------------------------------------------------
(* The storage and bank operators of Chain.                                *)

\* Saving an entry keeps the type of a map.
LEMMA SaveType ==
    ASSUME NEW K, NEW V, NEW map, NEW key \in K, NEW value \in V,
           DOMAIN map \subseteq K, map \in [DOMAIN map -> V]
    PROVE  /\ DOMAIN Save(map, key, value) = DOMAIN map \cup {key}
           /\ DOMAIN Save(map, key, value) \subseteq K
           /\ Save(map, key, value) \in [DOMAIN Save(map, key, value) -> V]
  BY DEF Save

\* So does removing one.
LEMMA DeleteType ==
    ASSUME NEW K, NEW V, NEW map, NEW key,
           DOMAIN map \subseteq K, map \in [DOMAIN map -> V]
    PROVE  /\ DOMAIN Delete(map, key) = DOMAIN map \ {key}
           /\ DOMAIN Delete(map, key) \subseteq K
           /\ Delete(map, key) \in [DOMAIN Delete(map, key) -> V]
  BY DEF Delete

\* A payment the payer covers leaves every balance a natural number.
LEMMA MovedType ==
    ASSUME NEW bal \in [Addr -> Coins], NEW from \in Addr, NEW to \in Addr,
           NEW coins \in Coins, Covers(bal, from, coins)
    PROVE  Moved(bal, from, to, coins) \in [Addr -> Coins]
<1> DEFINE left == Debited(bal, from, coins)
<1>1. left \in [Addr -> Coins]
  BY DEF Covers, Debited, Coins
<1>2. Credited(left, to, coins) \in [Addr -> Coins]
  <2> HIDE DEF left
  <2> QED BY <1>1 DEF Credited, Coins
<1> QED BY <1>2 DEF Moved

-----------------------------------------------------------------------------
(* Names.                                                                  *)

\* Whatever normalize_name accepts is a non-empty sequence of valid labels.
LEMMA NormalizeNameType ==
    ASSUME NEW raw \in Seq(Spelling), NormalizeName(raw) # Invalid
    PROVE  NormalizeName(raw) \in Name
  BY NamesAssumption DEF NormalizeName, Name

\* A name that normalises is its own normal form.
LEMMA NormalForm ==
    ASSUME NEW n \in Name, NormalizeName(n) # Invalid
    PROVE  NormalizeName(n) = n
<1>1. \A i \in DOMAIN n : n[i] \in Label
  BY DEF Name
<1>2. [i \in DOMAIN n |-> Canon[n[i]]] = n
  BY <1>1, NamesAssumption DEF Name
<1> QED BY <1>2 DEF NormalizeName

\* A label put in front of a name makes a name, and that name's parent is the
\* name the label was put in front of.
LEMMA FullNameType ==
    ASSUME NEW label \in Label, NEW parent \in Name
    PROVE  /\ FullName(label, parent) \in Name
           /\ ParentOf(FullName(label, parent)) = parent
  BY DEF FullName, Name, ParentOf

\* What normalize_label accepts is a valid label.
LEMMA LabelType ==
    ASSUME NEW raw \in Spelling, NormalizeLabel(raw) # Invalid
    PROVE  NormalizeLabel(raw) \in Label
  BY NamesAssumption DEF NormalizeLabel

-----------------------------------------------------------------------------
(* Type correctness.                                                       *)

\* The part of TypeOK about NAMES, OWNER_INDEX and PRIMARY.
NamesTypeOK ==
    /\ DOMAIN names \subseteq Name /\ names \in [DOMAIN names -> NameRecord]
    /\ ownerIndex \subseteq Addr \X Name
    /\ DOMAIN primary \subseteq Addr /\ primary \in [DOMAIN primary -> Name]

\* The part about the subdomain policies and mint counts.
SubTypeOK ==
    /\ DOMAIN subdomainPolicies \subseteq Name
    /\ subdomainPolicies \in [DOMAIN subdomainPolicies -> SubdomainPolicy]
    /\ DOMAIN subdomainMints \subseteq Name \X Addr
    /\ subdomainMints \in [DOMAIN subdomainMints -> Nat]

\* The part about the administration.
AdminTypeOK ==
    /\ admin \in Addr /\ pendingAdmin \in Addr \cup {None}
    /\ operator \in [Kind -> Addr \cup {None}]
    /\ royalty \in [recipient : Addr, bps : 0..AllBps]
    /\ sender \in Addr \cup {None}

\* TypeOK is its three parts and the type of the bank.
LEMMA TypeParts ==
    TypeOK <=> AdminTypeOK /\ NamesTypeOK /\ SubTypeOK /\ balance \in [Addr -> Coins]
  BY DEF TypeOK, AdminTypeOK, NamesTypeOK, SubTypeOK

\* Storing a record of a name keeps the two tables' types.
LEMMA StoreType ==
    ASSUME NamesTypeOK, NEW n \in Name, NEW record \in NameRecord,
           names' = Save(names, n, record) \/ names' = Save(Delete(names, n), n, record),
           ownerIndex' \subseteq ownerIndex \cup {<<record.owner, n>>}
    PROVE  /\ DOMAIN names' \subseteq Name /\ names' \in [DOMAIN names' -> NameRecord]
           /\ ownerIndex' \subseteq Addr \X Name
<1>1. DOMAIN names' \subseteq Name /\ names' \in [DOMAIN names' -> NameRecord]
  BY DEF NamesTypeOK, Save, Delete
<1>2. record.owner \in Addr
  BY DEF NameRecord
<1> QED BY <1>1, <1>2 DEF NamesTypeOK

\* Minting keeps them too, whoever asked for it.
LEMMA MintRecordType ==
    ASSUME NamesTypeOK, NEW n \in Name, NEW owner \in Addr,
           NEW parent \in Name \cup {None},
           MintRecord(n, owner, parent), primary' = primary
    PROVE  NamesTypeOK'
<1> DEFINE record == [owner |-> owner, parent |-> parent]
<1>1. record \in NameRecord
  BY DEF NameRecord
<1>2. names' = Save(names, n, record) /\ ownerIndex' = ownerIndex \cup {<<record.owner, n>>}
  BY DEF MintRecord, Write, StoreName, Stored
<1>3. /\ DOMAIN names' \subseteq Name /\ names' \in [DOMAIN names' -> NameRecord]
      /\ ownerIndex' \subseteq Addr \X Name
  <2> HIDE DEF record
  <2> QED BY <1>1, <1>2, StoreType
<1> QED BY <1>3 DEF NamesTypeOK

\* Dropping a primary name keeps the type of PRIMARY.
LEMMA DropPrimaryType ==
    ASSUME NamesTypeOK, NEW a, NEW n, DropPrimary(a, n)
    PROVE  DOMAIN primary' \subseteq Addr /\ primary' \in [DOMAIN primary' -> Name]
  BY DeleteType DEF DropPrimary, NamesTypeOK

\* The check both instantiate and SetRoyalty make gives the royalty its type.
LEMMA RoyaltyType ==
    ASSUME NEW recipient \in Addr, NEW bps \in Nat, bps <= AllBps
    PROVE  [recipient |-> recipient, bps |-> bps] \in [recipient : Addr, bps : 0..AllBps]
<1>1. bps \in 0..AllBps
  OBVIOUS
<1> QED BY <1>1

\* Administration messages.
LEMMA AdministerType ==
    ASSUME TypeOK, NEW s \in Sender, Administer(s)
    PROVE  AdminTypeOK' /\ UNCHANGED <<nameVars, subVars>>
<1>0. AdminTypeOK /\ s \in Addr
  BY TypeParts, RegistryAssumption
<1> USE <1>0, RegistryAssumption DEF AdminTypeOK
<1>1. ASSUME NEW a \in AdminInput, TransferAdmin(s, a)
      PROVE  AdminTypeOK' /\ UNCHANGED <<nameVars, subVars>>
  BY <1>1 DEF TransferAdmin, configVars
<1>2. ASSUME AcceptAdmin(s)
      PROVE  AdminTypeOK' /\ UNCHANGED <<nameVars, subVars>>
  BY <1>2 DEF AcceptAdmin, configVars
<1>3. ASSUME NEW o \in OperatorInput, SetOperator(s, o[1], o[2])
      PROVE  AdminTypeOK' /\ UNCHANGED <<nameVars, subVars>>
  BY <1>3 DEF SetOperator, adminVars
<1>4. ASSUME NEW recipient \in Addr, NEW bps \in Nat, SetRoyalty(s, recipient, bps)
      PROVE  AdminTypeOK' /\ UNCHANGED <<nameVars, subVars>>
  <2>1. royalty' \in [recipient : Addr, bps : 0..AllBps]
    BY <1>4, RoyaltyType DEF SetRoyalty
  <2> QED BY <1>4, <2>1 DEF SetRoyalty, adminVars
<1>5. \A r \in RoyaltyInput : r[1] \in Addr /\ r[2] \in Nat
  OBVIOUS
<1> HIDE <1>0, RegistryAssumption DEF AdminTypeOK
<1> QED BY <1>1, <1>2, <1>3, <1>4, <1>5 DEF Administer

\* A transfer, whoever sends it: in Marketplace it is a contract.
LEMMA TransferType ==
    ASSUME TypeOK, NEW s \in Addr, NEW raw \in Seq(Spelling), NEW to \in Addr,
           Transfer(s, raw, to)
    PROVE  AdminTypeOK' /\ NamesTypeOK' /\ SubTypeOK'
<1> DEFINE n == NormalizeName(raw)
           record == [names[n] EXCEPT !.owner = to]
<1>0. AdminTypeOK /\ NamesTypeOK /\ SubTypeOK
  BY TypeParts
<1>1. n \in Name /\ n \in DOMAIN names
  BY NormalizeNameType DEF Transfer, AssertOwnerOrMarketplace
<1>2. names[n] \in NameRecord /\ record \in NameRecord
  BY <1>0, <1>1 DEF NamesTypeOK, NameRecord
<1>3. /\ names' = Save(Delete(names, n), n, record)
      /\ ownerIndex' \subseteq ownerIndex \cup {<<record.owner, n>>}
      /\ DropPrimary(names[n].owner, n)
  BY DEF Transfer, Write, StoreName, RemoveName, Stored
<1>4. NamesTypeOK'
  <2> HIDE DEF n, record
  <2>1. /\ DOMAIN names' \subseteq Name /\ names' \in [DOMAIN names' -> NameRecord]
        /\ ownerIndex' \subseteq Addr \X Name
    BY <1>0, <1>1, <1>2, <1>3, StoreType
  <2> QED BY <1>0, <1>3, <2>1, DropPrimaryType DEF NamesTypeOK
<1> QED BY <1>0, <1>4 DEF Transfer, adminVars, configVars, subVars, AdminTypeOK, SubTypeOK

\* A mint, whoever sends it: in Issuance it is a contract.
LEMMA MintType ==
    ASSUME TypeOK, NEW s \in Addr, NEW raw \in Seq(Spelling), NEW owner \in Addr,
           Mint(s, raw, owner)
    PROVE  AdminTypeOK' /\ NamesTypeOK' /\ SubTypeOK'
<1>0. AdminTypeOK /\ NamesTypeOK /\ SubTypeOK
  BY TypeParts
<1>1. NormalizeName(raw) \in Name
  BY NormalizeNameType DEF Mint
<1>2. NamesTypeOK'
  BY <1>0, <1>1, MintRecordType DEF Mint
<1> QED BY <1>0, <1>2 DEF Mint, adminVars, configVars, subVars, AdminTypeOK, SubTypeOK

\* Messages about names, ClearPrimary included.
LEMMA HandleNameType ==
    ASSUME TypeOK, NEW s \in Sender, HandleName(s) \/ ClearPrimary(s)
    PROVE  AdminTypeOK' /\ NamesTypeOK' /\ SubTypeOK'
<1> USE RegistryAssumption
<1>0. AdminTypeOK /\ NamesTypeOK /\ SubTypeOK /\ s \in Addr
  BY TypeParts
<1>a. ASSUME UNCHANGED <<adminVars, configVars>>, sender' = s
      PROVE  AdminTypeOK'
  BY <1>a, <1>0 DEF adminVars, configVars, AdminTypeOK
<1>b. ASSUME UNCHANGED subVars
      PROVE  SubTypeOK'
  BY <1>b, <1>0 DEF subVars, SubTypeOK
<1>c. ASSUME UNCHANGED nameVars
      PROVE  NamesTypeOK'
  BY <1>c, <1>0 DEF nameVars, NamesTypeOK
<1>1. ASSUME NEW raw \in NameInput, NEW o \in AddrInput, Mint(s, raw, o)
      PROVE  AdminTypeOK' /\ NamesTypeOK' /\ SubTypeOK'
  BY <1>0, <1>1, MintType
<1>2. ASSUME NEW raw \in NameInput, NEW l \in LabelInput, NEW o \in AddrInput,
             MintSubdomain(s, raw, l, o)
      PROVE  AdminTypeOK' /\ NamesTypeOK' /\ SubTypeOK'
  <2> DEFINE p == NormalizeName(raw)
             f == FullName(NormalizeLabel(l), p)
  <2>1. p \in Name /\ f \in Name
    BY <1>2, NormalizeNameType, LabelType, FullNameType DEF MintSubdomain
  <2>2. MintRecord(f, o, p) /\ primary' = primary
    BY <1>2 DEF MintSubdomain
  <2>3. NamesTypeOK'
    <3> HIDE DEF p, f
    <3> QED BY <1>0, <2>1, <2>2, MintRecordType
  <2> QED BY <1>2, <1>a, <1>b, <2>3 DEF MintSubdomain
<1>3. ASSUME NEW raw \in NameInput, NEW to \in AddrInput, Transfer(s, raw, to)
      PROVE  AdminTypeOK' /\ NamesTypeOK' /\ SubTypeOK'
  BY <1>3, <1>0, TransferType
<1>4. ASSUME NEW raw \in NameInput, Burn(s, raw)
      PROVE  AdminTypeOK' /\ NamesTypeOK' /\ SubTypeOK'
  <2> DEFINE n == NormalizeName(raw)
  <2>1. /\ names' = Delete(names, n)
        /\ ownerIndex' \subseteq ownerIndex
        /\ DropPrimary(names[n].owner, n)
    BY <1>4 DEF Burn, Write, RemoveName, Stored
  <2>2. NamesTypeOK'
    <3> HIDE DEF n
    <3>1. DOMAIN names' \subseteq Name /\ names' \in [DOMAIN names' -> NameRecord]
      BY <1>0, <2>1, DeleteType DEF NamesTypeOK
    <3>2. DOMAIN primary' \subseteq Addr /\ primary' \in [DOMAIN primary' -> Name]
      BY <1>0, <2>1, DropPrimaryType
    <3> QED BY <1>0, <2>1, <3>1, <3>2 DEF NamesTypeOK
  <2> QED BY <1>4, <1>a, <1>b, <2>2 DEF Burn
<1>5. ASSUME NEW raw \in NameInput, SetPrimary(s, raw)
      PROVE  AdminTypeOK' /\ NamesTypeOK' /\ SubTypeOK'
  <2>1. NormalizeName(raw) \in Name /\ primary' = Save(primary, s, NormalizeName(raw))
    BY <1>5, NormalizeNameType DEF SetPrimary
  <2>2. NamesTypeOK'
    <3>1. DOMAIN primary' \subseteq Addr /\ primary' \in [DOMAIN primary' -> Name]
      BY <1>0, <2>1 DEF NamesTypeOK, Save
    <3>2. UNCHANGED <<names, ownerIndex>>
      BY <1>5 DEF SetPrimary
    <3> QED BY <1>0, <3>1, <3>2 DEF NamesTypeOK
  <2> QED BY <1>5, <1>a, <1>b, <2>2 DEF SetPrimary
<1>6. ASSUME NEW raw \in NameInput, NEW policy \in PolicyInput,
             SetSubdomainPolicy(s, raw, policy)
      PROVE  AdminTypeOK' /\ NamesTypeOK' /\ SubTypeOK'
  <2>1. NormalizeName(raw) \in Name
    BY <1>6, NormalizeNameType DEF SetSubdomainPolicy
  <2>2. SubTypeOK'
    <3>1. CASE policy = None
      BY <1>0, <1>6, <3>1, DeleteType DEF SetSubdomainPolicy, SubTypeOK
    <3>2. CASE policy # None
      <4>1. /\ subdomainPolicies' = Save(subdomainPolicies, NormalizeName(raw), policy)
            /\ subdomainMints' = subdomainMints
            /\ policy \in SubdomainPolicy
        BY <1>6, <3>2 DEF SetSubdomainPolicy
      <4>2. /\ DOMAIN subdomainPolicies' \subseteq Name
            /\ subdomainPolicies' \in [DOMAIN subdomainPolicies' -> SubdomainPolicy]
        BY <1>0, <2>1, <4>1 DEF SubTypeOK, Save
      <4> QED BY <1>0, <4>1, <4>2 DEF SubTypeOK
    <3> QED BY <3>1, <3>2
  <2> QED BY <1>6, <1>a, <1>c, <2>2 DEF SetSubdomainPolicy
<1>7. ASSUME ClearPrimary(s)
      PROVE  AdminTypeOK' /\ NamesTypeOK' /\ SubTypeOK'
  <2>1. NamesTypeOK'
    BY <1>0, <1>7, DeleteType DEF ClearPrimary, NamesTypeOK
  <2> QED BY <1>7, <1>a, <1>b, <2>1 DEF ClearPrimary
<1> QED BY <1>1, <1>2, <1>3, <1>4, <1>5, <1>6, <1>7 DEF HandleName

\* An open registration: tables, count and money.
LEMMA PricedType ==
    ASSUME TypeOK, NEW s \in Sender, Priced(s)
    PROVE  TypeOK'
<1>0. AdminTypeOK /\ NamesTypeOK /\ SubTypeOK /\ s \in Addr /\ balance \in [Addr -> Coins]
  BY TypeParts, RegistryAssumption
<1>1. PICK raw \in NameInput, rawLabel \in LabelInput, funds \in FundsInput :
           RegisterSubdomain(s, raw, rawLabel, funds)
  BY DEF Priced
<1> DEFINE p == NormalizeName(raw)
           l == NormalizeLabel(rawLabel)
           f == FullName(l, p)
           policy == subdomainPolicies[p]
           fee    == OneCoin(policy.denom, policy.price)
           paid   == Moved(balance, s, RegistryAddr, funds)
<1>2. /\ p \in Name /\ l \in Label /\ f \in Name
      /\ policy \in SubdomainPolicy
  <2>1. p \in Name /\ l \in Label
    BY <1>1, NormalizeNameType, LabelType, RegistryAssumption DEF RegisterSubdomain
  <2>2. policy \in SubdomainPolicy
    BY <1>0, <1>1 DEF RegisterSubdomain, SubTypeOK
  <2> QED BY <2>1, <2>2, FullNameType
<1>3. /\ MintRecord(f, s, p)
      /\ Covers(balance, s, funds)
      /\ subdomainMints' = Save(subdomainMints, <<p, s>>, MintCount(p, s) + 1)
      /\ policy.recipient # Invalid
      /\ CanSend(paid, RegistryAddr, fee)
      /\ balance' = Moved(paid, RegistryAddr, policy.recipient, fee)
      /\ sender' = s
      /\ UNCHANGED <<adminVars, configVars, primary, subdomainPolicies>>
  BY <1>1 DEF RegisterSubdomain
<1> HIDE DEF p, l, f
<1>4. AdminTypeOK'
  <2>1. sender' = s /\ UNCHANGED <<adminVars, configVars>>
    BY <1>3
  <2> QED BY <1>0, <2>1 DEF adminVars, configVars, AdminTypeOK
<1>5. NamesTypeOK'
  BY <1>0, <1>2, <1>3, MintRecordType
<1>6. SubTypeOK'
  <2>1. MintCount(p, s) + 1 \in Nat
    BY <1>0 DEF MintCount, SubTypeOK
  <2>2. /\ DOMAIN subdomainMints' \subseteq Name \X Addr
        /\ subdomainMints' \in [DOMAIN subdomainMints' -> Nat]
    <3>1. <<p, s>> \in Name \X Addr
      BY <1>0, <1>2
    <3>2. subdomainMints' = Save(subdomainMints, <<p, s>>, MintCount(p, s) + 1)
      BY <1>3
    <3> QED BY <1>0, <2>1, <3>1, <3>2 DEF SubTypeOK, Save
  <2> QED BY <1>0, <1>3, <2>2 DEF SubTypeOK
<1>7. balance' \in [Addr -> Coins]
  <2>1. fee \in Coins /\ policy.recipient \in Addr
    BY <1>2, <1>3 DEF OneCoin, Coins, SubdomainPolicy
  <2>2. paid \in [Addr -> Coins]
    BY <1>0, <1>3, MovedType, RegistryAssumption
  <2> HIDE DEF paid, fee, policy
  <2> QED BY <1>3, <2>1, <2>2, MovedType, RegistryAssumption DEF CanSend
<1> QED BY <1>4, <1>5, <1>6, <1>7 DEF TypeOK, AdminTypeOK, NamesTypeOK, SubTypeOK

\* It starts with the right types.
LEMMA TypeInitially == Init => TypeOK
<1> SUFFICES ASSUME NEW msg \in InstantiateMsgs, NEW bps, bps = msg.royaltyBps,
                    bps <= AllBps,
                    admin = msg.admin, pendingAdmin = None,
                    operator = [k \in Kind |-> None],
                    royalty = [recipient |-> msg.royaltyRecipient, bps |-> bps],
                    names = <<>>, ownerIndex = {}, primary = <<>>,
                    subdomainPolicies = <<>>, subdomainMints = <<>>,
                    sender = None, balance = InitialBalance
             PROVE  TypeOK
  BY DEF Init
<1>1. msg.admin \in Addr /\ msg.royaltyRecipient \in Addr /\ bps \in Nat
  BY RegistryAssumption
<1>2. royalty \in [recipient : Addr, bps : 0..AllBps]
  <2>1. [recipient |-> msg.royaltyRecipient, bps |-> bps] \in [recipient : Addr, bps : 0..AllBps]
    BY <1>1, RoyaltyType
  <2> QED BY <2>1
<1>3. AdminTypeOK
  <2>1. admin \in Addr
    BY <1>1
  <2>2. pendingAdmin \in Addr \cup {None} /\ sender \in Addr \cup {None}
    OBVIOUS
  <2>3. operator \in [Kind -> Addr \cup {None}]
    OBVIOUS
  <2> QED BY <2>1, <2>2, <2>3, <1>2 DEF AdminTypeOK
<1>4. NamesTypeOK /\ SubTypeOK
  BY DEF NamesTypeOK, SubTypeOK
<1> QED BY <1>3, <1>4, TypeParts, RegistryAssumption

\* Every message keeps them.
LEMMA TypeStep == TypeOK /\ [Next]_vars => TypeOK'
<1> SUFFICES ASSUME TypeOK, [Next]_vars
             PROVE  TypeOK'
  OBVIOUS
<1>1. CASE UNCHANGED vars
  BY <1>1 DEF vars, registryVars, adminVars, configVars, nameVars, subVars, TypeOK
<1>2. ASSUME NEW s \in Sender, Unpriced(s), UNCHANGED balance
      PROVE  TypeOK'
  <2>1. CASE Administer(s)
    <3>1. AdminTypeOK' /\ UNCHANGED <<nameVars, subVars, balance>>
      BY <1>2, <2>1, AdministerType
    <3> QED BY <3>1 DEF nameVars, subVars, TypeOK, AdminTypeOK
  <2>2. CASE HandleName(s) \/ ClearPrimary(s)
    <3>1. AdminTypeOK' /\ NamesTypeOK' /\ SubTypeOK'
      BY <2>2, HandleNameType
    <3> QED BY <1>2, <3>1 DEF TypeOK, AdminTypeOK, NamesTypeOK, SubTypeOK
  <2> QED BY <1>2, <2>1, <2>2 DEF Unpriced
<1>3. ASSUME NEW s \in Sender, Priced(s)
      PROVE  TypeOK'
  BY <1>3, PricedType
<1> QED BY <1>1, <1>2, <1>3 DEF Next

\* Every reachable state has the types state.rs declares.
THEOREM TypeCorrect == Spec => []TypeOK
  BY TypeInitially, TypeStep, PTL DEF Spec

-----------------------------------------------------------------------------
(* What any message does to NAMES, OWNER_INDEX and PRIMARY.                *)

Added(n, owner) ==
    /\ n \notin DOMAIN names
    /\ names' = Save(names, n, [owner |-> owner, parent |-> ParentOf(n)])
    /\ ownerIndex' = ownerIndex \cup {<<owner, n>>}
    /\ primary' = primary

Handed(n, to) ==
    /\ names' = Save(Delete(names, n), n, [names[n] EXCEPT !.owner = to])
    /\ ownerIndex' = (ownerIndex \ {<<names[n].owner, n>>}) \cup {<<to, n>>}
    /\ DropPrimary(names[n].owner, n)

Dropped(n) ==
    /\ names' = Delete(names, n)
    /\ ownerIndex' = ownerIndex \ {<<names[n].owner, n>>}
    /\ DropPrimary(names[n].owner, n)

PrimarySet(s, n) ==
    /\ names[n].owner = s
    /\ primary' = Save(primary, s, n)
    /\ UNCHANGED <<names, ownerIndex>>

PrimaryCleared(s) == primary' = Delete(primary, s) /\ UNCHANGED <<names, ownerIndex>>

NameStep(s) ==
    \/ UNCHANGED nameVars
    \/ \E n \in Name, owner \in Addr : Added(n, owner)
    \/ \E n \in DOMAIN names, to \in Addr :
          Handed(n, to) /\ s \in {names[n].owner, operator["marketplace"]}
    \/ \E n \in DOMAIN names :
          Dropped(n) /\ s \in {names[n].owner, operator["marketplace"]}
    \/ \E n \in DOMAIN names : PrimarySet(s, n)
    \/ PrimaryCleared(s)

\* A top-level name has no parent.
LEMMA AddedByMint ==
    ASSUME NEW n \in Name, NEW owner \in Addr, NEW parent,
           parent = ParentOf(n), MintRecord(n, owner, parent), primary' = primary
    PROVE  Added(n, owner)
  BY DEF MintRecord, Write, StoreName, Stored, Added

\* Mint adds a name, whoever sends it.
LEMMA MintSteps ==
    ASSUME NEW s, NEW raw \in Seq(Spelling), NEW owner \in Addr, Mint(s, raw, owner)
    PROVE  (\E n \in Name, a \in Addr : Added(n, a)) /\ sender' = s
<1> DEFINE n == NormalizeName(raw)
<1>1. n \in Name
  BY NormalizeNameType DEF Mint
<1>2. None = ParentOf(n) /\ MintRecord(n, owner, None) /\ primary' = primary /\ sender' = s
  BY DEF Mint
<1> HIDE DEF n
<1>3. Added(n, owner)
  BY <1>1, <1>2, AddedByMint
<1> QED BY <1>1, <1>2, <1>3

\* Transfer hands one on, whoever sends it.
LEMMA TransferSteps ==
    ASSUME NEW s, NEW raw, NEW to \in Addr, Transfer(s, raw, to)
    PROVE  /\ \E n \in DOMAIN names, a \in Addr :
                 Handed(n, a) /\ s \in {names[n].owner, operator["marketplace"]}
           /\ sender' = s
<1> DEFINE n == NormalizeName(raw)
<1>1. n \in DOMAIN names /\ s \in {names[n].owner, operator["marketplace"]}
  BY DEF Transfer, AssertOwnerOrMarketplace, IsOperator
<1>2. Handed(n, to) /\ sender' = s
  BY DEF Transfer, Write, StoreName, RemoveName, Stored, Handed
<1> HIDE DEF n
<1> QED BY <1>1, <1>2

\* Every message of every sender is one of the six.
LEMMA NameSteps ==
    ASSUME TypeOK, NEW s \in Sender, Unpriced(s) \/ Priced(s)
    PROVE  NameStep(s) /\ sender' = s
<1>0. s \in Addr
  BY RegistryAssumption
<1>1. ASSUME Administer(s)
      PROVE  UNCHANGED nameVars /\ sender' = s
  BY <1>1 DEF Administer, TransferAdmin, AcceptAdmin, SetOperator, SetRoyalty
<1>2. ASSUME NEW raw \in NameInput, NEW o \in AddrInput, Mint(s, raw, o)
      PROVE  (\E n \in Name, owner \in Addr : Added(n, owner)) /\ sender' = s
  BY <1>2, MintSteps, RegistryAssumption
<1>3. ASSUME NEW raw \in NameInput, NEW l \in LabelInput, NEW o \in AddrInput,
             MintSubdomain(s, raw, l, o)
      PROVE  (\E n \in Name, owner \in Addr : Added(n, owner)) /\ sender' = s
  <2> DEFINE p == NormalizeName(raw)
             f == FullName(NormalizeLabel(l), p)
  <2>1. p \in Name /\ f \in Name /\ p = ParentOf(f) /\ o \in Addr
    BY <1>3, NormalizeNameType, LabelType, FullNameType, RegistryAssumption DEF MintSubdomain
  <2>2. MintRecord(f, o, p) /\ primary' = primary /\ sender' = s
    BY <1>3 DEF MintSubdomain
  <2> HIDE DEF f, p
  <2>3. Added(f, o)
    BY <2>1, <2>2, AddedByMint
  <2> QED BY <2>1, <2>2, <2>3
<1>4. ASSUME NEW raw \in NameInput, NEW to \in AddrInput, Transfer(s, raw, to)
      PROVE  /\ \E n \in DOMAIN names, a \in Addr :
                   Handed(n, a) /\ s \in {names[n].owner, operator["marketplace"]}
             /\ sender' = s
  BY <1>4, TransferSteps, RegistryAssumption
<1>5. ASSUME NEW raw \in NameInput, Burn(s, raw)
      PROVE  /\ \E n \in DOMAIN names :
                   Dropped(n) /\ s \in {names[n].owner, operator["marketplace"]}
             /\ sender' = s
  <2> DEFINE n == NormalizeName(raw)
  <2>1. n \in DOMAIN names /\ s \in {names[n].owner, operator["marketplace"]}
    BY <1>5 DEF Burn, AssertOwnerOrMarketplace, IsOperator
  <2>2. Dropped(n) /\ sender' = s
    BY <1>5 DEF Burn, Write, RemoveName, Stored, Dropped
  <2> HIDE DEF n
  <2> QED BY <2>1, <2>2
<1>6. ASSUME NEW raw \in NameInput, SetPrimary(s, raw)
      PROVE  (\E n \in DOMAIN names : PrimarySet(s, n)) /\ sender' = s
  BY <1>6 DEF SetPrimary, PrimarySet
<1>7. ASSUME NEW raw \in NameInput, NEW policy \in PolicyInput,
             SetSubdomainPolicy(s, raw, policy)
      PROVE  UNCHANGED nameVars /\ sender' = s
  BY <1>7 DEF SetSubdomainPolicy
<1>8. ASSUME ClearPrimary(s)
      PROVE  PrimaryCleared(s) /\ sender' = s
  BY <1>8 DEF ClearPrimary, PrimaryCleared
<1>9. ASSUME Priced(s)
      PROVE  (\E n \in Name, owner \in Addr : Added(n, owner)) /\ sender' = s
  <2>1. PICK raw \in NameInput, l \in LabelInput, funds \in FundsInput :
             RegisterSubdomain(s, raw, l, funds)
    BY <1>9 DEF Priced
  <2> DEFINE p == NormalizeName(raw)
             f == FullName(NormalizeLabel(l), p)
  <2>2. p \in Name /\ f \in Name /\ p = ParentOf(f)
    BY <2>1, NormalizeNameType, LabelType, FullNameType, RegistryAssumption
       DEF RegisterSubdomain
  <2>3. MintRecord(f, s, p) /\ primary' = primary /\ sender' = s
    BY <2>1 DEF RegisterSubdomain
  <2> HIDE DEF f, p
  <2>4. Added(f, s)
    BY <1>0, <2>2, <2>3, AddedByMint
  <2> QED BY <1>0, <2>2, <2>3, <2>4
<1>10. ASSUME HandleName(s)
       PROVE  NameStep(s) /\ sender' = s
  BY <1>2, <1>3, <1>4, <1>5, <1>6, <1>7, <1>10 DEF HandleName, NameStep
<1> QED BY <1>1, <1>8, <1>9, <1>10 DEF Unpriced, NameStep

\* What a step of the registry, or of a system the registry is part of, does to
\* the tables: nothing, or one of the six on behalf of the message's sender.
TableStep == UNCHANGED nameVars \/ \E s \in Addr : NameStep(s) /\ sender' = s

\* The registry by itself takes no other step.
LEMMA RegistrySteps ==
    ASSUME TypeOK, [Next]_vars
    PROVE  TableStep
<1>1. ASSUME NEW s \in Sender, Unpriced(s) \/ Priced(s)
      PROVE  TableStep
  BY <1>1, NameSteps, RegistryAssumption DEF TableStep
<1>2. CASE UNCHANGED vars
  BY <1>2 DEF TableStep, vars, registryVars
<1> QED BY <1>1, <1>2 DEF Next

-----------------------------------------------------------------------------
(* The tables agree.                                                       *)

\* The invariant carried through the proofs.  OwnerIndexExact, PrimaryOwned
\* and ParentRecorded are inductive together with the types alone.
TablesAgree == OwnerIndexExact /\ PrimaryOwned /\ ParentRecorded

\* The tables agree after a name was added to them.
LEMMA AddedAgrees ==
    ASSUME TypeOK, TablesAgree, NEW n \in Name, NEW owner \in Addr, Added(n, owner)
    PROVE  TablesAgree'
<1> DEFINE record == [owner |-> owner, parent |-> ParentOf(n)]
<1>1. /\ DOMAIN names' = DOMAIN names \cup {n}
      /\ names'[n] = record
      /\ \A m \in DOMAIN names : names'[m] = names[m]
  BY DEF Added, Save
<1>2. OwnerIndexExact'
  BY <1>1 DEF TablesAgree, OwnerIndexExact, Added
<1>3. PrimaryOwned'
  BY <1>1 DEF TablesAgree, PrimaryOwned, Added
<1>4. ParentRecorded'
  BY <1>1 DEF TablesAgree, ParentRecorded
<1> QED BY <1>2, <1>3, <1>4 DEF TablesAgree

\* What is left of PRIMARY when `n` leaves `a` no longer points to it.
LEMMA PrimaryDropped ==
    ASSUME TypeOK, TablesAgree, NEW n \in DOMAIN names,
           DropPrimary(names[n].owner, n)
    PROVE  /\ DOMAIN primary' \subseteq DOMAIN primary
           /\ \A b \in DOMAIN primary' : primary'[b] = primary[b] /\ primary[b] # n
<1> DEFINE a == names[n].owner
<1>1. \A b \in DOMAIN primary : primary[b] = n => b = a
  BY DEF TablesAgree, PrimaryOwned
<1>2. CASE MayLoad(primary, a) = n
  <2>1. primary' = Delete(primary, a)
    BY <1>2 DEF DropPrimary
  <2> QED BY <1>1, <2>1 DEF Delete
<1>3. CASE MayLoad(primary, a) # n
  <2>1. primary' = primary
    BY <1>3 DEF DropPrimary
  <2>2. a \in DOMAIN primary => primary[a] # n
    BY <1>3 DEF MayLoad
  <2> QED BY <1>1, <2>1, <2>2
<1> QED BY <1>2, <1>3

\* They agree after a name was handed on.
LEMMA HandedAgrees ==
    ASSUME TypeOK, TablesAgree, NEW n \in DOMAIN names, NEW to \in Addr, Handed(n, to)
    PROVE  TablesAgree'
<1>0. names[n] \in NameRecord
  BY DEF TypeOK
<1>1. /\ DOMAIN names' = DOMAIN names
      /\ names'[n].owner = to /\ names'[n].parent = names[n].parent
      /\ \A m \in DOMAIN names \ {n} : names'[m] = names[m]
  BY <1>0 DEF Handed, Save, Delete, NameRecord
<1>2. OwnerIndexExact'
  BY <1>1 DEF TablesAgree, OwnerIndexExact, Handed
<1>3. PrimaryOwned'
  <2>1. /\ DOMAIN primary' \subseteq DOMAIN primary
        /\ \A b \in DOMAIN primary' : primary'[b] = primary[b] /\ primary[b] # n
    BY PrimaryDropped DEF Handed
  <2> QED BY <1>1, <2>1 DEF TablesAgree, PrimaryOwned
<1>4. ParentRecorded'
  BY <1>1 DEF TablesAgree, ParentRecorded
<1> QED BY <1>2, <1>3, <1>4 DEF TablesAgree

\* They agree after a name was burnt.
LEMMA DroppedAgrees ==
    ASSUME TypeOK, TablesAgree, NEW n \in DOMAIN names, Dropped(n)
    PROVE  TablesAgree'
<1>1. /\ DOMAIN names' = DOMAIN names \ {n}
      /\ \A m \in DOMAIN names' : names'[m] = names[m]
  BY DEF Dropped, Delete
<1>2. OwnerIndexExact'
  BY <1>1 DEF TablesAgree, OwnerIndexExact, Dropped
<1>3. PrimaryOwned'
  <2>1. /\ DOMAIN primary' \subseteq DOMAIN primary
        /\ \A b \in DOMAIN primary' : primary'[b] = primary[b] /\ primary[b] # n
    BY PrimaryDropped DEF Dropped
  <2> QED BY <1>1, <2>1 DEF TablesAgree, PrimaryOwned
<1>4. ParentRecorded'
  BY <1>1 DEF TablesAgree, ParentRecorded
<1> QED BY <1>2, <1>3, <1>4 DEF TablesAgree

\* They agree after a primary name was set or cleared.
LEMMA PrimaryAgrees ==
    ASSUME TypeOK, TablesAgree, NEW s \in Addr,
           PrimaryCleared(s) \/ \E n \in DOMAIN names : PrimarySet(s, n)
    PROVE  TablesAgree'
<1>1. OwnerIndexExact' /\ ParentRecorded'
  BY DEF TablesAgree, OwnerIndexExact, ParentRecorded, PrimarySet, PrimaryCleared
<1>2. PrimaryOwned'
  <2>1. CASE PrimaryCleared(s)
    BY <2>1 DEF PrimaryCleared, TablesAgree, PrimaryOwned, Delete
  <2>2. ASSUME NEW n \in DOMAIN names, PrimarySet(s, n)
        PROVE  PrimaryOwned'
    BY <2>2 DEF PrimarySet, TablesAgree, PrimaryOwned, Save
  <2> QED BY <2>1, <2>2
<1> QED BY <1>1, <1>2 DEF TablesAgree

\* No step makes them contradict one another.
LEMMA TablesStayAgreed ==
    ASSUME TypeOK, TablesAgree, TableStep
    PROVE  TablesAgree'
<1>1. ASSUME UNCHANGED nameVars
      PROVE  TablesAgree'
  BY <1>1 DEF nameVars, TablesAgree, OwnerIndexExact, PrimaryOwned, ParentRecorded
<1>2. ASSUME NEW s \in Addr, NameStep(s)
      PROVE  TablesAgree'
  BY <1>1, <1>2, AddedAgrees, HandedAgrees, DroppedAgrees, PrimaryAgrees DEF NameStep
<1> QED BY <1>1, <1>2 DEF TableStep

\* The tables are empty at first.
LEMMA TablesAgreeInitially == Init => TablesAgree
  BY DEF Init, TablesAgree, OwnerIndexExact, PrimaryOwned, ParentRecorded

\* OwnerOf, NamesByOwner and PrimaryOf never contradict one another, and a
\* record's parent is the one its name spells out.
THEOREM TablesAlwaysAgree == Spec => [](OwnerIndexExact /\ PrimaryOwned /\ ParentRecorded)
<1>1. TypeOK /\ TablesAgree /\ [Next]_vars => TablesAgree'
  BY RegistrySteps, TablesStayAgreed
<1>2. TablesAgree <=> OwnerIndexExact /\ PrimaryOwned /\ ParentRecorded
  BY DEF TablesAgree
<1> QED BY <1>1, <1>2, TablesAgreeInitially, TypeCorrect, PTL DEF Spec

\* A reverse lookup never leads to a name that is gone or somebody else's.
THEOREM PrimaryAlwaysOwned == Spec => []PrimaryOwned
  BY TablesAlwaysAgree, PTL

\* The parent kept in a record is always the one its name spells out.
THEOREM ParentAlwaysRecorded == Spec => []ParentRecorded
  BY TablesAlwaysAgree, PTL

\* OwnershipAuthority, for one step
OwnersKeep == \A n \in DOMAIN names :
                 (n \notin DOMAIN names' \/ names'[n].owner # names[n].owner)
                 => sender' \in {names[n].owner, operator["marketplace"]}

\* Only an owner or the marketplace operator has a step that takes a name away.
LEMMA OwnersAlwaysKeep ==
    ASSUME TableStep
    PROVE  OwnersKeep
<1>1. ASSUME UNCHANGED names
      PROVE  OwnersKeep
  BY <1>1 DEF OwnersKeep
<1>2. ASSUME NEW n \in Name, NEW owner \in Addr, Added(n, owner)
      PROVE  OwnersKeep
  BY <1>2 DEF Added, Save, OwnersKeep
<1>3. ASSUME NEW n \in DOMAIN names, NEW to \in Addr, Handed(n, to) \/ Dropped(n),
             sender' \in {names[n].owner, operator["marketplace"]}
      PROVE  OwnersKeep
  <2>1. \A m \in DOMAIN names \ {n} : m \in DOMAIN names' /\ names'[m] = names[m]
    BY <1>3 DEF Handed, Dropped, Save, Delete
  <2> QED BY <1>3, <2>1 DEF OwnersKeep
<1>4. ASSUME NEW s \in Addr, NameStep(s), sender' = s
      PROVE  OwnersKeep
  BY <1>1, <1>2, <1>3, <1>4 DEF NameStep, nameVars, PrimarySet, PrimaryCleared
<1> QED BY <1>1, <1>4 DEF TableStep, nameVars

\* A name leaves its owner only in a message of that owner or of the account
\* that is the marketplace operator at that moment.
THEOREM OnlyOwnerOrMarketplace == Spec => OwnershipAuthority
<1>1. TypeOK /\ [Next]_vars => OwnersKeep
  BY RegistrySteps, OwnersAlwaysKeep
<1> QED BY <1>1, TypeCorrect, PTL DEF Spec, OwnershipAuthority, OwnersKeep

-----------------------------------------------------------------------------
(* Administration.                                                         *)

\* Messages about names leave the administration alone.
LEMMA NamesLeaveAdmin ==
    ASSUME NEW s, HandleName(s) \/ ClearPrimary(s) \/ Priced(s)
    PROVE  UNCHANGED <<adminVars, configVars>>
<1>1. CASE HandleName(s)
  BY <1>1 DEF HandleName, Mint, MintSubdomain, Transfer, Burn, SetPrimary,
              SetSubdomainPolicy
<1>2. CASE ClearPrimary(s)
  BY <1>2 DEF ClearPrimary
<1>3. CASE Priced(s)
  BY <1>3 DEF Priced, RegisterSubdomain
<1> QED BY <1>1, <1>2, <1>3

\* The admin's powers change hands only by nomination and acceptance, and are
\* exercised only by the admin in office.
THEOREM HandoverByConsent == Spec => AdminAuthority
<1> DEFINE A ==
      /\ admin' # admin =>
            /\ admin' = pendingAdmin /\ sender' = admin' /\ pendingAdmin' = None
      /\ (pendingAdmin' # pendingAdmin /\ admin' = admin) =>
            sender' = admin \/ (sender' = pendingAdmin /\ pendingAdmin' = None)
      /\ <<operator, royalty>>' # <<operator, royalty>> => sender' = admin
<1>1. [Next]_vars => [A]_vars
  <2> SUFFICES ASSUME NEW s \in Sender, Unpriced(s) \/ Priced(s)
               PROVE  A
    BY DEF Next
  <2>1. CASE HandleName(s) \/ ClearPrimary(s) \/ Priced(s)
    BY <2>1, NamesLeaveAdmin DEF adminVars, configVars
  <2>2. CASE AcceptAdmin(s)
    BY <2>2 DEF AcceptAdmin, configVars
  <2>3. ASSUME NEW a \in AdminInput, TransferAdmin(s, a)
        PROVE  A
    BY <2>3 DEF TransferAdmin, configVars
  <2>4. ASSUME NEW o \in OperatorInput, SetOperator(s, o[1], o[2])
        PROVE  A
    BY <2>4 DEF SetOperator, adminVars
  <2>5. ASSUME NEW r \in RoyaltyInput, SetRoyalty(s, r[1], r[2])
        PROVE  A
    BY <2>5 DEF SetRoyalty, adminVars
  <2> HIDE DEF A
  <2> QED BY <2>1, <2>2, <2>3, <2>4, <2>5 DEF Unpriced, Administer
<1> QED BY <1>1, PTL DEF Spec, AdminAuthority

-----------------------------------------------------------------------------
(* Who may issue a name.                                                   *)

\* Coins that pass through an account leave no trace in it.
LEMMA PassThrough ==
    ASSUME NEW bal \in [Addr -> Coins], NEW from \in Addr, NEW via \in Addr,
           NEW to \in Addr, NEW coins \in Coins
    PROVE  Moved(Moved(bal, from, via, coins), via, to, coins) = Moved(bal, from, to, coins)
<1> DEFINE b1 == Debited(bal, from, coins)
           b2 == Credited(b1, via, coins)
           b3 == Debited(b2, via, coins)
           out(b, a) == [d \in Denom |-> b[a][d] - coins[d]]
           in(b, a)  == [d \in Denom |-> b[a][d] + coins[d]]
<1>1. b1 \in [Addr -> [Denom -> Int]]
  BY DEF Debited, Coins
<1>2. b3 = b1
  <2> HIDE DEF b1
  <2>1. b2 = [b1 EXCEPT ![via] = in(b1, via)]
    BY DEF Credited
  <2>2. b2[via] = in(b1, via) /\ b2 \in [Addr -> [Denom -> Int]]
    BY <1>1, <2>1 DEF Coins
  <2>3. b3 = [b2 EXCEPT ![via] = out(b2, via)]
    BY DEF Debited
  <2>4. out(b2, via) = b1[via]
    BY <1>1, <2>2 DEF Coins
  <2> QED BY <1>1, <2>1, <2>3, <2>4
<1> QED BY <1>2 DEF Moved

\* An exact payment is the one coin asked for.
LEMMA ExactPaymentIsOneCoin ==
    ASSUME NEW funds \in Coins, NEW denom \in Denom, NEW amount \in Nat,
           ExpectExactPayment(funds, denom, amount)
    PROVE  funds = OneCoin(denom, amount) /\ OneCoin(denom, amount) \in Coins
  BY DEF ExpectExactPayment, OneCoin, Coins

\* Minting adds the name it is given and no other.
LEMMA MintAddsOne ==
    ASSUME NEW n, NEW owner, NEW parent, MintRecord(n, owner, parent)
    PROVE  /\ DOMAIN names' \ DOMAIN names = {n}
           /\ names'[n].owner = owner
  BY DEF MintRecord, Write, StoreName, Stored, Save

\* IssuanceAuthority, for one step and one new name.
Issued(n) ==
    LET p == ParentOf(n)
        issuers == {operator["registrar"], operator["tldManager"]}
    IN  \/ p = None /\ sender' \in issuers \cup {admin}
        \/ p \in DOMAIN names /\ sender' \in issuers \cup {names[p].owner}
        \/ OpenRegistration(sender', n, p)

\* Mint issues a name by right.
LEMMA MintIssues ==
    ASSUME NEW s, NEW raw, NEW owner, Mint(s, raw, owner),
           NEW n \in DOMAIN names' \ DOMAIN names
    PROVE  Issued(n)
<1>1. n = NormalizeName(raw)
  BY MintAddsOne DEF Mint
<1> QED BY <1>1 DEF Mint, Issued, IsOperator

\* So does MintSubdomain.
LEMMA MintSubdomainIssues ==
    ASSUME TypeOK, NEW s, NEW raw, NEW label \in Spelling, NEW owner,
           MintSubdomain(s, raw, label, owner),
           NEW n \in DOMAIN names' \ DOMAIN names
    PROVE  Issued(n)
<1> DEFINE p == NormalizeName(raw)
           l == NormalizeLabel(label)
<1>1. n = FullName(l, p) /\ p \in DOMAIN names /\ l # Invalid
  BY MintAddsOne DEF MintSubdomain
<1>2. p \in Name /\ l \in Label
  BY <1>1, LabelType DEF TypeOK
<1>3. ParentOf(n) = p
  <2> HIDE DEF p, l
  <2> QED BY <1>1, <1>2, FullNameType
<1> QED BY <1>1, <1>3 DEF MintSubdomain, Issued, IsOperator

\* An open registration keeps to the policy, and its fee goes straight through the
\* contract.
LEMMA RegistrationIssues ==
    ASSUME TypeOK, NEW s \in Addr, NEW raw, NEW label \in Spelling, NEW funds \in Coins,
           RegisterSubdomain(s, raw, label, funds),
           NEW n \in DOMAIN names' \ DOMAIN names
    PROVE  Issued(n)
<1> DEFINE p == NormalizeName(raw)
           l == NormalizeLabel(label)
           policy == subdomainPolicies[p]
           fee == OneCoin(policy.denom, policy.price)
<1>1. p \in DOMAIN subdomainPolicies /\ l # Invalid /\ sender' = s
  BY DEF RegisterSubdomain
<1>2. p \in Name /\ l \in Label /\ policy \in SubdomainPolicy
  BY <1>1, LabelType DEF TypeOK
<1>3. n = FullName(l, p) /\ names'[n].owner = s
  BY MintAddsOne DEF RegisterSubdomain
<1>4. ParentOf(n) = p
  <2> HIDE DEF p, l
  <2> QED BY <1>2, <1>3, FullNameType
<1>5. policy.denom \in Denom /\ policy.price \in Nat /\ policy.recipient \in Addr
  <2>1. policy.recipient # Invalid
    BY DEF RegisterSubdomain
  <2> HIDE DEF policy
  <2> QED BY <1>2, <2>1 DEF SubdomainPolicy
<1>6. funds = fee /\ fee \in Coins
  <2>1. ExpectExactPayment(funds, policy.denom, policy.price)
    BY DEF RegisterSubdomain
  <2> HIDE DEF policy
  <2> QED BY <1>5, <2>1, ExactPaymentIsOneCoin
<1>7. balance' = Moved(balance, s, policy.recipient, fee)
  <2>1. balance' = Moved(Moved(balance, s, RegistryAddr, funds), RegistryAddr,
                         policy.recipient, fee)
    BY DEF RegisterSubdomain
  <2>2. balance \in [Addr -> Coins]
    BY DEF TypeOK
  <2> HIDE DEF policy, fee
  <2> QED BY <1>5, <1>6, <2>1, <2>2, PassThrough, RegistryAssumption
<1>8. /\ subdomainMints' = Save(subdomainMints, <<p, s>>, MintCount(p, s) + 1)
      /\ MintCount(p, s) < policy.maxPerAddress
      /\ policy.enabled /\ policy.registrationOpen
  BY DEF RegisterSubdomain
<1>9. /\ MintCount(p, s) \in Nat
      /\ policy.maxPerAddress \in Nat
  <2>1. MintCount(p, s) \in Nat
    BY DEF MintCount, TypeOK
  <2> HIDE DEF policy, p
  <2> QED BY <1>2, <2>1 DEF SubdomainPolicy
<1>10. /\ <<p, s>> \in DOMAIN subdomainMints'
       /\ subdomainMints'[<<p, s>>] = MintCount(p, s) + 1
  <2> HIDE DEF p
  <2> QED BY <1>8 DEF Save
<1>11. subdomainMints'[<<p, s>>] <= policy.maxPerAddress
  <2> HIDE DEF p, policy
  <2> QED BY <1>8, <1>9, <1>10
<1>12. OpenRegistration(s, n, p)
  <2> HIDE DEF p, l
  <2> QED BY <1>1, <1>3, <1>7, <1>8, <1>10, <1>11 DEF OpenRegistration
<1> QED
  <2> HIDE DEF p
  <2> QED BY <1>1, <1>4, <1>12 DEF Issued

\* No other message adds a name to the table.
LEMMA OthersIssueNothing ==
    ASSUME NEW s, NEW raw,
           \/ Administer(s) \/ ClearPrimary(s)
           \/ \E to : Transfer(s, raw, to)
           \/ Burn(s, raw) \/ SetPrimary(s, raw)
           \/ \E policy : SetSubdomainPolicy(s, raw, policy)
    PROVE  DOMAIN names' \subseteq DOMAIN names
<1>1. CASE Administer(s)
  BY <1>1 DEF Administer, TransferAdmin, AcceptAdmin, SetOperator, SetRoyalty, nameVars
<1>2. CASE ClearPrimary(s) \/ SetPrimary(s, raw)
  BY <1>2 DEF ClearPrimary, SetPrimary
<1>3. ASSUME NEW policy, SetSubdomainPolicy(s, raw, policy)
      PROVE  DOMAIN names' \subseteq DOMAIN names
  BY <1>3 DEF SetSubdomainPolicy, nameVars
<1>4. CASE Burn(s, raw)
  BY <1>4 DEF Burn, AssertOwnerOrMarketplace, Write, RemoveName, Stored, Delete
<1>5. ASSUME NEW to, Transfer(s, raw, to)
      PROVE  DOMAIN names' \subseteq DOMAIN names
  <2> DEFINE n == NormalizeName(raw)
             record == names[n]
             moved == [record EXCEPT !.owner = to]
  <2>1. n \in DOMAIN names /\ names' = Save(Delete(names, n), n, moved)
    BY <1>5 DEF Transfer, AssertOwnerOrMarketplace, Write, StoreName, RemoveName, Stored
  <2> HIDE DEF n, moved
  <2> QED BY <2>1 DEF Save, Delete
<1> QED BY <1>1, <1>2, <1>3, <1>4, <1>5

\* IssuanceAuthority, for one step
IssuesRight == \A n \in DOMAIN names' \ DOMAIN names : Issued(n)

\* The registry's messages issue names to those entitled to them only.
LEMMA AlwaysIssuesRight ==
    ASSUME TypeOK, [Next]_vars
    PROVE  IssuesRight
<1> SUFFICES ASSUME NEW n \in DOMAIN names' \ DOMAIN names
             PROVE  Issued(n)
  BY DEF IssuesRight
<1>1. PICK s \in Sender : Unpriced(s) \/ Priced(s)
  BY DEF Next, vars, registryVars, nameVars
<1>2. CASE Priced(s)
  BY <1>2, RegistrationIssues, RegistryAssumption DEF Priced
<1>3. CASE Administer(s) \/ ClearPrimary(s)
  BY <1>3, OthersIssueNothing
<1>4. CASE HandleName(s)
  <2>1. PICK raw \in NameInput :
           \/ \E a \in AddrInput : Mint(s, raw, a)
           \/ \E l \in LabelInput, a \in AddrInput : MintSubdomain(s, raw, l, a)
           \/ \E a \in AddrInput : Transfer(s, raw, a)
           \/ Burn(s, raw)
           \/ SetPrimary(s, raw)
           \/ \E policy \in PolicyInput : SetSubdomainPolicy(s, raw, policy)
    BY <1>4 DEF HandleName
  <2>2. CASE \E a \in AddrInput : Mint(s, raw, a)
    BY <2>2, MintIssues
  <2>3. CASE \E l \in LabelInput, a \in AddrInput : MintSubdomain(s, raw, l, a)
    BY <2>3, MintSubdomainIssues, RegistryAssumption
  <2> QED BY <2>1, <2>2, <2>3, OthersIssueNothing
<1> QED BY <1>1, <1>2, <1>3, <1>4 DEF Unpriced

\* IssuesRight is what IssuanceAuthority says of a step.
LEMMA IssuesRightMeans ==
    [IssuesRight]_vars <=>
        [\A n \in DOMAIN names' \ DOMAIN names :
            LET p == ParentOf(n)
                issuers == {operator["registrar"], operator["tldManager"]}
            IN  \/ p = None /\ sender' \in issuers \cup {admin}
                \/ p \in DOMAIN names /\ sender' \in issuers \cup {names[p].owner}
                \/ OpenRegistration(sender', n, p)]_vars
  BY DEF IssuesRight, Issued

\* A name is issued only by those entitled to, and a fee for it goes from the
\* registrant to the policy's recipient to the last coin.
THEOREM IssuedByRight == Spec => IssuanceAuthority
<1>1. TypeOK /\ [Next]_vars => [IssuesRight]_vars
  BY AlwaysIssuesRight
<1> QED BY <1>1, IssuesRightMeans, TypeCorrect, PTL DEF Spec, IssuanceAuthority

-----------------------------------------------------------------------------
(* The registry implements the ledger.                                     *)

\* What an account holds, read off NAMES instead of OWNER_INDEX.
Holds(a) == {n \in DOMAIN names : names[n].owner = a}

\* NamesByOwner is exact.
LEMMA ListingExact ==
    ASSUME OwnerIndexExact, NEW a
    PROVE  NamesByOwner(a) = Holds(a)
<1>1. ASSUME NEW n \in NamesByOwner(a)
      PROVE  n \in Holds(a)
  <2>1. PICK x \in ownerIndex : x[1] = a /\ n = x[2]
    BY DEF NamesByOwner
  <2>2. PICK m \in DOMAIN names : x = <<names[m].owner, m>>
    BY DEF OwnerIndexExact
  <2> QED BY <2>1, <2>2 DEF Holds
<1>2. ASSUME NEW n \in Holds(a)
      PROVE  n \in NamesByOwner(a)
  <2> DEFINE x == <<names[n].owner, n>>
  <2>1. x \in ownerIndex /\ x[1] = a /\ x[2] = n
    BY DEF OwnerIndexExact, Holds
  <2> HIDE DEF x
  <2> QED BY <2>1 DEF NamesByOwner
<1> QED BY <1>1, <1>2

\* The same after a step.
LEMMA ListingExactNext ==
    ASSUME OwnerIndexExact', NEW a
    PROVE  NamesByOwner(a)' = {n \in DOMAIN names' : names'[n].owner = a}
<1>1. ASSUME NEW n \in NamesByOwner(a)'
      PROVE  n \in DOMAIN names' /\ names'[n].owner = a
  <2>1. PICK x \in ownerIndex' : x[1] = a /\ n = x[2]
    BY DEF NamesByOwner
  <2>2. PICK m \in DOMAIN names' : x = <<names'[m].owner, m>>
    BY DEF OwnerIndexExact
  <2> QED BY <2>1, <2>2
<1>2. ASSUME NEW n \in DOMAIN names', names'[n].owner = a
      PROVE  n \in NamesByOwner(a)'
  <2> DEFINE x == <<names'[n].owner, n>>
  <2>1. x \in ownerIndex' /\ x[1] = a /\ x[2] = n
    BY <1>2 DEF OwnerIndexExact
  <2> HIDE DEF x
  <2> QED BY <2>1 DEF NamesByOwner
<1> QED BY <1>1, <1>2

-----------------------------------------------------------------------------
\* What the ledger sees
Hold == [a \in Addr |-> NamesByOwner(a)]
Prim == [a \in Addr |-> PrimaryOf(a)]

\* Leaving `a`'s hands, `n` leaves its primary slot as the ledger demands.
LEMMA DropPrimaryMaps ==
    ASSUME TypeOK, NEW a \in Addr, NEW n \in Name, DropPrimary(a, n)
    PROVE  Prim' = IF Prim[a] = n THEN [Prim EXCEPT ![a] = None] ELSE Prim
<1>1. Prim' = [b \in Addr |-> IF b \in DOMAIN primary' THEN primary'[b] ELSE None]
  BY DEF Prim, PrimaryOf, MayLoad
<1>2. Prim = [b \in Addr |-> IF b \in DOMAIN primary THEN primary[b] ELSE None]
  BY DEF Prim, PrimaryOf, MayLoad
<1>3. Prim[a] = MayLoad(primary, a)
  BY <1>2 DEF MayLoad
<1>4. CASE Prim[a] = n
  <2>1. primary' = Delete(primary, a)
    BY <1>3, <1>4 DEF DropPrimary
  <2> QED BY <1>1, <1>2, <1>4, <2>1 DEF Delete
<1>5. CASE Prim[a] # n
  <2>1. primary' = primary
    BY <1>3, <1>5 DEF DropPrimary
  <2> QED BY <1>1, <1>2, <1>5, <2>1
<1> QED BY <1>4, <1>5

\* A step that leaves the tables' contents alone leaves the ledger alone.
LEMMA SameTables ==
    ASSUME UNCHANGED <<names, ownerIndex>>
    PROVE  Hold' = Hold
  BY DEF Hold, NamesByOwner

\* Adding a name to the tables is Issue in the ledger.
LEMMA AddedMaps ==
    ASSUME TypeOK, TablesAgree, TablesAgree',
           NEW n \in Name, NEW owner \in Addr, Added(n, owner)
    PROVE  Ledger!Issue(owner)
<1>1. /\ DOMAIN names' = DOMAIN names \cup {n}
      /\ names'[n].owner = owner
      /\ \A m \in DOMAIN names : names'[m] = names[m]
      /\ n \notin DOMAIN names
  BY DEF Added, Save
<1>2. \A a \in Addr : Hold[a] = Holds(a)
  BY ListingExact DEF Hold, TablesAgree
<1>3. \A a \in Addr : Hold'[a] = {m \in DOMAIN names' : names'[m].owner = a}
  BY ListingExactNext DEF Hold, TablesAgree
<1>4. \A a \in Addr : Hold'[a] = IF a = owner THEN Hold[a] \cup {n} ELSE Hold[a]
  <2> SUFFICES ASSUME NEW a \in Addr
               PROVE  Hold'[a] = IF a = owner THEN Hold[a] \cup {n} ELSE Hold[a]
    OBVIOUS
  <2>1. \A m : m \in Hold[a] <=> m \in DOMAIN names /\ names[m].owner = a
    BY <1>2 DEF Holds
  <2>2. \A m : m \in Hold'[a] <=> m \in DOMAIN names' /\ names'[m].owner = a
    BY <1>3
  <2>3. CASE a = owner
    <3>1. \A m : m \in Hold'[a] <=> m \in Hold[a] \/ m = n
      BY <1>1, <2>1, <2>2, <2>3
    <3> QED BY <2>3, <3>1
  <2>4. CASE a # owner
    <3>1. \A m : m \in Hold'[a] <=> m \in Hold[a]
      BY <1>1, <2>1, <2>2, <2>4
    <3> QED BY <2>4, <3>1
  <2> QED BY <2>3, <2>4
<1>5. Hold' = [Hold EXCEPT ![owner] = @ \cup {n}]
  BY <1>4 DEF Hold
<1>6. n \in Hold'[owner] \ UNION {Hold[a] : a \in Addr}
  <2>1. \A a \in Addr : n \notin Hold[a]
    BY <1>1, <1>2 DEF Holds
  <2>2. n \in Hold'[owner]
    BY <1>4
  <2> QED BY <2>1, <2>2
<1>7. Prim' = Prim
  BY DEF Added, Prim, PrimaryOf, MayLoad
<1> QED BY <1>5, <1>6, <1>7 DEF Ledger!Issue, Ledger!Held, Hold, Prim

\* Handing a name on is Move.
LEMMA HandedMaps ==
    ASSUME TypeOK, TablesAgree, TablesAgree',
           NEW n \in DOMAIN names, NEW to \in Addr, Handed(n, to)
    PROVE  \E a \in Addr : n \in Hold[a] /\ Ledger!Move(a, to, n)
<1> DEFINE from == names[n].owner
<1>0. n \in Name /\ from \in Addr /\ names[n] \in NameRecord
  BY DEF TypeOK, NameRecord
<1>1. /\ DOMAIN names' = DOMAIN names
      /\ names'[n].owner = to
      /\ \A m \in DOMAIN names \ {n} : names'[m] = names[m]
  BY <1>0 DEF Handed, Save, Delete, NameRecord
<1>2. \A a \in Addr : Hold[a] = Holds(a)
  BY ListingExact DEF Hold, TablesAgree
<1>3. \A a \in Addr : Hold'[a] = {m \in DOMAIN names' : names'[m].owner = a}
  BY ListingExactNext DEF Hold, TablesAgree
<1>4. \A a \in Addr : Hold'[a] = IF a = to THEN Hold[a] \cup {n} ELSE Hold[a] \ {n}
  <2> SUFFICES ASSUME NEW a \in Addr
               PROVE  Hold'[a] = IF a = to THEN Hold[a] \cup {n} ELSE Hold[a] \ {n}
    OBVIOUS
  <2>1. \A m : m \in Hold[a] <=> m \in DOMAIN names /\ names[m].owner = a
    BY <1>2 DEF Holds
  <2>2. \A m : m \in Hold'[a] <=> m \in DOMAIN names' /\ names'[m].owner = a
    BY <1>3
  <2>3. CASE a = to
    <3>1. \A m : m \in Hold'[a] <=> m \in Hold[a] \/ m = n
      BY <1>1, <2>1, <2>2, <2>3
    <3> QED BY <2>3, <3>1
  <2>4. CASE a # to
    <3>1. \A m : m \in Hold'[a] <=> m \in Hold[a] /\ m # n
      BY <1>1, <2>1, <2>2, <2>4
    <3> QED BY <2>4, <3>1
  <2> QED BY <2>3, <2>4
<1>5. Hold' = [a \in Addr |-> IF a = to THEN Hold[a] \cup {n} ELSE Hold[a] \ {n}]
  BY <1>4 DEF Hold
<1>6. n \in Hold[from]
  BY <1>0, <1>2 DEF Holds
<1>7. Prim' = IF Prim[from] = n THEN [Prim EXCEPT ![from] = None] ELSE Prim
  BY <1>0, DropPrimaryMaps DEF Handed
<1>8. Ledger!Move(from, to, n)
  BY <1>5, <1>7 DEF Ledger!Move, Ledger!Without, Hold, Prim
<1> QED BY <1>0, <1>6, <1>8

\* Burning a name is Retire.
LEMMA DroppedMaps ==
    ASSUME TypeOK, TablesAgree, TablesAgree', NEW n \in DOMAIN names, Dropped(n)
    PROVE  \E a \in Addr : n \in Hold[a] /\ Ledger!Retire(a, n)
<1> DEFINE from == names[n].owner
<1>0. n \in Name /\ from \in Addr
  BY DEF TypeOK, NameRecord
<1>1. /\ DOMAIN names' = DOMAIN names \ {n}
      /\ \A m \in DOMAIN names' : names'[m] = names[m]
  BY DEF Dropped, Delete
<1>2. \A a \in Addr : Hold[a] = Holds(a)
  BY ListingExact DEF Hold, TablesAgree
<1>3. \A a \in Addr : Hold'[a] = {m \in DOMAIN names' : names'[m].owner = a}
  BY ListingExactNext DEF Hold, TablesAgree
<1>4. \A a \in Addr : Hold'[a] = IF a = from THEN Hold[a] \ {n} ELSE Hold[a]
  <2> SUFFICES ASSUME NEW a \in Addr
               PROVE  Hold'[a] = IF a = from THEN Hold[a] \ {n} ELSE Hold[a]
    OBVIOUS
  <2>1. \A m : m \in Hold[a] <=> m \in DOMAIN names /\ names[m].owner = a
    BY <1>2 DEF Holds
  <2>2. \A m : m \in Hold'[a] <=> m \in DOMAIN names' /\ names'[m].owner = a
    BY <1>3
  <2>3. CASE a = from
    <3>1. \A m : m \in Hold'[a] <=> m \in Hold[a] /\ m # n
      BY <1>1, <2>1, <2>2, <2>3
    <3> QED BY <2>3, <3>1
  <2>4. CASE a # from
    <3>1. \A m : m \in Hold'[a] <=> m \in Hold[a]
      BY <1>1, <2>1, <2>2, <2>4
    <3> QED BY <2>4, <3>1
  <2> QED BY <2>3, <2>4
<1>5. Hold' = [Hold EXCEPT ![from] = @ \ {n}]
  BY <1>4 DEF Hold
<1>6. n \in Hold[from]
  BY <1>0, <1>2 DEF Holds
<1>7. Prim' = IF Prim[from] = n THEN [Prim EXCEPT ![from] = None] ELSE Prim
  BY <1>0, DropPrimaryMaps DEF Dropped
<1>8. Ledger!Retire(from, n)
  BY <1>5, <1>7 DEF Ledger!Retire, Ledger!Without, Hold, Prim
<1> QED BY <1>0, <1>6, <1>8

\* Setting a primary name is Choose.
LEMMA PrimarySetMaps ==
    ASSUME TypeOK, TablesAgree, NEW s \in Addr, NEW n \in DOMAIN names, PrimarySet(s, n)
    PROVE  n \in Hold[s] /\ Ledger!Choose(s, n)
<1>1. n \in Hold[s]
  BY ListingExact DEF Hold, Holds, PrimarySet, TablesAgree
<1>2. Prim' = [Prim EXCEPT ![s] = n]
  BY DEF PrimarySet, Prim, PrimaryOf, MayLoad, Save
<1>3. Hold' = Hold
  BY SameTables DEF PrimarySet
<1> QED BY <1>1, <1>2, <1>3 DEF Ledger!Choose, Hold, Prim

\* Clearing it is Forget.
LEMMA PrimaryClearedMaps ==
    ASSUME NEW s \in Addr, PrimaryCleared(s)
    PROVE  Ledger!Forget(s)
<1>1. Prim' = [Prim EXCEPT ![s] = None]
  BY DEF PrimaryCleared, Prim, PrimaryOf, MayLoad, Delete
<1>2. Hold' = Hold
  BY SameTables DEF PrimaryCleared
<1> QED BY <1>1, <1>2 DEF Ledger!Forget, Hold, Prim

\* It starts as an empty ledger.
LEMMA LedgerInitially == Init => Ledger!Init
  BY DEF Init, Ledger!Init, NamesByOwner, PrimaryOf, MayLoad

\* A step of the tables is a step of the ledger or leaves it alone.
LEMMA LedgerSteps ==
    TypeOK /\ TablesAgree /\ TableStep => [Ledger!Next]_(Ledger!ledgerVars)
<1> SUFFICES ASSUME TypeOK, TablesAgree, TableStep
             PROVE  Ledger!Next \/ (Hold' = Hold /\ Prim' = Prim)
  BY DEF Ledger!ledgerVars, Hold, Prim
<1>0. TablesAgree'
  BY TablesStayAgreed
<1>1. ASSUME UNCHANGED nameVars
      PROVE  Hold' = Hold /\ Prim' = Prim
  BY <1>1, SameTables DEF nameVars, Prim, PrimaryOf, MayLoad
<1>2. ASSUME NEW n \in Name, NEW owner \in Addr, Added(n, owner)
      PROVE  Ledger!Next
  BY <1>0, <1>2, AddedMaps DEF Ledger!Next
<1>3. ASSUME NEW n \in DOMAIN names, NEW to \in Addr, Handed(n, to)
      PROVE  Ledger!Next
  BY <1>0, <1>3, HandedMaps DEF Ledger!Next, Hold
<1>4. ASSUME NEW n \in DOMAIN names, Dropped(n)
      PROVE  Ledger!Next
  BY <1>0, <1>4, DroppedMaps DEF Ledger!Next, Hold
<1>5. ASSUME NEW s \in Addr, NEW n \in DOMAIN names, PrimarySet(s, n)
      PROVE  Ledger!Next
  BY <1>5, PrimarySetMaps DEF Ledger!Next, Hold
<1>6. ASSUME NEW s \in Addr, PrimaryCleared(s)
      PROVE  Ledger!Next
  BY <1>6, PrimaryClearedMaps DEF Ledger!Next
<1>7. ASSUME NEW s \in Addr, NameStep(s)
      PROVE  Ledger!Next \/ (Hold' = Hold /\ Prim' = Prim)
  BY <1>1, <1>2, <1>3, <1>4, <1>5, <1>6, <1>7 DEF NameStep
<1> QED BY <1>1, <1>7 DEF TableStep

\* Read through NamesByOwner and PrimaryOf, every behaviour of the registry is
\* a behaviour of the ledger.
THEOREM RegistryImplementsLedger == Spec => LedgerSpec
<1>1. TypeOK /\ [Next]_vars => TableStep
  BY RegistrySteps
<1>2. TablesAgree <=> OwnerIndexExact /\ PrimaryOwned /\ ParentRecorded
  BY DEF TablesAgree
<1> QED
  BY <1>1, <1>2, LedgerInitially, LedgerSteps, TypeCorrect, TablesAlwaysAgree, PTL
     DEF Spec, LedgerSpec, Ledger!Spec
=============================================================================
