------------------------------ MODULE Registry ------------------------------
(***************************************************************************)
(* contracts/registry: the source of truth for who owns which name.        *)
(*                                                                         *)
(* One action per message of RegistryExecuteMsg, each parameterised by the *)
(* info.sender `s` and by the message's fields as the client spelled them. *)
(* Actions leave the bank alone unless they say otherwise, so that another *)
(* contract's handler can send them as sub-messages; Next adds the rest.   *)
(*                                                                         *)
(* The NameRecord keeps owner and parent; minted_at is left out (nothing   *)
(* reads it), and so is the record's copy of its own key.                  *)
(***************************************************************************)
EXTENDS AtomNamesUtils

CONSTANTS
    RegistryAddr,      \* the contract's own account
    InstantiateMsgs,   \* the [admin, royaltyRecipient, royaltyBps] it may start with
    InitialBalance,
    Sender,            \* who sends messages
    NameInput,         \* the fields of their messages, one set per field
    LabelInput,
    AddrInput,
    AdminInput,
    OperatorInput,
    RoyaltyInput,
    PolicyInput,
    FundsInput

Kind == {"registrar", "tldManager", "marketplace"}

NameRecord == [owner : Addr, parent : Name \cup {None}]

\* recipient is stored as typed: RegisterSubdomain is where it is validated
SubdomainPolicy ==
    [enabled : BOOLEAN, registrationOpen : BOOLEAN, denom : Denom,
     price : Nat, recipient : Addr \cup {Invalid}, maxPerAddress : Nat]

ASSUME RegistryAssumption ==
    /\ RegistryAddr \in Addr
    /\ InstantiateMsgs \subseteq [admin : Addr, royaltyRecipient : Addr, royaltyBps : Nat]
    /\ InitialBalance \in [Addr -> Coins]
    /\ Sender \subseteq Addr
    /\ NameInput \subseteq Seq(Spelling) /\ LabelInput \subseteq Spelling
    /\ AddrInput \subseteq Addr /\ AdminInput \subseteq Addr
    /\ OperatorInput \subseteq Kind \X (Addr \cup {None})
    /\ RoyaltyInput \subseteq Addr \X Nat
    /\ PolicyInput \subseteq SubdomainPolicy \cup {None}
    /\ FundsInput \subseteq Coins

VARIABLES
    admin, pendingAdmin,     \* ADMIN, PENDING_ADMIN
    operator,                \* REGISTRAR, TLD_MANAGER and MARKETPLACE, by kind
    royalty,                 \* ROYALTY_RECIPIENT and ROYALTY_BPS
    names, ownerIndex,       \* NAMES and OWNER_INDEX (its keys)
    primary,                 \* PRIMARY
    subdomainPolicies,       \* SUBDOMAIN_POLICIES
    subdomainMints,          \* SUBDOMAIN_MINTS
    sender,                  \* info.sender of the last message executed
    balance                  \* the bank

adminVars  == <<admin, pendingAdmin>>
configVars == <<operator, royalty>>
nameVars   == <<names, ownerIndex, primary>>
subVars    == <<subdomainPolicies, subdomainMints>>
registryVars == <<adminVars, configVars, nameVars, subVars, sender>>
vars == <<registryVars, balance>>

\* instantiate
Init ==
    \E msg \in InstantiateMsgs :
        /\ msg.royaltyBps <= AllBps
        /\ admin = msg.admin
        /\ pendingAdmin = None
        /\ operator = [k \in Kind |-> None]
        /\ royalty = [recipient |-> msg.royaltyRecipient, bps |-> msg.royaltyBps]
        /\ names = <<>> /\ ownerIndex = {} /\ primary = <<>>
        /\ subdomainPolicies = <<>> /\ subdomainMints = <<>>
        /\ sender = None
        /\ balance = InitialBalance

-----------------------------------------------------------------------------
(* Helpers and queries.                                                    *)

\* Mutant of IsOperator: an operator that is not set is anybody.
IsOperatorOrUnset(kind, s) == operator[kind] \in {s, None}

IsOperator(kind, s) == operator[kind] = s

\* store_name and remove_name keep NAMES and OWNER_INDEX together.
StoreName(store, n, record) ==
    [names |-> Save(store.names, n, record),
     index |-> store.index \cup {<<record.owner, n>>}]

\* Mutant of RemoveName: leaves the OWNER_INDEX entry behind.
RemoveNameOnly(store, n, record) ==
    [names |-> Delete(store.names, n), index |-> store.index]

RemoveName(store, n, record) ==
    [names |-> Delete(store.names, n),
     index |-> store.index \ {<<record.owner, n>>}]

Stored == [names |-> names, index |-> ownerIndex]

Write(store) == names' = store.names /\ ownerIndex' = store.index

\* Mutants of MintRecord: no existence check; the parent is forgotten.
MintRecordOver(n, owner, parent) ==
    Write(StoreName(Stored, n, [owner |-> owner, parent |-> parent]))
MintRecordOrphan(n, owner, parent) ==
    /\ n \notin DOMAIN names
    /\ Write(StoreName(Stored, n, [owner |-> owner, parent |-> None]))

MintRecord(n, owner, parent) ==
    /\ n \notin DOMAIN names
    /\ Write(StoreName(Stored, n, [owner |-> owner, parent |-> parent]))

\* Mutant of AssertOwnerOrMarketplace: only asserts that the name exists.
AssertName(s, n) == n \in DOMAIN names

AssertOwnerOrMarketplace(s, n) ==
    /\ n \in DOMAIN names
    /\ names[n].owner = s \/ IsOperator("marketplace", s)

\* Mutant of DropPrimary: the primary name outlives the transfer.
KeepPrimary(a, n) == UNCHANGED primary

\* The primary name of `a` goes when it is the name `n` that leaves `a`.
DropPrimary(a, n) ==
    primary' = IF MayLoad(primary, a) = n THEN Delete(primary, a) ELSE primary

\* Queries.  NamesByOwner is the whole listing, before it is cut into pages;
\* OwnerOf and Exists are given a normalised name.
NamesByOwner(a) == {e[2] : e \in {x \in ownerIndex : x[1] = a}}
PrimaryOf(a) == MayLoad(primary, a)
OwnerOf(n) == IF n \in DOMAIN names THEN names[n].owner ELSE None
Exists(n) == n \in DOMAIN names
RoyaltyQuote(price) == CheckedBps(price, royalty.bps)

-----------------------------------------------------------------------------
(* Administration.                                                         *)

TransferAdmin(s, new) ==
    /\ s = admin
    /\ pendingAdmin' = new
    /\ sender' = s
    /\ UNCHANGED <<admin, configVars, nameVars, subVars>>

\* Mutant of AcceptAdmin: whoever sends it completes the handover.
AcceptAdminByAnyone(s) ==
    /\ pendingAdmin # None
    /\ admin' = pendingAdmin
    /\ pendingAdmin' = None
    /\ sender' = s
    /\ UNCHANGED <<configVars, nameVars, subVars>>

AcceptAdmin(s) ==
    /\ pendingAdmin # None
    /\ pendingAdmin = s
    /\ admin' = pendingAdmin
    /\ pendingAdmin' = None
    /\ sender' = s
    /\ UNCHANGED <<configVars, nameVars, subVars>>

SetOperator(s, kind, address) ==
    /\ s = admin
    /\ operator' = [operator EXCEPT ![kind] = address]
    /\ sender' = s
    /\ UNCHANGED <<adminVars, royalty, nameVars, subVars>>

\* Mutant of SetRoyalty: no upper bound.
SetRoyaltyUnbounded(s, recipient, bps) ==
    /\ s = admin
    /\ royalty' = [recipient |-> recipient, bps |-> bps]
    /\ sender' = s
    /\ UNCHANGED <<adminVars, operator, nameVars, subVars>>

SetRoyalty(s, recipient, bps) ==
    /\ s = admin
    /\ bps <= AllBps
    /\ royalty' = [recipient |-> recipient, bps |-> bps]
    /\ sender' = s
    /\ UNCHANGED <<adminVars, operator, nameVars, subVars>>

-----------------------------------------------------------------------------
(* Names.                                                                  *)

\* Only top-level names: the parent of a minted name is None.
Mint(s, rawName, owner) ==
    LET n == NormalizeName(rawName) IN
    /\ n # Invalid
    /\ s = admin \/ IsOperator("registrar", s) \/ IsOperator("tldManager", s)
    /\ ParentOf(n) = None
    /\ MintRecord(n, owner, None)
    /\ sender' = s
    /\ UNCHANGED <<adminVars, configVars, primary, subVars>>

MintSubdomain(s, rawParent, rawLabel, owner) ==
    LET p == NormalizeName(rawParent)
        l == NormalizeLabel(rawLabel)
    IN
    /\ p # Invalid /\ l # Invalid
    /\ p \in DOMAIN names
    /\ \/ names[p].owner = s
       \/ IsOperator("registrar", s)
       \/ IsOperator("tldManager", s)
    /\ MintRecord(FullName(l, p), owner, p)
    /\ sender' = s
    /\ UNCHANGED <<adminVars, configVars, primary, subVars>>

Transfer(s, rawName, to) ==
    LET n == NormalizeName(rawName) IN
    /\ n # Invalid
    /\ AssertOwnerOrMarketplace(s, n)
    /\ LET record == names[n] IN
       /\ Write(StoreName(RemoveName(Stored, n, record),
                          n, [record EXCEPT !.owner = to]))
       /\ DropPrimary(record.owner, n)
    /\ sender' = s
    /\ UNCHANGED <<adminVars, configVars, subVars>>

\* The policy and the mint counts of a burnt name stay behind.
Burn(s, rawName) ==
    LET n == NormalizeName(rawName) IN
    /\ n # Invalid
    /\ AssertOwnerOrMarketplace(s, n)
    /\ Write(RemoveName(Stored, n, names[n]))
    /\ DropPrimary(names[n].owner, n)
    /\ sender' = s
    /\ UNCHANGED <<adminVars, configVars, subVars>>

SetPrimary(s, rawName) ==
    LET n == NormalizeName(rawName) IN
    /\ n # Invalid
    /\ n \in DOMAIN names
    /\ names[n].owner = s
    /\ primary' = Save(primary, s, n)
    /\ sender' = s
    /\ UNCHANGED <<adminVars, configVars, names, ownerIndex, subVars>>

ClearPrimary(s) ==
    /\ primary' = Delete(primary, s)
    /\ sender' = s
    /\ UNCHANGED <<adminVars, configVars, names, ownerIndex, subVars>>

-----------------------------------------------------------------------------
(* Open registration under a parent.                                       *)

SetSubdomainPolicy(s, rawName, policy) ==
    LET n == NormalizeName(rawName) IN
    /\ n # Invalid
    /\ n \in DOMAIN names
    /\ names[n].owner = s
    /\ subdomainPolicies' = IF policy = None THEN Delete(subdomainPolicies, n)
                                             ELSE Save(subdomainPolicies, n, policy)
    /\ sender' = s
    /\ UNCHANGED <<adminVars, configVars, nameVars, subdomainMints>>

\* Names of `p` that `a` has registered so far
MintCount(p, a) ==
    IF <<p, a>> \in DOMAIN subdomainMints THEN subdomainMints[<<p, a>>] ELSE 0

\* The policy alone decides: the parent's own record is never loaded, and the
\* length of the new name is never checked.
RegisterSubdomain(s, rawParent, rawLabel, funds) ==
    LET p == NormalizeName(rawParent)
        l == NormalizeLabel(rawLabel)
    IN
    /\ p # Invalid /\ l # Invalid
    /\ p \in DOMAIN subdomainPolicies
    /\ LET policy == subdomainPolicies[p]
           fee    == OneCoin(policy.denom, policy.price)
           paid   == Moved(balance, s, RegistryAddr, funds)
       IN
       /\ policy.enabled /\ policy.registrationOpen
       /\ MintCount(p, s) < policy.maxPerAddress
       /\ ExpectExactPayment(funds, policy.denom, policy.price)
       /\ Covers(balance, s, funds)
       /\ MintRecord(FullName(l, p), s, p)
       /\ subdomainMints' = Save(subdomainMints, <<p, s>>, MintCount(p, s) + 1)
       /\ policy.recipient # Invalid
       /\ CanSend(paid, RegistryAddr, fee)
       /\ balance' = Moved(paid, RegistryAddr, policy.recipient, fee)
    /\ sender' = s
    /\ UNCHANGED <<adminVars, configVars, primary, subdomainPolicies>>

-----------------------------------------------------------------------------
Administer(s) ==
    \/ \E a \in AdminInput : TransferAdmin(s, a)
    \/ AcceptAdmin(s)
    \/ \E o \in OperatorInput : SetOperator(s, o[1], o[2])
    \/ \E r \in RoyaltyInput : SetRoyalty(s, r[1], r[2])

HandleName(s) ==
    \E raw \in NameInput :
        \/ \E a \in AddrInput : Mint(s, raw, a)
        \/ \E l \in LabelInput, a \in AddrInput : MintSubdomain(s, raw, l, a)
        \/ \E a \in AddrInput : Transfer(s, raw, a)
        \/ Burn(s, raw)
        \/ SetPrimary(s, raw)
        \/ \E policy \in PolicyInput : SetSubdomainPolicy(s, raw, policy)

\* A message without funds
Unpriced(s) == Administer(s) \/ HandleName(s) \/ ClearPrimary(s)

Priced(s) ==
    \E raw \in NameInput, l \in LabelInput, funds \in FundsInput :
        RegisterSubdomain(s, raw, l, funds)

Next == \E s \in Sender : (Unpriced(s) /\ UNCHANGED balance) \/ Priced(s)

Spec == Init /\ [][Next]_vars

-----------------------------------------------------------------------------
(* Correctness.                                                            *)

\* Every stored item has the type state.rs declares for its key.
TypeOK ==
    /\ admin \in Addr /\ pendingAdmin \in Addr \cup {None}
    /\ operator \in [Kind -> Addr \cup {None}]
    /\ royalty \in [recipient : Addr, bps : 0..AllBps]
    /\ DOMAIN names \subseteq Name /\ names \in [DOMAIN names -> NameRecord]
    /\ ownerIndex \subseteq Addr \X Name
    /\ DOMAIN primary \subseteq Addr /\ primary \in [DOMAIN primary -> Name]
    /\ DOMAIN subdomainPolicies \subseteq Name
    /\ subdomainPolicies \in [DOMAIN subdomainPolicies -> SubdomainPolicy]
    /\ DOMAIN subdomainMints \subseteq Name \X Addr
    /\ subdomainMints \in [DOMAIN subdomainMints -> Nat]
    /\ sender \in Addr \cup {None}
    /\ balance \in [Addr -> Coins]

\* NAMES and OWNER_INDEX, two maps written by separate calls, always tell the
\* same story: what NamesByOwner lists for an account is what OwnerOf gives it.
OwnerIndexExact == ownerIndex = {<<names[n].owner, n>> : n \in DOMAIN names}

\* A reverse lookup (PrimaryOf) never leads to a name that is gone or that
\* belongs to somebody else, whatever transfers and burns came in between.
PrimaryOwned ==
    \A a \in DOMAIN primary :
        primary[a] \in DOMAIN names /\ names[primary[a]].owner = a

\* The parent kept in a record stays the one its name spells out, whether the
\* name was minted, registered or transferred.
ParentRecorded == \A n \in DOMAIN names : names[n].parent = ParentOf(n)

\* A name leaves its owner, by transfer or burn, only in a message of that
\* owner or of the marketplace: "belongs to its owner until explicitly
\* transferred" (docs/whitepaper.md).
OwnershipAuthority ==
    [][\A n \in DOMAIN names :
          (n \notin DOMAIN names' \/ names'[n].owner # names[n].owner)
          => sender' \in {names[n].owner, operator["marketplace"]}]_vars

\* The contract's administration: an account becomes admin only by accepting,
\* itself, a nomination of the admin in office, and the operators, the royalty
\* and the nomination change only in messages of the admin in office.
AdminAuthority ==
    [][/\ admin' # admin =>
             /\ admin' = pendingAdmin /\ sender' = admin' /\ pendingAdmin' = None
       /\ (pendingAdmin' # pendingAdmin /\ admin' = admin) =>
             sender' = admin \/ (sender' = pendingAdmin /\ pendingAdmin' = None)
       /\ <<operator, royalty>>' # <<operator, royalty>> => sender' = admin]_vars

\* An open registration of `n` under `p` by `s`: within the policy and the
\* quota, counted, and paid by `s` in full to the policy's recipient.
OpenRegistration(s, n, p) ==
    /\ p \in DOMAIN subdomainPolicies
    /\ LET policy == subdomainPolicies[p] IN
       /\ policy.enabled /\ policy.registrationOpen
       /\ names'[n].owner = s
       /\ <<p, s>> \in DOMAIN subdomainMints'
       /\ subdomainMints'[<<p, s>>] = MintCount(p, s) + 1
       /\ subdomainMints'[<<p, s>>] <= policy.maxPerAddress
       /\ balance' = Moved(balance, s, policy.recipient,
                           OneCoin(policy.denom, policy.price))

\* A name comes into being only through those entitled to issue it: the admin
\* or an operator for a top-level name, the parent's owner or an operator for
\* a subdomain, or anybody within the terms of the parent's open policy, and
\* then the whole fee reaches the recipient: nothing stays in the contract.
IssuanceAuthority ==
    [][\A n \in DOMAIN names' \ DOMAIN names :
          LET p == ParentOf(n)
              issuers == {operator["registrar"], operator["tldManager"]}
          IN  \/ p = None /\ sender' \in issuers \cup {admin}
              \/ p \in DOMAIN names /\ sender' \in issuers \cup {names[p].owner}
              \/ OpenRegistration(sender', n, p)]_vars

\* The registry as the ledger NameLedger describes, read through its queries.
Ledger == INSTANCE NameLedger WITH
    holdings <- [a \in Addr |-> NamesByOwner(a)],
    primaryName <- [a \in Addr |-> PrimaryOf(a)]

\* What every other contract may rely on: each message of the registry is one
\* step of that ledger or leaves it alone.
LedgerSpec == Ledger!Spec

\* Whatever is registered can be named in a message again, so that its owner
\* can transfer it and a client can resolve it.
AddressableNames == \A n \in DOMAIN names : NormalizeName(n) = n
=============================================================================
