------------------------------ MODULE Resolver ------------------------------
(***************************************************************************)
(* contracts/resolver: the text records and cross-chain addresses of a     *)
(* name, written by whoever owns the name in the registry at that moment.  *)
(* Nothing reads a value but the client that asks for it, so a map is the  *)
(* set of its keys, <<name, key>>.                                         *)
(***************************************************************************)
EXTENDS NameClient

CONSTANTS
    Key,                  \* record types, chains and field names
    ResolverAdmin,        \* the admin it is instantiated with
    ResolverAdminInput,
    TextInput,            \* the <<name, key>> of SetText and DeleteText messages
    FederationInput       \* and of the messages about federations

ASSUME ResolverAssumption ==
    /\ ResolverAdmin \in Addr /\ ResolverAdminInput \subseteq Addr
    /\ TextInput \subseteq Seq(Spelling) \X Key
    /\ FederationInput \subseteq Seq(Spelling) \X Key

VARIABLES
    resolverConfig,   \* CONFIG: admin and pending admin (the registry never changes)
    texts,            \* TEXTS
    feds              \* FEDS

resolverVars == <<resolverConfig, texts, feds>>

ResolverInit == resolverConfig = InOffice(ResolverAdmin) /\ texts = {} /\ feds = {}

ResolverTypeOK ==
    /\ resolverConfig \in Office
    /\ texts \subseteq Name \X Key
    /\ feds \subseteq Name \X Key

-----------------------------------------------------------------------------
\* The records in `records` of other names than `n`
OfOthers(records, n) == {r \in records : r[1] # n}

ResolverTransferAdmin(s, new) ==
    Nominate(resolverConfig, s, new) /\ Asks(s) /\ UNCHANGED <<texts, feds>>

ResolverAcceptAdmin(s) ==
    AcceptNomination(resolverConfig, s) /\ Asks(s) /\ UNCHANGED <<texts, feds>>

SetText(s, rawName, key) ==
    LET n == NormalizeName(rawName) IN
    /\ n # Invalid
    /\ OwnsName(s, n)
    /\ texts' = texts \cup {<<n, key>>}
    /\ Asks(s) /\ UNCHANGED <<resolverConfig, feds>>

DeleteText(s, rawName, key) ==
    LET n == NormalizeName(rawName) IN
    /\ n # Invalid
    /\ OwnsName(s, n)
    /\ texts' = texts \ {<<n, key>>}
    /\ Asks(s) /\ UNCHANGED <<resolverConfig, feds>>

\* Mutant of SetFederation: keeps the name as typed.
SetFederationAsTyped(s, rawName, chain) ==
    LET n == NormalizeName(rawName) IN
    /\ n # Invalid
    /\ OwnsName(s, n)
    /\ feds' = feds \cup {<<rawName, chain>>}
    /\ Asks(s) /\ UNCHANGED <<resolverConfig, texts>>

SetFederation(s, rawName, chain) ==
    LET n == NormalizeName(rawName) IN
    /\ n # Invalid
    /\ OwnsName(s, n)
    /\ feds' = feds \cup {<<n, chain>>}
    /\ Asks(s) /\ UNCHANGED <<resolverConfig, texts>>

DeleteFederation(s, rawName, chain) ==
    LET n == NormalizeName(rawName) IN
    /\ n # Invalid
    /\ OwnsName(s, n)
    /\ feds' = feds \ {<<n, chain>>}
    /\ Asks(s) /\ UNCHANGED <<resolverConfig, texts>>

\* Mutant of ClearAll: forgets the second map.
ClearTexts(s, rawName) ==
    LET n == NormalizeName(rawName) IN
    /\ n # Invalid
    /\ OwnsName(s, n)
    /\ texts' = OfOthers(texts, n)
    /\ Asks(s) /\ UNCHANGED <<resolverConfig, feds>>

ClearAll(s, rawName) ==
    LET n == NormalizeName(rawName) IN
    /\ n # Invalid
    /\ OwnsName(s, n)
    /\ texts' = OfOthers(texts, n)
    /\ feds' = OfOthers(feds, n)
    /\ Asks(s) /\ UNCHANGED resolverConfig

\* Every message but ClearAll
ResolverHandle(s) ==
    \/ \E a \in ResolverAdminInput : ResolverTransferAdmin(s, a)
    \/ ResolverAcceptAdmin(s)
    \/ \E t \in TextInput : SetText(s, t[1], t[2]) \/ DeleteText(s, t[1], t[2])
    \/ \E f \in FederationInput : SetFederation(s, f[1], f[2]) \/ DeleteFederation(s, f[1], f[2])
=============================================================================
