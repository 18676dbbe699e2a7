------------------------------ MODULE Metadata ------------------------------
(***************************************************************************)
(* contracts/metadata: key-value fields of a name, each public or private, *)
(* and their listing in pages.  A field is its visibility.                 *)
(***************************************************************************)
EXTENDS Resolver

CONSTANTS
    KeyRank,              \* the order in which a map iterates over its keys
    DefaultLimit,         \* 20, the page when no limit is given
    MaxLimit,             \* 100, the longest page
    MetadataAdmin,
    MetadataAdminInput,
    FieldInput            \* the <<name, key>> of SetField and DeleteField messages

ASSUME MetadataAssumption ==
    /\ KeyRank \in [Key -> Nat]
    /\ \A x, y \in Key : KeyRank[x] = KeyRank[y] => x = y
    /\ DefaultLimit \in Nat \ {0} /\ MaxLimit \in Nat \ {0}
    /\ MetadataAdmin \in Addr /\ MetadataAdminInput \subseteq Addr
    /\ FieldInput \subseteq Seq(Spelling) \X Key
    /\ None \notin Key

VARIABLES
    metadataConfig,   \* CONFIG
    fields            \* FIELDS: <<name, key>> -> public?

metadataVars == <<metadataConfig, fields>>

MetadataInit == metadataConfig = InOffice(MetadataAdmin) /\ fields = <<>>

MetadataTypeOK ==
    /\ metadataConfig \in Office
    /\ DOMAIN fields \subseteq Name \X Key
    /\ fields \in [DOMAIN fields -> BOOLEAN]

-----------------------------------------------------------------------------
MetadataTransferAdmin(s, new) ==
    Nominate(metadataConfig, s, new) /\ Asks(s) /\ UNCHANGED fields

MetadataAcceptAdmin(s) ==
    AcceptNomination(metadataConfig, s) /\ Asks(s) /\ UNCHANGED fields

SetField(s, rawName, key, public) ==
    LET n == NormalizeName(rawName) IN
    /\ n # Invalid
    /\ OwnsName(s, n)
    /\ fields' = Save(fields, <<n, key>>, public)
    /\ Asks(s) /\ UNCHANGED metadataConfig

DeleteField(s, rawName, key) ==
    LET n == NormalizeName(rawName) IN
    /\ n # Invalid
    /\ OwnsName(s, n)
    /\ fields' = Delete(fields, <<n, key>>)
    /\ Asks(s) /\ UNCHANGED metadataConfig

MetadataHandle(s) ==
    \/ \E a \in MetadataAdminInput : MetadataTransferAdmin(s, a)
    \/ MetadataAcceptAdmin(s)
    \/ \E f \in FieldInput :
          \/ \E public \in BOOLEAN : SetField(s, f[1], f[2], public)
          \/ DeleteField(s, f[1], f[2])

-----------------------------------------------------------------------------
(* The query Fields.                                                       *)

BoundedLimit(limit) ==
    LET l == IF limit = None THEN DefaultLimit ELSE limit
    IN  IF l <= MaxLimit THEN l ELSE MaxLimit

KeysOf(n) == {f[2] : f \in {x \in DOMAIN fields : x[1] = n}}

\* What a query for `n` may show
Visible(n, includePrivate) == {k \in KeysOf(n) : includePrivate \/ fields[<<n, k>>]}

\* Mutants of FieldsPage: takes the limit first and filters afterwards; starts
\* with the key it should start after.
FieldsPageFiltered(n, includePrivate, start, limit) ==
    TakeFrom(KeysOf(n), KeyRank, start, BoundedLimit(limit)) \cap Visible(n, includePrivate)
FieldsPageInclusive(n, includePrivate, start, limit) ==
    (Visible(n, includePrivate) \cap {start})
        \cup TakeFrom(Visible(n, includePrivate), KeyRank, start, BoundedLimit(limit))

\* `start` is exclusive, and hidden fields do not count towards the limit.
FieldsPage(n, includePrivate, start, limit) ==
    TakeFrom(Visible(n, includePrivate), KeyRank, start, BoundedLimit(limit))
=============================================================================
