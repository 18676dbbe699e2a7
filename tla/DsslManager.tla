---------------------------- MODULE DsslManager ----------------------------
(***************************************************************************)
(* contracts/dssl-manager: owners publish a record about their name,       *)
(* attestors appointed by the admin lend it trust, and a running aggregate *)
(* of their attestations is kept beside them.                              *)
(*                                                                         *)
(* A record is its presence: target and expires_at are only ever returned  *)
(* as they came in, and `active` is always true.  An attestation is its    *)
(* boost; note and created_at are left out.                                *)
(***************************************************************************)
EXTENDS NameClient

CONSTANTS
    MaxScore,         \* MAX_SCORE
    MaxAttestors,     \* MAX_ATTESTORS_PER_NAME
    DsslAdmin,        \* the admin it is instantiated with
    DsslAdminInput,
    AttestorInput,    \* the <<address, active>> of SetAttestor messages
    BoostInput        \* score_boost, a u8

ASSUME DsslAssumption ==
    /\ MaxScore \in Nat /\ MaxAttestors \in Nat
    /\ DsslAdmin \in Addr /\ DsslAdminInput \subseteq Addr
    /\ AttestorInput \subseteq Addr \X BOOLEAN
    /\ BoostInput \subseteq 0..255 /\ None \notin Nat

VARIABLES
    dsslConfig,      \* CONFIG
    attestors,       \* ATTESTORS: address -> active?
    records,         \* RECORDS: the names that have one
    agg,             \* AGG: name -> its aggregate
    attestations     \* ATTESTATIONS: <<name, attestor>> -> score_boost

dsslVars == <<dsslConfig, attestors, records, agg, attestations>>
dsslSystemVars == <<vars, dsslVars>>

Aggregate == [count : Nat, score : 0..MaxScore]
NoTrust == [count |-> 0, score |-> 0]

DsslInit ==
    /\ Init
    /\ dsslConfig = InOffice(DsslAdmin)
    /\ attestors = <<>> /\ records = {} /\ agg = <<>> /\ attestations = <<>>

-----------------------------------------------------------------------------
SaturatingSub(x, y) == IF x >= y THEN x - y ELSE 0

\* AGG.may_load(..).unwrap_or(0, 0)
AggOf(n) == IF n \in DOMAIN agg THEN agg[n] ELSE NoTrust

\* Mutant of IsAttestor: a dismissed one still counts.
IsKnown(s) == s \in DOMAIN attestors

IsAttestor(s) == MayLoad(attestors, s) = TRUE

Capped(score) == IF score <= MaxScore THEN score ELSE MaxScore

\* Mutants of Attested: nothing caps the score; the boost that is replaced stays
\* in it; the cap is applied before that boost is taken off.
AttestedUncapped(a, prev, boost) ==
    IF prev = None
    THEN [count |-> a.count + 1, score |-> a.score + boost]
    ELSE [a EXCEPT !.score = SaturatingSub(@, prev) + boost]
AttestedTwice(a, prev, boost) ==
    [count |-> a.count + (IF prev = None THEN 1 ELSE 0), score |-> Capped(a.score + boost)]
AttestedCapFirst(a, prev, boost) ==
    IF prev = None
    THEN [count |-> a.count + 1, score |-> Capped(a.score + boost)]
    ELSE [a EXCEPT !.score = SaturatingSub(Capped(@ + boost), prev)]

\* The aggregate once an attestation of `boost` replaces `prev` (None: is new).
\* The sum fits a u16: at most MAX_SCORE + 255.
Attested(a, prev, boost) ==
    IF prev = None
    THEN [count |-> a.count + 1, score |-> Capped(a.score + boost)]
    ELSE [a EXCEPT !.score = Capped(SaturatingSub(@, prev) + boost)]

-----------------------------------------------------------------------------
DsslTransferAdmin(s, new) ==
    /\ Nominate(dsslConfig, s, new)
    /\ Asks(s) /\ UNCHANGED <<attestors, records, agg, attestations>>

DsslAcceptAdmin(s) ==
    /\ AcceptNomination(dsslConfig, s)
    /\ Asks(s) /\ UNCHANGED <<attestors, records, agg, attestations>>

\* What a dismissed attestor has attested stands.
SetAttestor(s, address, active) ==
    /\ s = dsslConfig.admin
    /\ attestors' = Save(attestors, address, active)
    /\ Asks(s) /\ UNCHANGED <<dsslConfig, records, agg, attestations>>

\* Mutant of UpsertRecord: starts the aggregate afresh.
UpsertRecordAfresh(s, rawName) ==
    LET n == NormalizeName(rawName) IN
    /\ n # Invalid
    /\ OwnsName(s, n)
    /\ records' = records \cup {n}
    /\ agg' = Save(agg, n, NoTrust)
    /\ Asks(s) /\ UNCHANGED <<dsslConfig, attestors, attestations>>

\* A record may be replaced under its attestations.
UpsertRecord(s, rawName) ==
    LET n == NormalizeName(rawName) IN
    /\ n # Invalid
    /\ OwnsName(s, n)
    /\ records' = records \cup {n}
    /\ agg' = Save(agg, n, AggOf(n))
    /\ Asks(s) /\ UNCHANGED <<dsslConfig, attestors, attestations>>

\* The attestations and their aggregate wait for the next record.
RevokeRecord(s, rawName) ==
    LET n == NormalizeName(rawName) IN
    /\ n # Invalid
    /\ OwnsName(s, n)
    /\ records' = records \ {n}
    /\ Asks(s) /\ UNCHANGED <<dsslConfig, attestors, agg, attestations>>

Attest(s, rawName, boost) ==
    LET n    == NormalizeName(rawName)
        prev == MayLoad(attestations, <<n, s>>)
    IN
    /\ IsAttestor(s)
    /\ n # Invalid
    /\ n \in records
    /\ prev = None => AggOf(n).count < MaxAttestors
    /\ agg' = Save(agg, n, Attested(AggOf(n), prev, boost))
    /\ attestations' = Save(attestations, <<n, s>>, boost)
    /\ Asks(s) /\ UNCHANGED <<dsslConfig, attestors, records>>

RemoveAttestation(s, rawName, attestor) ==
    LET n    == NormalizeName(rawName)
        prev == MayLoad(attestations, <<n, attestor>>)
    IN
    /\ s = dsslConfig.admin
    /\ n # Invalid
    /\ agg' = IF prev = None THEN agg
              ELSE Save(agg, n, [count |-> SaturatingSub(AggOf(n).count, 1),
                                 score |-> SaturatingSub(AggOf(n).score, prev)])
    /\ attestations' = Delete(attestations, <<n, attestor>>)
    /\ Asks(s) /\ UNCHANGED <<dsslConfig, attestors, records>>

DsslHandle(s) ==
    \/ \E a \in DsslAdminInput : DsslTransferAdmin(s, a)
    \/ DsslAcceptAdmin(s)
    \/ \E x \in AttestorInput : SetAttestor(s, x[1], x[2])
    \/ \E raw \in NameInput :
          \/ UpsertRecord(s, raw) \/ RevokeRecord(s, raw)
          \/ \E boost \in BoostInput : Attest(s, raw, boost)
          \/ \E x \in AttestorInput : RemoveAttestation(s, raw, x[1])

DsslNext ==
    \/ Next /\ UNCHANGED dsslVars
    \/ \E s \in Sender : DsslHandle(s)

DsslSpec == DsslInit /\ [][DsslNext]_dsslSystemVars

-----------------------------------------------------------------------------
DsslTypeOK ==
    /\ TypeOK
    /\ dsslConfig \in Office
    /\ DOMAIN attestors \subseteq Addr /\ attestors \in [DOMAIN attestors -> BOOLEAN]
    /\ records \subseteq Name
    /\ DOMAIN agg \subseteq Name /\ agg \in [DOMAIN agg -> Aggregate]
    /\ DOMAIN attestations \subseteq Name \X Addr
    /\ attestations \in [DOMAIN attestations -> 0..255]

AttestationsOf(n) == {x \in DOMAIN attestations : x[1] = n}

\* The boosts of all attestations of `n`
Total(n) == FoldFunction(+, 0, [x \in AttestationsOf(n) |-> attestations[x]])

\* The count in the aggregate is the number of attestations stored for the
\* name, and so the limit holds for them, through records revoked, replaced
\* and published again by another owner, and attestations renewed and removed.
CountExact ==
    \A n \in DOMAIN agg \cup {x[1] : x \in DOMAIN attestations} :
        /\ AggOf(n).count = Cardinality(AttestationsOf(n))
        /\ AggOf(n).count <= MaxAttestors

\* The score never credits a name with more than its attestations give it,
\* though it is carried along by saturating steps and never summed up again.
ScoreWithinSum == \A n \in DOMAIN agg : AggOf(n).score <= Total(n)

\* Only the cap makes a score inexact: one that is the sum of its attestations
\* stays so until that sum exceeds MAX_SCORE.  (From then on what is taken off
\* is the whole of a boost of which the cap had let only a part in.)
ScoreExactBelowCap ==
    [][\A n \in DOMAIN agg :
          agg[n].score = Total(n) /\ Total(n)' <= MaxScore
          => n \in DOMAIN agg' /\ agg'[n].score = Total(n)']_dsslSystemVars

\* Trust outlives whoever gave it and whoever received it: an attestation is
\* written by its attestor while he is in office and taken away by the admin,
\* and neither the owner of the name, by revoking, replacing or transferring,
\* nor the dismissal of the attestor changes it or the score it counts in.
TrustAuthority ==
    [][LET all == DOMAIN attestations \cup DOMAIN attestations' IN
       /\ \A x \in all :
             MayLoad(attestations, x)' # MayLoad(attestations, x) =>
                IF x \in DOMAIN attestations' THEN sender' = x[2] /\ MayLoad(attestors, x[2]) = TRUE
                                              ELSE sender' = dsslConfig.admin
       /\ \A n \in DOMAIN agg :
             AggOf(n)' # AggOf(n) =>
                \E x \in all : x[1] = n /\ (sender' = x[2] \/ x \notin DOMAIN attestations')
      ]_dsslSystemVars
=============================================================================
