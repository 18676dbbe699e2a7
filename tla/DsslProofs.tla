----------------------------- MODULE DsslProofs -----------------------------
(***************************************************************************)
(* Theorems about DsslManager, for every value of its constants.           *)
(***************************************************************************)
EXTENDS DsslManager, NameClientProofs, SumProofs

\* The five items of the contract's own state
DsslItemsOK ==
    /\ dsslConfig \in Office
    /\ DOMAIN attestors \subseteq Addr /\ attestors \in [DOMAIN attestors -> BOOLEAN]
    /\ records \subseteq Name
    /\ DOMAIN agg \subseteq Name /\ agg \in [DOMAIN agg -> Aggregate]
    /\ DOMAIN attestations \subseteq Name \X Addr
    /\ attestations \in [DOMAIN attestations -> 0..255]

\* What is loaded from AGG is an aggregate, stored or not.
LEMMA AggOfType ==
    ASSUME DsslItemsOK, NEW n
    PROVE  AggOf(n) \in Aggregate
<1>1. NoTrust \in Aggregate
  BY DsslAssumption DEF NoTrust, Aggregate
<1> QED BY <1>1 DEF AggOf, DsslItemsOK

\* Attesting keeps the score between 0 and MAX_SCORE.
LEMMA AttestedType ==
    ASSUME NEW a \in Aggregate, NEW prev \in 0..255 \cup {None}, NEW boost \in 0..255
    PROVE  Attested(a, prev, boost) \in Aggregate
<1>1. a.count \in Nat /\ a.score \in Nat /\ a = [count |-> a.count, score |-> a.score]
  BY DsslAssumption DEF Aggregate
<1>2. \A x \in Nat : Capped(x) \in 0..MaxScore
  BY DsslAssumption DEF Capped
<1>3. CASE prev = None
  BY <1>1, <1>2, <1>3 DEF Attested, Aggregate
<1>4. CASE prev # None
  <2>1. SaturatingSub(a.score, prev) \in Nat
    BY <1>1, <1>4 DEF SaturatingSub
  <2>2. Capped(SaturatingSub(a.score, prev) + boost) \in 0..MaxScore
    BY <2>1, <1>2
  <2> QED BY <1>4, <2>2 DEF Attested, Aggregate
<1> QED BY <1>3, <1>4

\* So does taking a boost off again.
LEMMA TakenOffType ==
    ASSUME NEW a \in Aggregate, NEW prev \in 0..255
    PROVE  [count |-> SaturatingSub(a.count, 1), score |-> SaturatingSub(a.score, prev)]
              \in Aggregate
  BY DsslAssumption DEF Aggregate, SaturatingSub

\* Every message to the contract keeps its state well typed.
LEMMA DsslHandleType ==
    ASSUME DsslItemsOK, NEW s \in Sender, DsslHandle(s)
    PROVE  DsslItemsOK'
<1>0. s \in Addr
  BY RegistryAssumption
<1>1. ASSUME NEW a \in DsslAdminInput, DsslTransferAdmin(s, a) PROVE DsslItemsOK'
  <2>1. dsslConfig' \in Office
    BY <1>1, NominateType, DsslAssumption DEF DsslTransferAdmin, Nominate, DsslItemsOK
  <2> QED BY <1>1, <2>1 DEF DsslTransferAdmin, DsslItemsOK
<1>2. CASE DsslAcceptAdmin(s)
  <2>1. dsslConfig' \in Office
    BY <1>0, <1>2, AcceptNominationType DEF DsslAcceptAdmin, AcceptNomination, DsslItemsOK
  <2> QED BY <1>2, <2>1 DEF DsslAcceptAdmin, DsslItemsOK
<1>3. ASSUME NEW x \in AttestorInput, SetAttestor(s, x[1], x[2]) PROVE DsslItemsOK'
  <2>1. x[1] \in Addr /\ x[2] \in BOOLEAN
    BY DsslAssumption
  <2>2. DOMAIN attestors' \subseteq Addr /\ attestors' \in [DOMAIN attestors' -> BOOLEAN]
    BY <1>3, <2>1 DEF SetAttestor, DsslItemsOK, Save
  <2> QED BY <1>3, <2>2 DEF SetAttestor, DsslItemsOK
<1>4. ASSUME NEW raw \in NameInput, UpsertRecord(s, raw) PROVE DsslItemsOK'
  <2> DEFINE n == NormalizeName(raw)
             a == AggOf(n)
  <2>1. n \in Name /\ records' = records \cup {n} /\ agg' = Save(agg, n, a)
    BY <1>4, AskedName DEF UpsertRecord
  <2>2. a \in Aggregate
    BY AggOfType
  <2>3. DOMAIN agg' \subseteq Name /\ agg' \in [DOMAIN agg' -> Aggregate]
    <3> HIDE DEF n, a
    <3> QED BY <2>1, <2>2 DEF DsslItemsOK, Save
  <2> QED BY <1>4, <2>1, <2>3 DEF UpsertRecord, DsslItemsOK
<1>5. ASSUME NEW raw \in NameInput, RevokeRecord(s, raw) PROVE DsslItemsOK'
  BY <1>5 DEF RevokeRecord, DsslItemsOK
<1>6. ASSUME NEW raw \in NameInput, NEW boost \in BoostInput, Attest(s, raw, boost)
      PROVE  DsslItemsOK'
  <2> DEFINE n    == NormalizeName(raw)
             prev == MayLoad(attestations, <<n, s>>)
             a    == Attested(AggOf(n), prev, boost)
  <2>1. /\ n \in Name
        /\ agg' = Save(agg, n, a)
        /\ attestations' = Save(attestations, <<n, s>>, boost)
    BY <1>6, AskedName DEF Attest
  <2>2. boost \in 0..255 /\ prev \in 0..255 \cup {None}
    BY DsslAssumption DEF MayLoad, DsslItemsOK
  <2>3. a \in Aggregate
    <3> HIDE DEF prev, n
    <3> QED BY <2>2, AggOfType, AttestedType
  <2>4. DOMAIN agg' \subseteq Name /\ agg' \in [DOMAIN agg' -> Aggregate]
    <3> HIDE DEF n, a
    <3> QED BY <2>1, <2>3 DEF DsslItemsOK, Save
  <2>5. /\ DOMAIN attestations' \subseteq Name \X Addr
        /\ attestations' \in [DOMAIN attestations' -> 0..255]
    <3> HIDE DEF n
    <3> QED BY <1>0, <2>1, <2>2 DEF DsslItemsOK, Save
  <2> QED BY <1>6, <2>4, <2>5 DEF Attest, DsslItemsOK
<1>7. ASSUME NEW raw \in NameInput, NEW x \in AttestorInput, RemoveAttestation(s, raw, x[1])
      PROVE  DsslItemsOK'
  <2> DEFINE n    == NormalizeName(raw)
             prev == MayLoad(attestations, <<n, x[1]>>)
             a    == [count |-> SaturatingSub(AggOf(n).count, 1),
                      score |-> SaturatingSub(AggOf(n).score, prev)]
  <2>1. /\ n \in Name
        /\ agg' = IF prev = None THEN agg ELSE Save(agg, n, a)
        /\ attestations' = Delete(attestations, <<n, x[1]>>)
    BY <1>7, AskedName DEF RemoveAttestation
  <2>2. prev # None => a \in Aggregate
    <3>1. prev # None => prev \in 0..255
      BY DEF MayLoad, DsslItemsOK
    <3> HIDE DEF prev, n
    <3> QED BY <3>1, AggOfType, TakenOffType
  <2>3. DOMAIN agg' \subseteq Name /\ agg' \in [DOMAIN agg' -> Aggregate]
    <3> HIDE DEF n, a, prev
    <3> QED BY <2>1, <2>2 DEF DsslItemsOK, Save
  <2>4. /\ DOMAIN attestations' \subseteq Name \X Addr
        /\ attestations' \in [DOMAIN attestations' -> 0..255]
    BY <2>1 DEF DsslItemsOK, Delete
  <2> QED BY <1>7, <2>3, <2>4 DEF RemoveAttestation, DsslItemsOK
<1> QED BY <1>1, <1>2, <1>3, <1>4, <1>5, <1>6, <1>7 DEF DsslHandle

\* A message to the contract is one that asks the registry.
LEMMA DsslAsks == ASSUME NEW s, DsslHandle(s) PROVE Asks(s)
  BY DEF DsslHandle, DsslTransferAdmin, DsslAcceptAdmin, SetAttestor, UpsertRecord,
         RevokeRecord, Attest, RemoveAttestation

\* Every reachable state has the types the contract declares; in particular
\* the score of a name is never above MAX_SCORE and no subtraction wraps.
THEOREM DsslTypeCorrect == DsslSpec => []DsslTypeOK
<1>0. DsslTypeOK <=> TypeOK /\ DsslItemsOK
  BY DEF DsslTypeOK, DsslItemsOK
<1>1. DsslInit => DsslTypeOK
  BY <1>0, TypeInitially, InOfficeType, DsslAssumption DEF DsslInit, DsslItemsOK
<1>2. DsslTypeOK /\ [DsslNext]_dsslSystemVars => DsslTypeOK'
  <2> SUFFICES ASSUME TypeOK, DsslItemsOK, [DsslNext]_dsslSystemVars
               PROVE  TypeOK' /\ DsslItemsOK'
    BY DEF DsslTypeOK, DsslItemsOK
  <2>1. CASE [Next]_vars /\ UNCHANGED dsslVars
    BY <2>1, TypeStep DEF dsslVars, DsslItemsOK
  <2>2. ASSUME NEW s \in Sender, DsslHandle(s) PROVE TypeOK' /\ DsslItemsOK'
    BY <2>2, DsslHandleType, DsslAsks, AsksType, RegistryAssumption
  <2> QED BY <2>1, <2>2 DEF DsslNext, dsslSystemVars
<1> QED BY <1>1, <1>2, PTL DEF DsslSpec

-----------------------------------------------------------------------------
(* The count.                                                              *)

\* The invariant behind CountExact: the state is well typed, only finitely many
\* attestations are stored, and the count is theirs for every name at all,
\* not only for those that have an aggregate.
CountInv ==
    /\ DsslItemsOK
    /\ IsFiniteSet(DOMAIN attestations)
    /\ \A n : /\ AggOf(n).count = Cardinality(AttestationsOf(n))
              /\ AggOf(n).count <= MaxAttestors

\* A finite map has finitely many attestations of a name.
LEMMA AttestationsFinite ==
    ASSUME IsFiniteSet(DOMAIN attestations), NEW n
    PROVE  IsFiniteSet(AttestationsOf(n))
  BY FS_Subset DEF AttestationsOf

\* A None from ATTESTATIONS means that there is no such attestation.
LEMMA NoAttestation ==
    ASSUME DsslItemsOK, NEW x, MayLoad(attestations, x) = None
    PROVE  x \notin DOMAIN attestations
<1>1. x \in DOMAIN attestations => attestations[x] \in Nat
  BY DEF DsslItemsOK
<1> QED BY <1>1, DsslAssumption DEF MayLoad

\* A message that leaves both maps alone, or stores in AGG what was loaded
\* from it, leaves the count right.
LEMMA CountKept ==
    ASSUME CountInv, DsslItemsOK', UNCHANGED attestations,
           \A n : AggOf(n)' = AggOf(n)
    PROVE  CountInv'
  BY DEF CountInv, AttestationsOf

\* Attest: a new attestation is counted, a renewed one is not counted again.
LEMMA AttestCounts ==
    ASSUME CountInv, DsslItemsOK', NEW s \in Sender, NEW raw \in NameInput, NEW boost \in BoostInput,
           Attest(s, raw, boost)
    PROVE  CountInv'
<1> DEFINE n    == NormalizeName(raw)
           prev == MayLoad(attestations, <<n, s>>)
           a    == Attested(AggOf(n), prev, boost)
<1>1. /\ agg' = Save(agg, n, a)
      /\ attestations' = Save(attestations, <<n, s>>, boost)
      /\ prev = None => AggOf(n).count < MaxAttestors
  BY DEF Attest
<1>2. DOMAIN attestations' = DOMAIN attestations \cup {<<n, s>>}
  BY <1>1 DEF Save
<1>3. IsFiniteSet(DOMAIN attestations')
  BY <1>2, FS_AddElement DEF CountInv
<1>4. \A m : AggOf(m)' = IF m = n THEN a ELSE AggOf(m)
  <2> HIDE DEF n, a
  <2> QED BY <1>1 DEF AggOf, Save
<1>5. AggOf(n) \in Aggregate /\ AggOf(n).count \in Nat
  BY AggOfType DEF CountInv, Aggregate
<1>6. ASSUME NEW m, m # n
      PROVE  /\ AggOf(m)'.count = Cardinality(AttestationsOf(m))'
             /\ AggOf(m)'.count <= MaxAttestors
  <2>1. AttestationsOf(m)' = AttestationsOf(m)
    BY <1>2, <1>6 DEF AttestationsOf
  <2> QED BY <1>4, <1>6, <2>1 DEF CountInv
<1>7. CASE prev = None
  <2>1. <<n, s>> \notin DOMAIN attestations
    BY <1>7, NoAttestation DEF CountInv
  <2>2. AttestationsOf(n)' = AttestationsOf(n) \cup {<<n, s>>} /\ <<n, s>> \notin AttestationsOf(n)
    BY <1>2, <2>1 DEF AttestationsOf
  <2>3. Cardinality(AttestationsOf(n))' = Cardinality(AttestationsOf(n)) + 1
    BY <2>2, AttestationsFinite, FS_AddElement DEF CountInv
  <2>4. AggOf(n)'.count = AggOf(n).count + 1
    BY <1>4, <1>7 DEF Attested
  <2>5. /\ AggOf(n)'.count = Cardinality(AttestationsOf(n))'
        /\ AggOf(n)'.count <= MaxAttestors
    BY <1>1, <1>5, <1>7, <2>3, <2>4, DsslAssumption DEF CountInv
  <2> QED BY <1>3, <1>6, <2>5 DEF CountInv
<1>8. CASE prev # None
  <2>1. <<n, s>> \in DOMAIN attestations
    BY <1>8 DEF MayLoad
  <2>2. AttestationsOf(n)' = AttestationsOf(n)
    BY <1>2, <2>1 DEF AttestationsOf
  <2>3. AggOf(n)'.count = AggOf(n).count
    BY <1>4, <1>5, <1>8 DEF Attested, Aggregate
  <2>4. /\ AggOf(n)'.count = Cardinality(AttestationsOf(n))'
        /\ AggOf(n)'.count <= MaxAttestors
    BY <2>2, <2>3 DEF CountInv
  <2> QED BY <1>3, <1>6, <2>4 DEF CountInv
<1> QED BY <1>7, <1>8

\* RemoveAttestation: one that is there is counted off, one that is not is not.
LEMMA RemovalCounts ==
    ASSUME CountInv, DsslItemsOK', NEW s, NEW raw, NEW attestor,
           RemoveAttestation(s, raw, attestor)
    PROVE  CountInv'
<1> DEFINE n    == NormalizeName(raw)
           x    == <<n, attestor>>
           prev == MayLoad(attestations, x)
           a    == [count |-> SaturatingSub(AggOf(n).count, 1),
                    score |-> SaturatingSub(AggOf(n).score, prev)]
<1>1. /\ agg' = IF prev = None THEN agg ELSE Save(agg, n, a)
      /\ attestations' = Delete(attestations, x)
  BY DEF RemoveAttestation
<1>2. DOMAIN attestations' = DOMAIN attestations \ {x}
  BY <1>1 DEF Delete
<1>3. IsFiniteSet(DOMAIN attestations')
  BY <1>2, FS_RemoveElement DEF CountInv
<1>4. CASE prev = None
  <2>1. x \notin DOMAIN attestations
    BY <1>4, NoAttestation DEF CountInv
  <2>2. \A m : AttestationsOf(m)' = AttestationsOf(m)
    BY <1>2, <2>1 DEF AttestationsOf
  <2>3. \A m : AggOf(m)' = AggOf(m)
    BY <1>1, <1>4 DEF AggOf
  <2> QED BY <1>3, <2>2, <2>3 DEF CountInv
<1>5. CASE prev # None
  <2>1. x \in DOMAIN attestations
    BY <1>5 DEF MayLoad
  <2>2. \A m : AggOf(m)' = IF m = n THEN a ELSE AggOf(m)
    <3> HIDE DEF n, a, prev, x
    <3> QED BY <1>1, <1>5 DEF AggOf, Save
  <2>3. ASSUME NEW m, m # n
        PROVE  /\ AggOf(m)'.count = Cardinality(AttestationsOf(m))'
               /\ AggOf(m)'.count <= MaxAttestors
    <3>1. AttestationsOf(m)' = AttestationsOf(m)
      BY <1>2, <2>3 DEF AttestationsOf
    <3> QED BY <2>2, <2>3, <3>1 DEF CountInv
  <2>4. AttestationsOf(n)' = AttestationsOf(n) \ {x} /\ x \in AttestationsOf(n)
    BY <1>2, <2>1 DEF AttestationsOf
  <2>5. /\ Cardinality(AttestationsOf(n))' = Cardinality(AttestationsOf(n)) - 1
        /\ Cardinality(AttestationsOf(n)) \in Nat
        /\ Cardinality(AttestationsOf(n)) # 0
    BY <2>4, AttestationsFinite, FS_RemoveElement, FS_CardinalityType, FS_EmptySet DEF CountInv
  <2>6. AggOf(n)'.count = SaturatingSub(AggOf(n).count, 1)
    BY <2>2
  <2>7. /\ AggOf(n)'.count = Cardinality(AttestationsOf(n))'
        /\ AggOf(n)'.count <= MaxAttestors
    BY <2>5, <2>6, DsslAssumption DEF CountInv, SaturatingSub
  <2> QED BY <1>3, <2>3, <2>7 DEF CountInv
<1> QED BY <1>4, <1>5

\* The counts are always right, for every name.
LEMMA AlwaysCounted == DsslSpec => []CountInv
<1>1. DsslInit => CountInv
  <2> SUFFICES ASSUME DsslInit PROVE CountInv
    OBVIOUS
  <2>1. DsslItemsOK
    BY InOfficeType, DsslAssumption DEF DsslInit, DsslItemsOK
  <2>2. \A n : AttestationsOf(n) = {} /\ AggOf(n).count = 0
    BY DEF DsslInit, AttestationsOf, AggOf, NoTrust
  <2>3. IsFiniteSet(DOMAIN attestations)
    BY FS_EmptySet DEF DsslInit
  <2> QED BY <2>1, <2>2, <2>3, FS_EmptySet, DsslAssumption DEF CountInv
<1>2. CountInv /\ [DsslNext]_dsslSystemVars => CountInv'
  <2> SUFFICES ASSUME CountInv, [DsslNext]_dsslSystemVars
               PROVE  CountInv'
    OBVIOUS
  <2>1. CASE UNCHANGED dsslVars
    BY <2>1 DEF dsslVars, CountInv, DsslItemsOK, AggOf, AttestationsOf
  <2>2. ASSUME NEW s \in Sender, DsslHandle(s) PROVE CountInv'
    <3>1. DsslItemsOK'
      BY <2>2, DsslHandleType DEF CountInv
    <3>2. CASE UNCHANGED <<agg, attestations>>
      BY <3>1, <3>2, CountKept DEF AggOf
    <3>3. ASSUME NEW raw \in NameInput, UpsertRecord(s, raw) PROVE CountInv'
      <4>1. \A n : AggOf(n)' = AggOf(n)
        BY <3>3 DEF UpsertRecord, AggOf, Save
      <4> QED BY <3>1, <3>3, <4>1, CountKept DEF UpsertRecord
    <3>4. ASSUME NEW raw \in NameInput, NEW boost \in BoostInput, Attest(s, raw, boost)
          PROVE  CountInv'
      BY <3>1, <3>4, AttestCounts
    <3>5. ASSUME NEW raw \in NameInput, NEW x \in AttestorInput, RemoveAttestation(s, raw, x[1])
          PROVE  CountInv'
      BY <3>1, <3>5, RemovalCounts
    <3> QED BY <2>2, <3>2, <3>3, <3>4, <3>5
            DEF DsslHandle, DsslTransferAdmin, DsslAcceptAdmin, SetAttestor, RevokeRecord
  <2> QED BY <2>1, <2>2 DEF DsslNext, dsslSystemVars
<1> QED BY <1>1, <1>2, PTL DEF DsslSpec

\* The count of a name's aggregate is the number of attestations stored for it,
\* and never above MAX_ATTESTORS_PER_NAME, whatever the owners and the admin do.
THEOREM CountAlwaysExact == DsslSpec => []CountExact
<1>1. CountInv => CountExact
  BY DEF CountInv, CountExact
<1> QED BY <1>1, AlwaysCounted, PTL

-----------------------------------------------------------------------------
(* The score.                                                              *)

\* The entries of `map` that are about `n`
About(map, n) == [x \in {y \in DOMAIN map : y[1] = n} |-> map[x]]

\* The sum of a name's boosts with one of them set apart, stored or not.
LEMMA SumSplit ==
    ASSUME NEW map, IsFiniteSet(DOMAIN map), \A x \in DOMAIN map : map[x] \in Nat,
           NEW n, NEW key, key[1] = n
    PROVE  /\ SumOf(About(Delete(map, key), n)) \in Nat
           /\ key \in DOMAIN map =>
                 SumOf(About(map, n)) = map[key] + SumOf(About(Delete(map, key), n))
           /\ key \notin DOMAIN map =>
                 SumOf(About(map, n)) = SumOf(About(Delete(map, key), n))
<1> DEFINE of == About(map, n)
<1>1. /\ DOMAIN of = {y \in DOMAIN map : y[1] = n}
      /\ \A x \in DOMAIN of : of[x] = map[x] /\ of[x] \in Nat
  BY DEF About
<1>2. IsFiniteSet(DOMAIN of)
  BY <1>1, FS_Subset
<1>3. About(Delete(map, key), n) = Delete(of, key)
  BY DEF About, Delete
<1>4. of = About(map, n)
  OBVIOUS
<1> HIDE DEF of
<1>5. CASE key \in DOMAIN map
  <2>1. key \in DOMAIN of
    BY <1>1, <1>5
  <2> QED BY <1>1, <1>2, <1>3, <1>4, <1>5, <2>1, SumWithout
<1>6. CASE key \notin DOMAIN map
  <2>1. Delete(of, key) = of
    BY <1>1, <1>4, <1>6 DEF Delete, About
  <2> QED BY <1>1, <1>2, <1>3, <1>4, <1>6, <2>1, SumType
<1> QED BY <1>5, <1>6

\* The total of a name, now and after a step.
LEMMA TotalIsSum ==
    ASSUME NEW n
    PROVE  /\ Total(n) = SumOf(About(attestations, n))
           /\ Total(n)' = SumOf(About(attestations', n))
<1>1. Total(n) = SumOf(About(attestations, n))
  BY DEF Total, SumOf, About, AttestationsOf
<1>2. Total(n)' = SumOf(About(attestations', n))
  BY DEF Total, SumOf, About, AttestationsOf,
         FoldFunction, FoldFunctionOnSet, MapThenFoldSet
<1> QED BY <1>1, <1>2

\* One boost of `n` is exchanged for another, in the sum and in the score: `prev`
\* or `boost` is 0 where there is none.
Exchanged(n) ==
    \E prev, boost, rest \in Nat :
        /\ Total(n) = prev + rest
        /\ Total(n)' = boost + rest
        /\ AggOf(n)'.score = Capped(SaturatingSub(AggOf(n).score, prev) + boost)

\* A name no message is about keeps sum and score.
LEMMA SameBoosts ==
    ASSUME CountInv, NEW n, About(attestations', n) = About(attestations, n),
           AggOf(n)' = AggOf(n)
    PROVE  Exchanged(n)
<1>1. Total(n)' = Total(n) /\ Total(n) \in Nat
  <2>1. IsFiniteSet(DOMAIN About(attestations, n))
    <3>1. DOMAIN About(attestations, n) \subseteq DOMAIN attestations
      BY DEF About
    <3> QED BY <3>1, FS_Subset DEF CountInv
  <2>2. \A x \in DOMAIN About(attestations, n) : About(attestations, n)[x] \in Nat
    <3>1. \A x \in DOMAIN attestations : attestations[x] \in Nat
      BY DsslAssumption DEF CountInv, DsslItemsOK
    <3>2. /\ DOMAIN About(attestations, n) \subseteq DOMAIN attestations
          /\ \A x \in DOMAIN About(attestations, n) :
                About(attestations, n)[x] = attestations[x]
      BY DEF About
    <3> QED BY <3>1, <3>2
  <2>3. SumOf(About(attestations, n)) \in Nat
    BY <2>1, <2>2, SumType
  <2> QED BY <2>3, TotalIsSum
<1>2. AggOf(n).score \in 0..MaxScore
  BY AggOfType DEF CountInv, Aggregate
<1>3. Capped(SaturatingSub(AggOf(n).score, 0) + 0) = AggOf(n).score
  BY <1>2, DsslAssumption DEF Capped, SaturatingSub
<1>4. Total(n) = 0 + Total(n)
  BY <1>1
<1> QED BY <1>1, <1>3, <1>4 DEF Exchanged

\* Attest exchanges a boost of the name it is about.
LEMMA AttestExchanges ==
    ASSUME CountInv, NEW s \in Sender, NEW raw \in NameInput, NEW boost \in BoostInput,
           Attest(s, raw, boost), NEW m
    PROVE  Exchanged(m)
<1> DEFINE n    == NormalizeName(raw)
           key  == <<n, s>>
           prev == MayLoad(attestations, key)
           a    == Attested(AggOf(n), prev, boost)
           rest == SumOf(About(Delete(attestations, key), n))
<1>1. /\ agg' = Save(agg, n, a)
      /\ attestations' = Save(attestations, key, boost)
  BY DEF Attest
<1>2. /\ IsFiniteSet(DOMAIN attestations)
      /\ \A x \in DOMAIN attestations : attestations[x] \in Nat
      /\ boost \in Nat /\ AggOf(n).score \in Nat
  BY AggOfType, DsslAssumption DEF CountInv, DsslItemsOK, Aggregate
<1>3. key[1] = n
  OBVIOUS
<1>4. \A k : AggOf(k)' = IF k = n THEN a ELSE AggOf(k)
  <2> HIDE DEF n, a
  <2> QED BY <1>1 DEF AggOf, Save
<1>5. CASE m # n
  <2>1. About(attestations', m) = About(attestations, m)
    <3> HIDE DEF key
    <3> QED BY <1>1, <1>3, <1>5 DEF About, Save
  <2> QED BY <1>4, <1>5, <2>1, SameBoosts
<1>6. CASE m = n
  <2>1. /\ rest \in Nat
        /\ key \in DOMAIN attestations => Total(n) = attestations[key] + rest
        /\ key \notin DOMAIN attestations => Total(n) = rest
    <3> HIDE DEF key, n
    <3> QED BY <1>2, <1>3, SumSplit, TotalIsSum
  <2>2. Total(n)' = boost + rest
    <3> DEFINE after == Save(attestations, key, boost)
    <3>1. /\ DOMAIN after = DOMAIN attestations \cup {key}
          /\ after[key] = boost
          /\ \A x \in DOMAIN after : after[x] \in Nat
          /\ Delete(after, key) = Delete(attestations, key)
      <4> HIDE DEF key
      <4> QED BY <1>2 DEF Save, Delete
    <3>2. IsFiniteSet(DOMAIN after)
      BY <1>2, <3>1, FS_AddElement
    <3>3. Total(n)' = SumOf(About(after, n))
      BY <1>1, TotalIsSum
    <3> HIDE DEF after, key, n
    <3> QED BY <1>3, <3>1, <3>2, <3>3, SumSplit
  <2>3. CASE prev = None
    <3>1. key \notin DOMAIN attestations
      BY <2>3, NoAttestation DEF CountInv
    <3>2. AggOf(n)'.score = Capped(AggOf(n).score + boost)
      BY <1>4, <2>3 DEF Attested
    <3>3. SaturatingSub(AggOf(n).score, 0) = AggOf(n).score
      BY <1>2 DEF SaturatingSub
    <3>4. Total(n) = 0 + rest
      BY <2>1, <3>1
    <3> HIDE DEF rest, n
    <3> QED BY <1>2, <1>6, <2>1, <2>2, <3>2, <3>3, <3>4 DEF Exchanged
  <2>4. CASE prev # None
    <3>1. key \in DOMAIN attestations /\ prev = attestations[key] /\ prev \in Nat
      BY <1>2, <2>4 DEF MayLoad
    <3>2. AggOf(n)'.score = Capped(SaturatingSub(AggOf(n).score, prev) + boost)
      <4>1. AggOf(n) \in Aggregate
        BY AggOfType DEF CountInv
      <4> QED BY <1>4, <2>4, <4>1 DEF Attested, Aggregate
    <3> HIDE DEF rest, n, prev
    <3> QED BY <1>2, <1>6, <2>1, <2>2, <3>1, <3>2 DEF Exchanged
  <2> QED BY <2>3, <2>4
<1> QED BY <1>5, <1>6

\* So does the removal of an attestation: it puts 0 in its place.
LEMMA RemovalExchanges ==
    ASSUME CountInv, NEW s, NEW raw, NEW attestor,
           RemoveAttestation(s, raw, attestor), NEW m
    PROVE  Exchanged(m)
<1> DEFINE n    == NormalizeName(raw)
           key  == <<n, attestor>>
           prev == MayLoad(attestations, key)
           a    == [count |-> SaturatingSub(AggOf(n).count, 1),
                    score |-> SaturatingSub(AggOf(n).score, prev)]
           rest == SumOf(About(Delete(attestations, key), n))
<1>1. /\ agg' = IF prev = None THEN agg ELSE Save(agg, n, a)
      /\ attestations' = Delete(attestations, key)
  BY DEF RemoveAttestation
<1>2. /\ IsFiniteSet(DOMAIN attestations)
      /\ \A x \in DOMAIN attestations : attestations[x] \in Nat
      /\ AggOf(n).score \in 0..MaxScore
  <2>1. AggOf(n) \in Aggregate
    BY AggOfType DEF CountInv
  <2> HIDE DEF n
  <2> QED BY <2>1 DEF CountInv, DsslItemsOK, Aggregate
<1>3. key[1] = n
  OBVIOUS
<1>4. \A k : k # n \/ prev = None => AggOf(k)' = AggOf(k)
  <2> HIDE DEF n, a, prev
  <2> QED BY <1>1 DEF AggOf, Save
<1>5. CASE m # n
  <2>1. About(attestations', m) = About(attestations, m)
    <3> HIDE DEF key
    <3> QED BY <1>1, <1>3, <1>5 DEF About, Delete
  <2> QED BY <1>4, <1>5, <2>1, SameBoosts
<1>6. CASE m = n /\ prev = None
  <2>1. key \notin DOMAIN attestations
    BY <1>6, NoAttestation DEF CountInv
  <2>2. About(attestations', n) = About(attestations, n)
    <3> HIDE DEF key
    <3> QED BY <1>1, <2>1 DEF About, Delete
  <2> QED BY <1>4, <1>6, <2>2, SameBoosts
<1>7. CASE m = n /\ prev # None
  <2>1. key \in DOMAIN attestations /\ prev = attestations[key] /\ prev \in Nat
    BY <1>2, <1>7 DEF MayLoad
  <2>2. rest \in Nat /\ Total(n) = prev + rest
    <3> HIDE DEF key, n, prev
    <3> QED BY <1>2, <1>3, <2>1, SumSplit, TotalIsSum
  <2>3. Total(n)' = 0 + rest
    BY <1>1, <2>2, TotalIsSum
  <2>4. AggOf(n)'.score = SaturatingSub(AggOf(n).score, prev)
    <3>1. AggOf(n)' = a
      <4> HIDE DEF n, a, prev
      <4> QED BY <1>1, <1>7 DEF AggOf, Save
    <3> QED BY <3>1
  <2> HIDE DEF n, prev, rest
  <2>5. AggOf(n)'.score = Capped(SaturatingSub(AggOf(n).score, prev) + 0)
    BY <1>2, <2>1, <2>4, DsslAssumption DEF Capped, SaturatingSub
  <2> QED BY <1>7, <2>1, <2>2, <2>3, <2>5 DEF Exchanged
<1> QED BY <1>5, <1>6, <1>7

\* Every step exchanges at most one boost of each name, and no name ever loses
\* its aggregate.
LEMMA StepsExchange ==
    ASSUME CountInv, [DsslNext]_dsslSystemVars
    PROVE  (\A n : Exchanged(n)) /\ DOMAIN agg \subseteq DOMAIN agg'
<1>1. ASSUME UNCHANGED attestations, \A n : AggOf(n)' = AggOf(n)
      PROVE  \A n : Exchanged(n)
  BY <1>1, SameBoosts
<1>2. CASE UNCHANGED dsslVars
  BY <1>1, <1>2 DEF dsslVars, AggOf
<1>3. ASSUME NEW s \in Sender, DsslHandle(s)
      PROVE  (\A n : Exchanged(n)) /\ DOMAIN agg \subseteq DOMAIN agg'
  <2>1. CASE UNCHANGED <<agg, attestations>>
    BY <1>1, <2>1 DEF AggOf
  <2>2. ASSUME NEW raw \in NameInput, UpsertRecord(s, raw)
        PROVE  (\A n : Exchanged(n)) /\ DOMAIN agg \subseteq DOMAIN agg'
    <3>1. (\A n : AggOf(n)' = AggOf(n)) /\ DOMAIN agg \subseteq DOMAIN agg'
      BY <2>2 DEF UpsertRecord, AggOf, Save
    <3> QED BY <1>1, <2>2, <3>1 DEF UpsertRecord
  <2>3. ASSUME NEW raw \in NameInput, NEW boost \in BoostInput, Attest(s, raw, boost)
        PROVE  (\A n : Exchanged(n)) /\ DOMAIN agg \subseteq DOMAIN agg'
    BY <2>3, AttestExchanges DEF Attest, Save
  <2>4. ASSUME NEW raw \in NameInput, NEW x \in AttestorInput, RemoveAttestation(s, raw, x[1])
        PROVE  (\A n : Exchanged(n)) /\ DOMAIN agg \subseteq DOMAIN agg'
    BY <2>4, RemovalExchanges DEF RemoveAttestation, Save
  <2> QED BY <1>3, <2>1, <2>2, <2>3, <2>4
          DEF DsslHandle, DsslTransferAdmin, DsslAcceptAdmin, SetAttestor, RevokeRecord
<1> QED BY <1>2, <1>3 DEF DsslNext, dsslSystemVars, dsslVars

\* ScoreWithinSum for every name, with the types the arithmetic needs
ScoreInv == \A n : AggOf(n).score \in Nat /\ Total(n) \in Nat /\ AggOf(n).score <= Total(n)

\* A name's score never credits it with more than its attestations give.
THEOREM ScoreAlwaysWithinSum == DsslSpec => []ScoreWithinSum
<1>1. DsslInit => ScoreInv
  <2> SUFFICES ASSUME DsslInit, NEW n
               PROVE  AggOf(n).score = 0 /\ Total(n) = 0
    BY DEF ScoreInv
  <2>1. DOMAIN About(attestations, n) = {}
    BY DEF DsslInit, About
  <2> QED BY <2>1, TotalIsSum, SumOfNothing DEF DsslInit, AggOf, NoTrust
<1>2. CountInv /\ ScoreInv /\ [DsslNext]_dsslSystemVars => ScoreInv'
  <2> SUFFICES ASSUME CountInv, ScoreInv, [DsslNext]_dsslSystemVars, NEW n
               PROVE  AggOf(n)'.score \in Nat /\ Total(n)' \in Nat /\ AggOf(n)'.score <= Total(n)'
    BY DEF ScoreInv
  <2>1. PICK prev, boost, rest \in Nat :
             /\ Total(n) = prev + rest
             /\ Total(n)' = boost + rest
             /\ AggOf(n)'.score = Capped(SaturatingSub(AggOf(n).score, prev) + boost)
    BY StepsExchange DEF Exchanged
  <2>2. AggOf(n).score \in Nat /\ AggOf(n).score <= prev + rest
    BY <2>1 DEF ScoreInv
  <2> QED BY <2>1, <2>2, DsslAssumption DEF Capped, SaturatingSub
<1>3. ScoreInv => ScoreWithinSum
  BY DEF ScoreInv, ScoreWithinSum
<1> QED BY <1>1, <1>2, <1>3, AlwaysCounted, PTL DEF DsslSpec

\* A score that is the sum of its attestations stays so while the sum is within
\* the cap.
THEOREM ScoreStaysExact == DsslSpec => ScoreExactBelowCap
<1> DEFINE Exact == \A n \in DOMAIN agg :
                       agg[n].score = Total(n) /\ Total(n)' <= MaxScore
                       => n \in DOMAIN agg' /\ agg'[n].score = Total(n)'
<1>1. CountInv /\ [DsslNext]_dsslSystemVars => [Exact]_dsslSystemVars
  <2> SUFFICES ASSUME CountInv, [DsslNext]_dsslSystemVars, NEW n \in DOMAIN agg,
                      agg[n].score = Total(n), Total(n)' <= MaxScore
               PROVE  n \in DOMAIN agg' /\ agg'[n].score = Total(n)'
    OBVIOUS
  <2>1. PICK prev, boost, rest \in Nat :
             /\ Total(n) = prev + rest
             /\ Total(n)' = boost + rest
             /\ AggOf(n)'.score = Capped(SaturatingSub(AggOf(n).score, prev) + boost)
    BY StepsExchange DEF Exchanged
  <2>2. n \in DOMAIN agg'
    BY StepsExchange
  <2>3. AggOf(n).score = prev + rest /\ AggOf(n)'.score = agg'[n].score
    BY <2>1, <2>2 DEF AggOf
  <2> QED BY <2>1, <2>2, <2>3, DsslAssumption DEF Capped, SaturatingSub
<1> QED BY <1>1, AlwaysCounted, PTL DEF DsslSpec, ScoreExactBelowCap

-----------------------------------------------------------------------------
(* Authority over trust.                                                   *)

\* An attestation is written by its attestor in office and removed by the
\* admin; nothing else changes it or the aggregate it counts in.
THEOREM TrustByAuthority == DsslSpec => TrustAuthority
<1> DEFINE all == DOMAIN attestations \cup DOMAIN attestations'
           Written(x) == MayLoad(attestations, x)' # MayLoad(attestations, x) =>
                            IF x \in DOMAIN attestations' THEN sender' = x[2] /\ MayLoad(attestors, x[2]) = TRUE
                                                          ELSE sender' = dsslConfig.admin
           Counted(n) == AggOf(n)' # AggOf(n) =>
                            \E x \in all : x[1] = n /\ (sender' = x[2] \/ x \notin DOMAIN attestations')
           Trust == (\A x \in all : Written(x)) /\ (\A n \in DOMAIN agg : Counted(n))
<1>1. ASSUME NEW s \in Sender, DsslHandle(s) PROVE Trust
  <2>0. sender' = s
    BY <1>1, DsslAsks DEF Asks
  <2>1. CASE UNCHANGED <<agg, attestations>>
    BY <2>1 DEF AggOf, MayLoad
  <2>2. ASSUME NEW raw \in NameInput, UpsertRecord(s, raw) PROVE Trust
    BY <2>2 DEF UpsertRecord, AggOf, Save, MayLoad
  <2>3. ASSUME NEW raw \in NameInput, NEW boost \in BoostInput, Attest(s, raw, boost)
        PROVE  Trust
    <3> DEFINE n == NormalizeName(raw)
               x == <<n, s>>
               a == Attested(AggOf(n), MayLoad(attestations, x), boost)
    <3>1. /\ IsAttestor(s)
          /\ agg' = Save(agg, n, a)
          /\ attestations' = Save(attestations, x, boost)
      BY <2>3 DEF Attest
    <3>2. \A m : m # n => AggOf(m)' = AggOf(m)
      <4> HIDE DEF n, a
      <4> QED BY <3>1 DEF AggOf, Save
    <3>3. x \in DOMAIN attestations'
      BY <3>1 DEF Save
    <3>4. \A y : y # x => MayLoad(attestations, y)' = MayLoad(attestations, y)
      <4> HIDE DEF x
      <4> QED BY <3>1 DEF MayLoad, Save
    <3>5. \A y \in all : Written(y)
      BY <2>0, <3>1, <3>3, <3>4 DEF IsAttestor
    <3>6. \A m \in DOMAIN agg : Counted(m)
      BY <2>0, <3>2, <3>3
    <3> QED BY <3>5, <3>6
  <2>4. ASSUME NEW raw \in NameInput, NEW y \in AttestorInput, RemoveAttestation(s, raw, y[1])
        PROVE  Trust
    <3> DEFINE n    == NormalizeName(raw)
               x    == <<n, y[1]>>
               prev == MayLoad(attestations, x)
               a    == [count |-> SaturatingSub(AggOf(n).count, 1),
                        score |-> SaturatingSub(AggOf(n).score, prev)]
    <3>1. /\ s = dsslConfig.admin
          /\ agg' = IF prev = None THEN agg ELSE Save(agg, n, a)
          /\ attestations' = Delete(attestations, x)
      BY <2>4 DEF RemoveAttestation
    <3>2. \A m : m # n => AggOf(m)' = AggOf(m)
      <4> HIDE DEF n, a, prev
      <4> QED BY <3>1 DEF AggOf, Save
    <3>3. AggOf(n)' # AggOf(n) => x \in DOMAIN attestations
      BY <3>1 DEF AggOf, MayLoad
    <3>4. x \notin DOMAIN attestations'
      BY <3>1 DEF Delete
    <3>5. \A z : z # x => MayLoad(attestations, z)' = MayLoad(attestations, z)
      <4> HIDE DEF x
      <4> QED BY <3>1 DEF MayLoad, Delete
    <3>6. \A z \in all : Written(z)
      BY <2>0, <3>1, <3>4, <3>5
    <3>7. \A m \in DOMAIN agg : Counted(m)
      BY <3>2, <3>3, <3>4
    <3> QED BY <3>6, <3>7
  <2> QED BY <1>1, <2>1, <2>2, <2>3, <2>4
          DEF DsslHandle, DsslTransferAdmin, DsslAcceptAdmin, SetAttestor, RevokeRecord
<1>2. [DsslNext]_dsslSystemVars => Trust
  <2>1. CASE UNCHANGED dsslVars
    BY <2>1 DEF dsslVars, AggOf, MayLoad
  <2> QED BY <1>1, <2>1 DEF DsslNext, dsslSystemVars
<1>3. [DsslNext]_dsslSystemVars => [Trust]_dsslSystemVars
  BY <1>2
<1> QED BY <1>3, PTL DEF DsslSpec, TrustAuthority
=============================================================================
