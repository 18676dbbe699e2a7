---------------------------- MODULE RecordsProofs ----------------------------
(***************************************************************************)
(* Theorems about Records, for every value of its constants.               *)
(***************************************************************************)
EXTENDS Records, NameClientProofs, FiniteSetTheorems

-----------------------------------------------------------------------------
(* Pages.                                                                  *)

\* A finite set of ranked keys has a first one: the strict subsets of a finite
\* set are well-founded, and so are the sets of keys below a key.
LEMMA LowestRank ==
    ASSUME NEW S, IsFiniteSet(S), S # {}, NEW rank, \A k \in S : rank[k] \in Int
    PROVE  \E k \in S : \A x \in S : rank[k] <= rank[x]
<1> DEFINE Below(k) == {x \in S : rank[x] < rank[k]}
           R == StrictSubsetOrdering(S)
           T == {Below(k) : k \in S}
<1>1. T \subseteq FiniteSubsetsOf(S)
  BY FS_Subset DEF FiniteSubsetsOf
<1>2. \E b \in T : \A c \in T : ~ (<<c, b>> \in R)
  <2>1. T # {}
    OBVIOUS
  <2>2. IsWellFoundedOn(R, FiniteSubsetsOf(S))
    BY FS_StrictSubsetOrderingWellFounded
  <2> HIDE DEF T, R
  <2> QED BY <1>1, <2>1, <2>2, WFMin
<1>3. PICK k \in S : \A x \in S : ~ (<<Below(x), Below(k)>> \in R)
  BY <1>2
<1>4. ASSUME NEW x \in S, rank[x] < rank[k] PROVE FALSE
  <2>1. Below(x) \subseteq Below(k) /\ x \in Below(k) /\ x \notin Below(x)
    BY <1>4
  <2>2. <<Below(x), Below(k)>> \in R
    BY <2>1 DEF StrictSubsetOrdering
  <2> QED BY <2>2, <1>3
<1> QED BY <1>4

\* And a last one.
LEMMA HighestRank ==
    ASSUME NEW S, IsFiniteSet(S), S # {}, NEW rank, \A k \in S : rank[k] \in Int
    PROVE  \E k \in S : \A x \in S : rank[x] <= rank[k]
<1> DEFINE back == [k \in S |-> 0 - rank[k]]
<1>1. \A k \in S : back[k] \in Int
  OBVIOUS
<1>2. PICK k \in S : \A x \in S : back[k] <= back[x]
  <2> HIDE DEF back
  <2> QED BY <1>1, LowestRank
<1> QED BY <1>2

\* The keys a page that starts after `start` is taken from
After(keys, rank, start) ==
    IF start = None THEN keys ELSE {k \in keys : rank[k] > rank[start]}

\* A page is a set of keys after `start`; it is empty only if there are none,
\* and the keys it leaves out come after those it has.
LEMMA PageProperties ==
    ASSUME NEW keys, IsFiniteSet(keys), NEW rank, \A k \in keys : rank[k] \in Nat,
           NEW start, NEW limit \in Nat \ {0}
    PROVE  LET page == TakeFrom(keys, rank, start, limit)
               past == After(keys, rank, start)
           IN  /\ page \subseteq past
               /\ past # {} => page # {}
               /\ \A l \in page, k \in past \ page : rank[l] < rank[k]
<1> DEFINE past == After(keys, rank, start)
           Before(k) == {x \in past : rank[x] < rank[k]}
           page == TakeFrom(keys, rank, start, limit)
<1>1. past \subseteq keys
  BY DEF After
<1>2. page = {k \in past : Cardinality(Before(k)) < limit}
  BY DEF TakeFrom, After
<1>3. IsFiniteSet(past) /\ \A k \in past : rank[k] \in Nat
  BY <1>1, FS_Subset
<1>4. \A k \in past : IsFiniteSet(Before(k)) /\ Cardinality(Before(k)) \in Nat
  BY <1>3, FS_Subset, FS_CardinalityType
<1>5. past # {} => page # {}
  <2> SUFFICES ASSUME past # {} PROVE page # {}
    OBVIOUS
  <2>1. PICK k \in past : \A x \in past : rank[k] <= rank[x]
    <3> HIDE DEF past
    <3> QED BY <1>3, LowestRank
  <2>2. Before(k) = {}
    BY <1>3, <2>1
  <2>3. Cardinality(Before(k)) < limit
    BY <2>2, FS_EmptySet
  <2> QED BY <1>2, <2>3
<1>6. ASSUME NEW l \in page, NEW k \in past \ page PROVE rank[l] < rank[k]
  <2>1. l \in past /\ Cardinality(Before(l)) < limit /\ ~(Cardinality(Before(k)) < limit)
    BY <1>2
  <2>2. ASSUME rank[k] <= rank[l] PROVE FALSE
    <3>1. Before(k) \subseteq Before(l)
      BY <1>3, <2>1, <2>2
    <3>2. Cardinality(Before(k)) <= Cardinality(Before(l))
      <4> HIDE DEF Before
      <4> QED BY <1>4, <2>1, <3>1, FS_Subset
    <3> QED BY <1>4, <2>1, <3>2
  <2> QED BY <1>3, <2>1, <2>2
<1>7. page \subseteq past
  BY <1>2
<1> QED BY <1>5, <1>6, <1>7

\* The limit of a page is positive, whatever the client asks for.
LEMMA BoundedLimitPositive ==
    ASSUME NEW limit, limit = None \/ limit \in Nat \ {0}
    PROVE  BoundedLimit(limit) \in Nat \ {0}
  BY MetadataAssumption DEF BoundedLimit

\* A name has finitely many fields, all under keys.
LEMMA KeysOfFinite ==
    ASSUME IsFiniteSet(DOMAIN fields), DOMAIN fields \subseteq Name \X Key, NEW n
    PROVE  IsFiniteSet(KeysOf(n)) /\ KeysOf(n) \subseteq Key
<1> DEFINE mine == {x \in DOMAIN fields : x[1] = n}
           key  == [x \in mine |-> x[2]]
<1>1. IsFiniteSet(mine)
  BY FS_Subset
<1>2. key \in Surjection(mine, KeysOf(n))
  BY DEF Surjection, KeysOf
<1>3. IsFiniteSet(KeysOf(n))
  <2> HIDE DEF mine, key
  <2> QED BY <1>1, <1>2, FS_Surjection
<1> QED BY <1>3 DEF KeysOf

-----------------------------------------------------------------------------
(* Types, and the client's progress through the pages.                     *)

\* The two contracts' own state is well typed and the fields are finitely many.
ItemsOK == ResolverTypeOK /\ MetadataTypeOK /\ IsFiniteSet(DOMAIN fields)

\* The client has a positive limit, and what is due to it is what it would be
\* shown by a listing at this moment, past its cursor.
ReaderInv ==
    /\ reader \in Reader
    /\ reader.limit = None \/ reader.limit \in Nat \ {0}
    /\ reader.due \subseteq Visible(ReadName, reader.private)
    /\ PagesComplete

\* Messages to the resolver keep its state well typed and ask the registry.
LEMMA ResolverType ==
    ASSUME ItemsOK, NEW s \in Sender,
           ResolverHandle(s) \/ \E raw \in NameInput : ClearAll(s, raw)
    PROVE  ResolverTypeOK' /\ Asks(s)
<1>0. s \in Addr
  BY RegistryAssumption
<1>1. ASSUME NEW a \in ResolverAdminInput, ResolverTransferAdmin(s, a)
      PROVE  ResolverTypeOK' /\ Asks(s)
  <2>1. resolverConfig' \in Office
    BY <1>1, NominateType, ResolverAssumption DEF ResolverTransferAdmin, Nominate, ItemsOK, ResolverTypeOK
  <2> QED BY <1>1, <2>1 DEF ResolverTransferAdmin, ItemsOK, ResolverTypeOK
<1>2. CASE ResolverAcceptAdmin(s)
  <2>1. resolverConfig' \in Office
    BY <1>0, <1>2, AcceptNominationType DEF ResolverAcceptAdmin, AcceptNomination, ItemsOK, ResolverTypeOK
  <2> QED BY <1>2, <2>1 DEF ResolverAcceptAdmin, ItemsOK, ResolverTypeOK
<1>3. ASSUME NEW t \in TextInput, SetText(s, t[1], t[2]) \/ DeleteText(s, t[1], t[2])
      PROVE  ResolverTypeOK' /\ Asks(s)
  <2>1. /\ t[1] \in Seq(Spelling) /\ t[2] \in Key
        /\ NormalizeName(t[1]) # Invalid
    BY <1>3, ResolverAssumption DEF SetText, DeleteText
  <2>2. NormalizeName(t[1]) \in Name
    BY <2>1, NormalizeNameType
  <2> QED BY <1>3, <2>1, <2>2 DEF SetText, DeleteText, ItemsOK, ResolverTypeOK
<1>4. ASSUME NEW f \in FederationInput, SetFederation(s, f[1], f[2]) \/ DeleteFederation(s, f[1], f[2])
      PROVE  ResolverTypeOK' /\ Asks(s)
  <2>1. /\ f[1] \in Seq(Spelling) /\ f[2] \in Key
        /\ NormalizeName(f[1]) # Invalid
    BY <1>4, ResolverAssumption DEF SetFederation, DeleteFederation
  <2>2. NormalizeName(f[1]) \in Name
    BY <2>1, NormalizeNameType
  <2> QED BY <1>4, <2>1, <2>2 DEF SetFederation, DeleteFederation, ItemsOK, ResolverTypeOK
<1>5. ASSUME NEW raw \in NameInput, ClearAll(s, raw)
      PROVE  ResolverTypeOK' /\ Asks(s)
  BY <1>5 DEF ClearAll, OfOthers, ItemsOK, ResolverTypeOK
<1> QED BY <1>1, <1>2, <1>3, <1>4, <1>5 DEF ResolverHandle

\* Messages to metadata do, and store one field at most.
LEMMA MetadataType ==
    ASSUME ItemsOK, NEW s \in Sender, MetadataHandle(s)
    PROVE  MetadataTypeOK' /\ IsFiniteSet(DOMAIN fields)' /\ Asks(s)
<1>0. s \in Addr
  BY RegistryAssumption
<1>1. ASSUME NEW a \in MetadataAdminInput, MetadataTransferAdmin(s, a)
      PROVE  MetadataTypeOK' /\ IsFiniteSet(DOMAIN fields)' /\ Asks(s)
  <2>1. metadataConfig' \in Office
    BY <1>1, NominateType, MetadataAssumption DEF MetadataTransferAdmin, Nominate, ItemsOK, MetadataTypeOK
  <2> QED BY <1>1, <2>1 DEF MetadataTransferAdmin, ItemsOK, MetadataTypeOK
<1>2. CASE MetadataAcceptAdmin(s)
  <2>1. metadataConfig' \in Office
    BY <1>0, <1>2, AcceptNominationType DEF MetadataAcceptAdmin, AcceptNomination, ItemsOK, MetadataTypeOK
  <2> QED BY <1>2, <2>1 DEF MetadataAcceptAdmin, ItemsOK, MetadataTypeOK
<1>3. ASSUME NEW f \in FieldInput, NEW public \in BOOLEAN, SetField(s, f[1], f[2], public)
      PROVE  MetadataTypeOK' /\ IsFiniteSet(DOMAIN fields)' /\ Asks(s)
  <2> DEFINE x == <<NormalizeName(f[1]), f[2]>>
  <2>1. /\ f[1] \in Seq(Spelling) /\ f[2] \in Key
        /\ NormalizeName(f[1]) # Invalid
        /\ fields' = Save(fields, x, public) /\ Asks(s) /\ UNCHANGED metadataConfig
    BY <1>3, MetadataAssumption DEF SetField
  <2>2. x \in Name \X Key
    BY <2>1, NormalizeNameType
  <2>3. /\ DOMAIN fields' = DOMAIN fields \cup {x}
        /\ DOMAIN fields' \subseteq Name \X Key
        /\ fields' \in [DOMAIN fields' -> BOOLEAN]
    <3> HIDE DEF x
    <3> QED BY <2>1, <2>2 DEF Save, ItemsOK, MetadataTypeOK
  <2> QED BY <2>1, <2>3, FS_AddElement DEF ItemsOK, MetadataTypeOK
<1>4. ASSUME NEW f \in FieldInput, DeleteField(s, f[1], f[2])
      PROVE  MetadataTypeOK' /\ IsFiniteSet(DOMAIN fields)' /\ Asks(s)
  <2> DEFINE x == <<NormalizeName(f[1]), f[2]>>
  <2>1. fields' = Delete(fields, x) /\ Asks(s) /\ UNCHANGED metadataConfig
    BY <1>4 DEF DeleteField
  <2>2. /\ DOMAIN fields' = DOMAIN fields \ {x}
        /\ DOMAIN fields' \subseteq Name \X Key
        /\ fields' \in [DOMAIN fields' -> BOOLEAN]
    BY <2>1 DEF Delete, ItemsOK, MetadataTypeOK
  <2> QED BY <2>1, <2>2, FS_RemoveElement DEF ItemsOK, MetadataTypeOK
<1> QED BY <1>1, <1>2, <1>3, <1>4 DEF MetadataHandle

\* Whoever writes what, the keys still due stay those a listing would show.
LEMMA WatchKeeps ==
    ASSUME ReaderInv, Watch
    PROVE  ReaderInv'
<1> DEFINE left == {k \in reader.due : /\ <<ReadName, k>> \in DOMAIN fields'
                                       /\ reader.private \/ fields'[<<ReadName, k>>]}
<1>1. reader' = [reading |-> reader.reading, private |-> reader.private, limit |-> reader.limit,
                 cursor |-> reader.cursor, due |-> left]
  BY DEF Watch, ReaderInv, Reader
<1>2. left \subseteq reader.due
  OBVIOUS
<1>3. reader' \in Reader
  BY <1>1, <1>2 DEF ReaderInv, Reader
<1>4. reader'.due \subseteq Visible(ReadName, reader.private)'
  BY <1>1 DEF Visible, KeysOf
<1>5. PagesComplete'
  BY <1>1, <1>2 DEF ReaderInv, PagesComplete
<1> QED BY <1>1, <1>3, <1>4, <1>5 DEF ReaderInv

\* A page contains what is due up to its last key, or nothing is due.
LEMMA ReadPageKeeps ==
    ASSUME ItemsOK, ReaderInv, ReadPage
    PROVE  ReaderInv'
<1> DEFINE visible == Visible(ReadName, reader.private)
           limit   == BoundedLimit(reader.limit)
           page    == TakeFrom(visible, KeyRank, reader.cursor, limit)
           past    == After(visible, KeyRank, reader.cursor)
           last    == CHOOSE k \in page : \A x \in page : KeyRank[x] <= KeyRank[k]
<1>1. /\ reader.reading
      /\ reader' = IF page = {} THEN [Idle EXCEPT !.due = reader.due]
                   ELSE [reader EXCEPT !.cursor = last, !.due = reader.due \ page]
      /\ UNCHANGED fields
  BY DEF ReadPage, FieldsPage, metadataVars
<1>2. IsFiniteSet(visible) /\ visible \subseteq Key /\ \A k \in Key : KeyRank[k] \in Nat
  <2>1. IsFiniteSet(KeysOf(ReadName)) /\ KeysOf(ReadName) \subseteq Key
    BY KeysOfFinite DEF ItemsOK, MetadataTypeOK
  <2> QED BY <2>1, FS_Subset, MetadataAssumption DEF Visible
<1>3. /\ page \subseteq past
      /\ past # {} => page # {}
      /\ \A l \in page, k \in past \ page : KeyRank[l] < KeyRank[k]
  <2>1. limit \in Nat \ {0}
    BY BoundedLimitPositive DEF ReaderInv
  <2>2. \A k \in visible : KeyRank[k] \in Nat
    BY <1>2
  <2> HIDE DEF visible, limit
  <2> QED BY <1>2, <2>1, <2>2, PageProperties
<1>4. past \subseteq visible
  BY DEF After
<1>5. reader.due \subseteq past
  BY DEF ReaderInv, PagesComplete, After
<1>6. CASE page = {}
  <2>1. reader.due = {}
    BY <1>3, <1>5, <1>6
  <2>2. reader' = Idle
    BY <1>1, <1>6, <2>1 DEF Idle
  <2> QED BY <2>1, <2>2 DEF Idle, ReaderInv, Reader, PagesComplete
<1>7. CASE page # {}
  <2>1. last \in page /\ last \in Key
    <3>1. IsFiniteSet(page) /\ \A k \in page : KeyRank[k] \in Int
      BY <1>2, <1>3, <1>4, FS_Subset
    <3>2. \E k \in page : \A x \in page : KeyRank[x] <= KeyRank[k]
      <4> HIDE DEF page
      <4> QED BY <1>7, <3>1, HighestRank
    <3>3. last \in page
      <4> HIDE DEF page
      <4> QED BY <3>2
    <3> QED BY <1>2, <1>3, <1>4, <3>3
  <2> HIDE DEF last
  <2>2. reader' = [reading |-> TRUE, private |-> reader.private, limit |-> reader.limit,
                   cursor |-> last, due |-> reader.due \ page]
    BY <1>1, <1>7 DEF ReaderInv, Reader
  <2>3. reader' \in Reader
    BY <2>1, <2>2 DEF ReaderInv, Reader
  <2>4. reader'.due \subseteq Visible(ReadName, reader.private)'
    BY <1>1, <2>2 DEF ReaderInv, Visible, KeysOf
  <2>5. \A k \in reader.due \ page : KeyRank[last] < KeyRank[k]
    BY <1>3, <1>5, <2>1
  <2> QED BY <2>2, <2>3, <2>4, <2>5 DEF ReaderInv, PagesComplete
<1> QED BY <1>6, <1>7

\* The inductive invariant of Records
RecordsInv == TypeOK /\ ItemsOK /\ ReaderInv

\* It holds initially and every step keeps it.
LEMMA RecordsInvariant == RecordsSpec => []RecordsInv
<1>1. RecordsInit => RecordsInv
  <2> SUFFICES ASSUME RecordsInit PROVE RecordsInv
    OBVIOUS
  <2>1. TypeOK
    BY TypeInitially DEF RecordsInit
  <2>2. ResolverTypeOK
    BY InOfficeType, ResolverAssumption DEF RecordsInit, ResolverInit, ResolverTypeOK
  <2>3. MetadataTypeOK /\ IsFiniteSet(DOMAIN fields)
    BY InOfficeType, MetadataAssumption, FS_EmptySet DEF RecordsInit, MetadataInit, MetadataTypeOK
  <2>4. ReaderInv
    BY DEF RecordsInit, Idle, ReaderInv, Reader, PagesComplete
  <2> QED BY <2>1, <2>2, <2>3, <2>4 DEF RecordsInv, ItemsOK
<1>2. RecordsInv /\ [RecordsNext]_recordsVars => RecordsInv'
  <2> SUFFICES ASSUME RecordsInv, [RecordsNext]_recordsVars
               PROVE  RecordsInv'
    OBVIOUS
  <2> USE DEF RecordsInv
  <2>1. CASE UNCHANGED <<vars, resolverVars, metadataVars>> /\ ReaderInv'
    BY <2>1, TypeStep DEF ItemsOK, resolverVars, metadataVars, ResolverTypeOK, MetadataTypeOK
  <2>2. CASE RegistryStep
    <3>1. TypeOK'
      BY <2>2, TypeStep DEF RegistryStep
    <3>2. ItemsOK'
      BY <2>2 DEF RegistryStep, ItemsOK, resolverVars, metadataVars, ResolverTypeOK, MetadataTypeOK
    <3> QED BY <2>2, <3>1, <3>2, WatchKeeps DEF RegistryStep
  <2>3. ASSUME NEW s \in Sender, ResolverStep(s) PROVE RecordsInv'
    <3>1. ResolverTypeOK' /\ Asks(s)
      BY <2>3, ResolverType DEF ResolverStep
    <3>2. TypeOK'
      BY <3>1, AsksType, RegistryAssumption
    <3>3. ItemsOK'
      BY <2>3, <3>1 DEF ResolverStep, ItemsOK, metadataVars, MetadataTypeOK
    <3> QED BY <2>3, <3>2, <3>3, WatchKeeps DEF ResolverStep
  <2>4. ASSUME NEW s \in Sender, MetadataStep(s) PROVE RecordsInv'
    <3>1. MetadataTypeOK' /\ IsFiniteSet(DOMAIN fields)' /\ Asks(s)
      BY <2>4, MetadataType DEF MetadataStep
    <3>2. TypeOK'
      BY <3>1, AsksType, RegistryAssumption
    <3>3. ItemsOK'
      BY <2>4, <3>1 DEF MetadataStep, ItemsOK, resolverVars, ResolverTypeOK
    <3> QED BY <2>4, <3>2, <3>3, WatchKeeps DEF MetadataStep
  <2>5. ASSUME NEW r \in ReadInput, Start(r[1], r[2]) PROVE RecordsInv'
    <3>1. r[1] \in BOOLEAN /\ (r[2] = None \/ r[2] \in Nat \ {0})
      BY RecordsAssumption
    <3>2. Visible(ReadName, r[1]) \subseteq Key
      BY KeysOfFinite DEF Visible, ItemsOK, MetadataTypeOK
    <3>3. UNCHANGED fields
      BY <2>5 DEF Start, metadataVars
    <3>4. ReaderInv'
      BY <2>5, <3>1, <3>2, <3>3 DEF Start, ReaderInv, Reader, PagesComplete, Visible, KeysOf
    <3> QED BY <2>1, <2>5, <3>4 DEF Start
  <2>6. CASE ReadPage
    BY <2>1, <2>6, ReadPageKeeps DEF ReadPage
  <2>7. CASE UNCHANGED recordsVars
    <3>1. ReaderInv'
      BY <2>7 DEF recordsVars, metadataVars, ReaderInv, PagesComplete, Visible, KeysOf
    <3> QED BY <2>1, <2>7, <3>1 DEF recordsVars
  <2> QED BY <2>2, <2>3, <2>4, <2>5, <2>6, <2>7 DEF RecordsNext
<1> QED BY <1>1, <1>2, PTL DEF RecordsSpec

\* Every reachable state has the types the two contracts declare.
THEOREM RecordsTypeCorrect == RecordsSpec => []RecordsTypeOK
<1>1. RecordsInv => RecordsTypeOK
  BY DEF RecordsInv, ItemsOK, ReaderInv, RecordsTypeOK
<1> QED BY <1>1, RecordsInvariant, PTL

\* A listing of a name's fields, read in pages of any size while everybody goes
\* on writing, misses no field that was visible all along.
THEOREM PagesAlwaysComplete == RecordsSpec => []PagesComplete
<1>1. RecordsInv => PagesComplete
  BY DEF RecordsInv, ReaderInv
<1> QED BY <1>1, RecordsInvariant, PTL

-----------------------------------------------------------------------------
(* Records and the owner of their name.                                    *)

\* A step that clears the names `swept` of all records keeps the slate clean.
LEMMA SlateKept ==
    ASSUME CleanSlate, NEW swept, Record(swept),
           \A r \in Present' : r[2][1] \notin swept
    PROVE  CleanSlate'
  BY DEF CleanSlate, Record

\* One ClearAll after a name has changed hands rids the new owner of every
\* record of a former one, until the name changes hands again.
THEOREM SlateStaysClean == RecordsSpec => []CleanSlate
<1>1. RecordsInit => CleanSlate
  BY DEF RecordsInit, CleanSlate
<1>2. CleanSlate /\ [RecordsNext]_recordsVars => CleanSlate'
  <2> SUFFICES ASSUME CleanSlate, [RecordsNext]_recordsVars
               PROVE  CleanSlate'
    OBVIOUS
  <2>1. CASE Record({})
    BY <2>1, SlateKept
  <2>2. ASSUME NEW s \in Sender, NEW raw \in NameInput,
               ClearAll(s, raw), Record({NormalizeName(raw)})
        PROVE  CleanSlate'
    <3>1. \A r \in Present' : r[2][1] # NormalizeName(raw)
      BY <2>2 DEF ClearAll, OfOthers, Present
    <3> QED BY <2>2, <3>1, SlateKept
  <2>3. CASE UNCHANGED historyVars
    BY <2>3 DEF historyVars, CleanSlate
  <2> QED BY <2>1, <2>2, <2>3
          DEF RecordsNext, RegistryStep, ResolverStep, MetadataStep, Start, ReadPage, recordsVars
<1> QED BY <1>1, <1>2, PTL DEF RecordsSpec

\* What is on record about `n` is the same if each of the three maps is.
LEMMA AboutSame ==
    ASSUME NEW n, UNCHANGED <<texts, feds>>,
           \A x : x[1] = n => /\ x \in DOMAIN fields' <=> x \in DOMAIN fields
                              /\ x \in DOMAIN fields => fields'[x] = fields[x],
           DOMAIN fields \subseteq Name \X Key
    PROVE  About(n)' = About(n)
<1>1. KeysOf(n)' = KeysOf(n)
  BY DEF KeysOf
<1>2. \A k \in KeysOf(n) : <<n, k>> \in DOMAIN fields
  BY DEF KeysOf
<1>3. [k \in KeysOf(n)' |-> fields'[<<n, k>>]] = [k \in KeysOf(n) |-> fields[<<n, k>>]]
  BY <1>1, <1>2
<1> QED BY <1>3 DEF About

\* Only the owner the registry has for a name at that moment changes what the
\* resolver and metadata keep about it.
THEOREM OwnerKeepsRecords == RecordsSpec => RecordsFollowOwner
<1> DEFINE Ruled(n) == About(n)' # About(n) =>
                          /\ sender' = OwnerOf(n)
                          /\ UNCHANGED <<names, resolverConfig, metadataConfig>>
<1>1. ASSUME MetadataTypeOK, [RecordsNext]_recordsVars, NEW n
      PROVE  Ruled(n)
  <2> DEFINE Kept == About(n)' = About(n)
             Own(s) == Asks(s) /\ OwnsName(s, n) /\ UNCHANGED <<resolverConfig, metadataConfig>>
  <2>1. ASSUME NEW s, Own(s) PROVE Ruled(n)
    BY <2>1 DEF Asks, OwnsName, nameVars
  <2>2. CASE UNCHANGED <<texts, feds, fields>>
    BY <2>2 DEF About, KeysOf
  <2>3. ASSUME NEW s \in Sender, ResolverStep(s) PROVE Ruled(n)
    <3>1. UNCHANGED <<metadataConfig, fields>>
      BY <2>3 DEF ResolverStep, metadataVars
    <3>2. ASSUME {r \in texts' : r[1] = n} = {r \in texts : r[1] = n},
                 {r \in feds' : r[1] = n} = {r \in feds : r[1] = n}
          PROVE  Kept
      BY <3>1, <3>2 DEF About, KeysOf
    <3> DEFINE Writes(raw) == /\ Asks(s) /\ OwnsName(s, NormalizeName(raw)) /\ UNCHANGED resolverConfig
                              /\ \A r : r[1] # NormalizeName(raw) =>
                                    (r \in texts' <=> r \in texts) /\ (r \in feds' <=> r \in feds)
    <3>3. ASSUME NEW raw, Writes(raw) PROVE Ruled(n)
      <4>1. CASE NormalizeName(raw) = n
        BY <2>1, <3>1, <3>3, <4>1
      <4>2. CASE NormalizeName(raw) # n
        BY <3>2, <3>3, <4>2
      <4> QED BY <4>1, <4>2
    <3>4. ASSUME NEW t, SetText(s, t[1], t[2]) \/ DeleteText(s, t[1], t[2]) PROVE Writes(t[1])
      BY <3>4 DEF SetText, DeleteText
    <3>5. ASSUME NEW f, SetFederation(s, f[1], f[2]) \/ DeleteFederation(s, f[1], f[2]) PROVE Writes(f[1])
      BY <3>5 DEF SetFederation, DeleteFederation
    <3>6. ASSUME NEW raw, ClearAll(s, raw) PROVE Writes(raw)
      BY <3>6 DEF ClearAll, OfOthers
    <3>7. ASSUME NEW a, ResolverTransferAdmin(s, a) PROVE Ruled(n)
      BY <2>2, <3>1, <3>7 DEF ResolverTransferAdmin
    <3>8. ASSUME ResolverAcceptAdmin(s) PROVE Ruled(n)
      BY <2>2, <3>1, <3>8 DEF ResolverAcceptAdmin
    <3> HIDE DEF Writes, Ruled
    <3> QED BY <2>3, <3>3, <3>4, <3>5, <3>6, <3>7, <3>8 DEF ResolverStep, ResolverHandle
  <2>4. ASSUME NEW s \in Sender, MetadataStep(s) PROVE Ruled(n)
    <3>1. UNCHANGED <<resolverConfig, texts, feds>>
      BY <2>4 DEF MetadataStep, resolverVars
    <3> DEFINE Writes(raw) == /\ Asks(s) /\ OwnsName(s, NormalizeName(raw)) /\ UNCHANGED metadataConfig
                              /\ \A x : x[1] # NormalizeName(raw) =>
                                    /\ x \in DOMAIN fields' <=> x \in DOMAIN fields
                                    /\ x \in DOMAIN fields => fields'[x] = fields[x]
    <3>2. ASSUME NEW raw, Writes(raw) PROVE Ruled(n)
      <4>1. CASE NormalizeName(raw) = n
        BY <2>1, <3>1, <3>2, <4>1
      <4>2. CASE NormalizeName(raw) # n
        <5>1. Kept
          BY <1>1, <3>1, <3>2, <4>2, AboutSame DEF MetadataTypeOK
        <5> QED BY <5>1
      <4> QED BY <4>1, <4>2
    <3>3. ASSUME NEW f, NEW public, SetField(s, f[1], f[2], public) PROVE Writes(f[1])
      BY <3>3 DEF SetField, Save
    <3>4. ASSUME NEW f, DeleteField(s, f[1], f[2]) PROVE Writes(f[1])
      BY <3>4 DEF DeleteField, Delete
    <3>5. ASSUME NEW a, MetadataTransferAdmin(s, a) PROVE Ruled(n)
      BY <2>2, <3>1, <3>5 DEF MetadataTransferAdmin
    <3>6. ASSUME MetadataAcceptAdmin(s) PROVE Ruled(n)
      BY <2>2, <3>1, <3>6 DEF MetadataAcceptAdmin
    <3> HIDE DEF Writes, Ruled
    <3> QED BY <2>4, <3>2, <3>3, <3>4, <3>5, <3>6 DEF MetadataStep, MetadataHandle
  <2>5. CASE RegistryStep
    BY <2>2, <2>5 DEF RegistryStep, resolverVars, metadataVars
  <2>6. ASSUME NEW r \in ReadInput, Start(r[1], r[2]) PROVE Ruled(n)
    BY <2>2, <2>6 DEF Start, resolverVars, metadataVars
  <2>7. CASE ReadPage \/ UNCHANGED recordsVars
    BY <2>2, <2>7 DEF ReadPage, recordsVars, resolverVars, metadataVars
  <2> HIDE DEF Ruled
  <2> QED BY <1>1, <2>3, <2>4, <2>5, <2>6, <2>7 DEF RecordsNext
<1>2. RecordsTypeOK => MetadataTypeOK
  BY DEF RecordsTypeOK
<1> DEFINE Follow == \A n \in {r[1] : r \in texts \cup feds \cup DOMAIN fields} \cup DOMAIN names : Ruled(n)
<1>3. MetadataTypeOK /\ [RecordsNext]_recordsVars => [Follow]_recordsVars
  BY <1>1
<1> QED BY <1>2, <1>3, RecordsTypeCorrect, PTL DEF RecordsSpec, RecordsFollowOwner
=============================================================================
