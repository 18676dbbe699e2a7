------------------------------ MODULE Records ------------------------------
(***************************************************************************)
(* Resolver and metadata over the registry, with a client that reads the   *)
(* fields of a name page by page while everybody goes on writing: each     *)
(* page is a query of its own, at a height of its own.                     *)
(*                                                                         *)
(* Two history variables: `inherited` are the resolver records that were   *)
(* there when their name last changed hands, `cleared` the names whose     *)
(* owner has sent ClearAll since then.                                     *)
(***************************************************************************)
EXTENDS Metadata

CONSTANTS
    ReadName,         \* the name the client reads
    ReadInput         \* the <<include_private, limit>> it may ask with

ASSUME RecordsAssumption ==
    /\ ReadName \in Name
    /\ ReadInput \subseteq BOOLEAN \X ((Nat \ {0}) \cup {None})

VARIABLES
    inherited, cleared,
    reader      \* the client: its request, its cursor, and the keys due to it:
                \* visible ever since it started, and not on a page so far

historyVars == <<inherited, cleared>>
recordsVars == <<vars, resolverVars, metadataVars, historyVars, reader>>

Reader == [reading : BOOLEAN, private : BOOLEAN, limit : Nat \cup {None},
           cursor : Key \cup {None}, due : SUBSET Key]

Idle == [reading |-> FALSE, private |-> FALSE, limit |-> None, cursor |-> None, due |-> {}]

RecordsInit ==
    /\ Init /\ ResolverInit /\ MetadataInit
    /\ inherited = {} /\ cleared = {}
    /\ reader = Idle

-----------------------------------------------------------------------------
Present == ({"text"} \X texts) \cup ({"federation"} \X feds)

HandsChanged == {n \in DOMAIN names \cup DOMAIN names' : OwnerOf(n)' # OwnerOf(n)}

\* What a step makes of the history; `swept` are the names it clears.
Record(swept) ==
    /\ inherited' = {r \in Present' : r \in inherited \/ r[2][1] \in HandsChanged}
    /\ cleared' = (cleared \cup swept) \ HandsChanged

\* What is deleted or hidden meanwhile is due no more.
Watch ==
    reader' = [reader EXCEPT !.due =
        {k \in @ : /\ <<ReadName, k>> \in DOMAIN fields'
                   /\ reader.private \/ fields'[<<ReadName, k>>]}]

RegistryStep ==
    Next /\ UNCHANGED <<resolverVars, metadataVars>> /\ Record({}) /\ Watch

ResolverStep(s) ==
    /\ \/ ResolverHandle(s) /\ Record({})
       \/ \E raw \in NameInput : ClearAll(s, raw) /\ Record({NormalizeName(raw)})
    /\ UNCHANGED metadataVars
    /\ Watch

MetadataStep(s) ==
    MetadataHandle(s) /\ UNCHANGED resolverVars /\ Record({}) /\ Watch

Start(private, limit) ==
    /\ ~reader.reading
    /\ reader' = [reading |-> TRUE, private |-> private, limit |-> limit, cursor |-> None,
                  due |-> Visible(ReadName, private)]
    /\ UNCHANGED <<vars, resolverVars, metadataVars, historyVars>>

\* The next page, from the last key of the one before; an empty page is the end.
ReadPage ==
    LET page == FieldsPage(ReadName, reader.private, reader.cursor, reader.limit)
        last == CHOOSE k \in page : \A x \in page : KeyRank[x] <= KeyRank[k]
    IN
    /\ reader.reading
    /\ reader' = IF page = {} THEN [Idle EXCEPT !.due = reader.due]
                 ELSE [reader EXCEPT !.cursor = last, !.due = reader.due \ page]
    /\ UNCHANGED <<vars, resolverVars, metadataVars, historyVars>>

RecordsNext ==
    \/ RegistryStep
    \/ \E s \in Sender : ResolverStep(s) \/ MetadataStep(s)
    \/ \E r \in ReadInput : Start(r[1], r[2])
    \/ ReadPage

\* The client asks for the next page when it has the one before.
RecordsSpec == RecordsInit /\ [][RecordsNext]_recordsVars /\ WF_recordsVars(ReadPage)

-----------------------------------------------------------------------------
RecordsTypeOK ==
    /\ TypeOK /\ ResolverTypeOK /\ MetadataTypeOK
    /\ reader \in Reader

\* All that is on record about name `n`
About(n) == <<{r \in texts : r[1] = n}, {r \in feds : r[1] = n},
              [k \in KeysOf(n) |-> fields[<<n, k>>]]>>

\* What two contracts keep about a name changes only in a message of the
\* account that a third one, the registry, holds to be its owner at that
\* moment: not by a transfer, a burn or a new mint of the name, and not by
\* the admin of either contract.
RecordsFollowOwner ==
    [][\A n \in {r[1] : r \in texts \cup feds \cup DOMAIN fields} \cup DOMAIN names :
          About(n)' # About(n) =>
              /\ sender' = OwnerOf(n)
              /\ UNCHANGED <<names, resolverConfig, metadataConfig>>]_recordsVars

\* Records stay with a name that is sold or burnt and minted again, and answer
\* for its next owner; one ClearAll rids him of all of them, for as long as he
\* has the name, whatever he and others write, transfer and clear afterwards.
CleanSlate == \A r \in inherited : r[2][1] \notin cleared

\* A listing read in pages while fields are set, hidden, shown and deleted is
\* complete: a field that was visible from the first page on is on one of the
\* pages, whatever positive limits the client asks with.  (RecordsAssumption
\* leaves out a limit of 0, which the contract takes: an empty page is then no
\* sign that there is nothing more.)
PagesComplete ==
    \A k \in reader.due :
        /\ reader.reading
        /\ reader.cursor = None \/ KeyRank[reader.cursor] < KeyRank[k]

\* Reading comes to an end even while the same fields are written again and
\* again: every page takes the cursor on.
ReadingEnds == reader.reading ~> ~reader.reading
=============================================================================
