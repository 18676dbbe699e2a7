----------------------------- MODULE TldManager -----------------------------
(***************************************************************************)
(* contracts/tld-manager: commit-reveal registration of a top-level label, *)
(* with a list of labels the admin keeps back.                             *)
(***************************************************************************)
EXTENDS CommitReveal

CONSTANTS
    TldTerms,
    TldInstantiate,     \* [admin, tldPrice]
    TldAdminInput,
    TldCommitInput      \* who sends it which commitment

ASSUME TldManagerAssumption ==
    /\ TldTerms \in Terms /\ TldTerms.contract \notin Sender
    /\ TldInstantiate \in [admin : Addr, tldPrice : Nat]
    /\ TldAdminInput \subseteq Addr
    /\ TldCommitInput \subseteq Sender \X Commitment

VARIABLES
    tldConfig,        \* CONFIG, the fields that change (tld_price does not)
    reserved,         \* RESERVED (its keys: only true is ever stored)
    tldCommitments    \* COMMITMENTS

tldVars == <<tldConfig, reserved, tldCommitments>>

TldInit ==
    /\ tldConfig = InOffice(TldInstantiate.admin)
    /\ reserved = {}
    /\ tldCommitments = <<>>

TldTypeOK ==
    /\ tldConfig \in Office
    /\ reserved \subseteq Label
    /\ DOMAIN tldCommitments \subseteq Sender
    /\ tldCommitments \in [DOMAIN tldCommitments -> CommitmentRecord]

-----------------------------------------------------------------------------
TldTransferAdmin(s, new) ==
    Nominate(tldConfig, s, new) /\ UNCHANGED <<deskVars, reserved, tldCommitments>>

TldAcceptAdmin(s) ==
    AcceptNomination(tldConfig, s) /\ UNCHANGED <<deskVars, reserved, tldCommitments>>

\* Mutant of SetReserved: keeps the label as typed.
SetReservedAsTyped(s, rawLabel, keep) ==
    /\ s = tldConfig.admin
    /\ NormalizeLabel(rawLabel) # Invalid
    /\ reserved' = IF keep THEN reserved \cup {rawLabel} ELSE reserved \ {rawLabel}
    /\ UNCHANGED <<deskVars, tldConfig, tldCommitments>>

SetReserved(s, rawLabel, keep) ==
    LET l == NormalizeLabel(rawLabel) IN
    /\ s = tldConfig.admin
    /\ l # Invalid
    /\ reserved' = IF keep THEN reserved \cup {l} ELSE reserved \ {l}
    /\ UNCHANGED <<deskVars, tldConfig, tldCommitments>>

TldCommit(s, commitment) ==
    /\ tldCommitments' = Commit(tldCommitments, s, commitment)
    /\ UNCHANGED <<deskVars, tldConfig, reserved>>

\* Mutant of RegisterTld: looks the label up as typed.
RegisterTldAsTyped(s, rawLabel, owner, secret, funds) ==
    LET l == NormalizeLabel(rawLabel) IN
    /\ l # Invalid
    /\ rawLabel \notin reserved
    /\ HoldsCommitment(tldCommitments, TldTerms, s, owner, <<l>>, secret)
    /\ ~Exists(<<l>>)
    /\ PaysTreasury(TldTerms, s, funds, TldInstantiate.tldPrice)
    /\ tldCommitments' = Delete(tldCommitments, s)
    /\ Mint(TldTerms.contract, <<l>>, owner)
    /\ UNCHANGED <<now, tldConfig, reserved>>

\* The label alone is the name: <<l>>.
RegisterTld(s, rawLabel, owner, secret, funds) ==
    LET l == NormalizeLabel(rawLabel) IN
    /\ l # Invalid
    /\ l \notin reserved
    /\ HoldsCommitment(tldCommitments, TldTerms, s, owner, <<l>>, secret)
    /\ ~Exists(<<l>>)
    /\ PaysTreasury(TldTerms, s, funds, TldInstantiate.tldPrice)
    /\ tldCommitments' = Delete(tldCommitments, s)
    /\ Mint(TldTerms.contract, <<l>>, owner)
    /\ UNCHANGED <<now, tldConfig, reserved>>

TldCleanExpired(limit) ==
    /\ tldCommitments' = CleanExpired(tldCommitments, TldTerms, limit)
    /\ UNCHANGED <<deskVars, tldConfig, reserved>>

TldAdminister(s) ==
    \/ \E a \in TldAdminInput : TldTransferAdmin(s, a)
    \/ TldAcceptAdmin(s)
    \/ \E l \in LabelInput, keep \in BOOLEAN : SetReserved(s, l, keep)
=============================================================================
