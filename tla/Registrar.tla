----------------------------- MODULE Registrar -----------------------------
(***************************************************************************)
(* contracts/registrar: commit-reveal registration of a full name at a     *)
(* flat price.  It is one step with the registry's Mint, which it sends as *)
(* a sub-message.  A dotted name passes every check of this contract and   *)
(* is then refused by that Mint, which undoes the whole message.           *)
(***************************************************************************)
EXTENDS CommitReveal

CONSTANTS
    RegistrarTerms,
    RegistrarInstantiate,     \* [admin, price]
    RegistrarAdminInput,
    RegistrarPriceInput,
    RegistrarCommitInput      \* who sends it which commitment

ASSUME RegistrarAssumption ==
    /\ RegistrarTerms \in Terms /\ RegistrarTerms.contract \notin Sender
    /\ RegistrarInstantiate \in [admin : Addr, price : Nat]
    /\ RegistrarAdminInput \subseteq Addr /\ RegistrarPriceInput \subseteq Nat
    /\ RegistrarCommitInput \subseteq Sender \X Commitment

VARIABLES
    registrarConfig,       \* CONFIG, the fields that change
    registrarCommitments   \* COMMITMENTS

registrarVars == <<registrarConfig, registrarCommitments>>

RegistrarInit ==
    /\ registrarConfig = [admin |-> RegistrarInstantiate.admin, pendingAdmin |-> None,
                          price |-> RegistrarInstantiate.price]
    /\ registrarCommitments = <<>>

RegistrarTypeOK ==
    /\ registrarConfig \in [admin : Addr, pendingAdmin : Addr \cup {None}, price : Nat]
    /\ DOMAIN registrarCommitments \subseteq Sender
    /\ registrarCommitments \in [DOMAIN registrarCommitments -> CommitmentRecord]

-----------------------------------------------------------------------------
RegistrarTransferAdmin(s, new) ==
    Nominate(registrarConfig, s, new) /\ UNCHANGED <<deskVars, registrarCommitments>>

RegistrarAcceptAdmin(s) ==
    AcceptNomination(registrarConfig, s) /\ UNCHANGED <<deskVars, registrarCommitments>>

UpdatePricing(s, price) ==
    /\ s = registrarConfig.admin
    /\ registrarConfig' = [registrarConfig EXCEPT !.price = price]
    /\ UNCHANGED <<deskVars, registrarCommitments>>

\* A second commitment replaces the first and starts its waiting time anew.
RegistrarCommit(s, commitment) ==
    /\ registrarCommitments' = Commit(registrarCommitments, s, commitment)
    /\ UNCHANGED <<deskVars, registrarConfig>>

Register(s, rawName, owner, secret, funds) ==
    LET n == NormalizeName(rawName) IN
    /\ n # Invalid
    /\ HoldsCommitment(registrarCommitments, RegistrarTerms, s, owner, n, secret)
    /\ ~Exists(n)
    /\ PaysTreasury(RegistrarTerms, s, funds, registrarConfig.price)
    /\ registrarCommitments' = Delete(registrarCommitments, s)
    /\ Mint(RegistrarTerms.contract, n, owner)
    /\ UNCHANGED <<now, registrarConfig>>

RegistrarCleanExpired(limit) ==
    /\ registrarCommitments' = CleanExpired(registrarCommitments, RegistrarTerms, limit)
    /\ UNCHANGED <<deskVars, registrarConfig>>

RegistrarAdminister(s) ==
    \/ \E a \in RegistrarAdminInput : RegistrarTransferAdmin(s, a)
    \/ RegistrarAcceptAdmin(s)
    \/ \E price \in RegistrarPriceInput : UpdatePricing(s, price)
=============================================================================
