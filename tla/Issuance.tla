------------------------------ MODULE Issuance ------------------------------
(***************************************************************************)
(* The registry with the two contracts that sell names by commit-reveal,   *)
(* the registrar and the TLD manager, on one chain with one clock.         *)
(*                                                                         *)
(* `asked` is a history variable: the commit messages whose sender has not *)
(* since registered a name with them.  A contract remembers only the last  *)
(* one of each sender.                                                     *)
(***************************************************************************)
EXTENDS Registrar, TldManager

CONSTANT MaxCommits     \* bound: commit messages outstanding at any time

ASSUME IssuanceAssumption ==
    /\ MaxCommits \in Nat
    /\ RegistrarTerms.contract # TldTerms.contract

VARIABLE asked

issuanceVars == <<deskVars, registrarVars, tldVars, asked>>

Asked(contract, s, commitment) ==
    [contract |-> contract, by |-> s, commitment |-> commitment, at |-> now]

Remember(contract, s, commitment) ==
    /\ Cardinality(asked) < MaxCommits
    /\ asked' = asked \cup {Asked(contract, s, commitment)}

Redeem(contract, s) ==
    asked' = {x \in asked : x.contract # contract \/ x.by # s}

IssuanceInit == Init /\ now = 0 /\ RegistrarInit /\ TldInit /\ asked = {}

RegistrarNext ==
    /\ \/ \E s \in Sender : RegistrarAdminister(s) /\ UNCHANGED asked
       \/ \E c \in RegistrarCommitInput :
             RegistrarCommit(c[1], c[2]) /\ Remember(RegistrarTerms.contract, c[1], c[2])
       \/ \E s \in Sender, raw \in NameInput, a \in AddrInput, x \in Secret, f \in FundsInput :
             Register(s, raw, a, x, f) /\ Redeem(RegistrarTerms.contract, s)
       \/ \E limit \in LimitInput : RegistrarCleanExpired(limit) /\ UNCHANGED asked
    /\ UNCHANGED tldVars

TldNext ==
    /\ \/ \E s \in Sender : TldAdminister(s) /\ UNCHANGED asked
       \/ \E c \in TldCommitInput :
             TldCommit(c[1], c[2]) /\ Remember(TldTerms.contract, c[1], c[2])
       \/ \E s \in Sender, l \in LabelInput, a \in AddrInput, x \in Secret, f \in FundsInput :
             RegisterTld(s, l, a, x, f) /\ Redeem(TldTerms.contract, s)
       \/ \E limit \in LimitInput : TldCleanExpired(limit) /\ UNCHANGED asked
    /\ UNCHANGED registrarVars

IssuanceNext ==
    \/ Next /\ UNCHANGED <<now, registrarVars, tldVars, asked>>
    \/ RegistrarNext
    \/ TldNext
    \/ Tick /\ UNCHANGED <<vars, registrarVars, tldVars, asked>>

IssuanceSpec == IssuanceInit /\ [][IssuanceNext]_issuanceVars

-----------------------------------------------------------------------------
IssuanceTypeOK == TypeOK /\ now \in 0..MaxTime /\ RegistrarTypeOK /\ TldTypeOK

\* The terms and the price of the contract that sent the mint of a new name
Desks == {RegistrarTerms, TldTerms}
PriceAt(terms) == IF terms = RegistrarTerms THEN registrarConfig.price
                                            ELSE TldInstantiate.tldPrice

\* A name one of the contracts issues goes to somebody who has waited for it:
\* an account that had sent this very contract a commitment to that name and
\* owner, not used since, between minCommitAge and maxCommitAge earlier, and
\* no other commitment after it.  A reveal seen in the mempool is of no use to
\* whoever sees it, however messages, sweeps and clock ticks interleave.
RevealedAfterWaiting ==
    [][\A n \in DOMAIN names' \ DOMAIN names, terms \in Desks :
          sender' = terms.contract =>
          \E x \in asked \ asked' :
             /\ x.contract = terms.contract
             /\ x.commitment[1] = names'[n].owner /\ x.commitment[2] = n
             /\ now - x.at \in terms.minCommitAge..terms.maxCommitAge
             /\ \A y \in asked : y.contract = x.contract /\ y.by = x.by => y.at <= x.at
      ]_issuanceVars

\* The name is paid for in the same step, by the account whose commitment it
\* uses up, at the price in force at that moment, and the treasury receives
\* all of it: nothing is left in the contract.
PaidInFull ==
    [][\A n \in DOMAIN names' \ DOMAIN names, terms \in Desks :
          sender' = terms.contract =>
          \A x \in asked \ asked' :
             balance' = Moved(balance, x.by, terms.treasury,
                              OneCoin(terms.denom, PriceAt(terms)))]_issuanceVars

\* A commitment is lost only to a registration or when it is too old to be
\* revealed: Register and CleanExpired agree on the last second of its life.
Kept(commitments, later, terms) ==
    \A a \in DOMAIN commitments \ DOMAIN later :
        Age(commitments[a]) <= terms.maxCommitAge => DOMAIN names' # DOMAIN names

CleanKeepsLive ==
    [][/\ Kept(registrarCommitments, registrarCommitments', RegistrarTerms)
       /\ Kept(tldCommitments, tldCommitments', TldTerms)]_issuanceVars

\* The TLD manager sells no label that is reserved at that moment, however the
\* two messages spell it and whether it was committed to before it was reserved.
ReservedNotSold ==
    [][\A n \in DOMAIN names' \ DOMAIN names :
          sender' = TldTerms.contract => n[1] \notin reserved]_issuanceVars
=============================================================================
