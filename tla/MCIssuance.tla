----------------------------- MODULE MCIssuance -----------------------------
(* Small instances of Issuance for TLC: commitments may be revealed while they  *)
(* are one second old, in both contracts; gov can pay twice, usr1 once.        *)
EXTENDS Issuance, TLC

CONSTANTS a, A,                         \* a label, and the same in upper case
          gov, usr1,
          reg, registrar, tldm, vault,  \* the contracts and the treasury
          secret, uatom

MCAddr   == {gov, usr1, reg, registrar, tldm, vault}
MCCanon  == a :> a @@ A :> a
MCLabelLen == [l \in {a, A} |-> 1]
MCRank   == gov :> 1 @@ usr1 :> 2 @@ reg :> 3 @@ registrar :> 4 @@ tldm :> 5 @@ vault :> 6

Money(ua) == uatom :> ua
UserMoney == [x \in MCAddr |-> Money(IF x = gov THEN 2 ELSE IF x = usr1 THEN 1 ELSE 0)]
Payments  == {Money(1), Money(2)}

MCInstantiate == {[admin |-> gov, royaltyRecipient |-> gov, royaltyBps |-> 0]}
DeskTerms(c)  == [contract |-> c, treasury |-> vault, denom |-> uatom,
                  minCommitAge |-> 1, maxCommitAge |-> 1]
MCRegistrarTerms == DeskTerms(registrar)
MCTldTerms       == DeskTerms(tldm)
MCRegistrarInstantiate == [admin |-> gov, price |-> 1]
MCTldInstantiate       == [admin |-> gov, tldPrice |-> 1]

OneName    == {<<A>>}
MCOperators == {<<"registrar", registrar>>, <<"tldManager", tldm>>}
ToUsr1 == <<usr1, <<a>>, secret>>
ToGov  == <<gov, <<a>>, secret>>
MCRegistrarCommits == {<<usr1, ToUsr1>>, <<gov, ToGov>>}
MCTldCommits       == {<<usr1, ToUsr1>>, <<gov, ToUsr1>>}
=============================================================================
