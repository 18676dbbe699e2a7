------------------------------- MODULE MCDssl -------------------------------
(* A small instance of DsslManager for TLC: one name, which two accounts pass *)
(* between them; three attestors, one of them an owner, of whom two may       *)
(* attest a name; and boosts that exceed the highest score together.          *)
EXTENDS DsslManager, TLC

CONSTANTS a, A, usr1, att1, att2, att3, reg, uatom

MCAddr  == {usr1, att1, att2, att3, reg}
MCCanon == a :> a @@ A :> a
MCLabelLen == [l \in {a, A} |-> 1]
Broke   == [x \in MCAddr |-> uatom :> 0]
MCInstantiate == {[admin |-> usr1, royaltyRecipient |-> usr1, royaltyBps |-> 0]}

OneName     == {<<A>>}
MCAttestors == {<<att1, TRUE>>, <<att1, FALSE>>, <<att2, TRUE>>, <<att3, TRUE>>}
=============================================================================
