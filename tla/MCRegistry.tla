----------------------------- MODULE MCRegistry -----------------------------
(* Small instances of Registry for TLC. *)
EXTENDS Registry, TLC

CONSTANTS a, b, A, bad,           \* labels, an upper-case spelling, a bad one
          gov, usr1, usr2, op,    \* accounts: admin, two users, an operator
          reg, uatom, uosmo

MCLabel    == {a, b}
MCSpelling == {a, b, A, bad}
MCCanon    == a :> a @@ b :> b @@ A :> a @@ bad :> Invalid
MCLabelLen == [l \in MCSpelling |-> 1]
MCAddr     == {gov, usr1, usr2, op, reg}
MCSender   == MCAddr \ {reg}
NoOperator == {gov, usr1, usr2}
Users      == {usr1, usr2}
MCOperators == Kind \X {op, None}

MCInstantiate == {[admin |-> gov, royaltyRecipient |-> gov, royaltyBps |-> r] : r \in {500, 10001}}
Money(ua, uo) == uatom :> ua @@ uosmo :> uo
NoMoney   == [x \in MCAddr |-> Money(0, 0)]
UserMoney == [x \in MCAddr |-> IF x = usr2 THEN Money(2, 1) ELSE Money(0, 0)]
Payments  == {Money(1, 0), Money(2, 0), Money(1, 1)}

Policy(open, price, recipient, max) ==
    [enabled |-> TRUE, registrationOpen |-> open, denom |-> uatom,
     price |-> price, recipient |-> recipient, maxPerAddress |-> max]
Policies == {None, Policy(TRUE, 1, usr1, 2), Policy(FALSE, 2, usr2, 1),
             Policy(TRUE, 1, Invalid, 1)}
OnePolicy == {Policy(TRUE, 1, usr1, 2)}

MixedNames == {<<A>>, <<b>>, <<bad, a>>, <<>>, <<b, A>>}
Parents    == {<<a>>, <<b, a>>}
=============================================================================
