--------------------------- MODULE MCMarketplace ---------------------------
(* Small instances of Marketplace for TLC: one name for sale, a seller, a    *)
(* buyer, and a royalty that takes half or all of the price or overflows.  *)
EXTENDS Marketplace, TLC

CONSTANTS a, A,                    \* the label for sale, and its upper-case spelling
          gov, usr1, usr2,         \* the admin and two users
          reg, market,
          uatom, uosmo

MCAddr  == {gov, usr1, usr2, reg, market}
Users   == {usr1, usr2}
People  == Users \cup {gov}
MCCanon == a :> a @@ A :> a
MCLabelLen == [l \in {a, A} |-> 1]
OneName == {<<A>>}
MCOperators == {"marketplace"} \X {market, None}

MCInstantiate == {[admin |-> gov, royaltyRecipient |-> gov, royaltyBps |-> 5000]}
Royalties == {<<usr1, 10000>>, <<gov, 20000>>}
Money(ua, uo) == uatom :> ua @@ uosmo :> uo
BuyerMoney == [x \in MCAddr |-> IF x = usr2 THEN Money(3, 1) ELSE IF x = usr1 THEN Money(1, 0) ELSE Money(0, 0)]
Payments == {Money(0, 0), Money(1, 0), Money(3, 0), Money(3, 1)}
=============================================================================
