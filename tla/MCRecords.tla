----------------------------- MODULE MCRecords -----------------------------
(* A small instance of Records for TLC: one name, also spelled in upper case, *)
(* a text, a federation and two fields, in pages of one or two.               *)
EXTENDS Records, TLC

CONSTANTS a, A, usr1, usr2, reg, uatom, k1, k2

MCAddr  == {usr1, usr2, reg}
Users   == {usr1, usr2}
MCCanon == a :> a @@ A :> a
MCLabelLen == [l \in {a, A} |-> 1]
Broke   == [x \in MCAddr |-> uatom :> 0]
MCInstantiate == {[admin |-> usr1, royaltyRecipient |-> usr1, royaltyBps |-> 0]}

MCName   == <<a>>
OneName  == {<<A>>}
OneKey   == {<<<<A>>, k1>>}
TwoKeys  == {<<<<a>>, k1>>, <<<<a>>, k2>>}
MCRead   == {<<FALSE, None>>, <<TRUE, 5>>}
MCKeyRank == k1 :> 1 @@ k2 :> 2
=============================================================================
