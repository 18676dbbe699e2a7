------------------------------- MODULE Chain -------------------------------
(***************************************************************************)
(* The host the contracts run on, as far as the code under src/contracts   *)
(* uses it: the cw-storage-plus maps every contract keeps its state in and *)
(* the bank module that holds the coins.  Neither is part of the           *)
(* repository; both are modelled from how the contracts call them.         *)
(*                                                                         *)
(* A transaction is atomic on this host: a handler that returns an error,  *)
(* or whose bank or contract sub-message fails, leaves no trace.  A failed *)
(* transaction is therefore no step at all, and every early return of a    *)
(* handler appears in the models as a conjunct of its guard.               *)
(***************************************************************************)
EXTENDS Naturals, FiniteSets

CONSTANTS
    Addr,    \* accounts: users and contracts, after addr_validate
    Denom,   \* coin denominations
    None     \* the Option::None of the code

ASSUME NoneAssumption == None \notin Addr

-----------------------------------------------------------------------------
(* cw-storage-plus Map: a partial function.                                *)

\* Map::save
Save(map, key, value) ==
    [k \in DOMAIN map \cup {key} |-> IF k = key THEN value ELSE map[k]]

\* Map::remove, which is silent about a key that is not there
Delete(map, key) == [k \in DOMAIN map \ {key} |-> map[k]]

\* Map::may_load
MayLoad(map, key) == IF key \in DOMAIN map THEN map[key] ELSE None

\* Map::range(start, None, Ascending).take(limit): the first `limit` of the
\* `keys` past `start` (of all of them if None), which sort by `rank`.
TakeFrom(keys, rank, start, limit) ==
    LET past == IF start = None THEN keys ELSE {k \in keys : rank[k] > rank[start]}
    IN  {k \in past : Cardinality({x \in past : rank[x] < rank[k]}) < limit}

-----------------------------------------------------------------------------
(* The bank module.                                                        *)

Coins == [Denom -> Nat]

\* Account `a` of the balances `bal` can part with `coins`.
Covers(bal, a, coins) == \A d \in Denom : coins[d] <= bal[a][d]

\* The balances after `coins` went from one account to another.
Debited(bal, a, coins) ==
    [bal EXCEPT ![a] = [d \in Denom |-> bal[a][d] - coins[d]]]
Credited(bal, a, coins) ==
    [bal EXCEPT ![a] = [d \in Denom |-> bal[a][d] + coins[d]]]
Moved(bal, from, to, coins) == Credited(Debited(bal, from, coins), to, coins)

\* BankMsg::Send fails on an amount of zero: marketplace/src/contract.rs
\* guards both of its sends with is_zero for that reason.
CanSend(bal, from, coins) ==
    Covers(bal, from, coins) /\ \E d \in Denom : coins[d] > 0
=============================================================================
