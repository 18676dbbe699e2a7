----------------------------- MODULE NameLedger -----------------------------
(***************************************************************************)
(* What the registry promises its readers, without its tables: every name  *)
(* is in the hands of at most one account, moves from one to another in a  *)
(* single step, and an account's primary name is one it holds.             *)
(*                                                                         *)
(* A name is drawn from the hands that have it before or after the step,   *)
(* so the ledger needs no set of all names.                                *)
(***************************************************************************)
CONSTANTS Addr, None

VARIABLES holdings, primaryName

ledgerVars == <<holdings, primaryName>>

Init == /\ holdings = [a \in Addr |-> {}]
        /\ primaryName = [a \in Addr |-> None]

Held == UNION {holdings[a] : a \in Addr}

\* A name nobody holds goes to `a`.
Issue(a) ==
    /\ \E n \in holdings'[a] \ Held :
          holdings' = [holdings EXCEPT ![a] = @ \cup {n}]
    /\ UNCHANGED primaryName

Without(a, n) == IF primaryName[a] = n THEN [primaryName EXCEPT ![a] = None]
                                       ELSE primaryName

Move(a, b, n) ==
    /\ holdings' = [h \in Addr |-> IF h = b THEN holdings[h] \cup {n}
                                            ELSE holdings[h] \ {n}]
    /\ primaryName' = Without(a, n)

Retire(a, n) ==
    /\ holdings' = [holdings EXCEPT ![a] = @ \ {n}]
    /\ primaryName' = Without(a, n)

Choose(a, n) ==
    /\ primaryName' = [primaryName EXCEPT ![a] = n]
    /\ UNCHANGED holdings

Forget(a) ==
    /\ primaryName' = [primaryName EXCEPT ![a] = None]
    /\ UNCHANGED holdings

Next ==
    \E a \in Addr :
        \/ Issue(a) \/ Forget(a)
        \/ \E n \in holdings[a] :
              \/ \E b \in Addr : Move(a, b, n)
              \/ Retire(a, n)
              \/ Choose(a, n)

Spec == Init /\ [][Next]_ledgerVars
=============================================================================
