---------------------------- MODULE MCVerifySale ----------------------------
(* Small instances of VerifySale for TLC: a payment, a second payment of     *)
(* another amount, and a transaction that failed on chain.                   *)
EXTENDS VerifySale, TLC

CONSTANTS r1, r2, r3, paid, paid2, failed

Data(code, amount) == [code |-> code, from |-> "buyer", to |-> "shop",
                       denom |-> "uatom", amount |-> amount, memo |-> "order"]
MCOnChain == paid :> Data(0, 1) @@ paid2 :> Data(0, 2) @@ failed :> Data(5, 1)

\* Every answer there is, and those that json_encode takes
Answers  == {a \in WebhookAnswer : a.ok => a.arrived}
TextOnly == {a \in Answers : a.utf8}

Claim(tx, amount, memo) == [txhash |-> tx, recipient |-> "shop", amount |-> amount,
                            memo |-> memo, sender |-> None]
MCPayloads == {Claim(paid, 1, "order"), Claim(paid2, 2, None), Claim(paid2, 1, "order"),
               Claim(failed, 1, "order"), Claim(Invalid, 1, None)}
=============================================================================
