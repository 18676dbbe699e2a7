----------------------------- MODULE NameClient -----------------------------
(***************************************************************************)
(* What resolver, metadata and dssl-manager have in common: each keeps the *)
(* registry's address in its CONFIG and asks it, by query, who owns a name *)
(* before it writes about that name.  None of them sends it a message.     *)
(***************************************************************************)
EXTENDS Registry, Handover

\* A message from `s` to such a contract: the registry stays as it is, but for
\* `sender`, the sender of the last message to any contract.
Asks(s) == sender' = s /\ UNCHANGED <<adminVars, configVars, nameVars, subVars, balance>>

\* Mutant of OwnsName: only asks whether the name exists.
NameExists(s, n) == Exists(n)

\* assert_owner
OwnsName(s, n) == OwnerOf(n) = s
=============================================================================
