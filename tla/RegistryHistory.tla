--------------------------- MODULE RegistryHistory ---------------------------
(***************************************************************************)
(* Registry with a history variable: setBy[p] is the account whose message *)
(* set the policy now in force for `p`.  The contract keeps no such field, *)
(* so whose terms a registration is made under has to be remembered here.  *)
(***************************************************************************)
EXTENDS Registry

VARIABLE setBy

historyVars == <<vars, setBy>>

HInit == Init /\ setBy = <<>>

SetInThisStep(p) ==
    \E raw \in NameInput, policy \in PolicyInput :
        NormalizeName(raw) = p /\ SetSubdomainPolicy(sender', raw, policy)

HNext ==
    /\ Next
    /\ setBy' = [p \in DOMAIN subdomainPolicies' |->
                    IF SetInThisStep(p) THEN sender' ELSE setBy[p]]

HSpec == HInit /\ [][HNext]_historyVars

\* Whoever owns a name sets the terms of the registrations under it and names
\* the recipient of their fees: "TLD owners earn 100% of registration fees
\* under their namespace" (README.md).  A registration under `p` while `p` has
\* an owner is made on that owner's terms, not on those of an earlier one.
FeesOnOwnersTerms ==
    [][\A p \in DOMAIN names \cap DOMAIN subdomainPolicies :
          (\E s \in Sender : MintCount(p, s)' # MintCount(p, s))
          => setBy[p] = names[p].owner]_historyVars
=============================================================================
