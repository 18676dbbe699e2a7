------------------------------ MODULE Handover ------------------------------
(***************************************************************************)
(* The two-step change of admin that marketplace, registrar, tld-manager,  *)
(* resolver, metadata and dssl-manager spell out alike over their CONFIG.  *)
(***************************************************************************)
EXTENDS Chain

Office == [admin : Addr, pendingAdmin : Addr \cup {None}]

InOffice(admin) == [admin |-> admin, pendingAdmin |-> None]

\* TransferAdmin
Nominate(config, s, new) ==
    /\ s = config.admin
    /\ config' = [config EXCEPT !.pendingAdmin = new]

\* AcceptAdmin
AcceptNomination(config, s) ==
    /\ config.pendingAdmin # None
    /\ s = config.pendingAdmin
    /\ config' = [config EXCEPT !.pendingAdmin = None, !.admin = s]
=============================================================================
