-------------------------- MODULE NameClientProofs --------------------------
(***************************************************************************)
(* Lemmas that the proofs about resolver, metadata and dssl-manager share. *)
(***************************************************************************)
EXTENDS NameClient, RegistryProofs

\* A message to one of these contracts leaves the registry well typed.
LEMMA AsksType ==
    ASSUME TypeOK, NEW s \in Addr, Asks(s)
    PROVE  TypeOK'
  BY DEF Asks, TypeOK, adminVars, configVars, nameVars, subVars

\* The name a message is about is a name.
LEMMA AskedName ==
    ASSUME NEW raw \in NameInput, NormalizeName(raw) # Invalid
    PROVE  NormalizeName(raw) \in Name
  BY RegistryAssumption, NormalizeNameType

\* A contract starts with an admin and no nomination.
LEMMA InOfficeType == ASSUME NEW a \in Addr PROVE InOffice(a) \in Office
  BY DEF InOffice, Office

\* A nomination keeps the type of CONFIG.
LEMMA NominateType ==
    ASSUME NEW config \in Office, NEW next, NEW s, NEW new \in Addr,
           s = config.admin, next = [config EXCEPT !.pendingAdmin = new]
    PROVE  next \in Office
  BY DEF Office

\* Acceptance does, when the new admin is an account.
LEMMA AcceptNominationType ==
    ASSUME NEW config \in Office, NEW next, NEW s \in Addr,
           next = [config EXCEPT !.pendingAdmin = None, !.admin = s]
    PROVE  next \in Office
  BY DEF Office
=============================================================================
