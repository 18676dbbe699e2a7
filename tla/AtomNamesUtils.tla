--------------------------- MODULE AtomNamesUtils ---------------------------
(***************************************************************************)
(* packages/atom-names-utils: the name, payment and basis-point helpers    *)
(* every contract is built from.                                           *)
(*                                                                         *)
(* A name is the sequence of its labels, leaf first: "alice.atom" is       *)
(* <<alice, atom>>.  Spelling is data, so what trimming, lower-casing and  *)
(* the label checks do to one label is the constant Canon; what the code   *)
(* does with whole names (length, parts, parents) is written out.          *)
(***************************************************************************)
EXTENDS Chain, Sequences, Functions

CONSTANTS
    Spelling,     \* what a client may type between two dots
    Label,        \* the spellings validate_label accepts as they are
    Invalid,      \* the Err a conversion returns
    Canon,        \* Spelling -> the label it normalises to, or Invalid
    LabelLen,     \* Spelling -> its length in bytes
    MaxNameLen,   \* MAX_NAME_LEN
    MaxUint128    \* Uint128::MAX

ASSUME NamesAssumption ==
    /\ Label \subseteq Spelling
    /\ Canon \in [Spelling -> Label \cup {Invalid}]
    /\ \A l \in Label : Canon[l] = l
    /\ LabelLen \in [Spelling -> Nat]
    /\ MaxNameLen \in Nat
    /\ MaxUint128 \in Nat
    /\ Invalid \notin Label /\ Invalid \notin Seq(Label) /\ Invalid \notin Nat
    /\ None \notin Seq(Label)

Name == Seq(Label) \ {<<>>}

\* Bytes of a dotted name: its labels and the dots between them.
NameLen(raw) == FoldFunction(+, Len(raw) - 1, [i \in DOMAIN raw |-> LabelLen[raw[i]]])

NormalizeLabel(raw) == Canon[raw]

\* Mutant of NormalizeName: checks the labels but keeps them as typed.
NormalizeNameAsTyped(raw) ==
    IF /\ raw # <<>>
       /\ NameLen(raw) <= MaxNameLen
       /\ \A i \in DOMAIN raw : Canon[raw[i]] # Invalid
    THEN raw
    ELSE Invalid

NormalizeName(raw) ==
    IF /\ raw # <<>>
       /\ NameLen(raw) <= MaxNameLen
       /\ \A i \in DOMAIN raw : Canon[raw[i]] # Invalid
    THEN [i \in DOMAIN raw |-> Canon[raw[i]]]
    ELSE Invalid

ParentOf(name) == IF Len(name) = 1 THEN None ELSE Tail(name)

\* format!("{}.{}", label, parent)
FullName(label, parent) == <<label>> \o parent

\* Mutant of ExpectExactPayment: accepts an overpayment.
ExpectPayment(funds, denom, amount) ==
    /\ funds[denom] >= amount
    /\ \A d \in Denom \ {denom} : funds[d] = 0

\* The payment is exactly `amount` of `denom` and nothing else.
ExpectExactPayment(funds, denom, amount) ==
    /\ funds[denom] = amount
    /\ \A d \in Denom \ {denom} : funds[d] = 0

\* 10_000: all of an amount, in basis points
AllBps == 10000

\* amount * bps / 10_000 rounded down; the product must fit in a Uint128.
CheckedBps(amount, bps) ==
    IF amount * bps > MaxUint128 THEN Invalid ELSE (amount * bps) \div AllBps

OneCoin(denom, amount) == [d \in Denom |-> IF d = denom THEN amount ELSE 0]
=============================================================================
