---------------------------- MODULE CommitReveal ----------------------------
(***************************************************************************)
(* The commit-reveal scheme, which contracts/registrar and                 *)
(* contracts/tld-manager spell out line for line alike: a commitment is    *)
(* stored under its sender, may be revealed while its age is between       *)
(* min_commit_age and max_commit_age, and may be swept once it is older.   *)
(* The operators work on either contract's COMMITMENTS map.                *)
(***************************************************************************)
EXTENDS Registry, Handover

CONSTANTS
    AddrRank,      \* the order in which a map iterates over its addresses
    Secret,
    LimitInput,    \* the limits of CleanExpired, after its .min(200)
    MaxTime        \* bound: the last block time looked at

\* What a contract is instantiated with and never changes.
Terms == [contract : Addr, treasury : Addr, denom : Denom,
          minCommitAge : Nat, maxCommitAge : Nat]

\* "owner:name:secret", the string format! builds; neither an address nor a
\* normalised name holds a colon, so the parts can be told apart.
Commitment == Addr \X Seq(Spelling) \X Secret

ASSUME CommitRevealAssumption ==
    /\ AddrRank \in [Addr -> Nat]
    /\ \A x, y \in Addr : AddrRank[x] = AddrRank[y] => x = y
    /\ LimitInput \subseteq Nat
    /\ MaxTime \in Nat

CommitmentRecord == [commitment : Commitment, createdAt : 0..MaxTime]

VARIABLE now       \* env.block.time, in seconds

deskVars == <<vars, now>>

\* Block time never runs backwards, and many messages may share one second.
Tick ==
    /\ now < MaxTime
    /\ now' = now + 1

-----------------------------------------------------------------------------
DeriveCommitment(owner, n, secret) == <<owner, n, secret>>

\* Mutant of Commit: a new commitment inherits the age of the one it replaces.
CommitKeepsAge(commitments, s, commitment) ==
    Save(commitments, s,
         [commitment |-> commitment,
          createdAt |-> IF s \in DOMAIN commitments THEN commitments[s].createdAt
                                                     ELSE now])

Commit(commitments, s, commitment) ==
    Save(commitments, s, [commitment |-> commitment, createdAt |-> now])

Age(record) == now - record.createdAt

Revealable(record, terms) ==
    /\ Age(record) >= terms.minCommitAge
    /\ Age(record) <= terms.maxCommitAge

FirstKeys(commitments, limit) == TakeFrom(DOMAIN commitments, AddrRank, None, limit)

\* Mutant of CleanExpired: sweeps commitments in their last second.
CleanExpiring(commitments, terms, limit) ==
    Restrict(commitments,
             DOMAIN commitments \
                {a \in FirstKeys(commitments, limit) :
                    Age(commitments[a]) >= terms.maxCommitAge})

\* The limit is applied before the filter: an expired commitment behind
\* `limit` live ones stays.
CleanExpired(commitments, terms, limit) ==
    Restrict(commitments,
             DOMAIN commitments \
                {a \in FirstKeys(commitments, limit) :
                    Age(commitments[a]) > terms.maxCommitAge})

\* `s` may mint `n` for `owner` in the contract of `terms`: a commitment of
\* his own, of the right age, to exactly this name, owner and secret.
HoldsCommitment(commitments, terms, s, owner, n, secret) ==
    /\ s \in DOMAIN commitments
    /\ Revealable(commitments[s], terms)
    /\ commitments[s].commitment = DeriveCommitment(owner, n, secret)

\* Mutant of PaysTreasury: the contract keeps the coins.
PaysContract(terms, s, funds, price) ==
    /\ ExpectExactPayment(funds, terms.denom, price)
    /\ Covers(balance, s, funds)
    /\ balance' = Moved(balance, s, terms.contract, funds)

\* `s` sends `funds` with his message, exactly the price, and the contract
\* passes them on to the treasury.
PaysTreasury(terms, s, funds, price) ==
    LET coins == OneCoin(terms.denom, price)
        paid  == Moved(balance, s, terms.contract, funds)
    IN
    /\ ExpectExactPayment(funds, terms.denom, price)
    /\ Covers(balance, s, funds)
    /\ CanSend(paid, terms.contract, coins)
    /\ balance' = Moved(paid, terms.contract, terms.treasury, coins)
=============================================================================
