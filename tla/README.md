# A TLA+ model of Atom Registry

Atom Registry is a naming system on Cosmos Hub: CosmWasm contracts that sell,
hold, trade and annotate names (`contracts/`), static pages that talk to them
(`frontend/`), and a payment widget with a PHP verification endpoint (`sales/`).
The modules here model all seven contracts, over the registry they ask or command,
and the endpoint that decides whether a sale is fulfilled. TLC checks them on
small instances; TLAPS proves every safety property that TLC finds to hold, of the
seven contracts and of the endpoint, for all instances.

## 1. The system

| Component | State it keeps | Operations | Modelled in |
|---|---|---|---|
| registry | admin and nominee, three operators, royalty, `NAMES`, `OWNER_INDEX`, `PRIMARY`, `SUBDOMAIN_POLICIES`, `SUBDOMAIN_MINTS` | twelve messages: admin handover, operators, royalty, mint, subdomains, transfer, burn, primary name, policy, open registration | `Registry` |
| names-utils | none | normalisation, parents, payments, basis points | `AtomNamesUtils` |
| marketplace | admin, `LISTINGS` | list, cancel, buy, admin handover | `Marketplace` |
| registrar | admin, price, `COMMITMENTS` | commit, register, sweep, pricing, admin handover | `Registrar` |
| tld-manager | admin, `RESERVED`, `COMMITMENTS` | commit, register, sweep, reserve, admin handover | `TldManager` |
| resolver | admin, `TEXTS`, `FEDS` | set and delete either, clear both, admin handover | `Resolver` |
| metadata | admin, `FIELDS` | set, delete, list in pages, admin handover | `Metadata` |
| dssl-manager | admin, `ATTESTORS`, `RECORDS`, `ATTESTATIONS`, `AGG` | appoint, publish, revoke, attest, remove, admin handover | `DsslManager` |
| verify-sale.php | the JSON file of processed transactions | one request: check, fetch, verify, webhook, save | `VerifySale` |
| widget, pages | the browser's storage | pay and verify; commit, wait, reveal | not modelled |

**How they interact.** The registry knows three operators by address. The
marketplace queries `OwnerOf` and `RoyaltyQuote` and sends `Transfer`; registrar
and TLD manager query `Exists` and send `Mint`; all three also send coins.
Resolver, metadata and dssl-manager query `OwnerOf` before they write about a
name and are never told when it changes hands. A query and a sub-message run inside the transaction that makes them, so a
handler and the registry's handler it calls are one atomic step, and a step that
fails anywhere leaves no trace. Between two transactions anything may happen:
what a contract stored (a listing, a commitment, a policy) can be out of date
when it is used. The sales endpoint has no transactions at all: a PHP process
per request, a file without a lock, and three remote services.

**What is hard here.** Two tables that must agree through every message; state
that outlives the name it hangs on (policies, counts, listings, records);
authority that is passed around (admin, operators, owners) while old messages
are under way; time windows with three comparisons in two handlers; coins that
must leave in the same step a name arrives; and, in the endpoint, overlapping
requests, torn files, killed processes and lost answers. `PROJECT.json` lists
each at its line under `hazards`.

**What makes each component correct.**

- registry: tables agree; a name moves only by its owner or the marketplace; it
  appears only by right; fees pass through undiminished; the admin's powers are
  handed over by consent.
- marketplace: name and price change hands in one step; no name is sold without
  its owner's listing; a royalty is within the price, so that it blocks a sale only
  where it does not fit a `Uint128`; who pays gets the name.
- registrar, TLD manager: only a waited-for commitment buys a name; the price
  reaches the treasury; live commitments are not swept; reserved labels are not
  sold.
- resolver, metadata: what is on record about a name changes only by the hand of
  its owner of the moment; one `ClearAll` frees a new owner from everything the
  old one left in the resolver; a listing read in pages misses nothing.
- dssl-manager: count and score, which are carried along and never recomputed,
  match the attestations stored, across records revoked and republished.
- sales endpoint: only real payments are forwarded, once as long as nothing makes
  it lose its store; nobody is turned away for a payment that was not.

## 2. The modules

    Chain                cw-storage maps and the bank (external to the repository)
      Handover           the admin handover six contracts share
      AtomNamesUtils     names, labels, payments, basis points
        Registry         contracts/registry          NameLedger  what it promises
          RegistryHistory   + who set which policy
          RegistryProofs    theorems
          Marketplace       contracts/marketplace over the registry
            MarketProofs    theorems, over those of RegistryProofs
          CommitReveal      the scheme shared by the next two, and the clock
            Registrar       contracts/registrar
            TldManager      contracts/tld-manager
              Issuance      both with the registry, and what was committed
                IssuanceProofs  theorems, over those of RegistryProofs
          NameClient        how the next three ask the registry for the owner
            NameClientProofs  lemmas for the next two sets of theorems
            Resolver        contracts/resolver
              Metadata      contracts/metadata
                Records     both with the registry, and a client that reads pages
                  RecordsProofs  theorems
            DsslManager     contracts/dssl-manager over the registry
              DsslProofs    theorems
        SumProofs           lemmas for them about the fold that adds up boosts
    VerifySale           sales/api
      VerifySaleProofs   theorems

`MCRegistry`, `MCRegistryHistory`, `MCMarketplace`, `MCIssuance`, `MCRecords`,
`MCDssl` and `MCVerifySale` give the constants small values; each `.cfg` is one run.

**Conventions.** A variable is a stored item or map of the contract, an action
is one message with its fields as parameters, and the action's first parameter
is `info.sender`. Every early return is a conjunct of the guard, since a message
that fails changes nothing. Fields arrive as the client spelled them and are
normalised where the code normalises them. The message-field sets
(`NameInput`, `PolicyInput`, ...) are constants, so that the theorems hold for
all of them and a run can pick the interesting ones; where two fields only make
sense together, the set is of pairs. `sender` keeps the sender of the last
registry message (in `Records` and `DsslManager`: of the last message to any of
the contracts), for the properties about authority. A map is a function on its present keys; `None` is
Rust's `None`, `Invalid` is an `Err` of a conversion.

**Abstractions.** A name is a sequence of labels, leaf first; what trimming,
lower-casing and the character checks do to one label is the constant `Canon`
(the registry's instances have two valid labels, one of them also in upper case,
and one that is refused; the others have one label, most of them in both cases), and `LabelLen` keeps the lengths that `MAX_NAME_LEN` is about.
`addr_validate` is left to the input sets except for the policy recipient, which
the code stores unchecked and validates at registration. `minted_at`,
`created_at` of a listing and response attributes are not read by any code and
are left out. Counts and amounts are naturals: the `u32` count is bounded by the
`u32` limit it is compared with, sums of coins by the supply; the one product
that can overflow, `checked_bps`, keeps its width as `MaxUint128`. Coins attached
to a message that asks for none are not modelled (they stay in the contract).
Contracts do not send messages of their own accord: `Sender` holds the users.

**Mutants.** An operator commented *Mutant of X* is X with a plausible mistake
in it. No specification uses it; each property has one that must violate it.

### Registry and NameLedger

`Next` is one message by one sender; `Priced` (open registration) is the only
one with funds. `NameLedger` is the registry without tables: per account, the
set of names in its hands and its primary name; a step issues, moves or retires
one name, or sets or clears one primary. The mapping reads the registry through
its own queries, `NamesByOwner` and `PrimaryOf`, so refinement says that what
clients see behaves like a ledger.

### Marketplace

`Buy` has two outcomes. `Settle` is one step with the registry's `Transfer` by
the marketplace; `BuyStale` keeps the payment, as the code does. The registry's
own `Next` interleaves, the operator role can be set and cleared, and names can
be burnt and minted again under a standing listing.

### CommitReveal, Registrar, TldManager, Issuance

A commitment is the triple the contracts format into a string. Block time is
`now`; `Tick` advances it. `Issuance` interleaves both contracts with the
registry and remembers in `asked` which commitments were sent and not yet used,
which the contracts themselves forget when one replaces another. `FirstKeys`
keeps the order of the map, because `CleanExpired` takes its limit first and
filters afterwards.

### NameClient, Resolver, Metadata, Records

A resolver record is its key: the value is returned as it came in. A metadata
field is its visibility. `Records` interleaves both contracts with the registry
and adds a client of the query `Fields` that asks for the next page from the last
key of the one before until a page is empty; `viewFields` and `loadOwnedFields`
of `frontend/metadata.html` send the first of its requests. Two history variables
say which resolver records were inherited from a former owner and which names
have been cleared since they changed hands.

### DsslManager

The aggregate is kept beside the attestations, as in the code. The order in
`Attested` matters: the old boost is taken off, with saturation, before the new
one is added and the cap applied. When the cap has swallowed part of a boost, a
later removal takes off the whole of it and the score is lower than the sum of
what remains (boosts 2 and 2 under a cap of 3, one removed: 1); the properties
say precisely this and no more (`ScoreWithinSum`, `ScoreExactBelowCap`).
`expires_at` is stored and never read: an expired record can be attested.

### VerifySale

The actions of a request are the points where the process waits for something
outside it. A save is two of them: `file_put_contents` truncates and then writes.
A file that is empty, does not parse or cannot be read counts as no entries. Two
writes over each other leave either one's content or garbage. The disk may fail
when the file is read (`LoadFails`), opened (`SaveFails`) or written (`WriteFails`);
none of these stops the request. The webhook post is recorded with three bits:
whether it arrived, whether this process saw a success, and whether status line
and body are valid UTF-8. The third decides what the save writes, because the
entry holds both as they came in, and `helpers.php:80` does not look at what
`json_encode` returns: for other bytes it is `false`, and the truncated file stays
empty (`Encodes`, `SaveWrites`). The history variable `orderly` is true until one
of the things happens that can lose the store; nothing reads it but
`FiredOnceInOrder`.

## 3. The runs

| Run | Expect | Checks | Distinct states |
|---|---|---|---|
| `names` | pass | types, tables, primary names, parents, authority over moving and issuing, refinement of `NameLedger` | 28,000 |
| `fees` | pass | open registration: quota, exact payment, payout; handover of the admin, settings | 57,000 |
| `sale` | pass | atomic sales, no sale without listing, royalties | 50,000 |
| `issuance` | pass | reveal after waiting, full payment, sweeping, reserved labels | 332,000 |
| `records` | pass | records follow the owner, `ClearAll`, complete and finite paging | 40,000 |
| `dssl` | pass | count, score and limits of the aggregate, who may change it | 32,000 |
| `concurrent` | pass | one webhook per payment up to the first loss of the store; what survives overlap, crashes, disk faults and unreadable answers | 1,179,000 |
| `terms`, `length`, `stale`, `overlap`, `lost` | violation | one documented claim each | |

The violated claims, with the lines on both sides, are the `findings` of
`PROJECT.json`: a sold namespace that still pays its former owner; names too long
to be named again; a stale purchase that keeps the coins; two webhooks for one
payment; a failed webhook that blocks its own retry. More disagreements are in the
model and have no run of their own:

- A webhook answer that is not UTF-8 empties the store (`helpers.php:80`), with one
  worker and no fault, and the payments it held fire again, although
  `config.example.php:22` has the file prevent that. `FiredOnce` as the invariant of
  the instance of `lost` shows it; the claim is the one `overlap` already refutes.
- The registrar sells labels the TLD manager has reserved, of which
  `frontend/index.html:1457` says that they cannot be registered (`ReservedNotSold`
  is stated of the TLD manager).
- Open registration goes on under a burnt parent: `RegisterSubdomain` never looks
  at the parent, and `IssuanceAuthority` does not ask for one, while
  `docs/whitepaper.md:53` has names issued only by the TLD's owner or an authorised
  registrar.
- The registrar, which the whitepaper has selling subdomains, can only sell
  top-level names (`Register` sends `Mint`, which refuses a name with a parent).
- `docs/whitepaper.md:55`, `113` and `117` have a registrant commit to a hash that
  reveals nothing. The contracts store owner, name and secret in the clear, as the
  commitments of `CommitReveal` do; `RevealedAfterWaiting` is about time and order,
  not about secrecy.
- `docs/whitepaper.md:65` sends royalties to the owners of TLDs and says that they
  are not enforced yet. The code pays them in every sale, to the one recipient the
  registry's admin has set.
- `docs/whitepaper.md:102` lets only the current owner transfer a name. The registry
  lets the marketplace operator transfer and burn any (`OwnershipAuthority` names
  both).

**Bounds.** Two users and an admin are enough for a seller, a buyer and an
outsider; a third account appears as operator. Two labels give a name, its
subdomain and a sibling; every table property relates at most two names and two
accounts. Prices 0, 1 and 3 at royalties of 50% and 100% give rounding, a royalty that
takes all, and a product past `MaxUint128`; one of 200% is refused. Commit windows of exactly
one second within `MaxTime = 2` reach every comparison from both sides (too young
at 0, revealable at 1, expired at 2); `MaxCommits`
outstanding commitments let one replace another and one stand beside another.
`MaxActive`, `Faults` and `AnswerInput` bound the sales runs: `lost` is the server
with one worker and no fault, `overlap` leaves out answers that are not UTF-8,
`concurrent` has everything and three requests, which is two writers and a
reader of the same file. `fees` gives one user enough for a quota of two;
the other, who receives fees, pays with what he has received. Its one nominee is
enough for the admin to change and the former admin to go on sending messages; a
nomination that replaces another is left to the theorem `HandoverByConsent`. `records` has one
name that two users pass on, burn and mint again, a text, a federation and two
fields, in pages of one (the default) and of two (the maximum; a limit of 0, which the
contract takes and answers with an empty page, is left out): two keys are
enough for a page to be empty with a field behind it and for the cursor's own key
to be deleted. `dssl` has three attestors for two places and boosts up to the cap
of 3, so that count and score meet their limits and two boosts exceed the cap.
Balances, times and commitments are bounded only in these ways; nothing is cut
off by state constraints. The registry, market and
issuance specifications never deadlock; the sales runs end when every request of
the instance is answered, so they do not check for deadlock.

**Fairness.** Only `Records` states it: the client's `ReadPage` is weakly fair: a query takes no transaction and changes
nothing, and the client sends the next one when it has the answer. `ReadingEnds`
is about a fixed set of keys, rewritten at will; a writer who keeps inventing keys
past the cursor could keep a client reading. The contracts get no fairness:
nothing in the code makes anybody send a message. Neither does `VerifySale`: the
timeouts of its HTTP calls (15 and 20 seconds, `helpers.php:92` and `134`) are per
read, so an endpoint that sends a byte now and then can hold a request without
bound, and to assume that it does not would be to assume that requests are
answered.

## 4. The proofs

The theorems hold for any accounts, labels, keys, policies, balances, limits and
message sets that satisfy the assumptions the modules name:

| Theorem of `RegistryProofs` | States |
|---|---|
| `TypeCorrect` | `Spec => []TypeOK` |
| `TablesAlwaysAgree` | `Spec => [](OwnerIndexExact /\ PrimaryOwned /\ ParentRecorded)` |
| `PrimaryAlwaysOwned` | `Spec => []PrimaryOwned` |
| `ParentAlwaysRecorded` | `Spec => []ParentRecorded` |
| `OnlyOwnerOrMarketplace` | `Spec => OwnershipAuthority` |
| `HandoverByConsent` | `Spec => AdminAuthority` |
| `IssuedByRight` | `Spec => IssuanceAuthority` |
| `RegistryImplementsLedger` | `Spec => LedgerSpec` |

| Theorem of `RecordsProofs` | States |
|---|---|
| `RecordsTypeCorrect` | `RecordsSpec => []RecordsTypeOK` |
| `PagesAlwaysComplete` | `RecordsSpec => []PagesComplete` |
| `SlateStaysClean` | `RecordsSpec => []CleanSlate` |
| `OwnerKeepsRecords` | `RecordsSpec => RecordsFollowOwner` |

| Theorem of `DsslProofs` | States |
|---|---|
| `DsslTypeCorrect` | `DsslSpec => []DsslTypeOK` |
| `CountAlwaysExact` | `DsslSpec => []CountExact` |
| `ScoreAlwaysWithinSum` | `DsslSpec => []ScoreWithinSum` |
| `ScoreStaysExact` | `DsslSpec => ScoreExactBelowCap` |
| `TrustByAuthority` | `DsslSpec => TrustAuthority` |

| Theorem of `MarketProofs` | States |
|---|---|
| `MarketTypeCorrect` | `MarketSpec => []MarketTypeOK` |
| `RoyaltyAlwaysWithinPrice` | `MarketSpec => []RoyaltyWithinPrice` |
| `SalesAreAtomic` | `MarketSpec => AtomicSale` |
| `NamesLeaveByOwnerOrSale` | `MarketSpec => NoSaleWithoutListing`, if nobody but the marketplace is ever made the marketplace operator |
| `SalesKeepTables` | `MarketSpec => [](OwnerIndexExact /\ PrimaryOwned /\ ParentRecorded)` |
| `SalesKeepAuthority` | `MarketSpec => OwnershipAuthority` |
| `MarketImplementsLedger` | `MarketSpec => LedgerSpec` |

| Theorem of `IssuanceProofs` | States |
|---|---|
| `IssuanceTypeCorrect` | `IssuanceSpec => []IssuanceTypeOK` |
| `AlwaysRevealedAfterWaiting` | `IssuanceSpec => RevealedAfterWaiting` |
| `AlwaysPaidInFull` | `IssuanceSpec => PaidInFull` |
| `LiveCommitmentsKept` | `IssuanceSpec => CleanKeepsLive` |
| `ReservedNeverSold` | `IssuanceSpec => ReservedNotSold` |
| `SoldByRight` | `IssuanceSpec => IssuanceAuthority` |
| `IssuanceImplementsLedger` | `IssuanceSpec => LedgerSpec` |

| Theorem of `VerifySaleProofs` | States |
|---|---|
| `EndpointTypeCorrect` | `Spec => []TypeOK` |
| `OnlyPaymentsEverForwarded` | `Spec => []OnlyPaymentsForwarded` |
| `DuplicatesWereForwarded` | `Spec => []DuplicateWasForwarded`, if a webhook is configured |
| `OrderFiresOnce` | `Spec => []FiredOnceInOrder`: `FiredOnce`, if duplicates are blocked, up to the first overlap, disk fault, death between webhook and end of save, or answer that is not UTF-8 |

*Argument, registry.* `TypeOK` is inductive by itself: each message is shown to write
values of the right type (`AdministerType`, `HandleNameType`, `PricedType`). For
the tables, `NameSteps` first reduces the twelve messages to six effects on
them: nothing, a name added, handed on, dropped, a primary set, one cleared. The
three table invariants are inductive together with the types
(`AddedAgrees`, `HandedAgrees`, `DroppedAgrees`, `PrimaryAgrees`); none of them
is without the others' help, since the entry a transfer removes from
`OWNER_INDEX` is the right one only because the index was exact. The ledger
mapping then needs exactness to read the holdings off `NAMES`: each effect is a
ledger action (`AddedMaps`, ...). These lemmas speak of a step with one of the six
effects (`TableStep`), not of the registry's `Next`: marketplace and issuance only
have to show that their steps have them, too (`MarketTables`, `IssuanceTables`),
to inherit the tables, the authority over names and the ledger. `IssuedByRight` rests on `PassThrough`: coins
sent to a contract and on to the recipient in one step leave no trace in the
contract, whichever of the accounts coincide.

*Argument, marketplace.* The invariant adds to the types that a seller is an
account that sends messages (`MarketItemsOK`), hence not the marketplace itself,
through whose balance the price passes. `BuyEffect` and `SettleEffect` reduce a
purchase to what it does to `names` and, account by account, to the balances;
buyer, seller, royalty recipient and marketplace may coincide otherwise.
`QuoteWithin` bounds the rounded royalty by the price, if there is one at all, which
is what lets both sends succeed. `NamesLeaveByOwnerOrSale` also needs that the operator stays the
marketplace or unset (`MarketOperator`); the registry's part of it is `NameSteps`.

*Argument, records.* `PagesComplete` is not inductive: an empty page ends the
reading, and then nothing may be due. The missing part of the invariant
(`ReaderInv`) is that whatever is due would be shown by a listing at this very
moment, past the cursor, which `Watch` keeps while others write, and that the
client's limit is positive. `PageProperties` says of one page, for any limit but 0 and
any finite set of keys, that it is empty only at the end and that what it leaves
out comes after what it has; it counts the keys before a key, and finds a first
and a last key (`LowestRank`, `HighestRank`) because the strict subsets of a
finite set are well-founded. That the fields are finitely many is part of the
invariant. `CleanSlate` is inductive by itself: a step either changes the hands,
or clears, or adds nothing to `inherited`.

*Argument, attestations.* `CountInv` strengthens `CountExact` to every name, not
only those with an aggregate, because a name without one is about to get it, and
adds that the attestations are finitely many, so that one more and one less
count as such. For the score, every message is shown to exchange at most one
boost of a name for another, 0 standing for none, in the sum and, with saturation
and cap, in the score (`StepsExchange`); that the score stays within the sum, and
equal to it below the cap, is then arithmetic. The sum is a fold that takes the
attestations in an unknown order. `SumProofs` shows that the fold exists and that any
element can be set apart from it, by picking a smallest subset for which it could not:
the strict subsets of a finite set are well-founded. `TrustAuthority` needs no invariant: it holds of each message.

*Argument, issuance.* `IssuanceSteps` sees registrar and TLD manager as one kind
of contract with different terms (`DeskStep`): it takes a commitment, sweeps, or
sells a name that its sender revealed (`Sold`, from `SaleEffect`); the rest is
administration, the clock, and the registry's own messages. A name appears by
`Mint` from such a contract only in a sale (`OnlySalesIssue`). `PaidInFull` comes from
`PaidThrough`, the registry's `PassThrough` for a price: it reaches the treasury in
the same step, be the payer the treasury or not. `RevealedAfterWaiting` speaks of what was
asked, which the contracts do not keep, so it needs an invariant (`WaitInv`): each
stored commitment stands in the log of messages with the time it was sent and is its
sender's last one, and the log has nothing from the future. Without the second half, a new
commitment need not be the last. `CleanKeepsLive` and `ReservedNotSold` follow
from the step.

*Argument, endpoint.* `RequestsOK` ties each request to where its process is (a
payload that is checked stays the one that was fetched for), and holds whatever
the configuration. `StoreOK` then says that the file, every process's copy of it
and every refusal contain only transactions that were posted: emptying,
overwriting and garbling the file only take some away (`StepKeeps`, one case per
call that leaves the process). Without a webhook nothing is posted, and the
file is filled all the same, hence the condition. `FiredOnce` is violated;
`OrderFiresOnce` says up to where it holds. A webhook may fail and its answer be
lost before that, and processes may die anywhere but between the webhook and the
end of their save. Its invariant (`OrderInv`) says that as long as `orderly` is
true, one request is served at a time, and what was posted is in the file, except
while that request saves it: between the truncation and the write only the process's
own copy has it (`Progress`). A second reader in that gap, a death there and a write that
does not come off are what ends `orderly`.

*Assumptions.* Labels normalise to themselves, `None` and `Invalid` are neither
accounts nor names, inputs have the declared types, and the starting balances
are naturals. TLC evaluates all of them in every run.

TLC checked `WaitInv` and `OrderInv` as invariants on the instances of
`issuance` and `concurrent`, and the registry's properties on those of `sale` and
`issuance`, before they were proved.

*Only model-checked*: `ReadingEnds`, which is liveness and out of the prover's
reach. Every other property of a passing run is a theorem; the
five violated claims are false.

## 5. Plan

1. **Proofs**: `AdminAuthority` for the six contracts that share `Handover`, in
   the compositions; a form of `PayerGetsTheName` that holds: who is not outrun by
   the seller gets what he pays for.
2. **Clients**: the TLD page (commit, timer, reveal, stored secret) over
   `TldManager`, and the widget (broadcast over several endpoints, one
   verification call) over `VerifySale`.

## 6. Not modelled

- The TLD page and the widget. Each sends a fixed sequence of messages that the
  contracts and the endpoint are already checked against in every order; what is
  their own (a browser's clock and storage, sequence numbers, the mempools of
  several nodes) is outside the repository and would be assumption rather than
  code. The hazards they run into are in `PROJECT.json`, with notes.
- The other pages: one message per button, no state of their own. They list an
  owner's names by one query of at most 100.
- Pages of `NamesByOwner`, `Texts` and `Attestations`: cut by the same
  `range().take()` as the pages of `Fields`, without its filter.
- Site registry and DID adapter: named by the whitepaper, code not in the
  repository.
- `migrate` entry points, which do nothing; queries nothing else reads.
- The contract test kit, the CI workflow and the wallet guides: no behaviour.
- The LCD endpoints' and the fulfilment service's own state.
