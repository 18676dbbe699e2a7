----------------------------- MODULE Marketplace -----------------------------
(***************************************************************************)
(* contracts/marketplace, together with the registry it sells names of.    *)
(*                                                                         *)
(* A handler that queries the registry and sends it a sub-message is one   *)
(* step with it: the queries read the registry's state, and the sub-       *)
(* message is the registry's own action with the marketplace as its        *)
(* sender.  Between two messages of the marketplace the registry moves on  *)
(* by itself, which is what makes a listing stale.                         *)
(***************************************************************************)
EXTENDS Registry, Handover, Integers

CONSTANTS
    Market,             \* the marketplace's account
    MarketDenom,        \* config.denom
    MarketAdmin,        \* the admin it is instantiated with
    MarketAdminInput,
    PriceInput

ASSUME MarketAssumption ==
    /\ Market \in Addr \ Sender /\ Market # RegistryAddr
    /\ MarketDenom \in Denom
    /\ MarketAdmin \in Addr /\ MarketAdminInput \subseteq Addr
    /\ PriceInput \subseteq Nat

Listing == [seller : Addr, price : Nat]

VARIABLES
    marketConfig,   \* CONFIG: admin and pending admin (registry and denom never change)
    listings        \* LISTINGS

marketVars == <<marketConfig, listings>>
marketSystemVars == <<vars, marketVars>>

MarketInit ==
    /\ Init
    /\ marketConfig = InOffice(MarketAdmin)
    /\ listings = <<>>

-----------------------------------------------------------------------------
MarketTransferAdmin(s, new) ==
    Nominate(marketConfig, s, new) /\ UNCHANGED <<vars, listings>>

MarketAcceptAdmin(s) ==
    AcceptNomination(marketConfig, s) /\ UNCHANGED <<vars, listings>>

\* Mutant of List: normalises the name for its check, and lists it as typed.
ListAsTyped(s, rawName, price) ==
    LET n == NormalizeName(rawName) IN
    /\ n # Invalid
    /\ OwnerOf(n) = s
    /\ listings' = Save(listings, rawName, [seller |-> s, price |-> price])
    /\ UNCHANGED <<vars, marketConfig>>

List(s, rawName, price) ==
    LET n == NormalizeName(rawName) IN
    /\ n # Invalid
    /\ OwnerOf(n) = s
    /\ listings' = Save(listings, n, [seller |-> s, price |-> price])
    /\ UNCHANGED <<vars, marketConfig>>

Cancel(s, rawName) ==
    LET n == NormalizeName(rawName) IN
    /\ n # Invalid
    /\ n \in DOMAIN listings
    /\ listings[n].seller = s
    /\ listings' = Delete(listings, n)
    /\ UNCHANGED <<vars, marketConfig>>

\* The two bank sends of a sale, each made only if it is not zero.
Payout(bal, to, amount) ==
    IF amount = 0 THEN bal ELSE Moved(bal, Market, to, OneCoin(MarketDenom, amount))

\* The listing goes and the payment stays in the contract.
BuyStale(s, n, paid) ==
    /\ OwnerOf(n) # listings[n].seller
    /\ balance' = paid
    /\ UNCHANGED registryVars

\* Mutants of Settle: the royalty is subtracted but not sent; the name is
\* taken from whoever owns it by now.
SettleWithoutRoyalty(s, n, paid) ==
    LET price == listings[n].price
        fee   == RoyaltyQuote(price)
    IN
    /\ OwnerOf(n) = listings[n].seller
    /\ fee # Invalid /\ fee <= price
    /\ Transfer(Market, n, s)
    /\ balance' = Payout(paid, listings[n].seller, price - fee)
SettleStale(s, n, paid) ==
    LET price == listings[n].price
        fee   == RoyaltyQuote(price)
    IN
    /\ fee # Invalid /\ fee <= price
    /\ Transfer(Market, n, s)
    /\ balance' = Payout(Payout(paid, royalty.recipient, fee),
                         listings[n].seller, price - fee)

Settle(s, n, paid) ==
    LET price  == listings[n].price
        fee    == RoyaltyQuote(price)
    IN
    /\ OwnerOf(n) = listings[n].seller
    /\ fee # Invalid
    /\ fee <= price
    /\ Transfer(Market, n, s)
    /\ balance' = Payout(Payout(paid, royalty.recipient, fee),
                         listings[n].seller, price - fee)

Buy(s, rawName, funds) ==
    LET n == NormalizeName(rawName) IN
    /\ n # Invalid
    /\ n \in DOMAIN listings
    /\ ExpectExactPayment(funds, MarketDenom, listings[n].price)
    /\ Covers(balance, s, funds)
    /\ LET paid == Moved(balance, s, Market, funds)
       IN  BuyStale(s, n, paid) \/ Settle(s, n, paid)
    /\ listings' = Delete(listings, n)
    /\ UNCHANGED marketConfig

-----------------------------------------------------------------------------
MarketHandle(s) ==
    \/ \E a \in MarketAdminInput : MarketTransferAdmin(s, a)
    \/ MarketAcceptAdmin(s)
    \/ \E raw \in NameInput :
          \/ \E price \in PriceInput : List(s, raw, price)
          \/ Cancel(s, raw)
          \/ \E funds \in FundsInput : Buy(s, raw, funds)

MarketNext ==
    \/ Next /\ UNCHANGED marketVars
    \/ \E s \in Sender : MarketHandle(s)

MarketSpec == MarketInit /\ [][MarketNext]_marketSystemVars

-----------------------------------------------------------------------------
(* Correctness.                                                            *)

MarketTypeOK ==
    /\ TypeOK
    /\ marketConfig \in Office
    /\ DOMAIN listings \subseteq Name /\ listings \in [DOMAIN listings -> Listing]

\* `n` changes hands against a listing.
Sold(n) == n \in DOMAIN listings \ DOMAIN listings' /\ OwnerOf(n)' # OwnerOf(n)

\* What account `a` gains in the sale of listing `l` to `buyer`.
Gain(a, l, buyer) ==
    (IF a = l.seller THEN l.price - RoyaltyQuote(l.price) ELSE 0)
    + (IF a = royalty.recipient THEN RoyaltyQuote(l.price) ELSE 0)
    - (IF a = buyer THEN l.price ELSE 0)

\* A name and its price change hands together: in the step in which a listed
\* name goes to a buyer, the price leaves him and reaches, to the last coin,
\* the seller, who was the owner up to then, and the royalty recipient of that
\* moment, whatever the admin made of the royalty since the name was listed.
AtomicSale ==
    [][\A n \in DOMAIN listings : Sold(n) =>
          /\ listings[n].seller = OwnerOf(n)
          /\ \A a \in Addr :
                balance'[a][MarketDenom] =
                  balance[a][MarketDenom] + Gain(a, listings[n], OwnerOf(n)')
      ]_marketSystemVars

\* With the marketplace as operator of the registry, free to move any name, a
\* name still leaves its owner only in a message of his or in a sale of the
\* listing he made himself.
NoSaleWithoutListing ==
    [][\A n \in DOMAIN names :
          OwnerOf(n)' # OwnerOf(n)
          => \/ sender' = OwnerOf(n)
             \/ Sold(n) /\ listings[n].seller = OwnerOf(n) /\ Exists(n)'
      ]_marketSystemVars

\* Whatever the admin makes of the royalty after a name was listed, its quote
\* blocks the sale in one case only, which is that price times basis points
\* does not fit in a Uint128.  In every other it stays within the price, and
\* seller_amount's checked_sub succeeds.
RoyaltyWithinPrice ==
    \A n \in DOMAIN listings :
        LET price == listings[n].price
            quote == RoyaltyQuote(price)
        IN  IF price * royalty.bps <= MaxUint128 THEN quote \in 0 .. price
                                                 ELSE quote = Invalid

\* A purchase that finds the seller no longer the owner is the error the
\* contract declares for it, "seller mismatch with registry" (StaleListing),
\* and an error keeps the buyer's coins where they are: who pays for a listing
\* becomes the owner of the name.
PayerGetsTheName ==
    [][\A s \in Sender, n \in DOMAIN listings :
          (n \notin DOMAIN listings' /\ balance'[s][MarketDenom] < balance[s][MarketDenom])
          => OwnerOf(n)' = s]_marketSystemVars
=============================================================================
