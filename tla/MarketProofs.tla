---------------------------- MODULE MarketProofs ----------------------------
(***************************************************************************)
(* Theorems about Marketplace, for every value of its constants.           *)
(***************************************************************************)
EXTENDS Marketplace, RegistryProofs

-----------------------------------------------------------------------------
(* Amounts.                                                                *)

\* A share of an amount is no more than the amount.
LEMMA ShareWithin ==
    ASSUME NEW amount \in Nat, NEW part \in Nat, NEW whole \in Nat \ {0}, part <= whole
    PROVE  (amount * part) \div whole \in 0..amount
<1>1. amount * part \in Nat /\ amount * part <= amount * whole
  OBVIOUS
<1> DEFINE product == amount * part
           share   == product \div whole
<1>2. product \in Nat /\ product <= amount * whole
  BY <1>1
<1> HIDE DEF product
<1>3. share \in Nat /\ share * whole <= product
  BY <1>2
<1>4. share * whole <= amount * whole
  BY <1>2, <1>3
<1> HIDE DEF share
<1>5. share <= amount
  BY <1>3, <1>4
<1> QED BY <1>3, <1>5 DEF share, product

\* The quote for a price is a part of it, or too big to compute.
LEMMA QuoteWithin ==
    ASSUME TypeOK, NEW price \in Nat, RoyaltyQuote(price) # Invalid
    PROVE  RoyaltyQuote(price) \in 0..price
<1>0. AllBps \in Nat \ {0}
  BY DEF AllBps
<1>1. royalty.bps \in Nat /\ royalty.bps <= AllBps
  BY <1>0 DEF TypeOK
<1>2. RoyaltyQuote(price) = (price * royalty.bps) \div AllBps
  BY DEF RoyaltyQuote, CheckedBps
<1> QED BY <1>0, <1>1, <1>2, ShareWithin

Balance(bal, a) == bal[a][MarketDenom]

\* What one coin's journey does to the accounts, which may be the same.
LEMMA MovedAmounts ==
    ASSUME NEW bal \in [Addr -> Coins], NEW from \in Addr, NEW to \in Addr, NEW amount \in Nat
    PROVE  \A a \in Addr :
              Balance(Moved(bal, from, to, OneCoin(MarketDenom, amount)), a) =
                Balance(bal, a) - (IF a = from THEN amount ELSE 0) + (IF a = to THEN amount ELSE 0)
<1> DEFINE coins == OneCoin(MarketDenom, amount)
           left  == Debited(bal, from, coins)
<1>1. MarketDenom \in Denom /\ coins[MarketDenom] = amount
  BY MarketAssumption DEF OneCoin
<1>2. left \in [Addr -> [Denom -> Int]]
  BY DEF Debited, OneCoin, Coins
<1>3. \A a \in Addr : Balance(left, a) = Balance(bal, a) - (IF a = from THEN amount ELSE 0)
  BY <1>1 DEF Debited, Balance, Coins
<1> HIDE DEF left, coins
<1>4. \A a \in Addr : Balance(Credited(left, to, coins), a) =
                        Balance(left, a) + (IF a = to THEN amount ELSE 0)
  BY <1>1, <1>2 DEF Credited, Balance
<1>5. \A a \in Addr : Balance(left, a) \in Int /\ Balance(bal, a) \in Int
  BY <1>1, <1>2 DEF Balance, Coins
<1> QED BY <1>3, <1>4, <1>5 DEF Moved, left, coins

\* The same for a send that is left out when it would be of nothing.
LEMMA PayoutAmounts ==
    ASSUME NEW bal \in [Addr -> Coins], NEW to \in Addr, NEW amount \in Nat,
           Market \in Addr
    PROVE  \A a \in Addr :
              Balance(Payout(bal, to, amount), a) =
                Balance(bal, a) - (IF a = Market THEN amount ELSE 0) + (IF a = to THEN amount ELSE 0)
<1>1. \A a \in Addr : Balance(bal, a) \in Nat
  BY MarketAssumption DEF Balance, Coins
<1> QED BY <1>1, MovedAmounts DEF Payout

\* What the marketplace has, it can pay out.
LEMMA PayoutType ==
    ASSUME NEW bal \in [Addr -> Coins], NEW to \in Addr, NEW amount \in Nat,
           amount <= Balance(bal, Market)
    PROVE  Payout(bal, to, amount) \in [Addr -> Coins]
<1> DEFINE coins == OneCoin(MarketDenom, amount)
<1>1. coins \in Coins
  BY DEF OneCoin, Coins
<1>2. Covers(bal, Market, coins)
  BY MarketAssumption DEF Covers, OneCoin, Balance, Coins
<1> HIDE DEF coins
<1>3. Moved(bal, Market, to, coins) \in [Addr -> Coins]
  BY <1>1, <1>2, MovedType, MarketAssumption
<1> QED BY <1>3 DEF Payout, coins

-----------------------------------------------------------------------------
(* Types.                                                                  *)

\* A listing is that of somebody who sends messages: the contract itself, whose
\* balance a purchase passes through, is never a seller.
MarketItemsOK ==
    /\ marketConfig \in Office
    /\ DOMAIN listings \subseteq Name /\ listings \in [DOMAIN listings -> Listing]
    /\ \A n \in DOMAIN listings : listings[n].seller \in Sender

\* What a sale does to the registry and the bank.
LEMMA SettleEffect ==
    ASSUME TypeOK, MarketItemsOK, NEW s \in Sender, NEW n \in DOMAIN listings,
           NEW paid \in [Addr -> Coins], listings[n].price <= Balance(paid, Market),
           Settle(s, n, paid)
    PROVE  /\ n \in DOMAIN names /\ names[n].owner = listings[n].seller
           /\ names' = Save(Delete(names, n), n, [names[n] EXCEPT !.owner = s])
           /\ balance' \in [Addr -> Coins]
           /\ \A a \in Addr :
                 Balance(balance', a) =
                   Balance(paid, a) - (IF a = Market THEN listings[n].price ELSE 0)
                   + (IF a = royalty.recipient THEN RoyaltyQuote(listings[n].price) ELSE 0)
                   + (IF a = listings[n].seller
                      THEN listings[n].price - RoyaltyQuote(listings[n].price) ELSE 0)
<1> DEFINE seller == listings[n].seller
           price  == listings[n].price
           fee    == RoyaltyQuote(price)
           r      == royalty.recipient
           once   == Payout(paid, r, fee)
<1>1. /\ n \in Name /\ seller \in Sender /\ seller \in Addr /\ s \in Addr
      /\ price \in Nat /\ r \in Addr /\ Market \in Addr /\ seller # Market
  BY RegistryAssumption, MarketAssumption DEF MarketItemsOK, Listing, TypeOK
<1>2. /\ OwnerOf(n) = seller /\ fee # Invalid
      /\ Transfer(Market, n, s)
      /\ balance' = Payout(once, seller, price - fee)
  BY DEF Settle
<1>3. fee \in 0..price
  BY <1>1, <1>2, QuoteWithin
<1>4. fee \in Nat /\ price - fee \in Nat /\ fee <= price
  BY <1>1, <1>3
<1>5. NormalizeName(n) = n
  BY <1>1, <1>2, NormalForm DEF Transfer
<1>6. /\ n \in DOMAIN names /\ names[n].owner = seller
      /\ names' = Save(Delete(names, n), n, [names[n] EXCEPT !.owner = s])
  BY <1>2, <1>5 DEF Transfer, AssertOwnerOrMarketplace, OwnerOf, Write, StoreName, RemoveName, Stored
<1> HIDE DEF fee, price, seller, r
<1>7. \A a \in Addr : Balance(paid, a) \in Nat
  BY MarketAssumption DEF Balance, Coins
<1>8. price <= Balance(paid, Market)
  BY DEF price
<1>9. once \in [Addr -> Coins]
  BY <1>1, <1>4, <1>7, <1>8, PayoutType
<1>10. \A a \in Addr : Balance(once, a) =
          Balance(paid, a) - (IF a = Market THEN fee ELSE 0) + (IF a = r THEN fee ELSE 0)
  BY <1>1, <1>4, PayoutAmounts
<1> HIDE DEF once
<1>11. price - fee <= Balance(once, Market)
  BY <1>1, <1>4, <1>7, <1>8, <1>10
<1>12. balance' \in [Addr -> Coins]
  BY <1>1, <1>2, <1>4, <1>9, <1>11, PayoutType
<1>13. \A a \in Addr : Balance(balance', a) =
          Balance(once, a) - (IF a = Market THEN price - fee ELSE 0)
                           + (IF a = seller THEN price - fee ELSE 0)
  BY <1>1, <1>2, <1>4, <1>9, PayoutAmounts
<1>14. \A a \in Addr : Balance(balance', a) =
          Balance(paid, a) - (IF a = Market THEN price ELSE 0)
            + (IF a = r THEN fee ELSE 0) + (IF a = seller THEN price - fee ELSE 0)
  BY <1>1, <1>4, <1>7, <1>10, <1>13
<1> QED BY <1>6, <1>12, <1>14 DEF fee, price, seller, r

\* What the buyer has paid before the contract acts on it.
LEMMA PaidType ==
    ASSUME TypeOK, MarketItemsOK, NEW s \in Sender, NEW n \in DOMAIN listings, NEW funds \in FundsInput,
           ExpectExactPayment(funds, MarketDenom, listings[n].price), Covers(balance, s, funds),
           NEW paid, paid = Moved(balance, s, Market, funds)
    PROVE  /\ paid \in [Addr -> Coins]
           /\ listings[n].price <= Balance(paid, Market)
           /\ \A a \in Addr : Balance(paid, a) =
                 Balance(balance, a) - (IF a = s THEN listings[n].price ELSE 0)
                                     + (IF a = Market THEN listings[n].price ELSE 0)
<1> DEFINE price == listings[n].price
<1>1. /\ s \in Addr /\ Market \in Addr /\ s # Market /\ funds \in Coins
      /\ MarketDenom \in Denom /\ price \in Nat /\ balance \in [Addr -> Coins]
  BY RegistryAssumption, MarketAssumption DEF MarketItemsOK, Listing, TypeOK
<1> HIDE DEF price
<1>2. ExpectExactPayment(funds, MarketDenom, price)
  BY DEF price
<1>3. funds = OneCoin(MarketDenom, price)
  BY <1>1, <1>2, ExactPaymentIsOneCoin
<1>4. paid \in [Addr -> Coins]
  BY <1>1, MovedType
<1>5. \A a \in Addr : Balance(paid, a) =
         Balance(balance, a) - (IF a = s THEN price ELSE 0) + (IF a = Market THEN price ELSE 0)
  BY <1>1, <1>3, MovedAmounts
<1>6. Balance(balance, Market) \in Nat
  BY <1>1 DEF Balance, Coins
<1>7. price <= Balance(paid, Market)
  BY <1>1, <1>5, <1>6
<1> QED BY <1>4, <1>5, <1>7 DEF price

\* A purchase deletes the listing of a name, and either does no more than take
\* the price or settles the sale.
LEMMA BuyEffect ==
    ASSUME TypeOK, MarketItemsOK, NEW s \in Sender, NEW raw \in NameInput, NEW funds \in FundsInput,
           Buy(s, raw, funds)
    PROVE  \E n \in DOMAIN listings, paid \in [Addr -> Coins] :
              /\ listings' = Delete(listings, n) /\ UNCHANGED marketConfig
              /\ listings[n].price <= Balance(paid, Market)
              /\ \A a \in Addr : Balance(paid, a) =
                    Balance(balance, a) - (IF a = s THEN listings[n].price ELSE 0)
                                        + (IF a = Market THEN listings[n].price ELSE 0)
              /\ BuyStale(s, n, paid) \/ Settle(s, n, paid)
<1> DEFINE n    == NormalizeName(raw)
           paid == Moved(balance, s, Market, funds)
<1>1. /\ n \in DOMAIN listings
      /\ ExpectExactPayment(funds, MarketDenom, listings[n].price)
      /\ Covers(balance, s, funds)
      /\ BuyStale(s, n, paid) \/ Settle(s, n, paid)
      /\ listings' = Delete(listings, n) /\ UNCHANGED marketConfig
  BY DEF Buy
<1> HIDE DEF n
<1>2. /\ paid \in [Addr -> Coins]
      /\ listings[n].price <= Balance(paid, Market)
      /\ \A a \in Addr : Balance(paid, a) =
            Balance(balance, a) - (IF a = s THEN listings[n].price ELSE 0)
                                + (IF a = Market THEN listings[n].price ELSE 0)
  <2> HIDE DEF paid
  <2> QED BY <1>1, PaidType DEF paid
<1> HIDE DEF paid
<1> QED BY <1>1, <1>2

\* Any message to the marketplace keeps the types.
LEMMA MarketHandleType ==
    ASSUME TypeOK, MarketItemsOK, NEW s \in Sender, MarketHandle(s)
    PROVE  TypeOK' /\ MarketItemsOK'
<1>0. s \in Addr /\ Market \in Addr
  BY RegistryAssumption, MarketAssumption
<1>1. ASSUME UNCHANGED vars PROVE TypeOK'
  BY <1>1 DEF vars, registryVars, adminVars, configVars, nameVars, subVars, TypeOK
<1>2. ASSUME NEW a \in MarketAdminInput, MarketTransferAdmin(s, a)
      PROVE  TypeOK' /\ MarketItemsOK'
  <2>1. marketConfig' \in Office
    BY <1>2, MarketAssumption DEF MarketTransferAdmin, Nominate, MarketItemsOK, Office
  <2> QED BY <1>1, <1>2, <2>1 DEF MarketTransferAdmin, MarketItemsOK
<1>3. CASE MarketAcceptAdmin(s)
  <2>1. marketConfig' \in Office
    BY <1>0, <1>3 DEF MarketAcceptAdmin, AcceptNomination, MarketItemsOK, Office
  <2> QED BY <1>1, <1>3, <2>1 DEF MarketAcceptAdmin, MarketItemsOK
<1>4. ASSUME NEW raw \in NameInput, NEW price \in PriceInput, List(s, raw, price)
      PROVE  TypeOK' /\ MarketItemsOK'
  <2> DEFINE n == NormalizeName(raw)
             l == [seller |-> s, price |-> price]
  <2>1. /\ n \in Name /\ listings' = Save(listings, n, l)
        /\ UNCHANGED <<vars, marketConfig>>
    BY <1>4, RegistryAssumption, NormalizeNameType DEF List
  <2>2. l \in Listing /\ l.seller \in Sender
    BY <1>0, MarketAssumption DEF Listing
  <2>3. MarketItemsOK'
    <3> HIDE DEF n, l
    <3> QED BY <2>1, <2>2 DEF MarketItemsOK, Save
  <2> QED BY <1>1, <2>1, <2>3
<1>5. ASSUME NEW raw \in NameInput, Cancel(s, raw)
      PROVE  TypeOK' /\ MarketItemsOK'
  BY <1>1, <1>5 DEF Cancel, MarketItemsOK, Delete
<1>6. ASSUME NEW raw \in NameInput, NEW funds \in FundsInput, Buy(s, raw, funds)
      PROVE  TypeOK' /\ MarketItemsOK'
  <2>1. PICK n \in DOMAIN listings, paid \in [Addr -> Coins] :
           /\ listings' = Delete(listings, n) /\ UNCHANGED marketConfig
           /\ listings[n].price <= Balance(paid, Market)
           /\ BuyStale(s, n, paid) \/ Settle(s, n, paid)
    BY <1>6, BuyEffect
  <2>2. MarketItemsOK'
    BY <2>1 DEF MarketItemsOK, Delete
  <2>3. CASE BuyStale(s, n, paid)
    <3>1. balance' = paid /\ UNCHANGED registryVars
      BY <2>3 DEF BuyStale
    <3>2. TypeOK'
      BY <3>1 DEF registryVars, adminVars, configVars, nameVars, subVars, TypeOK
    <3> QED BY <2>2, <3>2
  <2>4. CASE Settle(s, n, paid)
    <3>1. balance' \in [Addr -> Coins]
      BY <2>1, <2>4, SettleEffect
    <3>2. Transfer(Market, n, s)
      BY <2>4 DEF Settle
    <3>3. n \in Seq(Spelling)
      BY NamesAssumption DEF MarketItemsOK, Name
    <3>4. AdminTypeOK' /\ NamesTypeOK' /\ SubTypeOK'
      BY <1>0, <3>2, <3>3, TransferType
    <3>5. TypeOK'
      BY <3>1, <3>4 DEF TypeOK, AdminTypeOK, NamesTypeOK, SubTypeOK
    <3> QED BY <2>2, <3>5
  <2> QED BY <2>1, <2>3, <2>4
<1> QED BY <1>2, <1>3, <1>4, <1>5, <1>6 DEF MarketHandle

\* The types of both contracts and the sellers' are inductive together.
LEMMA MarketInvariant == MarketSpec => [](TypeOK /\ MarketItemsOK)
<1>1. MarketInit => TypeOK /\ MarketItemsOK
  <2>1. InOffice(MarketAdmin) \in Office
    BY MarketAssumption DEF InOffice, Office
  <2> QED BY <2>1, TypeInitially DEF MarketInit, MarketItemsOK
<1>2. TypeOK /\ MarketItemsOK /\ [MarketNext]_marketSystemVars => TypeOK' /\ MarketItemsOK'
  <2>1. TypeOK /\ MarketItemsOK /\ [Next]_vars /\ UNCHANGED marketVars => TypeOK' /\ MarketItemsOK'
    BY TypeStep DEF marketVars, MarketItemsOK
  <2> QED BY <2>1, MarketHandleType DEF MarketNext, marketSystemVars
<1> QED BY <1>1, <1>2, PTL DEF MarketSpec

\* Every reachable state of the marketplace and its registry is well typed.
THEOREM MarketTypeCorrect == MarketSpec => []MarketTypeOK
<1>1. TypeOK /\ MarketItemsOK => MarketTypeOK
  BY DEF MarketItemsOK, MarketTypeOK
<1> QED BY <1>1, MarketInvariant, PTL

\* Whatever royalty the admin sets, its quote for a listing is within the price,
\* except where the product it is computed from does not fit in a Uint128: there
\* is none then, and the name cannot be sold at that price.
THEOREM RoyaltyAlwaysWithinPrice == MarketSpec => []RoyaltyWithinPrice
<1>1. TypeOK /\ MarketItemsOK => RoyaltyWithinPrice
  <2> SUFFICES ASSUME TypeOK, MarketItemsOK, NEW n \in DOMAIN listings
               PROVE  IF listings[n].price * royalty.bps <= MaxUint128
                      THEN RoyaltyQuote(listings[n].price) \in 0..listings[n].price
                      ELSE RoyaltyQuote(listings[n].price) = Invalid
    BY DEF RoyaltyWithinPrice
  <2> DEFINE price == listings[n].price
             share == (price * royalty.bps) \div AllBps
  <2>1. price \in Nat /\ royalty.bps \in Nat
    BY DEF MarketItemsOK, Listing, TypeOK
  <2>2. price * royalty.bps \in Nat /\ MaxUint128 \in Nat
    BY <2>1, NamesAssumption
  <2>3. CASE price * royalty.bps <= MaxUint128
    <3>1. RoyaltyQuote(price) = share
      BY <2>2, <2>3 DEF RoyaltyQuote, CheckedBps
    <3>2. share \in Nat
      BY <2>2 DEF AllBps
    <3>3. RoyaltyQuote(price) # Invalid
      BY <3>1, <3>2, NamesAssumption
    <3> QED BY <2>1, <2>3, <3>3, QuoteWithin
  <2>4. CASE ~(price * royalty.bps <= MaxUint128)
    BY <2>2, <2>4 DEF RoyaltyQuote, CheckedBps
  <2> QED BY <2>3, <2>4
<1> QED BY <1>1, MarketInvariant, PTL

-----------------------------------------------------------------------------
(* Sales.                                                                  *)

\* Of the messages to the marketplace only a purchase touches the registry.
LEMMA OnlyBuyMoves ==
    ASSUME NEW s \in Sender, MarketHandle(s)
    PROVE  \/ UNCHANGED vars
           \/ \E raw \in NameInput, funds \in FundsInput : Buy(s, raw, funds)
  BY DEF MarketHandle, MarketTransferAdmin, MarketAcceptAdmin, List, Cancel

\* A name sold against a listing was the seller's, and the price went from the
\* buyer to the seller and the royalty recipient, to the last coin.
THEOREM SalesAreAtomic == MarketSpec => AtomicSale
<1> DEFINE Fair(n) == Sold(n) =>
              /\ listings[n].seller = OwnerOf(n)
              /\ \A a \in Addr : balance'[a][MarketDenom] =
                    balance[a][MarketDenom] + Gain(a, listings[n], OwnerOf(n)')
           Atomic == \A n \in DOMAIN listings : Fair(n)
<1>1. ASSUME TypeOK, MarketItemsOK, [MarketNext]_marketSystemVars, NEW n \in DOMAIN listings
      PROVE  Fair(n)
  <2>1. CASE UNCHANGED listings \/ UNCHANGED names
    BY <2>1 DEF Sold, OwnerOf
  <2>2. ASSUME NEW s \in Sender, NEW raw \in NameInput, NEW funds \in FundsInput,
               Buy(s, raw, funds), Sold(n)
        PROVE  Fair(n)
    <3>1. PICK m \in DOMAIN listings, paid \in [Addr -> Coins] :
             /\ listings' = Delete(listings, m)
             /\ listings[m].price <= Balance(paid, Market)
             /\ \A a \in Addr : Balance(paid, a) =
                   Balance(balance, a) - (IF a = s THEN listings[m].price ELSE 0)
                                       + (IF a = Market THEN listings[m].price ELSE 0)
             /\ BuyStale(s, m, paid) \/ Settle(s, m, paid)
      BY <1>1, <2>2, BuyEffect
    <3>2. m = n
      BY <2>2, <3>1 DEF Sold, Delete
    <3>3. Settle(s, n, paid)
      BY <2>1, <2>2, <3>1, <3>2 DEF BuyStale, registryVars, nameVars, Sold, OwnerOf
    <3> DEFINE seller == listings[n].seller
               price  == listings[n].price
               fee    == RoyaltyQuote(price)
               r      == royalty.recipient
    <3>4. /\ n \in DOMAIN names /\ names[n].owner = seller
          /\ names' = Save(Delete(names, n), n, [names[n] EXCEPT !.owner = s])
          /\ \A a \in Addr : Balance(balance', a) =
                Balance(paid, a) - (IF a = Market THEN price ELSE 0)
                  + (IF a = r THEN fee ELSE 0) + (IF a = seller THEN price - fee ELSE 0)
      BY <1>1, <3>1, <3>2, <3>3, SettleEffect
    <3>5. OwnerOf(n) = seller /\ OwnerOf(n)' = s
      <4>1. names[n] \in NameRecord
        BY <1>1, <3>4 DEF TypeOK
      <4>2. n \in DOMAIN names' /\ names'[n].owner = s
        BY <3>4, <4>1 DEF Save, NameRecord
      <4> QED BY <3>4, <4>2 DEF OwnerOf
    <3>6. price \in Nat /\ fee \in Nat /\ \A a \in Addr : Balance(balance, a) \in Nat
      <4>1. price \in Nat
        BY <1>1 DEF MarketItemsOK, Listing
      <4>2. fee \in 0..price
        BY <1>1, <3>3, <4>1, QuoteWithin DEF Settle
      <4> QED BY <1>1, <4>1, <4>2, MarketAssumption DEF TypeOK, Balance, Coins
    <3>7. \A a \in Addr : Gain(a, listings[n], s) =
             (IF a = seller THEN price - fee ELSE 0) + (IF a = r THEN fee ELSE 0)
             - (IF a = s THEN price ELSE 0)
      BY DEF Gain
    <3>8. \A a \in Addr : Balance(paid, a) =
             Balance(balance, a) - (IF a = s THEN price ELSE 0) + (IF a = Market THEN price ELSE 0)
      BY <3>1, <3>2
    <3> HIDE DEF seller, price, fee, r
    <3>9. \A a \in Addr : Balance(balance', a) = Balance(balance, a) + Gain(a, listings[n], s)
      BY <3>4, <3>6, <3>7, <3>8
    <3> QED BY <3>5, <3>9 DEF Balance, seller
  <2>3. CASE Sold(n)
    BY <1>1, <2>1, <2>2, <2>3, OnlyBuyMoves
       DEF MarketNext, marketSystemVars, marketVars, vars, registryVars, nameVars
  <2> QED BY <2>3
<1>2. TypeOK /\ MarketItemsOK /\ [MarketNext]_marketSystemVars => [Atomic]_marketSystemVars
  BY <1>1
<1> QED BY <1>2, MarketInvariant, PTL DEF MarketSpec, AtomicSale

\* The registry lets nobody but the marketplace move the names of others.
MarketOperator == operator["marketplace"] \in {Market, None}

\* If the admin makes nobody but the marketplace the registry's marketplace
\* operator, a name leaves its owner only in a message of his own or in the
\* sale of a listing he made.
THEOREM NamesLeaveByOwnerOrSale ==
    ASSUME \A o \in OperatorInput : o[1] = "marketplace" => o[2] \in {Market, None}
    PROVE  MarketSpec => NoSaleWithoutListing
<1> DEFINE Leave(n) == OwnerOf(n)' # OwnerOf(n)
              => \/ sender' = OwnerOf(n)
                 \/ Sold(n) /\ listings[n].seller = OwnerOf(n) /\ Exists(n)'
           Leaves == \A n \in DOMAIN names : Leave(n)
<1>1. MarketInit => MarketOperator
  BY DEF MarketInit, Init, MarketOperator, Kind
<1>2. TypeOK /\ MarketOperator /\ [MarketNext]_marketSystemVars => MarketOperator'
  <2> SUFFICES ASSUME TypeOK, MarketOperator, [MarketNext]_marketSystemVars
               PROVE  MarketOperator'
    OBVIOUS
  <2>1. CASE UNCHANGED operator
    BY <2>1 DEF MarketOperator
  <2>2. ASSUME NEW s \in Sender, Administer(s) PROVE MarketOperator'
    <3>1. ASSUME NEW o \in OperatorInput, SetOperator(s, o[1], o[2]) PROVE MarketOperator'
      BY <3>1, RegistryAssumption DEF SetOperator, MarketOperator, TypeOK, Kind
    <3> QED BY <2>1, <2>2, <3>1
            DEF Administer, TransferAdmin, AcceptAdmin, SetRoyalty, configVars
  <2>3. ASSUME NEW s \in Sender, HandleName(s) \/ ClearPrimary(s) \/ Priced(s) PROVE UNCHANGED operator
    BY <2>3, NamesLeaveAdmin DEF configVars
  <2>4. ASSUME NEW s \in Sender, NEW raw \in NameInput, NEW funds \in FundsInput, Buy(s, raw, funds)
        PROVE  UNCHANGED operator
    BY <2>4 DEF Buy, BuyStale, Settle, Transfer, registryVars, configVars
  <2> QED BY <2>1, <2>2, <2>3, <2>4, OnlyBuyMoves
          DEF MarketNext, Next, Unpriced, marketSystemVars, vars, registryVars, configVars
<1>3. ASSUME TypeOK, MarketItemsOK, MarketOperator, [MarketNext]_marketSystemVars,
             NEW n \in DOMAIN names
      PROVE  Leave(n)
  <2>1. CASE UNCHANGED names
    BY <2>1 DEF OwnerOf
  <2>2. ASSUME NEW s \in Sender, Unpriced(s) \/ Priced(s) PROVE Leave(n)
    <3>1. NameStep(s) /\ sender' = s
      BY <1>3, <2>2, NameSteps
    <3>2. s \notin {Market, None}
      BY RegistryAssumption, MarketAssumption, NoneAssumption
    <3>3. ASSUME NEW m \in Name, NEW owner \in Addr, Added(m, owner) PROVE Leave(n)
      BY <3>3 DEF Added, Save, OwnerOf
    <3>4. ASSUME NEW m \in DOMAIN names, NEW to \in Addr, Handed(m, to) \/ Dropped(m),
                 s \in {names[m].owner, operator["marketplace"]}
          PROVE  Leave(n)
      <4>1. n # m => n \in DOMAIN names' /\ names'[n] = names[n]
        BY <3>4 DEF Handed, Dropped, Save, Delete
      <4>2. s = OwnerOf(m)
        BY <1>3, <3>2, <3>4 DEF MarketOperator, OwnerOf
      <4> QED BY <3>1, <4>1, <4>2 DEF OwnerOf
    <3> QED BY <2>1, <3>1, <3>3, <3>4, RegistryAssumption
            DEF NameStep, nameVars, PrimarySet, PrimaryCleared
  <2>3. ASSUME NEW s \in Sender, NEW raw \in NameInput, NEW funds \in FundsInput, Buy(s, raw, funds)
        PROVE  Leave(n)
    <3>1. PICK m \in DOMAIN listings, paid \in [Addr -> Coins] :
             /\ listings' = Delete(listings, m)
             /\ listings[m].price <= Balance(paid, Market)
             /\ BuyStale(s, m, paid) \/ Settle(s, m, paid)
      BY <1>3, <2>3, BuyEffect
    <3>2. CASE BuyStale(s, m, paid)
      BY <2>1, <3>2 DEF BuyStale, registryVars, nameVars
    <3>3. CASE Settle(s, m, paid)
      <4>1. /\ m \in DOMAIN names /\ names[m].owner = listings[m].seller
            /\ names' = Save(Delete(names, m), m, [names[m] EXCEPT !.owner = s])
        BY <1>3, <3>1, <3>3, SettleEffect
      <4>2. n # m => n \in DOMAIN names' /\ names'[n] = names[n]
        BY <4>1 DEF Save, Delete
      <4>3. m \in DOMAIN names' /\ m \notin DOMAIN listings'
        BY <3>1, <4>1 DEF Save, Delete
      <4> QED BY <4>1, <4>2, <4>3 DEF OwnerOf, Sold, Exists
    <3> QED BY <3>1, <3>2, <3>3
  <2> HIDE DEF Leave
  <2> QED BY <1>3, <2>1, <2>2, <2>3, OnlyBuyMoves
          DEF MarketNext, Next, marketSystemVars, vars, registryVars, nameVars
<1>4. TypeOK /\ MarketItemsOK /\ MarketOperator /\ [MarketNext]_marketSystemVars
         => [Leaves]_marketSystemVars
  BY <1>3
<1> QED BY <1>1, <1>2, <1>4, MarketInvariant, PTL DEF MarketSpec, NoSaleWithoutListing

-----------------------------------------------------------------------------
(* The registry, with a marketplace that sends it transfers.               *)

\* Every step of the system is one of the six effects on the tables: a sale
\* hands one name on in the name of the marketplace.
LEMMA MarketTables ==
    ASSUME TypeOK, MarketItemsOK, [MarketNext]_marketSystemVars
    PROVE  TableStep
<1>1. ASSUME NEW s \in Sender, NEW raw \in NameInput, NEW funds \in FundsInput, Buy(s, raw, funds)
      PROVE  TableStep
  <2>1. PICK m \in DOMAIN listings, paid \in [Addr -> Coins] : BuyStale(s, m, paid) \/ Settle(s, m, paid)
    BY <1>1, BuyEffect
  <2>2. CASE BuyStale(s, m, paid)
    BY <2>2 DEF BuyStale, registryVars, TableStep
  <2>3. CASE Settle(s, m, paid)
    <3>1. Transfer(Market, m, s)
      BY <2>3 DEF Settle
    <3> QED BY <3>1, TransferSteps, RegistryAssumption, MarketAssumption DEF TableStep, NameStep
  <2> QED BY <2>1, <2>2, <2>3
<1>2. CASE [Next]_vars
  BY <1>2, RegistrySteps
<1> QED BY <1>1, <1>2, OnlyBuyMoves DEF MarketNext, marketSystemVars

\* A purchase keeps the name table, its owner index and the primary names in
\* agreement as well: the name a seller loses is not left to be his primary.
THEOREM SalesKeepTables == MarketSpec => [](OwnerIndexExact /\ PrimaryOwned /\ ParentRecorded)
<1>1. MarketInit => TablesAgree
  BY TablesAgreeInitially DEF MarketInit
<1>2. TypeOK /\ MarketItemsOK /\ TablesAgree /\ [MarketNext]_marketSystemVars => TablesAgree'
  BY MarketTables, TablesStayAgreed
<1>3. TablesAgree <=> OwnerIndexExact /\ PrimaryOwned /\ ParentRecorded
  BY DEF TablesAgree
<1> QED BY <1>1, <1>2, <1>3, MarketInvariant, PTL DEF MarketSpec

\* With the marketplace trading, the registry still takes names from nobody but
\* in messages of their owner or of the marketplace operator.
THEOREM SalesKeepAuthority == MarketSpec => OwnershipAuthority
<1>1. TypeOK /\ MarketItemsOK /\ [MarketNext]_marketSystemVars => OwnersKeep
  BY MarketTables, OwnersAlwaysKeep
<1> QED BY <1>1, MarketInvariant, PTL DEF MarketSpec, OwnershipAuthority, OwnersKeep

\* And its clients still see the ledger: a sale is one Move.
THEOREM MarketImplementsLedger == MarketSpec => LedgerSpec
<1>1. MarketInit => Init
  BY DEF MarketInit
<1>2. TypeOK /\ MarketItemsOK /\ [MarketNext]_marketSystemVars => TableStep
  BY MarketTables
<1>3. TablesAgree <=> OwnerIndexExact /\ PrimaryOwned /\ ParentRecorded
  BY DEF TablesAgree
<1> QED
  BY <1>1, <1>2, <1>3, LedgerInitially, LedgerSteps, MarketInvariant, SalesKeepTables, PTL
     DEF MarketSpec, LedgerSpec, Ledger!Spec
=============================================================================
