SPECIFICATION MarketSpec
CONSTANTS
  a = a
  A = A
  gov = gov
  usr1 = usr1
  usr2 = usr2
  reg = reg
  market = market
  uatom = uatom
  uosmo = uosmo
  None = None
  Invalid = Invalid
  Addr <- MCAddr
  Denom = {uatom, uosmo}
  Spelling = {a, A}
  Label = {a}
  Canon <- MCCanon
  LabelLen <- MCLabelLen
  MaxNameLen = 5
  MaxUint128 = 25000
  RegistryAddr = reg
  InstantiateMsgs <- MCInstantiate
  InitialBalance <- BuyerMoney
  Sender <- People
  NameInput <- OneName
  LabelInput = {}
  AddrInput <- Users
  AdminInput = {}
  OperatorInput <- MCOperators
  RoyaltyInput <- Royalties
  PolicyInput = {}
  FundsInput <- Payments
  Market = market
  MarketDenom = uatom
  MarketAdmin = gov
  MarketAdminInput = {gov}
  PriceInput = {0, 1, 3}
INVARIANTS MarketTypeOK RoyaltyWithinPrice
PROPERTIES AtomicSale NoSaleWithoutListing
