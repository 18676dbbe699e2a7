SPECIFICATION IssuanceSpec
CONSTANTS
  a = a
  A = A
  gov = gov
  usr1 = usr1
  reg = reg
  registrar = registrar
  tldm = tldm
  vault = vault
  secret = secret
  uatom = uatom
  None = None
  Invalid = Invalid
  Addr <- MCAddr
  Denom = {uatom}
  Spelling = {a, A}
  Label = {a}
  Canon <- MCCanon
  LabelLen <- MCLabelLen
  MaxNameLen = 5
  MaxUint128 = 1000000
  RegistryAddr = reg
  InstantiateMsgs <- MCInstantiate
  InitialBalance <- UserMoney
  AddrInput = {usr1}
  AdminInput = {}
  OperatorInput <- MCOperators
  RoyaltyInput = {}
  PolicyInput = {}
  FundsInput <- Payments
  AddrRank <- MCRank
  Secret = {secret}
  RegistrarTerms <- MCRegistrarTerms
  RegistrarInstantiate <- MCRegistrarInstantiate
  RegistrarAdminInput = {gov}
  TldTerms <- MCTldTerms
  TldInstantiate <- MCTldInstantiate
  TldAdminInput = {gov}
  Sender = {gov, usr1}
  NameInput <- OneName
  LabelInput = {A}
  TldCommitInput <- MCTldCommits
  RegistrarCommitInput <- MCRegistrarCommits
  LimitInput = {1}
  RegistrarPriceInput = {2}
  MaxTime = 2
  MaxCommits = 2
INVARIANT IssuanceTypeOK
PROPERTIES RevealedAfterWaiting PaidInFull CleanKeepsLive ReservedNotSold
