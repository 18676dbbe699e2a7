SPECIFICATION RecordsSpec
CONSTANTS
  a = a
  A = A
  usr1 = usr1
  usr2 = usr2
  reg = reg
  uatom = uatom
  k1 = k1
  k2 = k2
  None = None
  Invalid = Invalid
  Addr <- MCAddr
  Denom = {uatom}
  Spelling = {a, A}
  Label = {a}
  Canon <- MCCanon
  LabelLen <- MCLabelLen
  MaxNameLen = 5
  MaxUint128 = 1000000
  RegistryAddr = reg
  InstantiateMsgs <- MCInstantiate
  InitialBalance <- Broke
  Sender = {usr1, usr2}
  NameInput <- OneName
  LabelInput = {}
  AddrInput <- Users
  AdminInput = {}
  OperatorInput = {}
  RoyaltyInput = {}
  PolicyInput = {}
  FundsInput = {}
  Key = {k1, k2}
  ResolverAdmin = usr1
  ResolverAdminInput = {usr1}
  TextInput <- OneKey
  FederationInput <- OneKey
  KeyRank <- MCKeyRank
  DefaultLimit = 1
  MaxLimit = 2
  MetadataAdmin = usr1
  MetadataAdminInput = {usr1}
  FieldInput <- TwoKeys
  ReadName <- MCName
  ReadInput <- MCRead
INVARIANTS RecordsTypeOK CleanSlate PagesComplete
PROPERTIES RecordsFollowOwner ReadingEnds
