SPECIFICATION DsslSpec
CONSTANTS
  a = a
  A = A
  usr1 = usr1
  att1 = att1
  att2 = att2
  att3 = att3
  reg = reg
  uatom = uatom
  None = None
  Invalid = Invalid
  Addr <- MCAddr
  Denom = {uatom}
  Spelling = {a, A}
  Label = {a}
  Canon <- MCCanon
  LabelLen <- MCLabelLen
  MaxNameLen = 5
  MaxUint128 = 1000000
  RegistryAddr = reg
  InstantiateMsgs <- MCInstantiate
  InitialBalance <- Broke
  Sender = {usr1, att1, att2, att3}
  NameInput <- OneName
  LabelInput = {}
  AddrInput = {usr1, att1}
  AdminInput = {}
  OperatorInput = {}
  RoyaltyInput = {}
  PolicyInput = {}
  FundsInput = {}
  MaxScore = 3
  MaxAttestors = 2
  DsslAdmin = usr1
  DsslAdminInput = {usr1}
  AttestorInput <- MCAttestors
  BoostInput = {1, 2, 3}
INVARIANTS DsslTypeOK CountExact ScoreWithinSum
PROPERTIES ScoreExactBelowCap TrustAuthority
