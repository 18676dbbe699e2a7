SPECIFICATION Spec
CONSTANTS
  a = a
  b = b
  A = A
  bad = bad
  gov = gov
  usr1 = usr1
  usr2 = usr2
  op = op
  reg = reg
  uatom = uatom
  None = None
  Invalid = Invalid
  Addr <- MCAddr
  uosmo = uosmo
  Denom = {uatom, uosmo}
  Spelling <- MCSpelling
  Label <- MCLabel
  Canon <- MCCanon
  LabelLen <- MCLabelLen
  MaxUint128 = 1000000
  RegistryAddr = reg
  InstantiateMsgs <- MCInstantiate
  Sender <- NoOperator
  MaxNameLen = 4
  InitialBalance <- UserMoney
  NameInput <- Parents
  LabelInput = {b}
  AddrInput = {usr1}
  AdminInput = {}
  OperatorInput = {}
  RoyaltyInput = {}
  PolicyInput <- OnePolicy
  FundsInput <- Payments
INVARIANT AddressableNames
