SPECIFICATION Spec
CONSTANTS
  r1 = r1
  r2 = r2
  r3 = r3
  paid = paid
  paid2 = paid2
  failed = failed
  Invalid = Invalid
  None = None
  Request = {r1, r2, r3}
  Tx = {paid, paid2, failed}
  OnChain <- MCOnChain
  PayloadInput <- MCPayloads
  AnswerInput <- TextOnly
  BlockDuplicates = TRUE
  RequireRecipient = TRUE
  RequireMemo = TRUE
  WebhookConfigured = TRUE
  MaxActive = 2
  Faults = {}
\* every request has been answered
CHECK_DEADLOCK FALSE
INVARIANT FiredOnce
