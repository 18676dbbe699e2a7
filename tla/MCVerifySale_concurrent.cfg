SPECIFICATION Spec
CONSTANTS
  r1 = r1
  r2 = r2
  r3 = r3
  paid = paid
  paid2 = paid2
  failed = failed
  Invalid = Invalid
  None = None
  Request = {r1, r2, r3}
  Tx = {paid, paid2, failed}
  OnChain <- MCOnChain
  PayloadInput <- MCPayloads
  AnswerInput <- Answers
  BlockDuplicates = TRUE
  RequireRecipient = TRUE
  RequireMemo = TRUE
  WebhookConfigured = TRUE
  MaxActive = 3
  Faults = {"crash", "disk"}
\* every request has been answered
CHECK_DEADLOCK FALSE
INVARIANTS TypeOK FiredOnceInOrder OnlyPaymentsForwarded DuplicateWasForwarded
