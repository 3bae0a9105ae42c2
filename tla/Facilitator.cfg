SPECIFICATION Spec
CONSTANTS
  payer = payer
  n1 = n1
  zero = zero
  contract = contract
  r1 = r1
  r2 = r2
  r3 = r3
  Accounts = {payer}
  Stranger = stranger
  Nonces = {n1}
  Payments <- MCPayments
  Domains = {zero, contract}
  VerifierDomain = zero
  ContractDomain = zero
  Requests = {r1, r2}
  Outside = outside
  Nobody = nobody
  MAX_PAYMENT_AGE = 1
  MaxPaymentAge = 1
  Skew = 1
  StaleAfter = 1
  CACHE_TTL = 1
  MaxTime = 3
  Levels = {0, 2}
SYMMETRY MCSymmetry
INVARIANTS TypeOK PendingIsRecoverable
PROPERTIES PaidOnce TurnedAwayForCause FreedIsOld
CHECK_DEADLOCK FALSE
