SPECIFICATION Spec
CONSTANTS
  payer = payer
  n1 = n1
  zero = zero
  contract = contract
  r1 = r1
  r2 = r2
  r3 = r3
  Accounts = {payer}
  Stranger = stranger
  Nonces = {n1}
  Payments <- MCForContract
  Domains = {zero, contract}
  VerifierDomain = zero
  ContractDomain = contract
  Requests = {r1}
  Outside = outside
  Nobody = nobody
  MAX_PAYMENT_AGE = 1
  MaxPaymentAge = 1
  Skew = 1
  StaleAfter = 1
  CACHE_TTL = 1
  MaxTime = 3
  Levels = {0, 2}
PROPERTY RefusedForCause
CHECK_DEADLOCK FALSE
