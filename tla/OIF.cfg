SPECIFICATION OIFSpec
CONSTANTS
  user = user
  s1 = s1
  s2 = s2
  x = x
  usd = usd
  rcpt = rcpt
  rcpt2 = rcpt2
  erc20 = erc20
  eth = eth
  Accounts = {user, s1, s2, x}
  Users = {user}
  Agents = {s1, s2}
  Claimants = {x}
  NoAccount = NoAccount
  Tokens = {erc20}
  NativeToken = eth
  Requests <- TwinRequests
  NoRecipient = NoRecipient
  NoOrder = NoOrder
  Signable = {}
  Registries = {g1}
  Oracles = {o1}
  InitialFunds <- FundsForTwo
  CLAIM_DELAY = 1
  MaxBlock = 1
  Recipients = {rcpt, rcpt2}
  Strangers = {x}
  DestTokens = {usd}
  NoFill = NoFill
  DestinationFunds <- MCDestinationFunds
  AgentOracle = o1
  Faults = TRUE
  NoId = NoId
  Sweeps = {l1}
  MAX_SETTLEMENT_RETRIES = 1
  MaxCrashes = 1
SYMMETRY MCSymmetry
CHECK_DEADLOCK FALSE
INVARIANTS PaidMeansDelivered PaysForOwnFills AwaitsOwnFills
