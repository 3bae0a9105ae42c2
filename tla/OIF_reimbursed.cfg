SPECIFICATION OIFFairSpec
CONSTANTS
  user = user
  s1 = s1
  s2 = s2
  x = x
  usd = usd
  rcpt = rcpt
  rcpt2 = rcpt2
  erc20 = erc20
  eth = eth
  Accounts = {user, s1}
  Users = {user}
  Agents = {s1}
  Claimants = {}
  NoAccount = NoAccount
  Tokens = {erc20}
  NativeToken = eth
  Requests <- OneRequest
  NoRecipient = NoRecipient
  NoOrder = NoOrder
  Signable = {}
  Registries = {g1}
  Oracles = {o1}
  InitialFunds <- FundsForOne
  CLAIM_DELAY = 1
  MaxBlock = 2
  Recipients = {rcpt, rcpt2}
  Strangers = {}
  DestTokens = {}
  NoFill = NoFill
  DestinationFunds <- MCDestinationFunds
  AgentOracle = o1
  Faults = FALSE
  NoId = NoId
  Sweeps = {l1}
  MAX_SETTLEMENT_RETRIES = 3
  MaxCrashes = 0
CHECK_DEADLOCK FALSE
PROPERTY FilledIsReimbursed
