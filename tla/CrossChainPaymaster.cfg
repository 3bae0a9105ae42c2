SPECIFICATION FairSpec
CONSTANTS
  eth = eth  tok = tok  u = u  x1 = x1  x2 = x2  r1 = r1  r2 = r2  v1 = v1
  ETH = eth
  Tokens = {tok}
  Users = {u}
  Xlps = {x1, x2}
  NoXlp = NoXlp
  Requests = {r1}
  Remote = {v1}
  Fulfilments <- MCFulfilments
  MIN_FEE = 0
  REQUEST_TIMEOUT = 1
  CLAIM_DELAY = 2
  MIN_XLP_STAKE = 1
  BASIS_POINTS = 100
  swapFeeBps = 1
  InitialFunds <- MCFunds
  Amounts = {1, 2}
  MaxFees = {1}
  Increments = {1}
  Allowlists = {{}, {x2}}
  Stakes = {1}
  MaxBlock = 2
INVARIANTS TypeOK BooksExplained
PROPERTIES ExpiredIsForUser EveryRequestEnds
CHECK_DEADLOCK FALSE
