SPECIFICATION FairSpec
CONSTANTS
  x1 = x1  x2 = x2  v = v  sl = sl  a1 = a1  a2 = a2  c1 = c1  n1 = n1  n2 = n2
  Xlps = {x1}
  Victims = {v}
  Slashers = {sl}
  Arbitrators = {a1}
  Chains = {c1}
  Vouchers = {n1, n2}
  MIN_STAKE = 2
  SLASH_PERCENT = 50
  MAX_CHAINS = 1
  DEFAULT_UNBONDING_PERIOD = 1
  MIN_UNBONDING_PERIOD = 1
  MAX_UNBONDING_PERIOD = 2
  DISPUTE_CHALLENGE_PERIOD = 1
  MIN_ARBITRATOR_STAKE = 2
  InitialFunds <- MCFunds
  InitialPaymasters = {c1}
  InitialSlashers = {sl}
  Amounts = {1, 2}
  Periods = {2}
  MaxExtraCalls = 1
  MaxTime = 2
INVARIANTS TypeOK BooksExplained
PROPERTIES VotesInTime NoEarlyExit EveryDisputeDecided
CHECK_DEADLOCK FALSE
