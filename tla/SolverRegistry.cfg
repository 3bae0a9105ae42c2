SPECIFICATION FairSpec
CONSTANTS
  MIN_STAKE = 2
  SLASH_PERCENT = 50
  s1 = s1
  s2 = s2
  Solvers = {s1, s2}
  Victims = {victim}
  Slashers = {slasher}
  Owner = owner
  Chains = {c1}
  MAX_CHAINS = 1
  UNBONDING_PERIOD = 1
  Amounts = {1, 2, 3}
  InitialFunds <- MCFunds
  MaxTime = 2
  MaxFills = 1
  MaxReceived = 1
INVARIANTS TypeOK Backed CountIsExact
PROPERTIES OnlyCancelGoesBelow EveryExitCompletes
