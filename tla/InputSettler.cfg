SPECIFICATION FairSpec
CONSTANTS
  user = user
  solver = solver
  erc20 = erc20
  eth = eth
  out1 = out1
  out2 = out2
  o1 = o1
  o2 = o2
  g1 = g1
  g2 = g2
  NoAccount = NoAccount
  NativeToken = eth
  NoRecipient = NoRecipient
  NoOrder = NoOrder
  Accounts <- MCAccounts
  Tokens <- MCTokens
  Requests <- MCRequests
  Signable <- MCSignable
  Oracles = {o1, o2}
  Registries = {g1}
  InitialFunds <- MCFunds
  CLAIM_DELAY = 1
  MaxBlock = 3
INVARIANTS TypeOK SettledProperly Solvent
PROPERTIES ResolvedIsFinal ClaimIsFinal EscrowSpec EveryOrderEnds
