SPECIFICATION Spec
CONSTANTS
  s1 = s1
  s2 = s2
  rcpt = rcpt
  erc20 = erc20
  ETH = ETH
  NoFill = NoFill
  Solvers = {s1, s2}
  Recipients = {rcpt}
  Tokens = {erc20}
  Ids = {id1, id2}
  Amounts = {0, 1}
  InitialFunds <- MCFunds
  Oracles = {oracle}
  Attesters = {attester}
  Owner = owner
  NoAddress = NoAddress
  Chains = {0, 1, 2}
  LocalChain = 3
  OriginWord <- MCOriginWord
  FillChain = 1
  RealSettler = RealSettler
  OtherSettler = OtherSettler
CONSTRAINT MCBound
SYMMETRY MCSymmetry
INVARIANTS TypeOK Backed RecipientsPaidOnce AttestedWasFilled
