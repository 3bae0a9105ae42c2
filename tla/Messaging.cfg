SPECIFICATION FairSpec
CONSTANTS
  alice = alice
  bob = bob
  m1 = m1
  m2 = m2
  Clients = {alice, bob}
  Messages = {m1, m2}
  From <- MCFrom
  To <- MCTo
  Conns = {1, 2, 3}
  Owner <- MCOwner
  Nobody = Nobody
  Hosts = {"listener", "bun"}
  MaxReconnectAttempts = 2
  MaxFaults = 1
INVARIANTS TypeOK SubscriberHasAll KeepsTrying
PROPERTY SubscribedGetsAll
CHECK_DEADLOCK FALSE
