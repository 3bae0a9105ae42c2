SPECIFICATION FairSpec
CONSTANTS
  alice = alice
  bob = bob
  m1 = m1
  m2 = m2
  Clients = {alice, bob}
  Messages = {m1}
  From <- MCFrom
  To <- MCTo
  Conns = {1, 2, 3}
  Owner <- MCOwner
  Nobody = Nobody
  Hosts = {"listener"}
  MaxReconnectAttempts = 1
  MaxFaults = 1
PROPERTY ConnectedGetsAll
CHECK_DEADLOCK FALSE
