SPECIFICATION Spec
CONSTANTS
  client1 = client1
  client2 = client2
  Clients = {client1, client2}
  Leaders = {1, 2}
  Manual = {1}
  Old = {1}
  MaxIno = 4
  None = None
  MaxEvents = 2
CHECK_DEADLOCK FALSE
INVARIANTS
  PidIsHolder
PROPERTIES
  SettledStays
