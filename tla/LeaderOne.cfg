SPECIFICATION Spec
CONSTANTS
  client1 = client1
  client2 = client2
  Clients = {client1, client2}
  Leaders = {1, 2}
  Manual = {}
  Old = {}
  MaxIno = 4
  None = None
  MaxEvents = 0
CHECK_DEADLOCK FALSE
INVARIANTS
  OneLeader
