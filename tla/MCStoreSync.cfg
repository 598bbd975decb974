SPECIFICATION Spec
CONSTANTS
  None = None
  client1 = client1
  client2 = client2
  item = item
  something = something
  Clients = {client1, client2}
  Ids = {item}
  Values = {something}
  Budget = 4
  MaxFrames = 4
  MaxWire = 1
  MaxChanges = 1
  MaxObjects = 2
SYMMETRY Alike
CONSTRAINT InOrder
INVARIANTS
  TypeOK
  ListenerServesOpenClients
  ReplicaConverges
  
CHECK_DEADLOCK FALSE
