SPECIFICATION HandlerSpec
CONSTANTS
  a = a
  b = b
  x = x
  y = y
  AnyDest = AnyDest
  None = None
  Listeners = {a, b}
  Kind <- OnceAndServer
  Messages <- ToY
  Firing = {a}
  FireInCallback = FALSE
  MaxObjects = 2
  MaxSends = 2
INVARIANTS
  HandlerTypeOK
  ClosedIsUnsubscribed
  OnceCalledOnce
CHECK_DEADLOCK FALSE
