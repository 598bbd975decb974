SPECIFICATION HandlerFairSpec
CONSTANTS
  a = a
  b = b
  x = x
  y = y
  AnyDest = AnyDest
  None = None
  Listeners = {a, b}
  Kind <- OnceAndStream
  Messages <- ToX
  Firing = {b}
  FireInCallback = TRUE
  MaxObjects = 1
  MaxSends = 3
PROPERTIES
  FireInCallbackReturns
CHECK_DEADLOCK FALSE
