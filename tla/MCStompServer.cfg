SPECIFICATION FairSpec
CONSTANTS
  None = None
  a = a
  b = b
  topic = topic
  news = news
  Conns = {a}
  Subscriptions <- SharedId
  EventQueue = 1
  ApiQueue = 1
  OutQueue = 1
  Kicks = TRUE
  CloseEndsAccept = TRUE
  MaxFrames = 5
  MaxCalls = 2
INVARIANTS
  TypeOK
  MapsAgree
PROPERTIES
  LoopGoesOn
  StopEnds
CHECK_DEADLOCK FALSE
