SPECIFICATION FairSpec
CONSTANTS
  None = None
  a = a
  b = b
  topic = topic
  news = news
  Conns = {a}
  Subscriptions <- OneTopic
  EventQueue = 1
  ApiQueue = 1
  OutQueue = 1
  Kicks = FALSE
  CloseEndsAccept = FALSE
  MaxFrames = 1
  MaxCalls = 1
PROPERTY StopClosesAll
CHECK_DEADLOCK FALSE
