SPECIFICATION Spec
CONSTANTS
  None = None
  Socket = Socket
  Fault = Fault
  channel1 = channel1
  channel2 = channel2
  thread1 = thread1
  thread2 = thread2
  Channels = {channel1, channel2}
  Threads = {thread1, thread2}
  MaxCalls = 3
  MaxFrames = 2
  MaxFaults = 1
SYMMETRY Alike
INVARIANTS
  TypeOK
  ListenersFollowMarks
  GalacticIsServed
  OnceInOrder
  PanicsOnlyIfSharedOrCut
CHECK_DEADLOCK FALSE
