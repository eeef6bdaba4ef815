SPECIFICATION FairSpec
CHECK_DEADLOCK FALSE
CONSTANTS
  Scenes <- MCScenes
  RelayTimes = 2
  QueueCap = 1
  ReceiveCap = 1
  HandlerCap = 1
INVARIANTS LiveOnly WriterAwake HandedOnce
PROPERTIES BlockArrives 
