SPECIFICATION Spec
CHECK_DEADLOCK FALSE
CONSTANTS
  Scenes <- MCScenes
  CountRange = 2
  MaxSubscribes = 2
  MaxErrors = 1
  MaxFailures = 1
PROPERTIES InOrder CatchesUp
