SPECIFICATION Spec
CONSTANTS
  RG_SHADOW_STACK_LIMIT = 3
  Methods <- SyncInLibrary
  MaxFrames = 6
  OuterFrames = 0
  MaxStrained = 1
PROPERTY EveryBeginEnds
