SPECIFICATION Spec
CONSTANTS
  RG_SHADOW_STACK_LIMIT = 3
  Methods <- AllMethods
  MaxFrames = 5
  OuterFrames = 1
  MaxStrained = 1
INVARIANTS
  TypeOK
  ShadowMatchesFrames
PROPERTIES
  ReturnUndoesCall
  
