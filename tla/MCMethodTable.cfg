SPECIFICATION Spec
CONSTANTS
  Threads = {"t1", "t2"}
  Methods = {"m1", "m2"}
  RG_TIMER_THREAD_METHODINFO_TICK = 2
  MaxMethods = 3
  MaxRestarts = 1
INVARIANTS
  IdsNameOneMethod
  BeginsAreAnnounced
  WalkMissesNothing
PROPERTY AgentCatchesUp
