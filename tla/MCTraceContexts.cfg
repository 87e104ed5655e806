SPECIFICATION Spec
CONSTANTS
  Threads = {"main", "t1", "t2"}
  Main = "main"
  MaxTraces = 2
  MaxTids = 5
INVARIANTS
  TidsAreNeverReused
  EventsUseTheIdTold
  ParentsComeFirst
  TableHasLiveTraces
  EventsStayInTheirTrace
CHECK_DEADLOCK FALSE
