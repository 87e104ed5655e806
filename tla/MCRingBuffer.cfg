SPECIFICATION Spec
CONSTANTS
  Size = 8
  Ids = {1, 2}
  Lengths = {1, 2, 3, 5}
  Messages <- MCMessages
  Nil = Nil
INVARIANTS
  LayoutOK
PROPERTY ImplementsQueue
