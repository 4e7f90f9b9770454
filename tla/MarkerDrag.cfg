SPECIFICATION Spec
CONSTANTS
  Names = {m1, m2}
  NoName = NoName
  MaxQueue = 2
  PromptLoop = TRUE
INVARIANT TypeOK
PROPERTIES
  FedDragUnpauses
