CONSTANTS
  None = None
  Small <- Capital
  Alphabet <- Letters
  Defaults <- Session
  Universe <- Paths
  About <- Details
  Initially <- Contents
  Requests <- AllRequests
  Contended <- Busy
  Meanings <- Spelled
  PlanOf <- RequestPlan
  Selects <- LevelSelects
  Compiles <- LevelCompiles
  Accepts <- FiltersAccept
  Ordered <- IsOrdered
  MaxI32 = 9
  PageSize = 2
  MaxChanges = 2
SPECIFICATION FairSpec
INVARIANTS TypeOK WalkIsConsistent AnswerIsConsistent AnswerIsSorted ReadAsWritten
PROPERTIES WalkEnds
CHECK_DEADLOCK FALSE
