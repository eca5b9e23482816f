SPECIFICATION CommandSpec
CONSTANTS
  Programs <- NetworkPrograms
  GivesUp = FALSE
  MaxUnanswered = 1
  QueryLists <- SerialLists
  Packages = 2
INVARIANTS AnswersAreOwn UpgradesComplete TimeoutsRestored
PROPERTY CallsReturn
CHECK_DEADLOCK FALSE
