SPECIFICATION FairSpec
CONSTANTS
  Scripts <- Commands
  FlushLen = 2
  MaxCommands = 3
  LateAnswers = FALSE
CHECK_DEADLOCK FALSE
INVARIANTS ReportedOnce TimerWhileWaiting AnswersMatch
PROPERTIES CommandEnds
