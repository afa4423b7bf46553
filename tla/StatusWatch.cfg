CONSTANTS
  States = {"on", "off"}
  Ladder <- OneRung
  DebounceWindow = 1
  StaleAfter = 2
  ResyncInterval = 3
SPECIFICATION FairSpec
INVARIANTS ShownIsConfirmed SilenceIsGrey
PROPERTIES StepsHaveReasons CatchesUp
CHECK_DEADLOCK FALSE
