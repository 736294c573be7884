SPECIFICATION ParitySpec
CONSTANTS
    None = None
    Hours = 2
    LastStep = 4
    Budgets = {3, 5}
    Recordings <- RecordingsC
INVARIANTS
  ParitySound
  ReportIsFirst
  EvaluationSound
CHECK_DEADLOCK FALSE
