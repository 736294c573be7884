SPECIFICATION RehearsalSpec
CONSTANTS
  None = None
  Days = 2
  TurnsPerDay = 3
  Documents <- MCDocuments
  MaxHands = 1
  MaxAsks = 2
  LastTurn = 7
  Recordings <- RecordingsC
  MoneyRange <- MoneyRangeC
  WheatRange <- WheatRangeC
  Summaries <- SummariesC
  MaxGames = 2
INVARIANTS
  OpeningOK
  RehearsalSound
PROPERTIES
  KeepsPromise
  RehearsalEnds
CHECK_DEADLOCK FALSE
