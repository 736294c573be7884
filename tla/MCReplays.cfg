SPECIFICATION ReplaysSpec
CONSTANTS
    None = None
    Null = Null
    Hours = 3
    LastIndex = 4
    BinHours = 1
    Actions <- ActionsC
    Invocations <- InvocationsC
    Positions <- PositionsC
INVARIANTS
  OrdersTold
  GrantsAreObserved
  ReadIsExtracted
CHECK_DEADLOCK FALSE
