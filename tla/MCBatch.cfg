SPECIFICATION Spec
CONSTANTS
  NumEnvs = 2
  Seeds <- MCSeeds
  Turns = {turn}
  EpisodeSteps = 3
  ArgBound = 2
  BankBound = 2
INVARIANTS
  BatchOK
PROPERTIES
  OthersUntouched
