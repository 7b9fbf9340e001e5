\* Three triggers, a restart of either kind, any losses.
SPECIFICATION PairSpec
CONSTANTS
  NumTriggers = 3
  NumRestarts = 1
  ResetDistance = 1
INVARIANTS
  PairedIfFirstArrives
  WaitingIsNewest
PROPERTIES
  EveryPairShownStep
