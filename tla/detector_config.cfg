\* Two writes, an outage and a failed request, with any detector; the bounds end it.
SPECIFICATION Spec
CONSTANTS
  Port = port
  Poll = poll
  Infos <- MCInfos
  Default <- MCDefault
  Times <- MCTimes
  Gap = 1
  Triggers <- MCTriggers
  Depths <- MCDepths
  Gains <- MCGains
  Counts <- MCCounts
  MaxWrites = 2
  MaxOutages = 1
  MaxFailures = 1
INVARIANTS
  PushIsConsistent
  WriteIsSentOrRefused
  PeriodFits
PROPERTIES
  OthersKeptStep
CHECK_DEADLOCK FALSE
