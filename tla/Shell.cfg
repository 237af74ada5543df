CONSTANTS
  PollMin = 1
  PollBase = 6
  PollMax = 24
  CycleBudget = 4
  StaleAfter = 30
  Worlds <- MCWorlds
  MCZones <- EveryZone
  Index <- MCIndex
  Blob <- MCBlob
  Wanted <- MCWanted
  FirstDates <- MCFirstDates
  LastYear = 2101
  ChoiceDay = 20455
SPECIFICATION ShellSpec
INVARIANTS
  HealthyNeverStale
  FalseAlarmIsBrief
  RecoveryNotRelaxed
  FaceKeepsCalendar
PROPERTIES
  OffsetInForce
