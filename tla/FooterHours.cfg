CONSTANTS
  MCZones = {0, 80}
  Index <- MCIndex
  Blob <- MCBlob
  Wanted <- MCWanted
  FirstDates <- JustNow
  LastYear = 2101
  ChoiceDay = 20455
SPECIFICATION WalkSpec
PROPERTIES
  FooterHonoured
