CONSTANTS
  a1 = a1
  a2 = a2
  b = b
  c = c
  d = d
  CoreHosts = {h1, h2, h3}
  CoreSlots = 1
  KOD_RATE_COOLDOWN_MS = 1
  Providers = {a1, a2, b, c, d}
  Operator <- MCOperator
  NtsSlots = 2
  NTS_STICKY_ROTATE_CYCLES = 1
  Workers = {w1, w2}
  NTSKE_MAX_COOKIES = 2
  MaxSessions = 3
  MaxCookies = 6
  QpcFreq = 3000
  NTP_EPOCH_DELTA_MS = 1010
  ERA_MS = 1040
  Starts = {1, 75}
  Delays = {0, 4, 13}
  Claims <- MCClaims
  Errors <- MCErrors
  Static <- MCStatic
  Values = {200, 503, 103, 0, 1, 2, 3, 4}
  Cost <- MCCost
  HPACK_DYN_MAX = 2
  HPACK_STR_MAX = 3
  EncoderMaxes = {1, 2}
  Interim <- MCInterim
  Final <- MCFinal
  Trailers <- MCTrailers
  H2_MAX_FRAMES = 5
  HblockMax = 3
  OutCap = 1
SYMMETRY MCSymmetry
SPECIFICATION MCSpec
INVARIANTS
  PairDiverse
  PairInReach
  SpentOnce
  EnrolledMeansEnrolled
  ErrorExplained
  WholeOrNothing
PROPERTIES
  KodHonoured
