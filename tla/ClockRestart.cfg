CONSTANTS
  QpcFreq = 2000
  PPM = 20
  RATE_CLAMP_PPM = 2
  PER_CYCLE_RATE_CLAMP_PPM = 2
  RATE_CLAMP_FULL_INTERVAL_MS = 40
  MIN_RATE_INTERVAL_MS = 15
  KI_DEN = 2
  RATE_EVIDENCE_MAX_MS = 5
  FAULT_THRESHOLD_MS = 4
  FAULT_EVIDENCE_FLOOR_MS = 4
  LOCAL_FAULT_ESCAPE_N = 3
  ANCHOR_ERR_DEFAULT_MS = 4
  CYCLE_STALE_AFTER_MS = 40
  CONTINUITY_TRIP_MIN_MS = 15
  CONTINUITY_TRIP_DIV = 4
  STALE_RATE_MS = 25
  StepMs = 10
  GEN_MOD = 2
  Horizon = 40
  Drifts <- MCDriftsWide
  Pauses = {}
  MaxPauses = 1
  PauseInFlight = FALSE
  Samples <- MCSamplesUnmeasured
  ClusterErrs = {}
  MaxInFlightMs = 0
  Files <- MCFiles
  MaxRestarts = 1
  PowerHooks = TRUE
SPECIFICATION Spec
INVARIANTS
  HonestBound
