CONSTANTS
  QpcFreq = 2000
  PPM = 20
  RATE_CLAMP_PPM = 2
  PER_CYCLE_RATE_CLAMP_PPM = 2
  RATE_CLAMP_FULL_INTERVAL_MS = 40
  MIN_RATE_INTERVAL_MS = 15
  KI_DEN = 2
  RATE_EVIDENCE_MAX_MS = 5
  FAULT_THRESHOLD_MS = 4
  FAULT_EVIDENCE_FLOOR_MS = 4
  LOCAL_FAULT_ESCAPE_N = 3
  ANCHOR_ERR_DEFAULT_MS = 4
  CYCLE_STALE_AFTER_MS = 40
  CONTINUITY_TRIP_MIN_MS = 15
  CONTINUITY_TRIP_DIV = 4
  STALE_RATE_MS = 50
  StepMs = 10
  GEN_MOD = 2
  Horizon = 50
  Drifts <- MCDrifts
  Pauses = {}
  MaxPauses = 1
  PauseInFlight = FALSE
  Samples <- MCStories
  ClusterErrs = {}
  MaxInFlightMs = 0
  Files <- MCNoFiles
  MaxRestarts = 0
  PowerHooks = FALSE
  MaxHistory = 5
  CONCUR_THRESHOLD_MS = 4
  CORE_CLUSTER_THRESHOLD_MS = 2
  NTP_DISP_FLOOR_MS = 1
  NtsReports <- MCNts
  CoreReports <- MCCores
SPECIFICATION MCSpec
INVARIANTS
  ErrorCoversLiar
  MajorityHoldsAnchor
  TruthAgrees
PROPERTY
  StepNeedsEvidence
CHECK_DEADLOCK FALSE
