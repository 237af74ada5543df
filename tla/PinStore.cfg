CONSTANTS
  Threads = {t1, t2}
  Hosts = {h}
  Certs <- MCCerts
  PIN_STORE_MAX_SPKIS = 2
  PINSTORE_RENEWAL_MARGIN_CAP_SECONDS = 3
  PINSTORE_RENEWAL_RETRY_COOLDOWN_SECONDS = 1
  DOH_ROTATION_CORROBORATE_MS = 1
  DOH_ROT_CANDIDATES = 1
  WatchedThread = t1
  WatchedKey = "b"
  SystemSkews = {0, 20}
  Start = 5
  Horizon = 6
  MaxRestarts = 1
SPECIFICATION Spec
PROPERTIES
  KeepsLedger
  NoRenewalStorm
  SecondSighting
