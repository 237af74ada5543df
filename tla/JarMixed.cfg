CONSTANTS
  Workers = {w1, w2}
  NTSKE_MAX_COOKIES = 2
  MaxSessions = 3
  MaxCookies = 6
SPECIFICATION Spec
INVARIANT
  JarOneSession
CHECK_DEADLOCK FALSE
