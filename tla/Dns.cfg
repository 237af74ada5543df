CONSTANTS
  w = w
  dual = dual
  quad = quad
  both = both
  Threads = {w}
  Hosts = {dual}
  Families <- MCFamilies
  Resolvers = {both, quad}
  H2Only = {quad}
  DOH_BACKOFF_AFTER_FAILURES = 2
  DOH_BACKOFF_MS = 1
  DNS_CACHE_N = 1
  DNS_TTL_FLOOR = 1
  DNS_TTL_CEIL = 1
  Ttls = {2}
  Networks = {{6}}
SPECIFICATION Spec
INVARIANTS
  NeverStranded
PROPERTIES
  Recovers
