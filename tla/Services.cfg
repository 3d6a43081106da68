SPECIFICATION Services
CONSTANTS
  None = None
  Callers = {c1, c2}
  MaxChanges = 3
  MaxFailures = 2
  MaxCrashes = 1
  Sockets = {s1, s2, s3, s4, s5}
  Ips = {i1, i2}
  IpOf <- SocketsApart
  MAX_GLOBAL_CONNS = 3
  MAX_CONNS_PER_IP = 2
  BURST = 3
  SUSTAINED = 2
  TICKS = 5
  MaxInstant = 9
  Uploads = {u1, u2}
  Lookups = {g1, g2}
  Addresses = {a1}
  AddressOf <- UploadsTogether
  LogIds = {l1, l2}
  LOG_MAX_AGE = 2
  MAX_LOG_ENTRIES = 1
  LOG_UPLOAD_INTERVAL = 2
  MAX_CONCURRENT_LOOKUPS = 1
  MaxTime = 3
  MaxBoots = 1
  Ours = Ours
  Theirs = Theirs
  Nets <- TwoNets
  Hosts = {0, 1}
  Malformed = Malformed
  Undecodable = Undecodable
  Error = Error
  Pending = Pending
  MAX_FORWARDED_FOR_BYTES = 2
  MAX_FORWARDED_FOR_HOPS = 3
  Headers <- SomeHeaders
  Settings <- SomeSettings
INVARIANTS
  AckedIsDurable
  SettledIsDurable
  NoForgottenWaiter
  CountersExact
  ConnectionsCapped
  RateBounded
  StoredIsServed
  StoreBounded
  PermitsExact
  ResolvesNearest
  RefusesExactly
PROPERTIES
  
  ThrottledBriefly
  TerminalAnswered
  EventuallyDurable
  ExpiredGoes
CHECK_DEADLOCK FALSE
