SPECIFICATION DSpec
CONSTANTS
  None = None
  BadToken = bad
  PeerIds = {p1, p2}
  Tokens = {t1}
  Conns = {c1, c2}
  Sessions = {s1}
  Ips = {i1, noip}
  NoIp = noip
  Handles = {h1, h2}
  IpOf <- OneIp
  Metas <- Capable
  MAX_ROOM_SIZE = 2
  PEER_RESERVATION_GRACE = 1
  EMPTY_ROOM_MAX_AGE = 0
  ROOM_MAX_AGE = 1
  MAX_ROOMS_PER_IP = 2
  MAX_RETAINED_ROOMS = 2
  MaxTime = 1
  MaxRequests = 1
  MaxCommands = 3
  MaxFaults = 1
CONSTRAINT ShutdownOrTick
SYMMETRY Symmetry
INVARIANTS
  LeftIsDurable
  EndedIsDurable
  DiskWellFormed
  
  QuotaNeverLeaks
PROPERTY
  RestartKeepsIdentities
CHECK_DEADLOCK FALSE
