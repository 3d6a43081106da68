SPECIFICATION Spec
CONSTANTS
  None = None
  BadToken = bad
  PeerIds = {p1, p2}
  Tokens = {t1, t2}
  Conns = {c1, c2, c3}
  Sessions = {s1}
  Ips = {i1}
  NoIp = noip
  Handles = {h1, h2}
  IpOf <- OneIp
  Metas <- Capable
  MAX_ROOM_SIZE = 2
  PEER_RESERVATION_GRACE = 1
  EMPTY_ROOM_MAX_AGE = 0
  ROOM_MAX_AGE = 0
  MAX_ROOMS_PER_IP = 1
  MAX_RETAINED_ROOMS = 2
  MaxTime = 1
  MaxRequests = 1
SYMMETRY Symmetry
INVARIANTS
  TypeOK
  PendingLeaveProtected
  SeatLostIsCancelled
  GraceClockRuns
PROPERTIES
  IdentityContinuity
  ImplementsIdentities
