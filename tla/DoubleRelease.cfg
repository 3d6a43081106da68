SPECIFICATION Spec
CONSTANTS
  None = None
  BadToken = bad
  PeerIds = {p1}
  Tokens = {t1}
  Conns = {c1, c2, c3}
  Sessions = {s1, s2}
  Ips = {i1}
  NoIp = noip
  Handles = {h1, h2, h3}
  IpOf <- OneIp
  Metas <- Capable
  MAX_ROOM_SIZE = 2
  PEER_RESERVATION_GRACE = 1
  EMPTY_ROOM_MAX_AGE = 0
  ROOM_MAX_AGE = 0
  MAX_ROOMS_PER_IP = 1
  MAX_RETAINED_ROOMS = 3
  MaxTime = 1
  MaxRequests = 1
SYMMETRY Symmetry
INVARIANT
  RoomsPerIpBounded
