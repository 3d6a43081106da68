SPECIFICATION Spec
CONSTANTS
  None = None
  BadToken = bad
  PeerIds = {p1, p2}
  Tokens = {t1}
  Conns = {c1, c2}
  Lead = c1
  Sessions = {s1}
  Ips = {i1}
  NoIp = noip
  Metas <- Capable
  MAX_ROOM_SIZE = 3
  PEER_RESERVATION_GRACE = 1
  EMPTY_ROOM_MAX_AGE = 1
  ROOM_MAX_AGE = 1
  OUTBOUND_CHANNEL_CAPACITY = 2
  MaxRequests <- LeadTwice
  Failing = {c2}
SYMMETRY Symmetry
INVARIANTS
  TypeOK
  SenderOrder
  HandlersReturn
PROPERTY
  NobodyElsePays
CHECK_DEADLOCK FALSE
