CONSTANTS
  None = None
  NULL = NULL
  Garbage = Garbage
  ANY = ANY
  Item = {v1, v2}
  Chunk = {k1, k2, k3}
  ChunkCells = 2
  MaxCells = 3
  NoChunk = NoChunk
  FileSizes = {2, 3, 4}
  block_size = 2
  MaxBody = 1
  Leftovers = {0, 3}
  Structures = {m1, m2, m3, m4}
  Buffers = {b1, b2}
  Pipes = {p1, p2, p3}
  MaxSkipped = 3
  MaxParts = 2
  Peers = {q1, q2}
  NoPeer = NoPeer
  Clients = {c1, c2}
  Rude = {c2}
  Prefixes <- SubscribedPrefixes
  Topics <- SentTopics
  MaxCopies = 2
  DeviceCalls <- DevicesCalled
  MaxMessages <- MessagesComing
  NoSocket = NoSocket
  Reactor = {r1, r2}
  MaxCalls = 3
  MaxQueue = 3
  Connecter = {t1, t2}
  Listener = {l1}
  reconnect_ivl = 2
  reconnect_ivl_max = 5
  Spread = 1
  Precision = 1
  MaxTime = 4
  MaxFd = 2
  Socket = {s1, s2}
  Types <- SocketTypes
  Thread = {0, 1}
  Width = 4
  Narrow = 3
  Value <- Values
  MaxSets = 2
  MaxObjects = 2
  Configs <- MulticastConfigs
  Networks <- MulticastNetworks
  IntWidth = 16
  Address <- GivenAddresses
  literal <- Literals
  atoi <- LeadingDigits
  is_number <- Numbers
  nics <- Interfaces
  Names <- KnownNames
  x1 = x1
  x2 = x2
  s1 = s1
  s2 = s2
SPECIFICATION PartsSpec
CHECK_DEADLOCK FALSE
INVARIANTS StorageSound  ConnectionsSound EngineSound PollerSound TransportSound
PROPERTIES QueuePromiseKept NoneForgotten
