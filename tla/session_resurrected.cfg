SPECIFICATION Spec
CONSTANTS
  Focus = {"session"}
  a1 = a1
  a2 = a2
  b1 = b1
  b2 = b2
  i1 = i1
  i2 = i2
  routing = routing
  advisory = advisory
  c1 = c1
  c2 = c2
  t1 = t1
  Recorders = {a1, a2}
  Streams = {b1, b2}
  MaxEvents = 3
  ChannelCapacity = 1
  SpoolLimit = 2
  ReplayChunk = 1
  MaxBoots = 2
  InstanceIds = {i1, i2}
  ServiceCallers = {a1, a2}
  StartMessages <- OfferedStarts
  WirePolicies <- OfferedPolicies
  MaxServiceCalls = 4
  ModelKinds = {routing, advisory}
  Routing = routing
  ModelThreads = {a1, a2}
  MinDecisions = 1
  MinOutcomes = 1
  MaxGenerations = 2
  MaxDecisions = 1
  Callers = {"c1", "c2"}
  WipeTargets = {"subs", "logs"}
  Items = {"x", "y"}
  RuleSets <- RouteSets
  Domains <- RouteDomains
  Addresses = {2, 7}
  NoName = NoName
  Nonces = {a1, a2}
  Devices = {b1, b2}
  Ttl = 3
  Skew = 1
  MaxDevices = 1
  MaxTime = 3
  MaxKeys = 2
  Commitments = {"x", "y"}
  MaxEntries = 5
  Channels = {"git"}
  Handlers = {c1, c2}
  Quotas = {1, 2}
  MaxExpiry = 2
  MaxIssued = 3
  Payloads <- SomePayloads
  Footers <- SomeFooters
  Assertions <- SomeAssertions
  SignatureBytes = 2
  MaxPublicTokens = 2
  Tokens = {t1}
  Blindings = {b1, b2}
  Roots = {"root1", "root2"}
  Verifiers = {a1, a2}
  MaxVerifications = 2
  MaxCommitmentEdits = 2
  Names <- DnsNames
  Records <- DnsRecords
  MaxAnswers = 2
  QueryId = 258
  Hellos <- CodecHellos
  OffsetLists <- CodecOffsets
  MaxSegments = {0, 2, 3}
  Region = 4
  Mtus = {1, 2, 4}
  Cascades <- CodecCascades
  CascadePayloads <- CodecPayloads
  PacketData <- PacketPayloads
  SeqNumbers = {0, 65535}
  ChunkSize = 3
  ExtensionLists <- PacketHellos
  Damages = {1, 128, 165}
  SessionIds = {"s1"}
  SessionNodes = {"n1", "n2"}
  QuicSessions = {"s1"}
  SessionCallers = {a1, a2}
  MaxSessionBytes = 1
  MaxSessionCalls = 4
  MaxStoreFaults = 0
PROPERTIES
  NodeNotResurrected
SYMMETRY Symmetry
CHECK_DEADLOCK FALSE
