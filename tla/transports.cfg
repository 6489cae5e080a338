SPECIFICATION Spec
CONSTANTS
  Focus = {"relay", "engine", "quic", "mpquic", "loop", "eye", "sock", "xdp", "shadow", "front", "intel", "probe", "stack", "decider", "morph", "fec", "forecast", "live"}
  t1 = t1
  t2 = t2
  k1 = k1
  k2 = k2
  f1 = f1
  f2 = f2
  s1 = s1
  s2 = s2
  Edges = {"e1"}
  Kinds = {"tls-in-tls", "grpc-mux"}
  NoKind = "none"
  NoEdge = "none"
  Dialers = {t1, t2}
  MaxTunnels = 2
  MaxReports = 3
  MaxEngineTicks = 2
  MaxChainFailures = 2
  MaxChainTunnels = 2
  Paths = {"p0", "p1", "p2"}
  InitialPath = "p0"
  MaxMigrations = 4
  Interfaces = {"wlan0", "rmnet0"}
  Rtt <- InterfaceRtt
  DataLens = {0, 3}
  MpTasks = {t1, t2}
  MaxChanges = 4
  MaxTotal = 4
  LoopCapacity = 3
  LoopWriters = {"w1", "w2"}
  MaxSegments = 5
  MaxRepeats = 1
  EyeCandidates <- MCEyes
  SockKeys = {k1, k2}
  Redirectors = {t1, t2}
  MaxRedirects = 2
  MaxXdpCalls = 4
  Fds = {f1, f2}
  Migrators = {t1, t2}
  MaxShadows = 3
  SniDefaults <- FrontDefaults
  SniOffered <- FrontOffered
  FrontConfigs <- FrontPairs
  RealHosts = {"core"}
  Adders = {t1, t2}
  Openers = {t1, t2}
  MaxSessions = 2
  IntelDevices = {t1, t2}
  IntelTransports = {"obfs4"}
  IntelCandidates <- IntelCandidateList
  ObservationTtl = 0
  MaxIntelTime = 1
  MaxFirstHand = 1
  MaxPayloads = 2
  MaxObserved = 4
  Sources = {s1}
  Handlers = {t1, t2}
  MaxHellos = 5
  Decoys <- DefenseDecoys
  Setters = {s1, s2}
  IpIdModulus = 3
  Seeds = {1, 2}
  MaxMorphed = 4
  MaxActivations = 3
  Cascade <- MCCascade
  Window = 4
  MinSamples = 3
  DetectorWindow = 5
  SampleKinds <- MCSamples
  MaxHistory = 7
  PacketLengths = {60, 700, 1400, 1500}
  Draws = {0, 600, 1350, 9000, 200000}
  LcgStates <- Residues
  MaxShaped = 1
  DataShards = {2, 3, 200}
  ShardSize = 2
  Payloads <- FecPayloads
  Losses = {0, 250000, 400000, 500000}
  MaxLossReports = 2
  MaxCode = 6
  HealthSamples <- OfferedHealth
  HistoryLen = 5
  MaxForecastSamples = 7
  SignalConfigs <- OfferedConfigs
  TcpSeen <- SeenTcp
  DnsSeen <- SeenDns
  TlsSeen <- SeenTls
INVARIANTS
  TwoLockStateAgrees
  NothingLostOrDoubled
  VerdictsFollowEvidence
  TypeOK
PROPERTIES
  StepsAreJustified
SYMMETRY Symmetry
CHECK_DEADLOCK FALSE
