SPECIFICATION Spec
CONSTANTS
    p = p
    a = a
    b = b
    c = c
    t1 = t1
    t2 = t2
    Focus = {"isolation", "cadence", "ring", "seamless", "tier", "integration", "race"}
    DebounceThreshold = 3
    MaxFailRun = 12
    CadenceTransports = {a}
    Percents = {75, 125}
    MaxBackoff = 1
    MaxOutstanding = 2
    Primary = p
    MaxFailovers = 1
    RingCapacity = 3
    MaxHops = 2
    MaxShared = 1
    MaxSeq = 5
    Tickers = {t1, t2}
    MaxSwitches = 2
    CircuitUsers = {t1, t2}
    MaxBootstraps = 2
    MaxPicks = 7
    Rtts = {100, 250}
    ProbedTunnels = {"dns-tunnel-vaydns-doh"}
    Watched = {a}
    QueueItems = 1
    MaxReacts = 1
    ConnectTimeout = 4
    RaceTimeout = 2
    None = None
    Candidates <- MCCandidates
    Endpoints <- MCEndpoints
    Racers <- MCRacers
    Scripts <- MCScripts
INVARIANTS
    NothingDelaysRecovery
    SwitchesSafe
    ConnectionsEarned
    TypeOK
PROPERTIES
    BlackoutDiscipline
SYMMETRY Symmetry
CHECK_DEADLOCK FALSE
