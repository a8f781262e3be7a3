SPECIFICATION CoSpec
CONSTANTS
  CpThreads = {t1, t2}
  CpNames = {"u", "v"}
  CpConfigs <- CpBoth
  CpLimits = {2}
  CpCounts = {1, 2}
  CpWord = 16
  CnMaxTotal = 2
  CnMinIdle = 1
  CnRequests = {r1, r2}
  CnMaxActive = 3
  RlThreads = {t1, t2}
  RlUnit = 2
  RlRate = 1
  RlCapacity = 2
  RlCosts = {0, 2}
  RlWindow = 2
  RlEntries = 3
  RlWord = 16
  RlMaxTime = 4
  ClThreads = {t1, t2, t3, t4}
  MaxConcurrent = 2
  PsThreads = {t1, t2}
  PsSubs = {"a", "b"}
  PsPatterns = {"p", "q"}
  PsTopics = {"one", "both"}
  PsMatch <- PsMatching
  PsKinds <- PsOptions
  PsMaxSubscriptions = 0
  PsMaxSequence = 2
  CrThreads = {t1}
  CrNodes = {"a", "b"}
  CrLocal = "a"
  CrKeys = {"k", "l"}
  CrTtls = {0, 1}
  CrFailureTimeout = 1
  CrBatch = 1
  CrWord = 16
  CrMaxTime = 2
  CrMaxVersion = 2
  DnQueries = {q1, q2, q3}
  DnWorkers = {w1, w2}
  DnMaxConcurrent = 2
  FsRequests = {q1, q2}
  FsMaxEntries = 2
  FsPieces = 2
  CaThreads = {t1, t2}
  CaCapacity = 1
  CaSpsc = FALSE
  CaCases <- CaBoth
  CaMaxOps = 3
  MhValues <- MhSigned
  MhMaxSize = 4
  TmTimers = {"a", "b", "c"}
  IdHandles = {"a", "b", "c", "d"}
  IdKind <- IdKindOf
  SgSignals = {1, 2}
  PrProcs = {"a", "b", "c"}
  WtFiles = {"f", "g"}
  WtMaxWatches = 2
  WtMaxId = 4
  WtMaxQueue = 2
  FpFiles = {"f", "g"}
  FpStates = {"absent", "x", "y"}
  FpMaxId = 3
  FkProcs = {"a", "b", "c"}
  FkMaxFiles = 2
  StMaxWrites = 2
  StSizes = {1, 2}
  UdMaxSends = 4
  PiRoom = 2
  PiSizes = {1, 3}
  PiMaxWrites = 3
  UoInitialSlots = 1
  UoQueueSize = 2
  UoMaxId = 3
  UoAllowed <- UoKindsAllowed
  UoMaxShots = 1
  UoMaxCancels = 1
  UpFds = {f1}
  UpQueueSize = 2
  UpSetSize = 2
  UpMaxRequests = 3
  IbGroups = {g1, g2}
  IbBuffers = 2
  IbQueueSize = 2
  IbEntered = {TRUE, FALSE}
  IbMaxPools = 2
  IbMaxReceives = 2
  EvFds = {f1, f2}
  EvBatch = 1
  KqFds = {f1, f2}
  KqSetSize = 3
INVARIANTS
  SlotsAccounted
  ConnPoolExact
  AdmissionExact
  PubSubExact
  RequestsExact
  HeapIsMultiset
  CallbacksExact
  FilesExact
  ExitNotLost
  TransfersExact
  AdaptersExact
PROPERTIES
  ConfigKept
CHECK_DEADLOCK FALSE
