CONSTANTS
  Ids = {i1, i2}
  t1 = t1
  t2 = t2
  b = b
  Tokens = {t1, t2, t3}
  Broadcasts = {b}
  Admins = {a1, a2}
  None = None
  Slots = {p1, p2}
  Requests <- MCRequests
  Capacity = 1
  AllowTtl = 1
  DenyTtl = 1
  Checkers = {k1}
  Reloaders = {"sighup", "admin"}
  Files = {f1, f2}
  Deployments <- MCDeployments
  Days = {59, 11016}
  DayMillis = {86399999}
  MaxInits = 1
  EventIds = {7}
  MaxSections = 2
  HlsNames <- MCHlsNames
  Whole <- MCWhole
  Ladder <- MCLadder
  SourceOverride = 0
  Codecs = {"hvc1"}
  Timescale = 2
  TargetSecs = 1
  Lengths = {2, 3}
  MaxListed = 7
  MaxClosed = 8
  MaxParts = 2
  CueMillis = {0, 1001, 3000}
  MinTarget = 1
  MaxCues = 2
  MaxPushed = 4
  CaptionRuns = {1, 2}
  Callers = {c1, c2}
  MaxCalls = 4
  SampleCap = 3
  Latencies = {1, 2, 3, 9}
  MaxLatency = 3
  MaxSamples = 4
  RingCap = 2
  ChanCap = 1
  Writers = {w1, w2}
  MaxLines = 2
  Casts = {"a", "b"}
  TrackNames = {"0.mp4", "1.mp4"}
  MaxEmitted = 1
  MaxRows = 3
  Invocations <- MCInvocations
  AuthSections = {{}, {"webhook"}, {"jwks", "webhook"}}
  MaxOpen = 1
  Kids = {"k1", "k2", "k3"}
  KeySets = {{"k1"}, {"k2", "k3"}, {"k3"}}
  KeyAlg <- MCKeyAlg
  AllowedAlgs = {"RS256", "ES256"}
  Secrets = {"s1"}
  NoSecret = NoSecret
  MaxNow = 1
  Visits <- MCVisits
  Taps = {"a", "b"}
  MaxVersions = 1
  MaxFileEvents = 1
  MaxFiltered = 1
  FrameQueue = 2
  WindowFrames = 2
  MaxFrames = 5
  Sockets = {"x", "y"}
  PeerIds = {"p", "q"}
  Unlisted = Unlisted
  MaxMail = 1
  Links = {"l1", "l2"}
  MaxLinks = 4
  Members = {"m", "n"}
  Stamped <- MCStamped
  Boots <- MCBoots
  MaxSets = 2
SPECIFICATION PlaneSpec
INVARIANTS AccessInv AnswersInv ServicesInv
