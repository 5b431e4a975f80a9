SPECIFICATION FrontendSpec
CONSTANTS
  Track = {t1, t2, t3}
  ArtistOf <- MCArtistOf
  QueueSize = 2
  LowWatermark = 2
  PoolMin = 2
  MaxPerArtist = 1
  RapidStarts = 1
  MaxCopies = 2
  MaxBlocked = 1
  Song = {s1, s2}
  NudgeEvery = 2
  Service = {lastfm}
  Threshold = 1
  MaxPlays = 2
  MaxTime = 2
  Query = {q1, q2}
  Album = {q2}
  MaxPages = 2
  MaxAsked = 2
  Playlist = {p1, p2}
  MaxEdits = 1
  MaxTasks = 2
  Station = {a, b}
  MaxCalls = 2
  MaxStored = 1
  Device = {d0, d1}
  DefaultDevice = d0
  Elements = 2
  MaxSwitches = 2
  MaxOrders = 3
  Flag = {f1, f2}
  MaxToggles = 2
  MaxRequests = 2
  Listen = {l1, l2}
  MaxAttempts = 2
  FlushLimit = 2
  MaxFlushes = 2
SYMMETRY MCSymmetry
CHECK_DEADLOCK FALSE
INVARIANTS
  FrontendTypeOK
  QueueAccount QueuedOnce OneLateBatch
  ManualWins NudgeAsksUnrated
  ScrobbledOnce
  ListAnswersQuery
  PanelShowsBackend
  OneStation OnAirIsTrue TabShowsItsList OnePoller
  SoundGoesWhereChosen
  ChoicesHold
  
  SwitchesMatchAccounts
  QueueDelivers
