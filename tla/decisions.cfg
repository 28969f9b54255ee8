SPECIFICATION Spec
CONSTANTS
  None = None
  Failed = Failed
  Refused = Refused
  r1 = r1
  r2 = r2
  t1 = t1
  t2 = t2
  Catalog <- SomeCatalog
  Priority <- SomePriority
  Excluded = {"unext"}
  Family <- SomeFamily
  MaxStreamOffset = 1
  MaxCatalogOffset = 1
  MaxEpisodeNo = 10
  Alike <- NeverAlike
  Core <- WholeTitle
  Requests <- SomeRequests
  Chapters <- SomeChapters
  SubjectAnswers <- SomeSubjects
  MediaAnswers <- SomeMedias
  Entries <- SomeEntries
  Rows = 2
  ZoneLag = 1
  ThisWeek = 1
  NoVideo = NoVideo
  NoEvaluation = NoEvaluation
  v1 = v1
  v2 = v2
  v3 = v3
  u1 = u1
  u2 = u2
  Videos <- SomeVideos
  UploaderOf <- SomeUploaders
  Contents <- SomeContents
  Trusts <- SomeTrusts
  Targets <- SomeTargets
  Aliases = 2
  Minimum = 1300
  Maximum = 1500
  MinScore = 60
  DetailScore = 35
  Required = 2
  DurationDelta = 180
  PublishDelta = 2
  MinFollowers = 100
  MinViews = 200
  MaxSearches = 2
  MaxDetails = 2
INVARIANTS
  TimetableAgrees
  DelayHidesTime
  CatalogOutlivesOutage
  HiddenClockIsCatalog
  ConfirmedIsSupported
