SPECIFICATION WatchSpec
CONSTANTS
  MaxEpisode = 2
  Dispatchers = {}
  Origins <- SomeOrigins
  Answers <- FewAnswers
INVARIANTS
  WatchTypeOK
PROPERTIES
  ArchivesWhatItSaw
