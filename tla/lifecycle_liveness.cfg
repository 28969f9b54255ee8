SPECIFICATION FairSpec
CONSTANTS
  MaxEpisode = 2
  Dispatchers = {d1}
  Origins <- Unmapped
  Answers <- NoAnswer
PROPERTIES
  PendingIsSettled
