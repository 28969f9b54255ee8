SPECIFICATION Spec
CONSTANTS
  MaxEpisode = 2
  Dispatchers = {d1}
  Origins <- Unmapped
  Answers <- FewAnswers
PROPERTIES
  NextEpisodeFollows
