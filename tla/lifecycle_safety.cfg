SPECIFICATION Spec
CONSTANTS
  MaxEpisode = 2
  Dispatchers = {d1}
  Origins <- SomeOrigins
  Answers <- FewAnswers
INVARIANTS
  TypeOK
  RowsAgree
  FinishedIsQuiet
  TotalFitsMapping
  SentWasDelivered
  DuplicateNeedsLostReply
PROPERTIES
  HistoryIsKept
