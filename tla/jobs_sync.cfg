SPECIFICATION FairSpec
CONSTANTS
  Keys = {"sync", "rating"}
  AnimeKeys = {"sync"}
  ArchiveKeys = {"rating"}
  Workers = {w1}
  MaxJobs = 3
  BatchSize = 2
  Overrun = FALSE
  MaxChanges = 2
PROPERTIES
  ImplementsRequests
  MappingSettles
