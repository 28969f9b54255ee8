SPECIFICATION Spec
CONSTANTS
  Keys = {"resolve", "preview", "import"}
  AnimeKeys = {"preview", "import"}
  ArchiveKeys = {}
  Workers = {w1, w2}
  MaxJobs = 3
  BatchSize = 1
  Overrun = TRUE
  MaxChanges = 0
CONSTRAINT OneKindOfDraft
INVARIANTS
  TypeOK
  AddedOnce
  ImportedOnce
  QueuedHasJob
