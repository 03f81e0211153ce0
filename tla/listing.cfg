CONSTANTS
  MaxEntry = 4
  BlockCount = 2
  Capacity = 3
SPECIFICATION FairSpec
INVARIANTS
  SkippedOnlyByRemoval
  RepeatedOnlyByInsertion
PROPERTIES
  EntriesAreListed
