SPECIFICATION TranscriptsSpec
CONSTANTS
  Transcripts <- SomeTranscripts
  CoalesceGap = 1
  Budgets <- SomeBudgets
  NoteLengths = {1, 5}
  MaxReduceDepth = 2
INVARIANT TrackIsHeard
INVARIANT SessionIsSummarised
CHECK_DEADLOCK FALSE
