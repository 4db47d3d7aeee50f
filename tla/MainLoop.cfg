\* Two connections, one worker, two versions of the file after the first.
SPECIFICATION FairSpec
CONSTANTS
  c1 = c1
  c2 = c2
  Conn = {c1, c2}
  Workers = 1
  MaxVersion = 3
  MaxHups = 2
  Errors = TRUE
INVARIANTS TypeOK NothingInitializedTwice NoJobCutOff ReadyMeansServing
PROPERTIES HupsTakeEffect TermEndsService JobsEnd
CHECK_DEADLOCK FALSE
