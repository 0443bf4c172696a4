CONSTANTS
  NUM_LEVELS = 4
  max_file_size = 1
  LEVEL1_BYTES = 2
  OVERLAP_FACTOR = 10
  EXPAND_FACTOR = 25
  MAX_SEQUENCE_NUMBER = 99
  write_buffer_size = 1
  Uses = {"base", "fresh", "reopen", "level0", "compact", "snapshot", "aborted"}
SPECIFICATION AnySpec
INVARIANTS
  FlushedIsOnDisk
  ReadsAreExact
PROPERTIES
  EveryCallEnds
CHECK_DEADLOCK FALSE
