CONSTANTS
  Parts = {"queue", "storage", "index", "log", "log_fresh", "manifest",
           "memtable", "memtable_iter", "table", "table_moves", "table_versions", "merge", "merge_back",
           "level", "level_unreadable", "dbiter", "cache"}
  Elements = {a, b}
  Width = 5
  HEAD = 4
  TAIL = 3
  MaxTail = 3
  Faulty = TRUE
  ReadsFail = TRUE
SPECIFICATION AnySpec
INVARIANTS
  NoLateWrite
  RepliesInOrder
  FlushedIsRead
  LookupsAreExact
PROPERTIES
  QueueIsFifo
  EveryCallEnds
  
  IteratorsAreCursors
  CacheImplementsLRU
CHECK_DEADLOCK FALSE
