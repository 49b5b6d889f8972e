SPECIFICATION MCSpec
CONSTANTS
  t1 = t1
  Tocs <- MCReports
  Locked = {"dist", "dist2", "pyinstaller", "tool", "cpython"}
  Runtime = {"dist", "dist2", "cpython"}
  OwnTerms = {"dist", "pyinstaller", "tool", "cpython"}
  Overrides <- MCOverrides
  InventoryEdits = 2
  SearchDocs <- MCSearchDocs
  Facets = {"x"}
  SearchStores <- MCSearchStores
  Strategies = {"auto", "bm25", "vector", "hybrid", "related"}
  SearchLimits = {1, 3}
  Floor = 2
  MaxWrites = 1
  SearchFailures = 2
  Adapters = {"mcp", "cli", "json"}
  MaxOthers = 6
  ArchiveFailures = 3
  ReadDocs = {1, 2}
  Times = {1, 2}
  ReadStores <- MCReadStores
  Contents <- Entries
  ReadLimits = {1, 2}
  MaxChanges = 2
  Docs <- MCDocs
  Types = {t1}
  Stores <- MCStores
  Outside <- MCOutside
  Kinds = {"subgraph", "explain", "bridges", "contrast", "evidence"}
  Depths = {2}
  Limits <- MCLimits
  Hits <- MCHits
  TopK = 3
  MaxEdits = 1
INVARIANTS
  AnswersAreAccepted
  AnswersAreTrue
  InventoryInv
  SearchInv
  ReadsHold
PROPERTIES
  RepliesAreTrue
CHECK_DEADLOCK FALSE
