SPECIFICATION Spec
CONSTANTS
  Adapters = {"mcp"}
  MaxOthers = 2
  MaxFailures = 0
INVARIANT BusyLeavesNoTask
CHECK_DEADLOCK FALSE
