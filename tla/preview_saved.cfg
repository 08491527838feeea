SPECIFICATION CfgSpec
CONSTANTS
  CfgThreads = {"ui", "cb"}  CfgDists = {1536}  CfgPaths = {"none", "ascii"}
  CfgMaxChanges = 1  CfgMaxKills = 0  CfgMaxErrors = 0
INVARIANT PreviewNotStored
CHECK_DEADLOCK FALSE
