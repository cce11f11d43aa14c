\* Two files, one of them outside the pattern. One is edited, or the process is killed and
\* started again beside the files it left behind, at any point. Safety and liveness.
SPECIFICATION FairSpec
CONSTANTS
  a = a
  b = b
  v1 = v1
  v2 = v2
  Keys <- MCKeys
  KeysOf <- MCKeysOf
  EmptyKey = EmptyKey
  None = None
  Torn = Torn
  Zero = Zero
  Files = {a, b}
  Globbed = {a}
  Yaml = {a, b}
  Contents = {v1, v2}
  Parses = {v1, v2}
  Valid = {v1, v2}
  FilesCap = 1
  ReloadCap = 1
  MaxChanges = 1
INVARIANTS
  TypeOK
  RulesFollowDisk
  StoreFollowsDisk
  LoadedFollowsRules
PROPERTIES
  EventuallyInSync
  ShutdownEnds
\* The operator stops when it has shut down, panicked, or has nothing to do.
CHECK_DEADLOCK FALSE
