\* The reloader's inner loop.
SPECIFICATION FairSpec
CONSTANTS
  a = a
  b = b
  v1 = v1
  v2 = v2
  Keys <- MCKeys
  KeysOf <- MCKeysOf
  EmptyKey = EmptyKey
  None = None
  Torn = Torn
  Zero = Zero
  Files = {a}
  Globbed = {a}
  Yaml = {a}
  Contents = {v1}
  Parses = {v1}
  Valid = {v1}
  FilesCap = 1
  ReloadCap = 1
  MaxChanges = 0
PROPERTIES
  ReloaderLoopsBack
\* The operator stops when it has shut down, panicked, or has nothing to do.
CHECK_DEADLOCK FALSE
