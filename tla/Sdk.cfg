SPECIFICATION FairSpec
CONSTANTS
  c1 = c1
  c2 = c2
  Calls = {c1, c2}
  NoCall = NoCall
  Kinds = {"pySync", "tsSync", "tsAsync"}
  Menu <- MCMenu
  Refusals = {"4xx"}
  MaxRetries = 1
  MaxFaults = 1
CHECK_DEADLOCK FALSE
INVARIANTS TypeOK MergesKept
PROPERTIES IsRemoteCall CallsEnd
