SPECIFICATION FairSpec
CONSTANTS
  p1 = p1
  a = a
  b = b
  s = s
  e1 = e1
  t1 = t1
  t2 = t2
  made = made
  other = other
  Procs = {p1, p2}
  Sockets = {a, b}
  Streams = {s}
  Events = {e1}
  Topics = {made, other}
  ProcOf <- MCProcOf
  TenantOf <- MCTenantOf
  LimitOf <- MCLimitOf
  About <- MCAbout
  Asks <- MCAsks
  Links <- MCLinks
  NoOne = NoOne
  MaxGone = 2
  MaxFaults = 1
CHECK_DEADLOCK FALSE
INVARIANTS TypeOK LimitHolds CopiesBounded StreamsGetOnlyAsked ForeignOnlyByRelay
PROPERTIES NothingIsDropped SubscribersHear
