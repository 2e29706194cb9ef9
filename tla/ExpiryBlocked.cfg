SPECIFICATION FairSpec
CONSTANTS
  p1 = p1
  p2 = p2
  r1 = r1
  r2 = r2
  r3 = r3
  Packets = {p1, p2}
  Agents = {a1, a2}
  Requests = {r1, r2}
  NoPacket = NoPacket
  NoAgent = NoAgent
  Menu <- MenuNone
  Seeded = {p1, p2}
  Stages = {"created", "awaiting_human"}
  Patches <- PatchBodiesFromStart
  Timeouts = {"default", "short"}
  MaxFaults = 0
CHECK_DEADLOCK FALSE
PROPERTIES OldPacketsExpire
