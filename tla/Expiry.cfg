SPECIFICATION FairSpec
CONSTANTS
  p1 = p1
  p2 = p2
  r1 = r1
  r2 = r2
  r3 = r3
  Packets = {p1, p2}
  Agents = {a1}
  Requests = {r1, r2}
  NoPacket = NoPacket
  NoAgent = NoAgent
  Menu <- MenuUpdate
  Seeded = {p1}
  Stages = {"created", "awaiting_human"}
  Patches <- PatchBodiesFromStart
  Timeouts = {"default"}
  MaxFaults = 1
CHECK_DEADLOCK FALSE
PROPERTIES OldPacketsExpire
