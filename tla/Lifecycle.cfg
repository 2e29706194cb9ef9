SPECIFICATION Spec
CONSTANTS
  p1 = p1
  p2 = p2
  r1 = r1
  r2 = r2
  r3 = r3
  Packets = {p1, p2}
  Agents = {a1, a2}
  Requests = {r1, r2}
  NoPacket = NoPacket
  NoAgent = NoAgent
  Menu <- MenuPair
  Seeded = {p1}
  Stages = {"created", "in_progress"}
  Patches <- PatchBodies
  Timeouts = {"default"}
  MaxFaults = 1
CHECK_DEADLOCK FALSE
INVARIANTS TypeOK CompletedIsStamped ChainedBothWays AckedIsDurable PublishedStatusWasReached
SYMMETRY AgentSymmetry
