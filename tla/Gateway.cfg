SPECIFICATION Spec
CONSTANTS
  r1 = r1
  r2 = r2
  p1 = p1
  boss = boss
  deputy = deputy
  hand = hand
  spare = spare
  t1 = t1
  t2 = t2
  free = free
  pro = pro
  Requests = {r1, r2}
  At <- MCAt
  Menu <- MCMenu
  Bearer <- MCBearer
  Keys = {boss, deputy, hand, spare}
  NoKey = NoKey
  Born <- MCBorn
  Owners = {t1, t2}
  DefaultOwner = t2
  Tiers = {free, pro}
  FreeTier = free
  MinuteLimit = 1
  HourLimit <- MCHourLimit
  DayLimit = 1
  Tenants = {u1, u2}
  Names = {n1, n2}
  Asked = {"admin", "agent"}
  MaxFaults = 1
CHECK_DEADLOCK FALSE
INVARIANTS TypeOK RoleEnforced RevokedIsRefused CountedForOwner HourLimitHolds OvershootBounded TenantNamesUnique
