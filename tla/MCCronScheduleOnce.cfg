SPECIFICATION CronSpec
CONSTANTS
  r1 = r1
  r2 = r2
  r3 = r3
  Replicas = {r1, r2, r3}
  Offset <- Offsets
  Jitter = 1
  Interval = 12
  TTL = 11
  MaxTick = 3
INVARIANTS
  OncePerTick
