SPECIFICATION Spec
CONSTANTS
  Users = {p1}
  Groups = {p2}
  Seeds = {s1, s2}
  Nodes = {1}
  Topics = {t1}
  RetryMax = 1
  MaxGen = 2
  MaxCalls = 1
INVARIANTS SeedsSafe CacheMatchesMetadata
PROPERTY RefreshEndsInTime
CHECK_DEADLOCK FALSE
