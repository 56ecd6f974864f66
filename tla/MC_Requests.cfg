CONSTANTS
  r1 = r1  r2 = r2  r3 = r3  k1 = k1  key1 = key1  key2 = key2
  Tasks = {r1, r2, r3}
  ClientKeys = {k1}
  MaxRequests = 2
  WindowSecs = 2
  Ticks = 3
  Skew = 1
  Horizon = 15
  NoTime = NoTime
  Requests = {r1, r2, r3}
  Addresses = {"old@host", "new@host"}
  Passwords = {"Old1", "New1"}
  Cookies = {"cookie"}
  ApiKeys = {key1, key2}
  Labels = {"agent", "laptop"}
  Unknown = Unknown
SPECIFICATION RequestsSpec
INVARIANTS WindowBound AnsweredChangesStand RevokedStaysOut DeletesConfirmed
PROPERTIES RetrySuffices
SYMMETRY Symmetry
