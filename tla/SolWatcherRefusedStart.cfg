CONSTANTS
  Callers = {c1, c2}
  Readers = {r1}
  NoOne = NoOne
  InitState = "pending"
  Getters = {"price", "hash"}
  Feeds = {"price"}
  MaxAge = 0
  MaxLatency = 0
SPECIFICATION Safety
PROPERTIES RefusedStartIsHarmless
