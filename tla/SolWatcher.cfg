CONSTANTS
  Callers = {c1, c2}
  Readers = {r1}
  NoOne = NoOne
  InitState = "pending"
  Getters = {"price", "hash"}
  Feeds = {"price", "hash"}
  MaxAge = 2
  MaxLatency = 1
SPECIFICATION Safety
SYMMETRY Threads
INVARIANTS OneSuccess LoopsFollowState HandedOutSound ErrorsTellTheTruth
PROPERTIES QuietAfterClose 
