CONSTANTS
  Callers = {c1, c2, c3}
  Readers = {r1}
  NoOne = NoOne
  InitState = "pending"
  Getters = {"price", "hash"}
  Feeds = {"price"}
  MaxAge = 0
  MaxLatency = 0
SPECIFICATION Spec
PROPERTIES CallsReturn AnswerPublished ImplementsService
