CONSTANTS
  Callers = {c1, c2, c3}
  Readers = {r1, r2}
  NoOne = NoOne
SPECIFICATION Safety
SYMMETRY Threads
INVARIANTS ErrorsTellTheTruth
