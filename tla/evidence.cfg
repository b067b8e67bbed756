\* Two processes that share a key store and a repository, in any order.
SPECIFICATION Spec
CONSTANTS
  Absent = Absent
  Torn = Torn
  p1 = p1
  p2 = p2
  k1 = k1
  k2 = k2
  k3 = k3
  friend = friend
  colleague = colleague
  Procs = {p1, p2}
  Keys = {k1, k2, k3}
  Others = {friend, colleague}
  Commands <- SomeCommands
  MaxCommands = 3
  MaxCommits = 1
INVARIANTS
  ProofsIntact
  KeysKept
  TrustKept
  TrustIsAsked
  StrictAcceptance
  LatestProof
CHECK_DEADLOCK FALSE
