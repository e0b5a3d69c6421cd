SPECIFICATION Spec
CONSTANTS
  NoOne = NoOne
  NoNs = NoNs
  Conn = {p1, p2}
  Users = {"root", "ann", "bob", "sid", "vic", "new", "new2"}
  Identities = {"i1", "i2", "ia", "ib", "ic"}
  Tokens = {"t1", "t2", "t3", "t4", "t5", "t6", "t7", "t8"}
  Keys = {"k1", "k2", "k3", "k4", "k5"}
  Ids = {"n0", "n1", "n2", "r1", "r2", "s1", "c1", "b1", "b2", "a1", "a2", "f1", "f2", "f3", "f4", "f5", "f6"}
  Worlds <- EveryWorld
  Asks <- ClientAsks
SYMMETRY Symmetry
PROPERTIES OwnerKept AdmittedByRule PlantedByRight IdentityNeverMoves
CHECK_DEADLOCK FALSE
