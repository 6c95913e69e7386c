\* A token nobody holds always exists: gen, and two tokens of each session.
CONSTANTS
  Threads = {t1, t2}
  Readers = {r1}
  Tokens = {k1, k2, k3, k4}
  None = None
  MaxDepth = 2
SPECIFICATION Spec
SYMMETRY Symmetry
INVARIANTS
  TypeOK
  Published
  NoMissedReload
  NoStaleModel
