CONSTANTS
  Senders = {s1, s2}
  Movers = {}
  Repliers = {r}
  Sessions = {a, b}
  MoveKinds = {}
  MaxDispatchSeq = 2
  SeqLimit = 1
  MaxTime = 1
  MaxMsgs = 4
  FreshPerDispatch = TRUE
  Nobody = Nobody
SPECIFICATION Spec
SYMMETRY Symmetry
INVARIANT OneSession
