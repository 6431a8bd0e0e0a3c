CONSTANTS
  Senders = {s1}
  Movers = {}
  Repliers = {r1, r2}
  Sessions = {a, b}
  MoveKinds = {}
  MaxDispatchSeq = 2
  SeqLimit = 1
  MaxTime = 1
  MaxMsgs = 4
  FreshPerDispatch = FALSE
  Nobody = Nobody
SPECIFICATION Spec
SYMMETRY Symmetry
PROPERTY RepliesStand
