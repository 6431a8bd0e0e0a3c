CONSTANTS
  Senders = {s1}
  Movers = {w1, w2}
  Repliers = {r}
  Sessions = {a}
  MoveKinds = {"continue", "restart"}
  MaxDispatchSeq = 2
  SeqLimit = 1
  MaxTime = 0
  MaxMsgs = 3
  FreshPerDispatch = TRUE
  Nobody = Nobody
SPECIFICATION Spec
SYMMETRY Symmetry
PROPERTY MoveNeverOpens
