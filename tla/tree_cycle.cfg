SPECIFICATION TreeSpec
CONSTANTS
  Groups = {g1, g2, g3, g4}
  MoveCalls = {m1, m2}
  NoParent = NoParent
INVARIANT NoGroupAboveItself
CHECK_DEADLOCK FALSE
