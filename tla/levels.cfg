SPECIFICATION LevelsSpec
CONSTANTS
  Levels = {l1, l2, l3}
  Groups = {g1}
  RoleKinds = {k1}
  NoLevel = NoLevel
  Calls = {c1, c2}
INVARIANTS LevelsTypeOK OneDefaultAnchor
PROPERTIES AnchorLostOnlyWithALevel DeletedLevelWasUnworn
CHECK_DEADLOCK FALSE
