SPECIFICATION RemovalSpec
CONSTANTS
  ward = ward
  hall = hall
  Actors = {ann}
  Groups = {ward, hall}
  Kinds = {chair}
  DefinitionKinds = {chair}
  GrantCalls = {g1, g2}
  KindCalls = {}
  SyncCalls = {}
  HeldOnce = FALSE
  MaxSeats = 2
  RemoveCalls = {r1, r2}
  MaxRejoins <- TwiceAtWard
SYMMETRY Symmetry
INVARIANTS EvictedBeforeRecord LeftIsRecorded
