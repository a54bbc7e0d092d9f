SPECIFICATION SeatsSpec
CONSTANTS
  Actors = {ann}
  Groups = {ward}
  Kinds = {chair, clerk}
  DefinitionKinds = {chair}
  GrantCalls = {g1, g2}
  KindCalls = {k1}
  SyncCalls = {s1, s2}
  HeldOnce = TRUE
  MaxSeats = 3
INVARIANTS OneLiveSeat
PROPERTIES EndedStays RoleRemovedRetires
