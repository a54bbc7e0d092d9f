SPECIFICATION MCRecordsSpec
CONSTANTS
  Entries = {e1}
  Names = {n1, n2, n3}
  Calls = {c1, c2, c3}
  NoRow = NoRow
  Delegations = {d1, d2}
  Actors = {a1, a2}
  Never = Never
  Nobody = Nobody
  Revokes = {r1, r2}
  Asks = {q1}
  MaxTime = 2
  NoDelegation = NoDelegation
  Types = {t1, t2}
  Groups = {g1, g2}
  Hierarchies = {h1, h2}
  NodeTypes = {w1, w2}
  TypeCalls = {k1, k2}
  Nothing = Nothing
  Creates = {p1, p2}
  Raises = {u1, u2}
  Free = Free
  Attempts = 3
  Skips = 2
  StartCounters = {0, 1, 3}
  StartCodes = {{}, {1, 2}}
  MaxCodes = 5
SYMMETRY Symmetry
INVARIANTS CodesTypeOK CodeIsFree ClaimsAreApart LosersWereOvertaken
INVARIANTS UnseenNameWasOvertaken RevokedByOne AnswerWasTrue
PROPERTIES RenameCarriesItsGroups DeletedTypeWasUnworn
CHECK_DEADLOCK FALSE
