SPECIFICATION ActorsSpec
CONSTANTS
  phone = phone
  email = email
  u = u
  v = v
  old = old
  known = known
  new = new
  k1 = k1
  k2 = k2
  k3 = k3
  Ids = {old, known, new}
  Attributes = {phone, email}
  Values = {u, v}
  Blank = Blank
  Codes = {k1, k2, k3}
  NoCode = NoCode
  NoActor = NoActor
  Groups <- CodeGroups
  Formats = {1, 2}
  Draws = 2
  Corrections <- SomeCorrections
  SourcesGiven <- SomeSources
  Calls = {c1}
  Starts = {s1}
  Earlier <- EarlierRows
PROPERTIES GivenAtCreateHasNoEntry
CHECK_DEADLOCK FALSE
