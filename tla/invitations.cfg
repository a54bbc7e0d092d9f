SPECIFICATION MCSpec
CONSTANTS
  ann = ann
  lea = lea
  ward = ward
  chair = chair
  client = client
  Members = {ann}
  Officers = {lea}
  Groups = {ward}
  Kinds = {chair, client}
  LeadingKinds = {chair}
  OutsiderKinds = {client}
  Grantable <- LeaderOnly
  Nobody = nobody
  Operator = operator
  JoinCalls = {j1}
  DecideCalls = {d1}
  InviteCalls = {i1}
  BatchCalls = {b1}
  AnswerCalls = {x1, x2}
  Reconfigured = {ward}
  MaxAsks = 1
  MaxRows = 2
  MaxClock = 2
  Lifetimes = {1}
  Legacy <- AnnAtWard
SYMMETRY AnswerSymmetry
INVARIANTS RetryFindsInvitation AnsweredInTime
PROPERTIES ImplementsAdmission
