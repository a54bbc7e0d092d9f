SPECIFICATION MCLookupSpec
CONSTANTS
  ann = ann
  lea = lea
  ward = ward
  chair = chair
  client = client
  Members = {ann}
  Officers = {lea}
  Groups = {ward}
  Kinds = {chair, client}
  LeadingKinds = {chair}
  OutsiderKinds = {client}
  Grantable <- LeaderAndClient
  Nobody = nobody
  Operator = operator
  JoinCalls = {j1, j2}
  DecideCalls = {d1, d2}
  InviteCalls = {}
  BatchCalls = {}
  AnswerCalls = {}
  Reconfigured = {ward}
  LookupCalls = {f1}
  MaxAsks = 1
  MaxRows = 0
  MaxClock = 1
  Lifetimes = {1}
  Legacy = {}
SYMMETRY CallSymmetry
INVARIANTS TypeOK DecidedOncePerAsk RetryFindsRequest FalseOnlyToAMember LatestDecisionShown
