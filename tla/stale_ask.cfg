SPECIFICATION Spec
CONSTANTS
  ann = ann
  lea = lea
  ward = ward
  chair = chair
  client = client
  Members = {ann}
  Officers = {lea}
  Groups = {ward}
  Kinds = {chair, client}
  LeadingKinds = {chair}
  OutsiderKinds = {client}
  Grantable <- LeaderOnly
  Nobody = nobody
  Operator = operator
  JoinCalls = {j1, j2}
  DecideCalls = {d1}
  InviteCalls = {}
  BatchCalls = {}
  AnswerCalls = {}
  Reconfigured = {}
  MaxAsks = 2
  MaxRows = 0
  MaxClock = 1
  Lifetimes = {1}
  Legacy = {}
PROPERTIES DeclineBecomesAppeal
