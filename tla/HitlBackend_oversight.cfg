SPECIFICATION Spec
CONSTANTS
  m1 = m1
  ann = ann
  bob = bob
  vic = vic
  Orders = {"h1", "d1"}
  Holds = {"h1"}
  Processes = {m1}
  ProcOf <- OneProcess
  MaxCrashes = 1
  Operators = {ann, bob, vic}
  RoleOf <- Roles
  RequestIds = {1}
  UnscoredDev = TRUE
  MaxRows = 3
  MaxAnchors = 1
  MaxRestores = 1
  MaxCalls = 2
INVARIANTS SentOnRecord OneChain HumanBehindOrder AnswersTrue LossIsReported
SYMMETRY Approvers
CHECK_DEADLOCK FALSE
