SPECIFICATION FairSpec
CHECK_DEADLOCK FALSE
CONSTANTS
  Servers = {s1, s2}
  Requests = {r1, r2}
  Kinds = {"Show", "BindContributingCause", "CreateCause"}
  Nobody = nobody
INVARIANTS
  TypeOK
  RequestsFindTheSeeds
  GracefulExitAnswersAll
  PortIsHeldByTheLiving
  LifecycleInv
PROPERTIES
  StartsComeThrough
  SignalledServersEnd
