SPECIFICATION FairSpec
CONSTANTS
  Apps = {"web"}
  Nodes <- MCNodes
  Local = "local"
  AnyNode = "any"
  Domains <- MCDomains
  NoDomain = "none"
  Specs <- ProbedSpecs
  Counts = {1}
  Faults = {"run", "remove", "router", "cancel"}
  MaxRows = 2
  MaxConts = 2
  MaxAsked = 1
PROPERTIES LockReleased LiveIsRecorded
