SPECIFICATION Spec
CONSTANTS
  Apps = {"web", "api"}
  Nodes <- MCNodes
  Local = "local"
  AnyNode = "any"
  Domains <- MCDomains
  NoDomain = "none"
  Specs <- TwoApps
  Counts = {1}
  Faults = {"cancel", "crash"}
  MaxRows = 3
  MaxConts = 3
  MaxAsked = 0
INVARIANTS OneRunning RInv
PROPERTIES RollsOut
