SPECIFICATION FleetSpec
CONSTANTS
  Apps = {"web"}
  Nodes <- MCNodes
  Local = "local"
  AnyNode = "any"
  Domains <- MCDomains
  NoDomain = "none"
  Specs <- Both
  Counts = {1}
  Faults = {"die", "crash"}
  MaxRows = 2
  MaxConts = 3
  MaxAsked = 0
  Managed = {"n1"}
  MaxAttempts = 1
  MaxAway = 0
  MaxCordoned = 1
INVARIANTS FRInv Drains DrainedStaysEmpty
PROPERTIES MovesKeepServing
