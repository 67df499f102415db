SPECIFICATION FleetSpec
CONSTANTS
  Apps = {"web"}
  Nodes <- MCNodes
  Local = "local"
  AnyNode = "any"
  Domains <- MCDomains
  NoDomain = "none"
  Specs <- Pair
  Counts = {1}
  Faults = {"die"}
  MaxRows = 1
  MaxConts = 4
  MaxAsked = 0
  Managed = {"n1"}
  MaxAttempts = 1
  MaxAway = 0
  MaxCordoned = 1
PROPERTIES HealTouchesOnlyDead
