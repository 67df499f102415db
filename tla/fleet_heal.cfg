SPECIFICATION FleetFairSpec
CONSTANTS
  Apps = {"web"}
  Nodes <- MCNodes
  Local = "local"
  AnyNode = "any"
  Domains <- MCDomains
  NoDomain = "none"
  Specs <- Pair
  Counts = {1}
  Faults = {"run", "remove", "die", "inspect"}
  MaxRows = 1
  MaxConts = 3
  MaxAsked = 0
  Managed = {"n1"}
  MaxAttempts = 1
  MaxAway = 1
  MaxCordoned = 0
INVARIANTS FleetTypeOK RoutedAtRest WorksOnCurrentRow MInv
PROPERTIES MovesKeepServing SpreadKept HealedOrGivenUp
