SPECIFICATION Spec
CONSTANTS
  Apps = {"web"}
  Nodes <- MCNodes
  Local = "local"
  AnyNode = "any"
  Domains <- MCDomains
  NoDomain = "none"
  Specs <- ProbedSpecs
  Counts = {1}
  Faults = {"run", "lost", "remove", "router", "ambiguous", "store", "cancel", "crash", "die"}
  MaxRows = 2
  MaxConts = 2
  MaxAsked = 1
INVARIANTS TypeOK GenerationIsRow
PROPERTIES RetiredStaysRetired
