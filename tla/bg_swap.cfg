SPECIFICATION Spec
CONSTANTS
  Apps = {"web"}
  Nodes <- MCNodes
  Local = "local"
  AnyNode = "any"
  Domains <- MCDomains
  NoDomain = "none"
  Specs <- DockerSpecs
  Counts = {1}
  Faults = {"run", "router"}
  MaxRows = 3
  MaxConts = 5
  MaxAsked = 1
INVARIANTS RowIsRouted NoDowntime NoOrphans
