SPECIFICATION Spec
CONSTANTS
  Nodes <- MCNodes
  AnyNode = "any"
  Refs = {"v1"}
  Commits = {1, 2}
  Files = {"web.yml"}
  TempFile = "temp"
  Contents = {"c1", "c2"}
  None = None
  Texts <- MCTexts
  Legacy <- MCLegacy
  Counts = {0, 2}
  MaxRows = 4
INVARIANTS ProvenanceKept NothingStranded RollbackRestores
