SPECIFICATION Spec
CONSTANTS
  Services <- MCServices
  Configs = {"c1", "c2"}
  Domains = {"d1"}
  Values = {"s1"}
  Blank = Blank
  Plain = Plain
  None = None
  Specs <- Stacks
  Faults = {"crash"}
  MaxRows = 1
  MaxBorn = 1
  MaxAsked = 1
PROPERTIES RestartKeepsRoutes
