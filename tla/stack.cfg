SPECIFICATION Spec
CONSTANTS
  Services <- MCServices
  Configs = {"c1", "c2"}
  Domains = {"d1"}
  Values = {"s1", "s2"}
  Blank = Blank
  Plain = Plain
  None = None
  Specs <- MCSpecs
  Faults = {"up", "router", "store", "down", "crash"}
  MaxRows = 3
  MaxBorn = 3
  MaxAsked = 1
INVARIANTS TypeOK FlaggedOrServed FailClosed 
