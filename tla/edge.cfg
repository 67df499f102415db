SPECIFICATION Spec
CONSTANTS
  d1 = d1
  d2 = d2
  h1 = h1
  t1 = t1
  t2 = t2
  Domains <- MCDomains
  Hosts <- MCHosts
  Targets <- MCTargets
  None = None
  Down = Down
  Faults = {"half"}
INVARIANTS TypeOK AtMostOneInDoubt
PROPERTIES NoRouteDropped KeepsPromise
