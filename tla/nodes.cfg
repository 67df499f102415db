SPECIFICATION FairSpec
CONSTANTS
  h1 = h1
  h2 = h2
  r1 = r1
  r2 = r2
  None = None
  Local = 2
  Default = "default"
  Names <- MCNames
  Hosts <- MCHosts
  AgentHosts <- MCAgentHosts
  Pools <- MCPools
  Handlers <- MCHandlers
  Caps <- MCCaps
  Reqs <- MCReqs
INVARIANTS TypeOK NoStaleClient CordonHolds LocalIsThere SpreadWidely
PROPERTIES AllAnswered
