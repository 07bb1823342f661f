SPECIFICATION FairScrapeSpec
CONSTANTS
  Null = null Bad = bad Ghost = ghost
  p1 = p1 p2 = p2 p3 = p3 s1 = s1 s2 = s2
  Points = {p1, p2, p3}
  Sites = {s1, s2}
  SiteOf <- Of
  Objects <- Two
  Registers <- Reg
  Gateways <- AllGateways
  Default <- Env
  EnvGateways = null
  GatewayLists <- ListsPut
  Rows0 <- Start0
  Patches <- Changes
  MaxRequests = 2
  MaxResults = 2
  MaxFailures = 2
INVARIANTS ScrapeTypeOK OwnReadings
PROPERTIES GatewaysAdopted PointsKeepComing
