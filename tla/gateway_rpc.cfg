SPECIFICATION Spec
CONSTANTS
  Null = Null Gone = gone c1 = c1 c2 = c2 p1 = p1 p2 = p2
  local = local remote = remote docker = docker caddy = caddy lan = lan far = far a = a b = b
  Clients = {c1, c2}
  Points = {p1, p2}
  Devices <- Numbers
  Names = {a, b}
  Values = {0, 1}
  Hosts = {local, remote}
  Urls = {docker, caddy, lan, far}
  Behind <- Leads
  Default = docker
  DockerHost = docker
  Caddy = caddy
  Lan = lan
  Route = Null
  Exec = Null
  Points0 <- PointRows
  Gateways0 <- FarOnly
  GatewayLists <- Settings
  Nets <- Networks
  MaxRequests = 2
  MaxFaults = 2
  MaxChanges = 1
SYMMETRY Symmetry
INVARIANTS Traced StaysAtGateway DiscoveryShown
CHECK_DEADLOCK FALSE
