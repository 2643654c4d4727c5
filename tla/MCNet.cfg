SPECIFICATION Spec
CONSTANTS
  Self <- MCSelf
  gateway_ip <- MCGateway
  LocalIps <- MCLocal
  RemoteIps <- MCRemote
  Macs = {m1, m2}
  ARP_CACHE_SIZE = 2
  MAX_PENDING_PACKETS = 1
  Malloc = {TRUE, FALSE}
  IdMod = 4
  MaxNest = 2
INVARIANTS CacheCurrent PendingInBounds
PROPERTY RepliesSettle
SYMMETRY Exchangeable
