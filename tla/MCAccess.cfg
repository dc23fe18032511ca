CONSTANTS
 Families = {1,2}
 Connections = {"c1"}
 Tokens = {1,2,3}
 Exchanges = {x1,x2,x3}
 Revokers = {r1}
 RefreshTTL = 2
 RefreshRetention = 1
 LedgerRetention = 1
 UnusedTTL = 1
 Midnights = 2
 MaxStops = 1
 Requests = {"q"}
 Browsers = {b1,b2}
 Shows = {s1,s2}
 Callbacks = {x1,x2,x3}
 Nobody = nobody
 RequestTTL = 2
 CodeTTL = 1
 LastMinute = 3
 Ids = {x1,x2,x3}
 Lifetimes = {3}
 MaxActive = 2
 NoticeWindow = 2
 IdRetention = 1
 LastDay = 5
 MaxMishaps = 1
 Clients = {x1,x2,x3}
 MaxPerHour = 1
 MaxClients = 2
 UnusedRetention = 1
 LastHour = 4
 Peers = {p1,p2}
 Window = 2
 PerMinute = 2
 FailureWindow = 2
 LockoutFailures = 2
 LockoutSeconds = 2
 MaxTracked = 1
 LastTime = 6
 MaxRequests = 4
 Logins = {l1,l2}
 CodeLife = 1
 SessionLife = 2
 MaxSession = 3
 LastInstant = 6
 MaxRestarts = 1
SPECIFICATION Spec
SYMMETRY Sym
INVARIANTS AccessTypeOK RevokedStaysRevoked OnlyTheApproverGetsACode EndsOnce LimitsHold
 ExpiryIsAnnounced
PROPERTIES EachGrantIsAChain UsedIsKept
