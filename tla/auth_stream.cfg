SPECIFICATION AuthSpec
CONSTANTS
 User = {"ann"}
 Rq = {r1, r2}
 TTL = 1
 Life = 1
 Grace = 1
 Reauth = 1
 Slots = 1
 CacheMax = 1
 MaxKeys = 2
 MaxTime = 3
 MaxOps = 2
PROPERTY ReauthEndsOnlyRevoked
CHECK_DEADLOCK FALSE
