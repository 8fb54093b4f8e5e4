SPECIFICATION Spec
CONSTANTS
    r1 = r1  r2 = r2  r3 = r3  r4 = r4
    ada = ada  bob = bob
    Requests = {r1, r2}
    Users = {ada, bob}
    Calls <- MCCalls
    Instant <- MCInstant
    Nobody = Nobody  Unset = Unset
    NoRow = NoRow  NoReply = NoReply
INVARIANT SubscribeConflictMeansSubscribed
CHECK_DEADLOCK FALSE
