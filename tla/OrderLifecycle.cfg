CONSTANTS
    Workers = {w1, w2}
    Orders = {o}
    BrokerIds = {b1, b2}
    NoBroker = NoBroker
    Qty = 3
SPECIFICATION FairSpec
INVARIANTS TypeOK ToldIdentityDurable SubmittedOnce
PROPERTIES FollowsTable IdentityWriteOnce FenceHolds StatusChangeKeepsFill KeepsPromise FlaggedUntilResolvedOrEnded
CHECK_DEADLOCK FALSE
