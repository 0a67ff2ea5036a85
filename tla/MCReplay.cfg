SPECIFICATION Spec
CONSTANTS
    c1 = c1
    c2 = c2
    alice = alice
    bob = bob
    d1 = d1
    d2 = d2
    d3 = d3
    NoValue = NoValue
    IDs = {c1, c2}
    UserNames = {alice, bob}
    ExcludedUserNames = {bob}
    DocIDs = {d1, d2, d3}
    Messages <- ReplayMessages
    InitialTopics <- ReplayTopics
    MaxOffset = 4
    AckChannelBufferSize = 1
    NumWorkers = 2
    FlushItems = 2
    Faults = {"crash", "signal", "bulkItem", "bulkRequest"}
INVARIANTS
    EnrichmentFresh
    OneIndexPerEvent
    ExcludedNeverIndexed
    EveryHashExpires
