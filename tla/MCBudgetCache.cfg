SPECIFICATION CacheSpec
CONSTANTS
    c1 = c1
    c2 = c2
    unknown = unknown
    Campaigns <- MCCampaigns
    Records <- MCRecords
    Amounts <- MCAmounts
    Callers = {p1, p2}
    MaxTicks = 1
    MaxStates <- MCMaxStates
INVARIANTS
    PublishedIsComplete
    OneUpdateInFlight
    StopIsClean
PROPERTIES
    NeverOlder
    CacheNeverHangs
