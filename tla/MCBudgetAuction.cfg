SPECIFICATION Safe
CONSTANTS
    high = high
    low = low
    twin = twin
    minus = minus
    NoCampaign = NoCampaign
    Callers = {a1, a2, a3}
    MaxTicks = 0
    MaxStates <- MCMaxStates
    Campaigns = {high, low}
    Records = {high, low}
    Targetings <- CrossTargetings
    Amounts = {2}
    CPM <- MCPrice
INVARIANTS
    TypeOK
    NoOverspend
PROPERTIES
    LedgerSpec
