SPECIFICATION Safe
CONSTANTS
    high = high
    low = low
    twin = twin
    minus = minus
    NoCampaign = NoCampaign
    Callers = {a1, a2}
    MaxTicks = 0
    MaxStates <- MCMaxStates
    Campaigns = {high, low}
    Records = {high, low}
    Targetings <- MCTargetings
    Amounts = {1, 2}
    CPM <- MCPrice
INVARIANT
    NoBidMeansSpent
