SPECIFICATION Spec
CONSTANTS
    high = high
    low = low
    twin = twin
    minus = minus
    NoCampaign = NoCampaign
    Callers = {a1, a2}
    MaxTicks = 1
    MaxStates <- MCMaxStates
    Campaigns = {low, twin, minus}
    Records = {low, twin}
    Targetings <- TieMinus
    Amounts = {1}
    CPM <- MCPrice
INVARIANTS
    BudgetExact
    BestGrantedWins
PROPERTIES
    CacheContract
    AuctionsEnd
