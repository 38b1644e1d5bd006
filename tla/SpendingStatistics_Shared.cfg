SPECIFICATION Spec
CONSTANTS
    p1 = p1
    w1 = w1
    w2 = w2
    ann = ann
    bob = bob
    team = team
    home = home
    Worker = {w1, w2}
    Process = {p1}
    ProcessOf <- MCProcessOf
    Place <- MCPlace
    Group = {team}
    Day = {27, 31, 35, 36}
    MonthStart = {1, 4, 32}
    Home = "SGD"
    Rate <- MCRate
    Lookback = 2
    MaxRange = 20
    MaxLimit = 5
    Question <- MCQuestion
    Ledger0 <- MCLedger
    Published0 = {31, 35}
    RateDay = {31, 35, 36}
    Content <- MCContent
    MaxWrites = 1
    MaxFailures = 1
    MaxRestarts = 1
INVARIANTS
    StatisticsTypeOK
    AnswersStayInScope
    EveryPeriodCounts
    RatesAsReported
    ListsAreTheRightOnes
CHECK_DEADLOCK FALSE
