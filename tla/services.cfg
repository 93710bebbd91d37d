CONSTANTS
    Parts = {"billing", "entry", "prekeys", "board", "cache", "awards", "scoring", "desk", "doors"}
    c1 = c1
    c2 = c2
    s1 = s1
    p1 = p1
    Event <- StripeEvents
    Checkout = {c1, c2}
    Subscription = {s1}
    Payer = {p1}
    PayerOf <- OnePayer
    Call = {1, 2}
    MaxFaults = 1
    Sender = {x1, x2}
    x1 = x1
    x2 = x2
    r1 = r1
    r2 = r2
    Reader = {r1, r2}
    LIFETIME = 0
    RETENTION = 0
    QueueDays = 0
    Batch = 2
    Threshold = 1
    MaxStock = 1
    MaxDay = 1
    MaxKeys = 2
    MaxCuts = 1
    Player = {x1, x2}
    Instance = {r1, r2}
    MaxScore = 1
    MaxLosses = 1
    Key = {x1, x2}
    Computation = {r1, r2}
    maxEntries = 1
    MaxWrites = 2
    Entrant = {1, 2}
    Job = {r1, r2}
    MaxFlags = 2
    RiskCeiling = 2
    MaxTotal = 2
    WinnerCount = 1
    MaxJobs = 3
    Interaction <- Interactions
    Rules <- SmallRules
    FirstSeen <- Ages
    MINUTE = 1
    DAY = 3
    AwardedAt = {3, 5}
    MaxHelp = 1
    Errand = {r1, r2}
    Visitor = {x1, x2}
    Deed <- Happened
    Opening <- Announced
    Edits <- Changes
    MaxClock = 2
    MaxEdits = 1
    MaxErrands = 4
SPECIFICATION Spec
INVARIANTS
    TablesMatchStripe AckedIsHandled OneTimeOnce SpentIsStored
    BoardIsCurrent ForgottenIsFresh
    RiskIsCurrent FinalIsDefensible LimitsHold ContestKeepsItsWord
CHECK_DEADLOCK FALSE
SYMMETRY Interchangeable
