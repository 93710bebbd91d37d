CONSTANTS
    p1 = p1  p2 = p2  e1 = e1  e2 = e2  s1 = s1  s2 = s2  i1 = i1  i2 = i2  a1 = a1
    Participant = {p1}
    Event = {e1, e2}
    Source = {s1, s2}
    Earner <- EarnerOne
    SourceOf <- SourceSplit
    Worth <- WorthThree
    EntityCap = 2
    DailyCap = 2
    Relay = {i1}
    Admin = {a1}
    Toggle = {e1}
    RiskOutcomes = {"clear", "hold"}
    MaxUndos = 1
    MaxRequests = 2
    MaxFaults = 0
SPECIFICATION Spec
PROPERTY FinalizedScoresNothing
CHECK_DEADLOCK FALSE
