CONSTANTS
    r1 = r1  r2 = r2  e1 = e1  e2 = e2  s1 = s1  s2 = s2  s3 = s3  i1 = i1  i2 = i2
    Identity = {r1}
    Envelope = {e1}
    Instance = {i1, i2}
    Socket = {s1, s2}
    Owner <- OwnerOne
    Host <- HostSplit
    Kind <- OneKind
    Recipients <- OneTo
    Faults = {"close"}
    MaxFaults = 1
    Solo = FALSE
    MaxSockets = 8
    Redis = TRUE
SPECIFICATION DeliverySpec
INVARIANT DeliveredWasWritten
CHECK_DEADLOCK FALSE
