CONSTANTS
    r1 = r1  r2 = r2  e1 = e1  e2 = e2  s1 = s1  s2 = s2  s3 = s3  i1 = i1  i2 = i2
    Identity = {r1}
    Envelope = {e1, e2}
    Instance = {i1}
    Socket = {s1, s2}
    Owner <- OwnerOne
    Host <- HostSame
    Kind <- KindMixed
    Recipients <- ToOne
    Faults = {"close", "crash", "redis"}
    MaxFaults = 2
    Solo = FALSE
    MaxSockets = 1
    Redis = TRUE
SPECIFICATION FairDeliverySpec
INVARIANT NoPhantom
PROPERTY AcknowledgedEventually
CHECK_DEADLOCK FALSE
