CONSTANTS
    r1 = r1  r2 = r2  e1 = e1  e2 = e2  s1 = s1  s2 = s2  s3 = s3  i1 = i1  i2 = i2
    Identity = {r1, r2}
    Envelope = {e1}
    Instance = {i1, i2}
    Socket = {s1, s2, s3}
    Owner <- OwnerThree
    Host <- HostThree
    Kind <- KindGroup
    Recipients <- ToGroup
    Faults = {"close"}
    MaxFaults = 2
    Solo = FALSE
    MaxSockets = 8
    Redis = TRUE
SPECIFICATION DeliverySpec
SYMMETRY SocketSymmetry
INVARIANTS
    AcknowledgedIsSafe
    PresenceFollowsSockets
    WrittenOnce
CHECK_DEADLOCK FALSE
