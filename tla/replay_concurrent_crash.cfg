CONSTANTS
    r1 = r1  e1 = e1  e2 = e2  e3 = e3  s1 = s1  s2 = s2  i1 = i1  i2 = i2
    Identity = {r1}
    Envelope = {e1, e2}
    Instance = {i1, i2}
    Socket = {s1, s2}
    Owner <- OwnerR1
    Host <- HostSplit
    Faults = {"crash"}
    MaxFaults = 1
    Solo = FALSE
SPECIFICATION Spec
INVARIANT NothingDestroyed
