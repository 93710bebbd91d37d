CONSTANTS
    MaxSockets = 3
    MaxDrops = 1
    MaxMounts = 2
    Msg = {m1}
    MaxRetries = 1
    Run = {r1}
    Unreadable = {}
    MaxReloads = 0
SPECIFICATION MessagingSpec
INVARIANT OnlySealedIsSent
CHECK_DEADLOCK FALSE
PROPERTIES StaysConnected QueuedIsRelayed RelayedIsStored
