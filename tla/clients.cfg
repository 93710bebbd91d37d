CONSTANTS
    Parts = {"link", "recipient", "group", "database", "call", "screen", "status", "files", "threads", "ripples", "follows", "posts", "people", "notices", "quotes", "edits", "sheets", "clips"}
    p1 = p1
    x1 = x1
    x2 = x2
    r1 = r1
    r2 = r2
    MaxSockets = 4
    MaxDrops = 2
    MaxMounts = 2
    Msg = {m1, m2}
    m1 = m1
    m2 = m2
    MaxRetries = 1
    Run = {r1, r2}
    Unreadable = {m2}
    MaxReloads = 1
    e1 = e1
    f1 = f1
    f2 = f2
    Instance = {r1, r2}
    Device = {p1, x1, x2}
    Creator = p1
    Worker = {r1, r2}
    MaxEpoch = 2
    MaxMessages = 3
    MaxLinks = 1
    Tab = {x1, x2}
    Row = {m1}
    MaxTries = 3
    MaxDeletions = 1
    Person = {x1, x2}
    CallId = {r1, r2}
    NoCall = none
    Nobody = none
    none = none
    MaxLostSignals = 1
    Whisper = {1, 2}
    Mine = {2}
    Poll = {r1, r2}
    PageSize = 1
    MaxActs = 2
    MaxMisses = 1
    Status = {e1}
    Viewer = {x1, x2}
    MaxMissed = 1
    Chat = {p1, x1, x2}
    Group = {p1}
    Draft = {f1, f2}
    Upload = {r1, r2}
    MaxForwards = 1
    MaxBreaks = 1
    Neither = none
    u1 = u1
    u2 = u2
    e2 = e2
    User = {u1, u2}
    Echo = {e1, e2}
    Reflection = {f1, f2}
    AuthorOf <- Author
    EchoOf <- EchoPlace
    ParentOf <- Thread
    Null = none
    Stamp <- Posted
    LikedAt <- LikeTimes
    NameRank <- Alphabet
    NameFits = {u1, u2}
    FrontFits = {u1}
    PREVIEW = 1
    Times = {2, 9}
    Request = {r1, r2}
    Toggled <- Toggles
    MaxAborts = 1
    Room = {p1, e1, e2}
    Circle = {e1, e2}
    Owned = {e1}
    MembersOf <- Told
    Clip = {r1, r2}
    Nowhere = none
    MaxTurns = 3
SPECIFICATION Spec
INVARIANTS
    QuietAfterDisconnect InboxHolds KeysFollowMembers DataSurvives
    CallEndsCleanly UnchangedIsCurrent DeletedStatusIsGone AttachmentsHold
    FeedHoldsTogether ChatsStayApart
PROPERTY AnswersAlike
CHECK_DEADLOCK FALSE
SYMMETRY Interchangeable
