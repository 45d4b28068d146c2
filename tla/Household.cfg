\* One part at a time, each with what can go wrong around it.
SPECIFICATION Spec
CONSTANTS
    Parts <- MCParts
    Ids = {1, 2}
    Names = {ann, bob}
    Logins = {1, 2}
    MaxChanges = 1
    AccountMishaps = {"write", "lost", "crash"}
    MaxMishaps = 1
    Absent = Absent
    Folders = {f1, f2}
    SlugOf <- MCSlugOf
    Photos = {p1}
    MaxEdits = 2
    MaxSecond = 2
    SnapshotRetention = 1
    Nothing = Nothing
    Docs = {d1}
    MaxText = 2
    Lost = Lost
    InLibrary <- MCLibrary
    LookOf <- MCLooks
    MaxTouches = 1
    Chats = {c1, c2}
    MemberNames = {"ann", "bob"}
    FirstAdmin = "ann"
    MaxFamilyChanges = 3
    Unbound = Unbound
    Senders = {1, 2}
    Sendable <- MCSendable
    MaxCopies = 2
    NoFile = NoFile
    RecentChats = {c1, c2}
    RecentPaths = {q1, q2, q3}
    MaxRecent = 2
    MaxSent = 3
    MaxShown = 1
    House = House
    Vacant = Vacant
    Viewers = {"first", "second"}
    ViewerNames = {"ann", "bob"}
    FirstViewer <- MCFirstViewer
    Titles = {t1}
    Reports = {1, 2, 3}
    MovingReports = {1, 2}
    MaxClientTime = 2
    Unnamed = Unnamed
    NoReport = NoReport
INVARIANTS
    OwnersHold
    SessionsHold
    BackupStands
    TextCaughtUp
    AdminsOfBot
    AskedIsThere
    RecentDeletes
    PositionsHold
PROPERTY
    ReviewKeepsOne
CHECK_DEADLOCK FALSE
