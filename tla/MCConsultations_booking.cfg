SPECIFICATION FairSpec
CONSTANTS
    q1 = q1 q2 = q2 q3 = q3 i1 = i1
    Requests = {q1, q2, q3}
    Invitations = {i1}
    InvitationOf <- TwoTabs
    Public = Public Page = Page NoRow = NoRow NoActor = NoActor
    LastTime = 2
    Horizon = 2
    Copies = {1}
    FirstCopy = 1
    PublishedFrom = 1
    PublishedTill = 2
    MaxTroubles = 1
    MaxChanges = 2
INVARIANTS BookedOnce
PROPERTIES DiaryKept WithdrawnStaysClosed PostsEnd
CHECK_DEADLOCK FALSE
ACTION_CONSTRAINT WorthWhile
