SPECIFICATION FairSpec
CONSTANTS
    m1 = m1  m2 = m2  m3 = m3  m4 = m4  b1 = b1  b2 = b2  w1 = w1  w2 = w2
    Messages = {m1, m2}
    Mailboxes = {b1}
    Workers = {w1}
    MailboxOf <- OneMailbox
    KindOf <- Receipts
    WithContact = {}
    Together = {{m1, m2}}
    BatchSize = 2
    MaxAttempts = 2
    MaxCrashes = 1
    Web = Web  Free = Free  None = None
ACTION_CONSTRAINT AccessStays
PROPERTIES QueuedSettles DeliveredIsNoticed
CHECK_DEADLOCK FALSE
