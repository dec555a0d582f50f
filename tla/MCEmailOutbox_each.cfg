SPECIFICATION Spec
CONSTANTS
    m1 = m1  m2 = m2  m3 = m3  m4 = m4  b1 = b1  b2 = b2  w1 = w1  w2 = w2
    Messages = {m1, m2, m3, m4}
    Mailboxes = {b1}
    Workers = {w1, w2}
    MailboxOf <- OneMailbox
    KindOf <- OneOfEach
    WithContact = {m1, m3, m4}
    Together = {{m1}, {m2}, {m3}, {m4}}
    BatchSize = 2
    MaxAttempts = 2
    MaxCrashes = 1
    Web = Web  Free = Free  None = None
ACTION_CONSTRAINT SomeInUse
SYMMETRY WorkersAlike
INVARIANTS AtMostOnce DeliveryHonest 
PROPERTIES NoRecall PromiseKept
CHECK_DEADLOCK FALSE
