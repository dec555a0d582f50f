SPECIFICATION Spec
CONSTANTS
    p1 = p1  p2 = p2  r1 = r1  r2 = r2  e1 = e1  a1 = a1  a2 = a2  a3 = a3  q1 = q1  q2 = q2
    Payables = {p1, p2}
    Runs = {r1, r2}
    Engagements = {e1}
    EngagementOf <- OneEngagement
    Staff = {a1, a2, a3}
    Requests = {q1}
    Threshold = 2
    Configured = {TRUE, FALSE}
    Outcomes = {"settled", "failed", "canceled"}
    None = None
ACTION_CONSTRAINT Named
INVARIANTS BatchIsReviewed BooksAreTrue
PROPERTIES LedgerKept
CHECK_DEADLOCK FALSE
