CONSTANTS
  s1 = s1  s2 = s2  b1 = b1  p1 = p1  p2 = p2  pfr = pfr
  Budget = 1
  NumChildren = 3
  Specialists = {s1, s2}
  Courses = {pfr}
  Orders = {1, 2, 3}
  Slots = {1, 2}
  Length = 2
  Capacity = 2
  Gap = 1
  Singles = {b1}
  Clerks = {p1, p2}
  None = None
  FirstWindows <- Mornings
  Watched <- GroupOfTwo
  FirstPlace <- Standing
  Searches <- EverySlot
  HandMade <- OfTheFirst
  Forms <- Moves
  Rulings <- Ruling
  Moving = {3}
  Withdrawing = {1}
  MaxChanges = 1
  MaxTroubles = 1
  MaxAppointments = 2
SPECIFICATION FairSpec
INVARIANTS GroupsHold ChildOnce AppointmentsExplained BestIsLargest
ACTION_CONSTRAINT WorthWhile
PROPERTIES ApprovedGoesOut
CHECK_DEADLOCK FALSE
