SPECIFICATION FairLogSpec
CONSTANTS
  pa = pa
  pb = pb
  Budget = 2
  Nothing = Nothing
  Lessons = 3
  InARow = 2
  Positions = {pa, pb}
  Contents <- SomeContents
  TargetSets <- SomeTargets
  Requests = {r1, r2}
  w1 = w1
  r1 = r1
  Workers = {w1, w2}
  Staff = {u1}
  MaxRows = 3
  MaxEdits = 2
  MaxRetries = 1
  MaxAnswers = 1
  MaxAsked = 1
  GivenKeys <- AnotherKey
INVARIANTS RetriesAgree RecordsAgree
PROPERTIES AnsweredStays ReviewRequested
ACTION_CONSTRAINT WorthWhile
CHECK_DEADLOCK FALSE
