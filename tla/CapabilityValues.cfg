CONSTANTS
  Reported = {0, 1, 2, 6, 10, 11, 12, 60, 100, 101, 160, 201}
  None = none
  Chain = {c1, c2, c3, c4}
  Requested = {900, 1000, 2900, 5000}
  MaxTime = 3
  Field = {Name, Serial}
  Value = {v1, v2}
  Empty = empty
  NotString = notString
  Nothing = nothing
  Setting = {EnableZCLReportingKeepAlive, EnableOther}
  KeepAlive = EnableZCLReportingKeepAlive
SPECIFICATION ValuesSpec
CHECK_DEADLOCK FALSE
INVARIANTS
  ToldIsCurrent
  InfoSurvives
  EnabledInForce
PROPERTIES
  EndAnnounced
