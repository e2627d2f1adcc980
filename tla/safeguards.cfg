\* Recordings: one dispute, and one hold or one crash.  Breaks: two accounts, two
\* requests at once.  Complaints: two staff.  Care: two interactions, one crash.
SPECIFICATION FairSpec
CONSTANTS
  VoiceRows = 1
  Hooks = {h1}
  Deciders = {"staff", "worker"}
  Month = 2
  Year = 3
  MaxTime = 4
  MaxCrashes = 1
  MaxHolds = 1
  First = first
  Second = second
  Tabs = {t1, t2}
  CoolOffs = {1}
  Exclusions = {2}
  CoolingOff = 1
  MaxBreaks = 2
  LastStart = 1
  MaxDay = 4
  Handlers = {staffA, staffB}
  Verdicts = {upheld, notUpheld}
  WarningWeek = 1
  DueWeek = 2
  LastWeek = 2
  Amounts = {1}
  Window = 1
  FollowUps = {1, 2}
  Cooldown = 1
  MaxTalks = 2
  MaxActions = 1
  MaxJobCrashes = 1
  LastDay = 1
INVARIANTS
  TypeOK
  ReadyMatchesSealed
  PlaysOnlyAfterReturn
  OneFinalResponse
PROPERTIES
  NeverDeletedWhileDisputed
  UndisputedDeleted
  ComesBack
  OverdueIsAlerted
  DueIsSettled
CHECK_DEADLOCK FALSE
