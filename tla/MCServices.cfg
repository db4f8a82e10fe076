CONSTANTS
  Editor = {e1, e2}
  EditBound = 2
  Call = {c1, c2}
  Sync = {s1, s2}
  LostBound = 1
  BrokenBound = 1
  ItemBound = 2
  Hour = 3
  TickBound = 4
  TroubleBound = 2
  Publisher = {p1, p2}
  EditsElsewhere = 1
  MishapBound = 2
  User = {u1, u2}
  Asker = {r1, r2, r3}
  Dashboard = {d1, d2}
  Chapter = {"cicd", "general"}
  Leaf = {"enabled", "theme"}
  Change <- ModelChanges
  Analysis = {x1, x2}
  Threshold = 1
  SetbackBound = 1
  SendBound = 2
  ChangeBound = 2
  UpsetBound = 1
  Admin = {a1, a2}
  AIProvider = {openai, google}
  Environment <- ModelEnvironments
  RestartBound = 1
  Files <- ModelFiles
  Environs <- ModelEnvirons
  StartBound = 2
  Budget <- ModelBudgets
  SizeBound = 3
  LengthBound = 2
  PushBound = 2
  Workspace = {root, backend}
  MaxAutoFixAttempts = 2
  Agent = {g1, g2}
  Failure <- TestFailures
  RunTables <- ModelRuns
  ResultTables <- ModelResults
  MeterBound = 1
  UnluckyBound = 1
  Failures <- ModelFailures
  Series <- ModelSeries
  Judged <- ModelJudged
  RowBound = 2
  RepeatBound = 1
  DayBound = 1
  QueryBound = 1
  BUFFER_SIZE = 3
  Question = {q1, q2, q3}
  Message <- ModelMessages
  PersonaNamed = {"DATA_ENGINEER", "unlisted"}
  CACHE_TTL = 0
  CacheLimit = 0
  MinuteBound = 1
  PinnedLists <- ModelPins
  LoopBound = 2
SPECIFICATION Spec
INVARIANTS ArchiveInv ClientsAreTrue IntegrationsInv TenancyInv AssistantInv ConversationInv BrowserInv UpdateInv AnswersInv
PROPERTIES ImplementsEditLog WhatIsStoredStands EverythingEnds
CHECK_DEADLOCK FALSE
