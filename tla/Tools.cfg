SPECIFICATION Spec
CONSTANTS
  Which = {"grader", "export", "gitfame"}
  Off = Off
  Schedule <- MCSchedule
  Changes <- MCChanges
  NameOrder <- MCNameOrder
  NamePrefix <- MCNamePrefix
  Private <- MCPrivate
  Student <- MCStudent
  Modules <- MCModules
  Profiles <- MCProfiles
  Trees <- MCTrees
  Configs <- MCConfigs
  Published <- MCPublished
  NumFiles = 2
  Commits = {"c1", "c2", "c3"}
  Author <- MCAuthor
  Outputs <- MCOutputs
  Blank = 1
  Absent = Absent
INVARIANTS
  ReportsEarned
  JudgedByPrivate
  ExitTells
  ExportRight
  GitfameRight
PROPERTIES
  ToolsEnd
CHECK_DEADLOCK FALSE
