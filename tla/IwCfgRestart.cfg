SPECIFICATION CfgSpec
CONSTANTS
  port = port
  file_name = file_name
  one = one
  seven = seven
  local = local
  bell = bell
  latin = latin
  loopback = loopback
  Name = {port, file_name}
  Text = {one, seven, local, bell, latin}
  NumberOf <- NumberTable
  AddressOf <- AddressTable
  INT_MAX = 1
  NoValue = NoValue
  NoCriteria = NoCriteria
  Damaged = Damaged
  Control = {bell}
  Malformed = {latin}
  Declarations <- Settings
  EditedFiles <- Edits
INVARIANTS
  CfgTypeOK
  StoredFitCriteria
PROPERTY AnswersAreTrue
PROPERTY PersistedSurvive
