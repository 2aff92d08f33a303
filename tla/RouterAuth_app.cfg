SPECIFICATION AuthSpec
CONSTANTS
  bad = bad
  unset = unset
  Bad = bad
  Unset = unset
  Row <- MCRow
  Doc <- MCDoc
  NewApp <- MCNewApp
  Uid <- MCUid
  Path = {"gfx", "app"}
INVARIANTS OneSource LoadComplete AppsKeepToTheFiles
CHECK_DEADLOCK FALSE
