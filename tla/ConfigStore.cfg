SPECIFICATION Spec
CONSTANTS
  Minutes = {300}
  Limits = {300}
  Thresholds = {520}
  Credentials = {7}
  Characters = {32}
  TableRows = 2
  Overruns = {0, 3, 7}
INVARIANTS TypeOK CleanCopyIsSaved SettingsInForce RowsExist
PROPERTIES SettingsSurvive UnlockTimeKept
