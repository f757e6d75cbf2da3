SPECIFICATION Spec
CONSTANTS
  None = None
  Conditions <- MCConditions
  Rules <- MCRules
  Ids = {1, 2, 3, 4}
  Times = {0, 1, 2, 3}
  FieldNames = {"event_action", "hostname", "source_port"}
  Fields <- MCFields
  Windows <- MCWindows
  MaxScanned = 3
  MaxEvents <- MCMaxEvents
INVARIANTS
  OnlyNotExistsAssertsAbsence
  BurstIsFound
  AlignedRunsAgree
  EveryChainIsFound
PROPERTY
  ArrivalSilencesNothing
CHECK_DEADLOCK FALSE
