SPECIFICATION FairSpec

CONSTANTS
  MethodSets = {{"PERIODIC"}, {"TRIGGERED"}, {"MONITORED"}, {"PERIODIC", "MONITORED"}}
  CallbackTimeout = TRUE

PROPERTIES
  ChangesSaved
  FetchedSaved
