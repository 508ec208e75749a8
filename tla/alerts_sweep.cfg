SPECIFICATION FairSpec
CONSTANTS
  Sweepers = {w}
  Annotations = {a}
  Metrics = {m}
  Channels = {hook}
  MaxAttempts = 2
  MaxChanges = 3
  MaxAlerts = 4
  MaxActive = 1
  MaxCalls = 1
  MaxTroubles = 1
  PromptApi = TRUE
INVARIANT AlertRowsSound
PROPERTIES AlertsFollowCauses NotificationsEnd
