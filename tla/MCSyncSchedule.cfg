SPECIFICATION ScheduleSpec
CONSTANTS
  Connection = {bad, studio, game}
  Refusing = {bad}
  Off = {studio}
  NeverSynced = {bad, game}
  Every = 1
  Backoff = 2
  MostPerPass = 2
  Pressed = {bad, game}
PROPERTIES
  BackoffIsKept
  HealthyIsSynced
  SpokenIsHeard
