SPECIFICATION MCSpec
CONSTANTS
  BlockSize = 2
  Tasks = {1, 2, 3}
  QueueMayFail = TRUE
  Values = {1, 2}
  MaxNodes = 4
  Characters = {";", "=", " ", "a"}
  MaxLine = 6
  MaxText = 4
  Written <- MCWritten
  Ints <- MCInts
  ToInt <- MCToInt
  Floats <- MCFloats
  ToFloat <- MCToFloat
  MaxLength = 2
  d1 = d1
  d2 = d2
  NoValue = NoValue
  Updated = {d1, d2}
  ReadOnly = {d2}
  Scale = 2
  Target = 6
  GivenBase = 0
  OtherValues = {0}
  Durations = {2}
  Intervals = {0, 2}
  FetchedSets <- MCFetchedSets
  MaxTime = 3
  MaxSetBacks = 1
  Ports = {0, 1, 2}
  MinPort = 1
  MaxPort = 2
  Levels = {0, 1, 2}
  ValidLevels = {1, 2}
  Passwords = {generated1, generated2, weak}
  ValidPasswords = {generated1, generated2}
  NoFile = NoFile
  Unparsable = Unparsable
  Malformed = Malformed
INVARIANTS RunCallsEachTask ListMatchesSequence ParsesAsSplit ArraysReadAsAnnounced ViewsAgree UpdateStaysOnLine SettingsRoundTrip
PROPERTIES QueueIsSequence UpdateReachesTarget
CHECK_DEADLOCK FALSE
