SPECIFICATION FairSpec
CONSTANTS
  k1 = k1
  k2 = k2
  c1 = c1
  c2 = c2
  c3 = c3
  c4 = c4
  Keys = {k1, k2}
  Calls = {c1, c2, c3, c4}
  Previews = {c4}
  KeyOf <- MCKeyOf
  LegacyMax <- MCLegacyMax
  MaxAttempts = 5
  NoCall = NoCall
INVARIANTS UniqueVersions VersionsContinueSequence NeverGivesUp
PROPERTIES EveryCallCreatesItsJob ImplementsSequence
