CONSTANTS
  PAGES = 3
  FIRST_SECTOR = 1
  ERASED = 3
  HOLD = 2
  CREDENTIALS = {home, lab}
  NoWifi = NoWifi
  VALUES = {0, 1}
  CHECK = 2
  FRAMES = {"read", "E41", "E11", "check", "mode", "wifi"}
  MAX_FRAMES = 3
  MAX_CUTS = 1
SPECIFICATION FairSpec
INVARIANTS UnsavedIsDirty CheckNotStored
PROPERTY SavedEventually
