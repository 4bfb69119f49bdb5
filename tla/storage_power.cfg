CONSTANTS
  PAGES = 3
  FIRST_SECTOR = 1
  ERASED = 3
  HOLD = 2
  CREDENTIALS = {home, lab}
  NoWifi = NoWifi
  VALUES = {0, 1}
  CHECK = 2
  FRAMES = {"read", "device_write", "E41", "E11", "E11_bad", "below", "check", "repeat", "mode", "wifi"}
  MAX_FRAMES = 3
  MAX_CUTS = 2
SPECIFICATION Spec
INVARIANTS NeverTorn Durable WifiIndependent
