CONSTANTS
  FX_BUF_SIZE = 6
  CONSOLE_LINE_MAX = 9
  TRACE_FRAMES = 2
  TRACE_BYTES = 1
  ROUTINE_LEN = 5
  WIFI_KEY_MIN = 2
  WIFI_SSID_SIZE = 3
  WIFI_KEY_SIZE = 4
  MESSAGES <- MCQuestionMark
  MAX_CUTS = 1
SPECIFICATION Spec
INVARIANT CredentialsTyped
