SPECIFICATION Spec
CONSTANTS
  PING_TIMEOUT_MS = 2000
  MaxQueue = 2
PROPERTY AcceptsOwnReplyOnly
CHECK_DEADLOCK FALSE
