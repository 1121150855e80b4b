SPECIFICATION Spec
CONSTANTS
  MAX_SESS_SLOTS = 2
  MAX_TXBUF_SLOTS = 2
  MAX_FILE_SLOTS = 2
  MAX_FORM_SLOTS = 1
  RXBUF = 3
  TMO = 0
  ENOTCONN = 9
  ROOM = 2
  c1 = c1
  c2 = c2
  Conn = {c1, c2}
  NoSock = NoSock
  Requests <- MixRequests
  WiLocalhost = FALSE
  Faults = {"reset"}
CHECK_DEADLOCK FALSE
INVARIANT PushOwnsSession
