SPECIFICATION Spec
CONSTANTS
  MAX_SESS_SLOTS = 1
  MAX_TXBUF_SLOTS = 2
  MAX_FILE_SLOTS = 3
  MAX_FORM_SLOTS = 2
  RXBUF = 3
  TMO = 1
  ENOTCONN = 2
  ROOM = 2
  c1 = c1
  c2 = c2
  Conn = {c1}
  NoSock = NoSock
  Requests <- AllRequests
  WiLocalhost = TRUE
  Faults = {"reset", "eof", "syscall", "bind"}

CHECK_DEADLOCK FALSE
INVARIANTS TypeOK SocketsOK TxbufsConserved FilesOK OneReplyHeader
PROPERTIES ClosesAfterLastTxbuf SlotsLostOnlyThere

