CONSTANTS
    BUF = 4
    TXBUF = 3
    HDR = 2
    ROOM = 4
    Name <- MCName
    Text <- MCText
    Routines <- MCRoutines
    Requests <- MCRequests
    Shares <- MCShares
SPECIFICATION FairSpec
INVARIANTS TypeOK PageExpanded TextInOrder RepliesWhole ShortSendsBounded OwnFormKept
PROPERTIES NothingAfterCut ReplyEnds
CHECK_DEADLOCK FALSE
