CONSTANTS
    OUTPUTFILES = 3
    Base = 2
    MaxFiles = 3
    CommandLines <- MCCommandLines
    Lines <- MCLines
    Contents <- MCContents
    READBUF = 4
    Behind <- MCBehind
    HdrFile <- MCHdrFile
    DataFile <- MCDataFile
    CodeFile <- MCCodeFile
SPECIFICATION Spec
INVARIANTS
    ImageLinks
    EntriesOfTheirLines
    FormsMeetHandlers
CHECK_DEADLOCK FALSE
