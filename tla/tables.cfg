\* Two sessions; two txbufs of two units; two wi_files and one EOFILE more.
CONSTANTS
    MAX_SESS_SLOTS = 2
    MAX_TXBUF_SLOTS = 2
    MAX_FILE_SLOTS = 2
    MAX_EOFILE_SLOTS = 3
    WI_TXBUFSIZE = 2
    Unit = {ua, ub}
    Name = {"page", "code"}
    CodeFile = {"code"}
    Size <- FileSize
    Chunk = {2}
SPECIFICATION Spec
INVARIANTS TypeOK ChainsOK FilesPaired
PROPERTY ObjectsSpec
SYMMETRY UnitSymmetry
CONSTRAINT OneKind
