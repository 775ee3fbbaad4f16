CONSTANTS
    CHARS <- MCChars
    QUOTE = "QUOTE"
    DEL = "DEL"
    BSL = "BSL"
    UNDERSCORE = "_"
    UnnamedFile <- MCUnnamedFile
    ALLOWED <- MCAllowed
    DANGEROUS <- MCDangerous
    RESERVED <- MCReserved
    MIMES <- MCMimes
    MaxFilenameLen = 4
    MaxFileSize = 1
    MaxInputLen = 6
    None = None
    Rejected = Rejected
SPECIFICATION Spec
INVARIANTS
    TypeOK
    NoExtensionSmuggling
CHECK_DEADLOCK FALSE
