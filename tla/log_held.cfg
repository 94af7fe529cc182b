SPECIFICATION LogSpec
CONSTANTS
    MAX_FILES = 3
    MAX_BYTES = 2
    ROTATE_RETRY_BYTES = 1
    Top = 4
INVARIANTS
    FailureKeepsHistory
