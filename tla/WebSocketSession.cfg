SPECIFICATION SessionSpec
CONSTANTS
    Scripts <- MCScripts
    Welcome <- MCWelcome
    XorByte <- MCXorByte
    UINT16_MAX = 128
    MAX_CLIENT_PACKAGE_LENGTH = 200
INVARIANTS FrameBoundaries AnsweredInOrder FragmentsSinceFin WaitsOnlyAfterMerge SessionOutlivesReads
CHECK_DEADLOCK FALSE
