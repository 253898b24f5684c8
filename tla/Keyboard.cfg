\* Ring, decoder and reader, for both callers.
CONSTANTS
    KBD_BUF_SIZE = 3
    MaxCodes = 6
    Letter <- Letters
    Dead <- DeadKeys
    Extended <- ExtendedKeys
    ShiftKey <- OneShift
    Caller <- Both
SPECIFICATION FairSpec
PROPERTY ImplementsBoundedFifo
PROPERTY DecodesAsTyped
PROPERTY ConsoleInputIsRead
CHECK_DEADLOCK FALSE
