\* keyboard_getc: a character may wait for the next key.
CONSTANTS
    KBD_BUF_SIZE = 3
    MaxCodes = 5
    Letter <- Letters
    Dead <- NoKeys
    Extended <- NoKeys
    ShiftKey <- OneShift
    Caller <- Getc
SPECIFICATION FairSpec
PROPERTY InputIsRead
CHECK_DEADLOCK FALSE
