SPECIFICATION FairSpec
CONSTANTS
    Size = 2
    Total = 4
    MaxLen = 2
PROPERTIES
    BlockedSendWakes
CHECK_DEADLOCK FALSE
