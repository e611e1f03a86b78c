CONSTANTS
    s1 = s1
    s2 = s2
    Streams <- OneStream
    MaxData = 1
SPECIFICATION FairSpec
PROPERTY CloseIsAnswered
CHECK_DEADLOCK FALSE
