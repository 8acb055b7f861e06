SPECIFICATION Spec
CONSTANTS
    Keys <- MCKeys
    Threads <- MCThreads
    KeyOf <- MCKeyOf
    Calls <- MCCalls
    MaxCalls = 2
    RingSize = 1
    ChanSize = 1
    MaxData = 2
    MaxIov = 2
    MaxLine = 2
INVARIANTS BytesOnceInOrder  AllReadCounted
 
CHECK_DEADLOCK FALSE
