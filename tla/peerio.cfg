CONSTANTS
    outputBufferSize = 1
    MaxMsgs = 2
SPECIFICATION FairSpec
INVARIANTS OneInFlight
PROPERTIES WireOrder WaiterAnswered HandlersStop
CHECK_DEADLOCK FALSE
