\* A listener that queues a message while the peer disconnects.
CONSTANTS
    outputBufferSize = 1
    MaxMsgs = 1
SPECIFICATION FairSpec
PROPERTIES ListenerReleased
CHECK_DEADLOCK FALSE
