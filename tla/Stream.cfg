SPECIFICATION Spec
CONSTANTS
    Events <- MCEvents
    bufferSize = 1
    MaxSubscriptions = 2
    Feed <- MCFeed
    WireCapacity = 1
    MaxFaults = 1
INVARIANTS
    NoPanic
    PostsInOrder
    NothingSkipped
PROPERTIES
    GaplessDelivery
    BufferedIsHandled
    SubscribersReleased
CHECK_DEADLOCK FALSE
