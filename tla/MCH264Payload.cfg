SPECIFICATION PayloaderSpec
CONSTANTS
    MTU = 9
    Streams <- MCStreams
CHECK_DEADLOCK FALSE
INVARIANTS SplitAsCoded SlicesDelivered ParametersInForce
