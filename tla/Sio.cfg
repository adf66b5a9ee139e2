CONSTANTS
    Byte = {0, 1}
    Iobyte <- MCIobyte
    SIO_BUFSZ = 8
    SIO_A_HIGHWATER = 5
    Lag = 1
    Session = {"in", "duplex", "printer", "terminal", "shared"}
SPECIFICATION Spec
INVARIANTS TypeOK RegistersIntact NoStall ListstPromise OwnHandler TransmitterFree
PROPERTIES BytesInOrder LossOnlyByOutput StallEnds ReadyReturns
CHECK_DEADLOCK FALSE
