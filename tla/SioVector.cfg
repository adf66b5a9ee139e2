CONSTANTS
    Byte = {0, 1}
    Iobyte <- MCIobyte
    SIO_BUFSZ = 8
    SIO_A_HIGHWATER = 5
    Lag = 1
    Session = {"terminal"}
SPECIFICATION Spec
INVARIANT VectorsKept
