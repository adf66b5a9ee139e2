CONSTANTS
    Key = {0}
    Char = {0, 129}
    KB_BUFSZ = 2
    SIO_BUFSZ = 4
    inconv <- MCinconv
    Con = {"TTY", "CRT", "UC1"}
    ErrorsAt <- PC
SPECIFICATION Spec
PROPERTY FlushEmpties
