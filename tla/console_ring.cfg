CONSTANTS
    RX_BUF_SIZE = 4
    Typed = {"a", "b", "CR", "NL"}
SPECIFICATION Spec
PROPERTY
    ImplementsFifo
