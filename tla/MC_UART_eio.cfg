SPECIFICATION DriverSpec
CONSTANTS
    WDEPTH = 2
    RDEPTH = 2
    WMARK = 1
    RMARK = 0
    MODULUS = 6
    BUF_LEN = 3
    TIMEOUT = 2
    INT_MAX = 4
    Workloads <- MC_WriteOnly
PROPERTY EioMeansGone
