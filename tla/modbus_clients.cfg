SPECIFICATION FairSpec
CONSTANTS
    CLIENTS = {a, b, c}
    NoClient = NoClient
    CONNS = 2
    UNIT = 3
    MODBUS_PDU_MAX = 18
    FRAMES <- MCFrames
    MAX_SENT = 2
INVARIANTS
    SlotsExact
    UpMeansListening
PROPERTIES
    ImplementsService
    Consumed
