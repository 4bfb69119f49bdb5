SPECIFICATION Spec
CONSTANTS
    MODBUS_PDU_MAX = 256
    LIST_CELLS = 13
    RESULT_BYTES = 4
    FRAME = 2
    LIST_FRAMES <- MCListFrames
    BYTE_WRITES <- MCByteWrites
    FORCES <- MCForces
    REQUESTS <- MCRequests
    PROBES <- MCProbes
    SCANNED <- MCScanned
    MAX_OPS = 2
INVARIANTS
    MonitorSnapshot
    
    
    WriteOutcome
    ReplyFits
