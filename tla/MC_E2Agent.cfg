\* Seven-digit request ids: every wake token is exactly one 8-byte read.
CONSTANTS
    Producers = {p1, p2}
    ReqIds <- MC_ReqIds_8
    SetupTimer = SetupTimer
    LookupAttempts = 2
    MaxCalls = 3
    MaxSetupSends = 2
    MaxNetQueue = 1
    NULL = NULL
    Payload = Payload
    SM_TC_ID <- MC_SM_TC_ID
    SM_SLICE_ID <- MC_SM_SLICE_ID
    SM_GTP_ID <- MC_SM_GTP_ID
    Plugins <- MC_Plugins_Gtp
    IndData <- MC_IndData_Null
    CtrlActions <- MC_Actions_42
    PipeCap = 16
    SctpFd = SctpFd
    PipeFd = PipeFd
    CtrlHdrs <- MC_Hdrs_0
SPECIFICATION Spec
INVARIANT TypeOK
INVARIANT NoPopOnEmpty
INVARIANT SetupRequestAdvertisesRegistry
PROPERTY HandshakeSpec
