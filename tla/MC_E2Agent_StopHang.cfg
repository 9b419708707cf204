\* Request ids of eight digits, under the reactor and producer fairness: a
\* 9-byte wake token leaves a byte after consume_fd, and the reactor can
\* block in pop_tsq while a stop request waits.
CONSTANTS
    Producers = {p1, p2}
    ReqIds <- MC_ReqIds_9
    SetupTimer = SetupTimer
    LookupAttempts = 2
    MaxCalls = 2
    MaxSetupSends = 1
    MaxNetQueue = 1
    NULL = NULL
    Payload = Payload
    SM_TC_ID <- MC_SM_TC_ID
    SM_SLICE_ID <- MC_SM_SLICE_ID
    SM_GTP_ID <- MC_SM_GTP_ID
    Plugins <- MC_Plugins_Gtp
    IndData <- MC_IndData_Null
    CtrlActions <- MC_Actions_42
    PipeCap = 65536
    SctpFd = SctpFd
    PipeFd = PipeFd
    CtrlHdrs <- MC_Hdrs_0
SPECIFICATION Spec
PROPERTY StopTerminates
