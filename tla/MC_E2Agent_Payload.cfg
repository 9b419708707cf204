\* Callers may pass ind_data, as the spec's aperiodic-delivery case does,
\* to either plugin.
CONSTANTS
    Producers = {p1}
    ReqIds <- MC_ReqId_8
    SetupTimer = SetupTimer
    LookupAttempts = 2
    MaxCalls = 1
    MaxSetupSends = 1
    MaxNetQueue = 1
    NULL = NULL
    Payload = Payload
    SM_TC_ID <- MC_SM_TC_ID
    SM_SLICE_ID <- MC_SM_SLICE_ID
    SM_GTP_ID <- MC_SM_GTP_ID
    Plugins <- MC_Plugins
    IndData <- MC_IndData_Payload
    CtrlActions <- MC_Actions_42
    PipeCap = 65536
    SctpFd = SctpFd
    PipeFd = PipeFd
    CtrlHdrs <- MC_Hdrs_0
SPECIFICATION Spec
INVARIANT AperiodicIndicationNeverAborts
