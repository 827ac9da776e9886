SPECIFICATION TestSpec
CONSTANTS
    id = id
    token = token
    Names = {id, token}
    Chains <- MCChains
    Settings <- MCSettings
INVARIANTS
    TestTypeOK
    VariablesFlowForward
    RetriedForTransportAlone
    ResultOfLastAttempt
\* A unit stops at its result.
CHECK_DEADLOCK FALSE
