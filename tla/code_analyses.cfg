SPECIFICATION AnalysesSpec
CONSTANTS
    Codes <- MCCodes
    Revisions <- MCRevisions
    OpTable <- MCOpTable
    JunkBytes <- MCJunkBytes
    SmallPushMax = 1
    StackLimit = 3
    BlockGasMax = 200000
    BlockStackMax = 7
    max_code_size = 6
    max_instruction_base_cost = 32000
INVARIANTS
    AdvancedAnalysisTypeOK
    TableFollowsCode
    BlockStackCheckExact
    BlockGasExact
    GasCorrectionExact
    JumpdestIndexSound
    PushStorageSuffices
    JumpdestsAgree
PROPERTY
    AnalysesTerminate
CHECK_DEADLOCK FALSE
