SPECIFICATION Spec
CONSTANTS
    Codes <- MCCodes
    Revisions <- MCRevisions
    OpTable <- MCOpTable
    BaselineTable <- MCBaselineTable
    JunkBytes <- MCJunkBytes
    Messages <- MCMessages
    Environments <- MCEnvironments
    WordSize = 2
    SizeMod = 4096
    max_buffer_size = 255
    IntMax = 32767
    Int64Max = 60000
    SmallPushMax = 1
    StackLimit = 2
    BlockGasMax = 400000
    BlockStackMax = 15
    max_code_size = 12
    max_instruction_base_cost = 32000
INVARIANTS
    NoFault
    SideBySide
    PaddingNotExecuted
    ResultsAgree
PROPERTIES
    ExecutionTerminates
CHECK_DEADLOCK FALSE
