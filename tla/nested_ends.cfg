SPECIFICATION FairSpec
CONSTANTS
    Codes <- MCCodes
    Revisions <- MCRevisions
    OpTable <- MCOpTable
    BaselineTable <- MCBaselineTable
    JunkBytes <- MCJunkBytes
    Messages <- SmallMessages
    Environments <- SmallEnvironments
    WordSize = 2
    SizeMod = 4096
    max_buffer_size = 255
    IntMax = 32767
    Int64Max = 60000
    SmallPushMax = 1
    StackLimit = 8
    BlockGasMax = 1300000
    BlockStackMax = 41
    max_code_size = 40
    max_instruction_base_cost = 32000
    MaxTracers = 0
    MaxExecutions = 2
PROPERTIES
    JobsFinish
