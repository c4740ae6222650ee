SPECIFICATION SpecMemory
CONSTANTS
    WordSize = 2
    page_size = 4
    ByteValues = {0, 1}
    Sizes = {2, 4, 6, 10}
INVARIANTS
    WithinAllocation
PROPERTIES
    CapacityDoubles
    ImplementsByteMemory
