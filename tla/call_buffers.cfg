SPECIFICATION Spec
CONSTANTS
    WordSize = 2
    page_size = 2
    ByteValues = {0, 1}
    Sizes = {2, 4}
    Ranges <- MCRanges
INVARIANTS
    InputPointerValid
