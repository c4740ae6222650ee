SPECIFICATION MCSpec
CONSTANTS
    MaxDepth = 3
    MaxGas = 5
INVARIANTS
    Solvent
PROPERTIES
    GasNeverGrows
