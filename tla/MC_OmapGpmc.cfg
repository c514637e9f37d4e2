CONSTANTS
    NCS = 3
    IoMem = {0, 1}
    Config7Values = {3904, 3840, 3140, 2113, 3968, 3936, 64}
    IrqValues = {0, 259}
    SysconfigValues = {0, 2, 25}
    NBlocks = 16
SPECIFICATION Spec
INVARIANTS TypeOK MappedOnlyIfValid NoStaleRegistration
PROPERTIES ResetLeavesBootRouted
