\* Texts of up to three characters, of numbers that may need more than the bits.
CONSTANTS
    SomePaths <- MCPaths
    MaxEntries = 0
    Operands = {}
    Continuations = {}
    KnownTypes = {}
    MaxParts = 0
    MaxText = 3
    Bits = 5
    Parcels <- MCParcels
    LoadedTypes = {}
    Protocols = {}
    Discipline = {}
    MaxPositional = 0
    MaxNamed = 0
    Unbound = 255
SPECIFICATION MCSpec
CHECK_DEADLOCK FALSE
INVARIANT
    OverflowIsReported
