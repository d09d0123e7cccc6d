\* Struct and protocol values: initialized, stored into, boxed and unboxed.
CONSTANTS
    Objects = {o1, o2, o3, o4}
    Primitives = {"None", "Int"}
    None = "None"
    Structs = {"Cell"}
    Protocols = {"Any"}
    Properties <- CellProperties
    Conforming <- AnyConforms
    Casts = {}
    Vacant = Vacant
    Push = Push
    Discard = Discard
    Indices <- FirstAndTop
    Policies = {"borrow", "take"}
    OutOfBounds = OutOfBounds
    Nil = Nil
    Functions = {}
    Signature <- NoSignature
    MethodReqs = {}
    PTable <- NoTable
    Vars = {}
    VarType <- IntVars
    Initializer <- InitOf
    MaxCallStack = 1
    MaxStack = 3
    MaxHost = 1
    MaxRefs = 20
    Discipline <- Stacking

SPECIFICATION Spec

SYMMETRY Addresses

INVARIANTS
    RefsMatchOwners
    ValuesAreWellFormed

PROPERTIES
    FailureLeavesStack
