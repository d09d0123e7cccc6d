\* Stored vars, and their initializers, which may touch the vars too.
CONSTANTS
    Objects = {o1, o2, o3}
    Primitives = {"None", "Int"}
    None = "None"
    Structs = {}
    Protocols = {}
    Properties <- NoProperties
    Conforming = {}
    Casts = {}
    Vacant = Vacant
    Push = Push
    Discard = Discard
    Indices <- FirstAndTop
    Policies = {"borrow", "take"}
    OutOfBounds = OutOfBounds
    Nil = Nil
    Functions = {"init"}
    Signature <- CallSignature
    MethodReqs = {}
    PTable <- NoTable
    Vars = {v}
    VarType <- IntVars
    Initializer <- InitOf
    MaxCallStack = 2
    MaxStack = 2
    MaxHost = 1
    MaxRefs = 2
    Discipline <- WritingVars

SPECIFICATION Spec

SYMMETRY Addresses

INVARIANTS
    NothingDangles
    VarsKeepTheirType
    DestroyedIsEmpty
