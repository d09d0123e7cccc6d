\* A host that copies a local onto itself.
CONSTANTS
    Objects = {o1, o2, o3}
    Primitives = {"None", "Int"}
    None = "None"
    Structs = {}
    Protocols = {}
    Properties <- NoProperties
    Conforming = {}
    Casts = {}
    Vacant = Vacant
    Push = Push
    Discard = Discard
    Indices <- First
    Policies = {"borrow", "take", "take if ok"}
    OutOfBounds = OutOfBounds
    Nil = Nil
    Functions = {"Two", "Nop"}
    Signature <- CallSignature
    MethodReqs = {}
    PTable <- NoTable
    Vars = {}
    VarType <- IntVars
    Initializer <- InitOf
    MaxCallStack = 2
    MaxStack = 3
    MaxHost = 1
    MaxRefs = 3
    Discipline <- CopyingOntoItself

SPECIFICATION Spec

SYMMETRY Addresses

INVARIANT
    NothingDangles
