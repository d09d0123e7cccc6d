\* Calls with positional, named and dummy args, and calls through a protocol,
\* forwarded to the method of what is boxed.
CONSTANTS
    Objects = {o1, o2, o3}
    Primitives = {"None", "Int"}
    None = "None"
    Structs = {}
    Protocols = {"Any"}
    Properties <- NoProperties
    Conforming <- IntConforms
    Casts = {}
    Vacant = Vacant
    Push = Push
    Discard = Discard
    Indices <- First
    Policies = {"borrow", "take", "take if ok"}
    OutOfBounds = OutOfBounds
    Nil = Nil
    Functions = {"Any.m", "Int.m"}
    Signature <- DispatchSignature
    MethodReqs = {"Any.m"}
    PTable <- MethodOfInt
    Vars = {}
    VarType <- IntVars
    Initializer <- InitOf
    MaxCallStack = 2
    MaxStack = 3
    MaxHost = 1
    MaxRefs = 2
    Discipline <- Stacking

SPECIFICATION Spec

SYMMETRY Addresses

INVARIANTS
    FramesNested
    RefsMatchOwners

PROPERTIES
    CallersUntouched
    CallHasItsStackEffect
