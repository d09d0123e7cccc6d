\* Two threads that share a domain, a context and two definitions.
CONSTANTS
    Threads = {t1, t2}
    Slots = {s1, s2}
    Domains = {d}
    Contexts = {c}
    Defs = {f, g}
    RefCounts = 8
    Discipline = {"copyAssign", "domainOutlives"}
    Null = Null
SPECIFICATION Spec
INVARIANTS
    CountsMatchHandles
    HandlesAreValid
    DeletedOnce
    ContextsReachWhatLives
PROPERTIES
    OrphansGo
