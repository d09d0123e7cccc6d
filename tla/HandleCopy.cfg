\* A domain, a context and two definitions that two threads share, a handle copied
\* onto another assigned to it while both are for something: RAII as Handle.h has it.
CONSTANTS
    Threads = {t1, t2}
    Slots = {s1, s2}
    Domains = {d}
    Contexts = {c}
    Defs = {f, g}
    RefCounts = 8
    Discipline = {"domainOutlives"}
    Null = Null
SPECIFICATION Spec
INVARIANTS
    HandlesAreValid
