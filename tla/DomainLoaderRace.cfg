SPECIFICATION Spec
CONSTANTS
    t1 = t1
    t2 = t2
    A = A
    m = m
    B = B
    Int0 = Int0
    DYama = DYama
    DA = DA
    DB = DB
    DB2 = DB2
    DBad = DBad
    f0 = f0
    f1 = f1
    Threads = {t1, t2}
    NoThread = NoThread
    Visitors = {t2}
    Paths <- MCPaths
    YamaPath <- MCYamaPath
    Defs = {DYama, DA, DB, DB2, DBad}
    YamaDef = DYama
    Names = {A, m, B, Int0}
    OwnerOf <- MCOwnerOf
    Declares <- MCDeclares
    RefSyms <- MCRefSyms
    CallSig <- MCCallSig
    Unsatisfied <- MCUnsatisfied
    NoSuff = NoSuff
    Here = Here
    Self = Self
    NoParcel = NoParcel
    Requests <- MCRequests
    NoName = NoName
    Bindings <- MCBindings
    RedirectCalls <- MCRedirectCalls
    Nil = Nil
INVARIANT
    LoadsOnlyWhatIsAbsent
