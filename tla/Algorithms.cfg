\* Tables of up to three redirects over four paths, specifiers of up to four
\* parts, packs of up to two positional and three named params, texts of up to five
\* characters and ints of five bits.
CONSTANTS
    SomePaths <- MCPaths
    MaxEntries = 3
    Operands <- MCOperands
    Continuations <- MCContinuations
    KnownTypes <- MCKnownTypes
    MaxParts = 4
    MaxText = 5
    Bits = 5
    Parcels <- MCParcels
    LoadedTypes <- MCLoadedTypes
    Protocols <- Protos
    Discipline = {"selfAlone", "selfUnredirected", "selfFirst", "oneArgReturned"}
    MaxPositional = 2
    MaxNamed = 3
    Unbound = 255
SPECIFICATION MCSpec
CHECK_DEADLOCK FALSE
INVARIANTS
    RedirectsPickTheMostSpecific
    EverySpecifierIsOneTerm
    FullnamesLoadThemselves
    NormalizedSymbolsNameTheSame
    ConformsAsMeant
    ForwardedCallsAreTyped
    CallSigsAreNormal
    ArgsReachTheirParams
    ScalarsReadBack
    ParsedScalarsAreExact
