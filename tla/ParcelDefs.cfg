CONSTANTS
    Illegal <- MCIllegal
    LegalSyms <- MCLegalSyms
    ParamsIn <- MCParamsIn
    OwnerNames <- MCOwnerNames
    MemberNames <- MCMemberNames
    TypeNames <- MCTypeNames
    TypeSyms <- MCTypeSyms
    ParamSyms <- MCParamSyms
    Constraints <- MCConstraints
    RefSyms <- MCRefSyms
    MaxTypeParams = 1
    MaxPositional = 2
    MaxNamed = 1
    RefLimit = 2
    NoUser = NoUser
    MaxSize = 4
    MaxObjects = 1
    Discipline = {"amend"}
SPECIFICATION SpecBinding
INVARIANTS
    SlotsNumberStoredProperties
    RequirementsIndexTheirTable
    PartnersAreDeclared
    LoadedTypesMatchTheirInfo
PROPERTIES
    FailedCallsDeclareNothing
