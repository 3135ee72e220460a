SPECIFICATION PipelineSpec
CONSTANTS
    Builtins <- MCBuiltins
    Reserved <- MCReserved
    LocalGroups <- MCLocalGroups
    Inputs <- MCInputs
    Customs <- MCCustoms
    NoCustom <- MCNoCustom
    Nets <- MCNets
    Legacy <- MCLegacy
    Default <- MCDefault
    Names <- MCNames
    MaxEdits = 2
CHECK_DEADLOCK FALSE
INVARIANTS
    SelfReferencesBound
    PreparedIsApart
    LeaseNamesReserved
    LayersInOrder
