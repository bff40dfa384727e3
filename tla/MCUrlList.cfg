\* Two runs over one configuration: both read, one cuts what the other needs.
SPECIFICATION Spec
CONSTANTS
    Elems <- MCElems
    Root = 1
    Kind <- MCKind
    Kids <- MCKids
    Items <- MCItems
    Names <- MCNames
    SeqName <- MCSeqName
    Templates <- MCTemplates
    Headers <- MCHeaders
    Fragile <- MCFragile
    Runs = {p1, p2}
SYMMETRY RunSymmetry
INVARIANTS
    TableIsFull
    ExpandedInOrder
    HeadersReachSomeone
