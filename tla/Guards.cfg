CONSTANTS
    Resource <- Named
    Catalogue <- Known
    Principal = {ann, ben}
    Key = {k1, k2}
    GrantLists <- Lists
    Requirements <- Operations
    None = None
SPECIFICATION Spec
SYMMETRY Symmetric
INVARIANTS GrantsDecide AdmissionDecides ClientAgrees WritesNeedEdit KeyDecides
