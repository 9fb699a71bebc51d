CONSTANTS
    Caller = {c1, c2, c3, c4}
    NoCaller = NoCaller
SPECIFICATION Spec
INVARIANT Serialized
PROPERTY WaitEnds
