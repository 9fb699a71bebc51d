CONSTANTS
    Client = {c1, c2}
    Burst = 4
    Refill = 12
    Second = 2
    Window = 16
SPECIFICATION Spec
INVARIANTS RateKept RetrySuffices
