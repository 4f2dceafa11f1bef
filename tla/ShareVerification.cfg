\* A budget of two in a window of two ticks, up to three candidates a tick, and time
\* for three windows.
SPECIFICATION Spec
CONSTANTS
    Window = 2
    Budget = 2
    MaxTime = 8
    MaxShares = 3
INVARIANTS
    VerificationBounded
    UnverifiedOnlyWhenBusy
