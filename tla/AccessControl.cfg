\* Time for three refreshes, four changes of the file.
SPECIFICATION AccessSpec
CONSTANTS
    Refresh = 2
    MaxClock = 8
    MaxChanges = 4
PROPERTIES
    RevokedInTime
    AdmittedAtOnce
