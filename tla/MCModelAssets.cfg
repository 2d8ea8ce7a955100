\* Two installers, alone or at once, three required files, four installs of
\* which two are killed anywhere.
CONSTANTS
    Installers = {p1, p2}
    Files = 3
    MaxRuns = 4
    MaxStops = 2
    None = None
SPECIFICATION FairSpec
INVARIANTS ValidIsWhole
PROPERTY InstallRecovers
CHECK_DEADLOCK FALSE
