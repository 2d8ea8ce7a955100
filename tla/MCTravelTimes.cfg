\* Every grid of three rows and three columns, in two families.
CONSTANTS
    NX = 3
    NY = 3
    NodeOffset = 0
    CellWidth <- Narrowing
    CellHeight = 20
    SeedCells = 1
    Circle = 20
    Surveys <- MCSurveys
SPECIFICATION Spec
INVARIANTS StencilSound QueueConsistent SourceIsSeeded ReachesConnectedWater TimesAreArrivals
