SPECIFICATION Spec
CONSTANTS
    a = a
    b = b
    c = c
    Footages <- SmallFootages
    Looks <- SmallLooks
    TopK = 3
    Separation = 5
    Duplicate = 4
    MinSamples = 3
    MinGyro = 2
    Windows = {a, b, c}
    SlotCount = 3
    Selections <- SmallSelections
    MaxRuns = 2
    Routes <- MCRoutes
    Catalogs <- MCCatalogs
    Offers <- MCOffers
    PointTime <- MCTimes
    Decisions = {"confirmed", "rejected"}
    Window = 3
    Requested = 4
    Target = 14
    MaxComposed = 2
    Highlights = {0, 1, 2}
    Picks = {0, 1}
    Planned <- MCPlanned
    MaxPrepares = 2
    Days <- MCDays
    RideFrom = 10
    RideTo = 30
    Steps <- MCSteps
    MinFixes = 2
    Agreement = 3
    Noise = 1
INVARIANTS
    PicksAreSound
    DirectoryIsWhole
    ScriptIsSound
    PlanCanBeCut
    PackageIsOneStory
    DayIsPlaced
PROPERTIES
    DecisionsStand
    OnlyNarrowed
    ReplayRepeats
CHECK_DEADLOCK FALSE
