\* Rides of up to eleven windows under budgets from one nothing fits to one
\* that does not bind; orders over up to five windows in groups of two, so
\* that a tournament has three rounds and windows are left alone in two.
SPECIFICATION Spec
CONSTANTS
    Rides <- SmallRides
    Budgets = {1, 5, 6, 9, 14, 30}
    WindowS = 4
    MaxTurns = 1
    Tolerance = 1
    Unit = 16
    MinKeep = 2
    WatchCost = 4
    StillCost = 1
    MaxEntrants = 5
    Scores = {0, 1, 3}
    Slots = 2
    MaxWindows = 4
    GroupSize = 2
    Attempts = 2
    Cutter = {console, command}
    Frames <- TwoThenOne
    MaxCuts = 3
    MaxEdits = 1
    MaxFaults = 1
    Footage <- MCFootage
    Given <- MCGiven
    Passes = 2
    Rounds = 2
    MaxTasks = 4
    Processes = {p1, p2}
    Places = {"town", "pass"}
    Windows = {"w1"}
    Mirrors = 2
    Answers <- MCAnswers
    MaxStarts = 3
    MaxShots = 2
    Workers = {"w1"}
    MaxRequests = 1
    Window = 3
    Tick = 2
    MaxTime = 6
    MaxServed = 4
    Packages <- MCPackages
    Handed <- MCHanded
    From = {10, 150}
    MosaicCount = 2
    JudgedCount = 2
    MaxDemos = 2
    MaxChanges = 1
SYMMETRY Alike
INVARIANTS
    PlanIsSound
    OrderIsBought
    FilmTellsOneStory
    ParcelIsSound
    PublishedIsWhole
    AskedOnce
    DemoStaysSynthetic
    RateKept
    DemoSaysItself
PROPERTIES
    FilmStays
CHECK_DEADLOCK FALSE
