SPECIFICATION Spec
CONSTANTS
    Rides <- MCRides
    Outings <- MCOutings
INVARIANTS
    LegsAreTheDay
    MomentsAreTheRides
    LinesAreClear
    ChoiceIsSound
    EveryLegIsTold
    RefusedOnlyAtABorder
    FilmTellsTheRide
CHECK_DEADLOCK FALSE
