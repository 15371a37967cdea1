SPECIFICATION FairSpec
CONSTANTS
  ride = ride
  trip = trip
  Package = {ride, trip}
  Home = ride
  Page = {"t1", "t2"}
  Setting = {1, 2}
  Default = 1
  Cost <- OwnFigures
  MaxPosts = 2
  MaxEdits = 1
  MaxFaults = 1
INVARIANTS OneJob ApprovedIsBilled BoughtOnce
PROPERTY RunningShownEnds
CHECK_DEADLOCK FALSE
