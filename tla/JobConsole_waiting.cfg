SPECIFICATION Spec
CONSTANTS
  ride = ride
  trip = trip
  Package = {ride, trip}
  Home = ride
  Page = {"t1"}
  Setting = {1}
  Default = 1
  Cost <- OwnFigures
  MaxPosts = 2
  MaxEdits = 0
  MaxFaults = 1
INVARIANT WaitingMeansBuying
CHECK_DEADLOCK FALSE
