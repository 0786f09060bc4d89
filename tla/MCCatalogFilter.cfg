CONSTANTS
  Ids = {1, 2, 3, 4, 5, 6, 7, 8, 9, 10, 11}
  Threads = {a, b}
  Specs <- MCSpecs
  Crons <- MCCrons
  Occurrences <- MCOccurrences
  Pictures <- MCPictures
  StartDevices <- MCDevices
  StartSources <- MCSources
  StartSubscriptions <- MCSubscriptions
  StartSchedules <- MCSchedules
  StartJobs <- MCJobs
  StartImages <- MCImages
  StartAssignments <- MCAssignments
  StartLocations <- MCLocations
  Asked <- MCAsked
  Sorts <- MCSorts
  Limit = 1
  MaxRequests = 0
  MaxDeliveries = 1
SPECIFICATION Spec
INVARIANT DeliveredFits
CHECK_DEADLOCK FALSE
