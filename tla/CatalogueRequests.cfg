SPECIFICATION CatalogueSpec
CONSTANTS
  i1 = i1
  i2 = i2
  Images = {i1, i2}
  None = None
  MaxRequests = 2
  THRESHOLD = 2
  MaxEvents = 4
 
INVARIANT AnalysisOfImages
INVARIANT BreakerTimed
INVARIANT SearchLostExplained
SYMMETRY Alike
CHECK_DEADLOCK FALSE
