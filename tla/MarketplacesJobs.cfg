SPECIFICATION MarketplacesSpec
CONSTANTS
  j1 = j1
  Jobs = {j1}
  Orders <- AllRoutes
  MAX_RETRIES = 1
  USPS_ATTEMPTS = 3
  Updates = 2
  MaxDeliveries = 2
  MaxLate = 1
  MaxCrashes = 1
INVARIANT AnswersTrue
INVARIANT DuplicatesExplained
INVARIANT PostsBounded
PROPERTY StockGoesBackExplained
CHECK_DEADLOCK FALSE
