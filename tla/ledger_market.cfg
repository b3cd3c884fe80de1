SPECIFICATION Spec
CONSTANTS
  NULL = NULL
  Vrp = Vrp
  Hold = Hold
  Skew = Skew
  SpecDirs <- MCSpecDirs
  InitDir <- Alone
  DailyMarket = "BTC"
  Chains <- MCChains
  Quotes <- MCQuotes
  Slices <- MCSlices
  Clean <- MCClean
  OurPrice <- MCOurPrice
  OurDelta <- MCOurDelta
  MaxDay = 3
  MaxJobs = 3
  MaxEdits = 1
  MaxFailures = 1
INVARIANTS QuietDayPasses
CHECK_DEADLOCK FALSE
