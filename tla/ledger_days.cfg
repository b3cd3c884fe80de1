SPECIFICATION Spec
CONSTANTS
  NULL = NULL
  Vrp = Vrp
  Hold = Hold
  Skew = Skew
  SpecDirs <- MCSpecDirs
  InitDir <- Alone
  DailyMarket = "deribit:BTC"
  Chains <- MCChains
  Quotes <- MCQuotes
  Slices <- MCSlices
  Clean <- MCClean
  OurPrice <- MCOurPrice
  OurDelta <- MCOurDelta
  MaxDay = 3
  MaxJobs = 3
  MaxEdits = 1
  MaxFailures = 1
INVARIANTS TypeOK Auditable StraddleIsWhole HedgedInsideTheBand RulesNeverRewritten PublishedDaysAreWhole QuietDayPasses
PROPERTIES RecordOnlyGrows
CHECK_DEADLOCK FALSE
