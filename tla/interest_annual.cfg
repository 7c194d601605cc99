SPECIFICATION Spec
CONSTANTS
  scale = 100
  compoundingInterval <- ANNUAL_COMPOUNDING
  EntryTimes <- MCEntryTimes
  Capitals = {0, 20000, 33333}
  Interests = {0, 1000}
  Rates = {40, 1000}
  Horizon = 900
INVARIANTS AnnualMatchesDaily
CHECK_DEADLOCK FALSE
