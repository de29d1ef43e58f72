SPECIFICATION FairSpec
CONSTANTS
  DELAY = 3
  HSE_STARTUP_TIMEOUT = 2
  TickModulus = 8
  MaxResets = 2
INVARIANTS TypeOK MainStartsAfresh TickIsOneMillisecond SourceIsTrue
PROPERTIES HalfPeriod Blinks
