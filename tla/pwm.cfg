SPECIFICATION PwmSpec
CONSTANTS
  o1 = o1
  o2 = o2
  Objects = {o1, o2}
  Port <- PortD
  Pin <- TwoPins
  Configs <- AllConfigs
  Outputs <- Values
  CompareValues = {0, 10, 70}
  SystemCoreClock = 6000
  HalfWord = 64
  LongWord = 65536
  Lowest = 32
  Unit = 256
  Ulps = {1, 2, 4, 8, 16, 32, 64, 128, 256, 512}
  Largest = 32767
  Unset = Unset
INVARIANTS PwmTypeOK OutputIsScaled
