SPECIFICATION Spec
CONSTANTS
  Actions = {a1, a2}
  None = None
  Torn = Torn
  Ids = {"GpTimer2", "GpTimer3", "GpTimer8", "GpTimer1"}
  Frequencies = {3, 7, 15}
  Seconds = {36, 1664}
  Apb1Hz = 7
  Apb2Hz = 8
  HalfWord = 4
  Word = 128
  Lowest = 8
  Unit = 256
  Ulps = {1, 2, 4, 8, 16, 32, 64, 128, 256, 512, 1024, 2048, 4096}
  Largest = 65535
INVARIANT StopIsQuiet
