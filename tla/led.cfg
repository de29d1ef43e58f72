SPECIFICATION Spec
CONSTANTS
  n1 = n1
  n2 = n2
  a = a
  b = b
  c = c
  d = d
  Notifiers = {n1, n2}
  Pins = {a, b, c, d}
  output_pins_ <- TwoEach
  Port <- PortEach
  pin_state_ <- SecondHigh
  ToggleWritesPort = TRUE
  None = None
INVARIANT PinsAgree
PROPERTY BankSpec
