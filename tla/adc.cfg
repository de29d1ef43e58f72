SPECIFICATION Spec
CONSTANTS
  Adcs = {a1, a2, a3}
  HalMayFail = TRUE
  None = None
INVARIANTS TypeOK FreshReadingIsOwn ConvertingIsKnown
