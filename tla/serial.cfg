SPECIFICATION Spec
CONSTANTS
  hi = hi
  mid = mid
  lo = lo
  Tasks = {hi, mid, lo}
  Priority <- ThreePriorities
  MayBlock = {lo}
  Uses <- ThreeUses
  Static = {"SPI"}
INVARIANTS HeldIsSelected RefusalIsHonest TransfersUndisturbed
INVARIANTS PinsAreConfigured IsIdleHandleFree
PROPERTIES SlaveLockSpec
