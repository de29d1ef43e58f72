SPECIFICATION Spec
CONSTANTS
  Tasks = {t1, t2}
  Timers = {tim2, tim3}
  Main = main
  SysTick = SysTick
SYMMETRY Alike
INVARIANTS KernelExclusive TickIsOutermost
