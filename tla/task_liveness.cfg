SPECIFICATION FairSpec
CONSTANTS
  t1 = t1
  t2 = t2
  main = main
  c = c
  Tasks = {t1, t2}
  Clients = {main, c}
  Bits = {0}
  Owner <- TwoOwners
  Priority <- OwnerAbove
  WaitTenths <- Short
PROPERTIES EventServed StartReturns
