SPECIFICATION Spec
CONSTANTS
  t1 = t1
  t2 = t2
  main = main
  c = c
  Tasks = {t1, t2}
  Clients = {main, c}
  Bits = {0, 15, 32}
  Owner <- TwoOwners
  Priority <- OwnerAbove
  WaitTenths <- Default
INVARIANTS TypeOK OwnWaitValid NoMissedWakeup
PROPERTIES MailboxSpec TimeoutMeansEmpty
