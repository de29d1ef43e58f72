SPECIFICATION Spec
CONSTANTS
  t1 = t1
  t2 = t2
  main = main
  c = c
  Tasks = {t1}
  Clients = {main}
  Bits = {0, 16}
  Owner <- OneOwner
  Priority <- OnePriority
  WaitTenths <- Default
PROPERTY MailboxSpec
