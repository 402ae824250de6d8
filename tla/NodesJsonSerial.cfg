\* One run at a time, as the README's loops over the hosts do.
CONSTANTS
  Proc = {p1}
  Host = {h1, h2, h3}
  Epoch = {e1, e2}
  MaxClock = 1
SPECIFICATION Spec
INVARIANTS TypeOK LastDirExists
PROPERTIES RegistrySpec
CHECK_DEADLOCK FALSE
