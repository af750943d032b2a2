SPECIFICATION Spec
CONSTANTS
  None = None
  Books <- McBooks
  MaxStarts = 2
  MaxDrops = 2
  MaxLosses = 1
INVARIANTS TypeOk HealthyBook ArmedAndAlone
PROPERTIES NeverGoesBack Heals StaysReady
CHECK_DEADLOCK FALSE
